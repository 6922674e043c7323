-------------------------------- MODULE Hook --------------------------------
(***************************************************************************)
(* One execution of a hook (packages/hooks/src/hooks/hook.ts): the steps   *)
(* pre, main and post in turn, the functions of the plugins of one step    *)
(* concurrently, and the revert step when a step reported a failure.       *)
(***************************************************************************)
EXTENDS FiniteSets

CONSTANTS
  Plugins,    \* the registered plugins
  MayThrow    \* whether a plugin function may throw instead of replying

ASSUME MayThrowAssumption == MayThrow \in BOOLEAN

VARIABLES
  steps,    \* steps[s]: the plugins subscribed to step s (constant)
  step,     \* the step in progress
  open,     \* the plugin functions called and not returned
  log,      \* log[s][p]: the reply of p in step s
  failed,   \* payload.failed
  warning,  \* payload.warning
  results,  \* payload.results, the status of each plugin
  state     \* of the promise returned by execute

hookVars == <<steps, step, open, log, failed, warning, results, state>>

HookSteps == {"pre", "main", "post", "revert"}

Status == {"OK", "WARNING", "KO"}

HookTypeOK ==
  /\ steps \in [HookSteps -> SUBSET Plugins]
  /\ step \in HookSteps
  /\ open \in SUBSET Plugins
  /\ log \in [HookSteps -> [Plugins -> Status \cup {"none"}]]
  /\ failed \in SUBSET Plugins
  /\ warning \in SUBSET Plugins
  /\ results \in [Plugins -> Status \cup {"none"}]
  /\ state \in {"pending", "settled", "rejected"}

-----------------------------------------------------------------------------
(* executeStep, up to its await: every function of the step is called, and *)
(* a plugin without a result yet gets the provisional result OK.           *)

Provisional(s, res) ==
  [p \in Plugins |-> IF p \in steps[s] /\ res[p] = "none" THEN "OK" ELSE res[p]]

HookInit ==
  /\ steps \in [HookSteps -> SUBSET Plugins]
  /\ step = "pre"
  /\ open = steps["pre"]
  /\ log = [s \in HookSteps |-> [p \in Plugins |-> "none"]]
  /\ failed = {}
  /\ warning = {}
  /\ results = Provisional("pre", [p \in Plugins |-> "none"])
  /\ state = "pending"

\* A plugin function returns; Promise.all still waits for the others, or
\* has already rejected and drops the reply.
Return(p, status) ==
  /\ p \in open
  /\ open' = open \ {p}
  /\ log' = IF state = "pending" THEN [log EXCEPT ![step][p] = status] ELSE log
  /\ UNCHANGED <<steps, step, failed, warning, results, state>>

\* A plugin function throws: Promise.all rejects at once, execute with it.
\* The other functions of the step keep running.
Throw(p) ==
  /\ MayThrow
  /\ p \in open
  /\ open' = open \ {p}
  /\ state' = "rejected"
  /\ UNCHANGED <<steps, step, log, failed, warning, results>>

-----------------------------------------------------------------------------
(* The rest of executeStep, and the loop of execute: all the functions of  *)
(* the step have returned.                                                 *)
(* (The operators named Bad... are faulty variants of the definition that  *)
(* follows them; nothing below uses them.)                                 *)

Replied(status) == {p \in steps[step] : log[step][p] = status}

Failures == failed \cup Replied("KO")

Warnings == warning \cup Replied("WARNING")

BadMerged == [p \in Plugins |->
  IF p \in steps[step] /\ results[p] # "OK" THEN log[step][p] ELSE results[p]]

\* Each reply overwrites the result the plugin had from an earlier step.
Merged == [p \in Plugins |->
  IF p \in steps[step] THEN log[step][p] ELSE results[p]]

BadCollect ==
  /\ state = "pending"
  /\ \E p \in Plugins : open \subseteq {p}
  /\ failed' = Failures
  /\ warning' = Warnings

Collect ==
  /\ state = "pending"
  /\ open = {}
  /\ failed' = Failures
  /\ warning' = Warnings

Enter(s) ==
  /\ step' = s
  /\ open' = steps[s]
  /\ results' = Provisional(s, Merged)
  /\ UNCHANGED <<steps, log, state>>

BadFollowing(s) == "main"

Following(s) == IF s = "pre" THEN "main" ELSE "post"

\* No failure so far: the next step.
Proceed ==
  /\ Collect
  /\ step \in {"pre", "main"}
  /\ failed' = {}
  /\ Enter(Following(step))

\* A failure: revert, and no further step.
Revert ==
  /\ Collect
  /\ step # "revert"
  /\ failed' # {}
  /\ Enter("revert")

BadSettle ==
  /\ Collect
  /\ step \in {"post", "revert"}
  /\ results' = Merged
  /\ state' = "settled"
  /\ UNCHANGED <<steps, step, open, log>>

\* The loop is over: execute returns failed, warning and results.
Settle ==
  /\ Collect
  /\ step = "revert" \/ (step = "post" /\ failed' = {})
  /\ results' = Merged
  /\ state' = "settled"
  /\ UNCHANGED <<steps, step, open, log>>

HookNext ==
  \/ \E p \in Plugins, status \in Status : Return(p, status)
  \/ \E p \in Plugins : Throw(p)
  \/ Proceed
  \/ Revert
  \/ Settle

HookSpec == HookInit /\ [][HookNext]_hookVars

\* A plugin function ends, whatever it replies, and the engine goes on.
FairSpec == HookSpec /\ WF_hookVars(HookNext)

-----------------------------------------------------------------------------
(* Properties                                                              *)

MainSteps == {"pre", "main", "post"}

\* The verdict manageProjectStatus derives from the payload
\* (hook-wrapper.ts:84-93).
Verdict ==
  CASE state = "rejected" -> "rejected"
    [] state = "settled"  -> IF failed # {} THEN "failed"
                             ELSE IF warning # {} THEN "warning" ELSE "done"
    [] OTHER              -> "pending"

\* While the engine reverts, or runs orphan functions after a rejection, the
\* replies no longer concern the caller.
Outcome == INSTANCE HookOutcome
  WITH subscribed <- [s \in MainSteps |-> steps[s]],
       reply <- [s \in MainSteps |-> log[s]],
       verdict <- Verdict

\* The step engine implements the contract its callers rely on: verdict and
\* replies evolve as in HookOutcome (hook.ts:103-135, hook-wrapper.ts:80-94).
ImplementsOutcome == Outcome!Spec

\* A failed execution gave every plugin its chance to revert, and only a
\* failed one reverts (hook.ts:121-124).
RevertIffFailed ==
  state = "settled" =>
    \A p \in steps["revert"] : (log["revert"][p] # "none") <=> (failed # {})

\* The result kept for a plugin is its reply in the last step it took part
\* in; the message built from a failed plugin's result is that of its
\* failure unless the plugin also reverts (hook.ts:48-63 and 88).
ResultsMatchFailures ==
  state = "settled" =>
    \A p \in Plugins :
      /\ p \in failed /\ p \notin steps["revert"] => results[p] = "KO"
      /\ results[p] = "KO" => p \in failed
      /\ results[p] = "WARNING" => p \in warning

\* An execution that nothing interrupts ends (hook.ts:103-135).
HookSettles == <>(state \in {"settled", "rejected"})
=============================================================================
