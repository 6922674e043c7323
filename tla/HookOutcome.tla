---------------------------- MODULE HookOutcome ----------------------------
(***************************************************************************)
(* What the execution of a hook promises to the code that called it, as    *)
(* apps/server/src/utils/hook-wrapper.ts (manageProjectStatus) reads it:   *)
(* the plugins reply step by step, and the verdict is a function of their  *)
(* replies.  Hook.tla, the step engine of packages/hooks, implements it.   *)
(***************************************************************************)
CONSTANT Plugins

VARIABLES
  subscribed,  \* subscribed[s]: the plugins that have a function in step s
  reply,       \* reply[s][p]: what p replied in step s, "none" before
  verdict      \* what the caller gets, "pending" before

outcomeVars == <<subscribed, reply, verdict>>

MainSteps == {"pre", "main", "post"}

Status == {"OK", "WARNING", "KO"}

Earlier(s) == CASE s = "pre"  -> {}
                [] s = "main" -> {"pre"}
                [] s = "post" -> {"pre", "main"}

Init ==
  /\ subscribed \in [MainSteps -> SUBSET Plugins]
  /\ reply = [s \in MainSteps |-> [p \in Plugins |-> "none"]]
  /\ verdict = "pending"

Complete(s) == \A p \in subscribed[s] : reply[s][p] # "none"

Some(s, status) == \E p \in subscribed[s] : reply[s][p] = status

\* The steps in which plugins may reply: all earlier ones ended without KO.
Reached(s) == \A t \in Earlier(s) : Complete(t) /\ ~Some(t, "KO")

Reply(s, p, status) ==
  /\ verdict = "pending"
  /\ Reached(s)
  /\ p \in subscribed[s]
  /\ reply[s][p] = "none"
  /\ reply' = [reply EXCEPT ![s][p] = status]
  /\ UNCHANGED <<subscribed, verdict>>

\* A step ended with a KO: nothing further is asked of the plugins.
Fail ==
  /\ verdict = "pending"
  /\ \E s \in MainSteps : Reached(s) /\ Complete(s) /\ Some(s, "KO")
  /\ verdict' = "failed"
  /\ UNCHANGED <<subscribed, reply>>

Succeed ==
  /\ verdict = "pending"
  /\ \A s \in MainSteps : Complete(s) /\ ~Some(s, "KO")
  /\ verdict' = IF \E s \in MainSteps : Some(s, "WARNING")
                  THEN "warning" ELSE "done"
  /\ UNCHANGED <<subscribed, reply>>

\* A plugin threw: the caller gets a rejected promise and no verdict.
Throw ==
  /\ verdict = "pending"
  /\ verdict' = "rejected"
  /\ UNCHANGED <<subscribed, reply>>

Next ==
  \/ \E s \in MainSteps, p \in Plugins, status \in Status : Reply(s, p, status)
  \/ Fail
  \/ Succeed
  \/ Throw

Spec == Init /\ [][Next]_outcomeVars
=============================================================================
