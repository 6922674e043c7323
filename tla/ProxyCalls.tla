----------------------------- MODULE ProxyCalls -----------------------------
(***************************************************************************)
(* GenericProxy under arbitrary callers: any call, with any method, id and *)
(* argument, at any time; any running execution may resolve or, when       *)
(* MayReject, reject (a plugin or a query that throws).                    *)
(***************************************************************************)
EXTENDS GenericProxy

CONSTANT MayReject   \* whether an execution may end in a rejection

ASSUME MayRejectAssumption == MayReject \in BOOLEAN

CallStep(c) ==
  \/ \E m \in Methods \ NoIdMethods, i \in Ids, a \in Args : Call(c, m, i, a)
  \/ \E m \in NoIdMethods : CallNoId(c, m)

End(e) == Resolve(e) \/ (MayReject /\ Reject(e))

Next == \E c \in Calls : CallStep(c) \/ End(c)

Spec == ProxyInit /\ [][Next]_proxyVars

-----------------------------------------------------------------------------
(* Safety                                                                  *)

\* A call with an id is answered by an execution that starts when, or after,
\* the call is made: it reads what the caller wrote just before calling
\* (proxy.ts:54-60, the reason why a call in progress is waited for and not
\* joined).
FreshAnswer ==
  [][\A c \in Calls :
       (pc[c] # "served" /\ pc'[c] = "served" /\ call'[c].id # NoId)
         => exec[answer'[c]] = "none"]_proxyVars

\* The calls that end up with the same arguments: those that waited for the
\* same promise.
SameWave(c, d) == c = d \/ (waitOn[c] = waitOn[d] /\ waitOn[c] # NoExec)

\* Every key a caller passed reaches the execution that answers it, with the
\* value of the caller or of a call of the same wave that overrode it
\* (proxy.ts:48-53; the keys are the credentials of private repositories).
ArgsDelivered ==
  \A c \in Calls : pc[c] = "served" =>
    \A k \in ArgKeys : call[c].args[k] # NoArg =>
      \E d \in Calls : /\ SameWave(c, d)
                       /\ pc[d] # "idle"
                       /\ call[d].args[k] # NoArg
                       /\ execArgs[answer[c]][k] = call[d].args[k]

\* No execution receives an argument of an earlier wave: the credentials of
\* a finished execution are never replayed into a later one
\* (proxy.ts:62-67, nextArgs: undefined).
ArgsOrigin ==
  \A e \in Calls, k \in ArgKeys :
    (exec[e] # "none" /\ execArgs[e][k] # NoArg) =>
      \E d \in Calls : /\ SameWave(e, d)
                       /\ pc[d] # "idle"
                       /\ call[d].args[k] = execArgs[e][k]

\* What the exclusion test guarantees: of two methods that exclude each
\* other, at most one is in the tracker of an id (proxy.ts:40-45).
TrackedExclusion ==
  \A m \in Methods, x \in Methods, i \in Ids :
    (m # x /\ x \in Excludes[m] /\ m \in Excludes[x]) =>
      (currentExec[m][i] = NoExec \/ currentExec[x][i] = NoExec)

\* The tracker never forgets an execution: one it holds is running or
\* rejected, never already resolved, so that a waiter is never registered
\* on a promise whose callbacks have run (proxy.ts:54-60 and 68-70).
TrackerIsCurrent ==
  \A m \in Methods, i \in Ids \cup {NoId} :
    currentExec[m][i] # NoExec =>
      exec[currentExec[m][i]] \in {"running", "rejected"}

-----------------------------------------------------------------------------
(* What the error of a refused call says (proxy.ts:43).                    *)

\* An execution of m and one of a method that m excludes never run at once
\* on one id.
ExecutionsExclude ==
  \A e \in Calls, f \in Calls :
    (e # f /\ exec[e] = "running" /\ exec[f] = "running"
           /\ call[e].id = call[f].id)
      => ~ /\ call[f].method \in Excludes[call[e].method]
           /\ call[e].method \in Excludes[call[f].method]

=============================================================================
