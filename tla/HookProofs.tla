----------------------------- MODULE HookProofs -----------------------------
(***************************************************************************)
(* Proofs about the hooks: the proxy their calls go through (GenericProxy, *)
(* ProxyCalls), for any number of calls, methods, ids and arguments, and   *)
(* any exclusions; and one execution of a hook (Hook), for any plugins:    *)
(* its type, what the reverts and the results of a settled execution say,  *)
(* and that the step engine implements the contract of its callers         *)
(* (HookOutcome).                                                          *)
(***************************************************************************)
EXTENDS ProxyCalls, Hook, TLAPS

-----------------------------------------------------------------------------
(* The proxy.  Its inductive invariant ties the three places where an      *)
(* execution is known: the tracker, the calls waiting for its end, and its *)
(* own state.                                                              *)


\* A call that was made knows what it asked for.
MadeCalls == \A c \in Calls : pc[c] # "idle" => call[c] \in Invocation

\* Only a served call may have started an execution.
NotStarted ==
  \A c \in Calls : pc[c] \in {"idle", "waiting", "refused"} => exec[c] = "none"

\* A call waits for the execution the tracker holds for its method and id.
WaitsForTracked ==
  \A c \in Calls : pc[c] = "waiting" =>
    /\ call[c].method \in Methods
    /\ call[c].id \in Ids
    /\ waitOn[c] \in Calls
    /\ currentExec[call[c].method][call[c].id] = waitOn[c]

\* The tracker holds an execution at the place of the call that started it,
\* as long as it did not resolve.
TracksLive ==
  \A m \in Methods, i \in Ids \cup {NoId} :
    LET e == currentExec[m][i] IN
      e # NoExec => /\ call[e].method = m
                    /\ call[e].id = i
                    /\ pc[e] = "served"
                    /\ exec[e] \in {"running", "rejected"}

\* A served call was given an execution that started.
ServedByStarted ==
  \A c \in Calls : pc[c] = "served" =>
    /\ answer[c] \in Calls
    /\ exec[answer[c]] # "none"

\* The inductive invariant of the control state.
IInv ==
  /\ TypeOK
  /\ MadeCalls
  /\ NotStarted
  /\ WaitsForTracked
  /\ TracksLive
  /\ ServedByStarted

LEMMA NoArgsType == NoArgs \in Args
BY DEF NoArgs, Args

LEMMA MergeType ==
  ASSUME NEW old \in Args, NEW new \in Args
  PROVE  Merge(old, new) \in Args
BY DEF Merge, Args

LEMMA InvokeType ==
  ASSUME NEW m \in Methods, NEW i \in Ids \cup {NoId}, NEW a \in Args
  PROVE  /\ Invoke(m, i, a) \in Invocation
         /\ Invoke(m, i, a).method = m
         /\ Invoke(m, i, a).id = i
         /\ Invoke(m, i, a).args = a
BY DEF Invoke, Invocation

LEMMA InitIInv == ProxyInit => IInv
<1> SUFFICES ASSUME ProxyInit PROVE IInv
  OBVIOUS
<1> USE MarkersAssumption DEF ProxyInit
<1>1. TypeOK
  BY NoArgsType DEF TypeOK, CallState, ExecState
<1>2. MadeCalls /\ NotStarted /\ WaitsForTracked /\ ServedByStarted
  BY DEF MadeCalls, NotStarted, WaitsForTracked, ServedByStarted
<1>3. TracksLive
  BY DEF TracksLive
<1>4. QED BY <1>1, <1>2, <1>3 DEF IInv

LEMMA RefuseIInv ==
  ASSUME IInv, NEW c \in Calls, NEW m \in Methods, NEW i \in Ids, NEW a \in Args,
         Refuse(c, m, i, a)
  PROVE  IInv'
<1> USE InvokeType, MarkersAssumption DEF IInv, Refuse, Register, TypeOK, CallState
<1>1. TypeOK'
  OBVIOUS
<1>2. MadeCalls'
  BY DEF MadeCalls
<1>3. NotStarted'
  BY DEF NotStarted
<1>4. WaitsForTracked'
  BY DEF WaitsForTracked
<1>5. TracksLive'
  BY DEF TracksLive
<1>6. ServedByStarted'
  BY DEF ServedByStarted
<1>7. QED BY <1>1, <1>2, <1>3, <1>4, <1>5, <1>6 DEF IInv

LEMMA JoinIInv ==
  ASSUME IInv, NEW c \in Calls, NEW m \in Methods, NEW i \in Ids, NEW a \in Args,
         Join(c, m, i, a)
  PROVE  IInv'
<1> USE InvokeType, MarkersAssumption DEF IInv, Join, Register, TypeOK, CallState
<1>1. TypeOK'
  <2>1. nextArgs[m][i] \in Args
    OBVIOUS
  <2>2. Merge(nextArgs[m][i], a) \in Args
    BY <2>1, MergeType
  <2>3. nextArgs' \in [Methods -> [Ids -> Args]]
    BY <2>2
  <2>4. call' \in [Calls -> Invocation \cup {NoCall}]
    OBVIOUS
  <2>5. waitOn' \in [Calls -> Calls \cup {NoExec}]
    OBVIOUS
  <2>6. pc' \in [Calls -> CallState]
    OBVIOUS
  <2>7. QED BY <2>3, <2>4, <2>5, <2>6
<1>2. MadeCalls'
  BY DEF MadeCalls
<1>3. NotStarted'
  BY DEF NotStarted
<1>4. WaitsForTracked'
  BY DEF WaitsForTracked
<1>5. TracksLive'
  BY DEF TracksLive
<1>6. ServedByStarted'
  BY DEF ServedByStarted
<1>7. QED BY <1>1, <1>2, <1>3, <1>4, <1>5, <1>6 DEF IInv

LEMMA StartIInv ==
  ASSUME IInv, NEW c \in Calls, NEW m \in Methods, NEW i \in Ids, NEW a \in Args,
         Start(c, m, i, a)
  PROVE  IInv'
<1> USE InvokeType, MarkersAssumption
    DEF IInv, Start, Register, TypeOK, CallState, ExecState
<1>1. TypeOK'
  BY NoArgsType
<1>2. MadeCalls'
  BY DEF MadeCalls
<1>3. NotStarted'
  BY DEF NotStarted
<1>4. WaitsForTracked'
  BY DEF WaitsForTracked
<1>5. TracksLive'
  BY DEF TracksLive
<1>6. ServedByStarted'
  BY DEF ServedByStarted
<1>7. QED BY <1>1, <1>2, <1>3, <1>4, <1>5, <1>6 DEF IInv

LEMMA CallNoIdIInv ==
  ASSUME IInv, NEW c \in Calls, NEW m \in NoIdMethods, CallNoId(c, m)
  PROVE  IInv'
<1> USE InvokeType, NoArgsType, MarkersAssumption
    DEF IInv, CallNoId, Register, TypeOK, CallState, ExecState
<1>0. /\ m \in Methods
      /\ call' = [call EXCEPT ![c] = Invoke(m, NoId, NoArgs)]
      /\ Invoke(m, NoId, NoArgs) \in Invocation
      /\ Invoke(m, NoId, NoArgs).method = m
      /\ Invoke(m, NoId, NoArgs).id = NoId
      /\ pc[c] = "idle"
      /\ pc' = [pc EXCEPT ![c] = "served"]
      /\ UNCHANGED <<nextArgs, waitOn, execArgs>>
  OBVIOUS
<1>a. CASE /\ currentExec[m][NoId] # NoExec
           /\ answer' = [answer EXCEPT ![c] = currentExec[m][NoId]]
           /\ UNCHANGED <<currentExec, exec>>
  <2>1. currentExec[m][NoId] \in Calls
    BY <1>0, <1>a
  <2>2. TypeOK'
    <3>1. /\ call' \in [Calls -> Invocation \cup {NoCall}]
          /\ pc' \in [Calls -> CallState]
      BY <1>0
    <3>2. answer' \in [Calls -> Calls \cup {NoExec}]
      BY <1>a, <2>1
    <3>3. QED BY <1>0, <1>a, <3>1, <3>2
  <2>3. MadeCalls' /\ NotStarted' /\ WaitsForTracked'
    BY <1>0, <1>a DEF MadeCalls, NotStarted, WaitsForTracked
  <2>4. TracksLive'
    BY <1>0, <1>a DEF TracksLive
  <2>5. exec[currentExec[m][NoId]] # "none"
    BY <1>0, <1>a DEF TracksLive
  <2>6. ServedByStarted'
    BY <1>0, <1>a, <2>1, <2>5 DEF ServedByStarted
  <2>7. QED BY <2>2, <2>3, <2>4, <2>6
<1>b. CASE /\ currentExec[m][NoId] = NoExec
           /\ answer' = [answer EXCEPT ![c] = c]
           /\ currentExec' = [currentExec EXCEPT ![m][NoId] = c]
           /\ exec' = [exec EXCEPT ![c] = "running"]
  <2>1. currentExec' \in [Methods -> [Ids \cup {NoId} -> Calls \cup {NoExec}]]
    BY <1>0, <1>b
  <2>2. exec' \in [Calls -> ExecState]
    BY <1>b
  <2>3. TypeOK'
    <3>1. /\ call' \in [Calls -> Invocation \cup {NoCall}]
          /\ pc' \in [Calls -> CallState]
      BY <1>0
    <3>2. answer' \in [Calls -> Calls \cup {NoExec}]
      BY <1>b
    <3>3. /\ nextArgs' \in [Methods -> [Ids -> Args]]
          /\ waitOn' \in [Calls -> Calls \cup {NoExec}]
          /\ execArgs' \in [Calls -> Args]
      BY <1>0
    <3>4. QED BY <2>1, <2>2, <3>1, <3>2, <3>3
  <2>4. MadeCalls' /\ NotStarted'
    BY <1>0, <1>b DEF MadeCalls, NotStarted
  <2>5. WaitsForTracked'
    BY <1>0, <1>b DEF WaitsForTracked
  <2>6. TracksLive'
    BY <1>0, <1>b DEF TracksLive
  <2>7. ServedByStarted'
    BY <1>0, <1>b DEF ServedByStarted
  <2>8. QED BY <2>3, <2>4, <2>5, <2>6, <2>7
<1>1. QED BY <1>a, <1>b

LEMMA ResolveIInv ==
  ASSUME IInv, NEW e \in Calls, Resolve(e)
  PROVE  IInv'
<1> USE MarkersAssumption
    DEF IInv, Resolve, Waiters, Tracked, TypeOK, CallState, ExecState
<1>0. /\ pc[e] = "served"
      /\ call[e] \in Invocation
      /\ call[e].method \in Methods
      /\ call[e].id \in Ids \cup {NoId}
  BY DEF NotStarted, MadeCalls, Invocation
<1>a. \A c \in Waiters(e) : call[c].method = call[e].method
                         /\ call[c].id = call[e].id /\ call[e].id \in Ids
  BY DEF WaitsForTracked, TracksLive
<1>1. TypeOK'
  BY <1>0, <1>a
<1>2. MadeCalls'
  BY DEF MadeCalls
<1>3. NotStarted'
  BY <1>0 DEF NotStarted
<1>4. WaitsForTracked'
  BY <1>0, <1>a DEF WaitsForTracked
<1>5. TracksLive'
  BY <1>0 DEF TracksLive
<1>6. ServedByStarted'
  BY <1>0 DEF ServedByStarted
<1>7. QED BY <1>1, <1>2, <1>3, <1>4, <1>5, <1>6 DEF IInv

LEMMA RejectIInv ==
  ASSUME IInv, NEW e \in Calls, Reject(e)
  PROVE  IInv'
<1> USE DEF IInv, Reject, TypeOK, ExecState
<1>1. TypeOK'
  OBVIOUS
<1>2. MadeCalls'
  BY DEF MadeCalls
<1>3. NotStarted'
  BY DEF NotStarted
<1>4. WaitsForTracked'
  BY DEF WaitsForTracked
<1>5. TracksLive'
  BY DEF TracksLive
<1>6. ServedByStarted'
  BY DEF ServedByStarted
<1>7. QED BY <1>1, <1>2, <1>3, <1>4, <1>5, <1>6 DEF IInv

LEMMA NextIInv == IInv /\ [Next]_proxyVars => IInv'
<1> SUFFICES ASSUME IInv, [Next]_proxyVars PROVE IInv'
  OBVIOUS
<1>1. CASE UNCHANGED proxyVars
  <2> USE <1>1 DEF proxyVars, IInv
  <2>1. TypeOK'
    BY DEF TypeOK
  <2>2. MadeCalls' /\ NotStarted'
    BY DEF MadeCalls, NotStarted
  <2>3. WaitsForTracked'
    BY DEF WaitsForTracked
  <2>4. TracksLive'
    BY DEF TracksLive
  <2>5. ServedByStarted'
    BY DEF ServedByStarted
  <2>6. QED BY <2>1, <2>2, <2>3, <2>4, <2>5
<1>2. ASSUME NEW c \in Calls, CallStep(c) PROVE IInv'
  BY <1>2, RefuseIInv, JoinIInv, StartIInv, CallNoIdIInv DEF CallStep, Call
<1>3. ASSUME NEW c \in Calls, End(c) PROVE IInv'
  BY <1>3, ResolveIInv, RejectIInv DEF End
<1>4. QED BY <1>1, <1>2, <1>3 DEF Next

\* The types of the state, in every behaviour (GenericProxy!TypeOK).
THEOREM TypeCorrect == Spec => []TypeOK
<1>1. IInv => TypeOK
  BY DEF IInv
<1>2. QED BY InitIInv, NextIInv, <1>1, PTL DEF Spec

LEMMA Inductive == Spec => []IInv
BY InitIInv, NextIInv, PTL DEF Spec

\* The tracker never forgets an execution and never keeps one that resolved:
\* no call is left waiting on a promise whose callbacks have run.
THEOREM TrackerCorrect == Spec => []TrackerIsCurrent
<1>1. IInv => TrackerIsCurrent
  BY DEF IInv, TracksLive, TrackerIsCurrent
<1>2. QED BY Inductive, <1>1, PTL

-----------------------------------------------------------------------------
(* Exclusion, as far as the tracker can see.                               *)

LEMMA ExclusionStep ==
  IInv /\ TrackedExclusion /\ [Next]_proxyVars => TrackedExclusion'
<1> SUFFICES ASSUME IInv, TrackedExclusion, [Next]_proxyVars
             PROVE  TrackedExclusion'
  OBVIOUS
<1> USE MarkersAssumption, ExcludesAssumption DEF TrackedExclusion
<1>1. CASE UNCHANGED proxyVars
  BY <1>1 DEF proxyVars
<1>2. ASSUME NEW c \in Calls, NEW m \in Methods, NEW i \in Ids, NEW a \in Args,
             Start(c, m, i, a)
      PROVE  TrackedExclusion'
  <2>1. \A x \in Excludes[m] : currentExec[x][i] = NoExec
    BY <1>2 DEF Start, Excluded
  <2>2. /\ currentExec' = [currentExec EXCEPT ![m][i] = c]
        /\ currentExec \in [Methods -> [Ids \cup {NoId} -> Calls \cup {NoExec}]]
    BY <1>2 DEF Start, IInv, TypeOK
  <2>3. QED BY <2>1, <2>2
<1>3. ASSUME NEW c \in Calls, NEW m \in NoIdMethods, CallNoId(c, m)
      PROVE  TrackedExclusion'
  <2>1. \A x \in Methods, i \in Ids : currentExec'[x][i] = currentExec[x][i]
    <3>1. \/ currentExec' = currentExec
          \/ currentExec' = [currentExec EXCEPT ![m][NoId] = c]
      BY <1>3 DEF CallNoId
    <3>2. currentExec \in
            [Methods -> [Ids \cup {NoId} -> Calls \cup {NoExec}]]
      BY DEF IInv, TypeOK
    <3>3. QED BY <3>1, <3>2
  <2>2. QED BY <2>1
<1>4. ASSUME NEW e \in Calls, Resolve(e) PROVE TrackedExclusion'
  <2>1. \A x \in Methods, i \in Ids :
          currentExec'[x][i] \in {currentExec[x][i], NoExec}
    BY <1>4 DEF Resolve, IInv, TypeOK
  <2>2. QED BY <2>1
<1>5. ASSUME UNCHANGED currentExec PROVE TrackedExclusion'
  BY <1>5
<1>6. ASSUME NEW c \in Calls, CallStep(c) PROVE TrackedExclusion'
  BY <1>2, <1>3, <1>5, <1>6 DEF CallStep, Call, Refuse, Join
<1>7. ASSUME NEW e \in Calls, End(e) PROVE TrackedExclusion'
  BY <1>4, <1>5, <1>7 DEF End, Reject
<1>8. QED BY <1>1, <1>6, <1>7 DEF Next

\* Two methods that exclude each other are never both in the tracker of an
\* id (ProxyCalls!TrackedExclusion).
THEOREM Exclusion == Spec => []TrackedExclusion
<1>1. ProxyInit => TrackedExclusion
  BY DEF ProxyInit, TrackedExclusion
<1>2. QED BY Inductive, ExclusionStep, <1>1, PTL DEF Spec

-----------------------------------------------------------------------------
(* A call is answered by an execution that starts after it was made.       *)

LEMMA FreshStep ==
  ASSUME IInv, [Next]_proxyVars,
         NEW c \in Calls, pc[c] # "served", pc'[c] = "served",
         call'[c].id # NoId
  PROVE  exec[answer'[c]] = "none"
<1> USE MarkersAssumption DEF IInv, TypeOK
<1>1. CASE UNCHANGED proxyVars
  BY <1>1 DEF proxyVars
<1>2. ASSUME NEW d \in Calls, NEW m \in Methods, NEW i \in Ids, NEW a \in Args,
             Start(d, m, i, a)
      PROVE  exec[answer'[c]] = "none"
  <2>1. c = d
    BY <1>2 DEF Start, Register
  <2>2. pc[c] = "idle" /\ answer'[c] = c
    BY <1>2, <2>1 DEF Start, Register
  <2>3. QED BY <2>2 DEF NotStarted
<1>3. ASSUME NEW d \in Calls, NEW m \in NoIdMethods, CallNoId(d, m)
      PROVE  FALSE
  <2>1. c = d
    BY <1>3 DEF CallNoId, Register
  <2>2. call'[c].id = NoId
    BY <1>3, <2>1 DEF CallNoId, Register, Invoke
  <2>3. QED BY <2>2
<1>4. ASSUME NEW e \in Calls, Resolve(e)
      PROVE  exec[answer'[c]] = "none"
  <2>1. c \in Waiters(e)
    BY <1>4 DEF Resolve
  <2>2. pc[c] = "waiting" /\ answer'[c] = c
    BY <1>4, <2>1 DEF Resolve, Waiters
  <2>3. QED BY <2>2 DEF NotStarted
<1>5. ASSUME NEW d \in Calls, NEW m \in Methods, NEW i \in Ids, NEW a \in Args,
             Refuse(d, m, i, a) \/ Join(d, m, i, a)
      PROVE  FALSE
  BY <1>5 DEF Refuse, Join, Register
<1>6. ASSUME NEW e \in Calls, Reject(e) PROVE FALSE
  BY <1>6 DEF Reject
<1>7. ASSUME NEW d \in Calls, CallStep(d) PROVE exec[answer'[c]] = "none"
  BY <1>2, <1>3, <1>5, <1>7 DEF CallStep, Call
<1>8. ASSUME NEW e \in Calls, End(e) PROVE exec[answer'[c]] = "none"
  BY <1>4, <1>6, <1>8 DEF End
<1>9. QED BY <1>1, <1>7, <1>8 DEF Next

\* A call with an id is never answered by an execution that was already
\* running when it was made (ProxyCalls!FreshAnswer).
THEOREM Freshness == Spec => FreshAnswer
<1>1. ASSUME IInv, [Next]_proxyVars
      PROVE  [\A c \in Calls :
                (pc[c] # "served" /\ pc'[c] = "served" /\ call'[c].id # NoId)
                  => exec[answer'[c]] = "none"]_proxyVars
  BY <1>1, FreshStep
<1>2. QED BY Inductive, <1>1, PTL DEF Spec, FreshAnswer

-----------------------------------------------------------------------------
(* The arguments.  They reach an execution directly, or through nextArgs:  *)
(* the invariant says what nextArgs holds while calls are waiting.         *)

\* What a waiting call passed is in nextArgs, maybe overridden.
WaitersMerged ==
  \A c \in Calls : pc[c] = "waiting" =>
    \A k \in ArgKeys : call[c].args[k] # NoArg =>
      nextArgs[call[c].method][call[c].id][k] # NoArg

\* What nextArgs holds while an execution is tracked was passed by a call
\* that waits for that execution.
MergedFromWaiters ==
  \A m \in Methods, i \in Ids, k \in ArgKeys :
    (currentExec[m][i] # NoExec /\ nextArgs[m][i][k] # NoArg) =>
      \E d \in Calls : /\ pc[d] = "waiting"
                       /\ waitOn[d] = currentExec[m][i]
                       /\ call[d].args[k] = nextArgs[m][i][k]

\* An execution that did not start has no argument, and gets none when it
\* starts without an id.
UnstartedHasNoArgs ==
  \A c \in Calls : exec[c] = "none" => execArgs[c] = NoArgs

ArgsInv ==
  /\ UnstartedHasNoArgs
  /\ WaitersMerged
  /\ MergedFromWaiters
  /\ ArgsDelivered
  /\ ArgsOrigin

LEMMA InitArgs == ProxyInit => ArgsInv
BY DEF ProxyInit, ArgsInv, UnstartedHasNoArgs, WaitersMerged, MergedFromWaiters, ArgsDelivered,
       ArgsOrigin

\* A step that makes one call and starts nothing new for the others leaves
\* what the other calls were delivered alone.
LEMMA OthersKept ==
  ASSUME IInv, ArgsInv, NEW c \in Calls, pc[c] = "idle",
         \A d \in Calls \ {c} :
           /\ call'[d] = call[d] /\ pc'[d] = pc[d]
           /\ waitOn'[d] = waitOn[d] /\ answer'[d] = answer[d]
           /\ exec'[d] = exec[d] /\ execArgs'[d] = execArgs[d]
  PROVE  /\ \A x \in Calls \ {c} : pc[x] = "served" =>
              \A k \in ArgKeys : call[x].args[k] # NoArg =>
                \E d \in Calls : /\ SameWave(x, d)'
                                 /\ pc'[d] # "idle"
                                 /\ call'[d].args[k] # NoArg
                                 /\ execArgs'[answer'[x]][k] = call'[d].args[k]
         /\ \A x \in Calls \ {c}, k \in ArgKeys :
              (exec'[x] # "none" /\ execArgs'[x][k] # NoArg) =>
                \E d \in Calls : /\ SameWave(x, d)'
                                 /\ pc'[d] # "idle"
                                 /\ call'[d].args[k] = execArgs'[x][k]
<1>1. ASSUME NEW x \in Calls \ {c}, pc[x] = "served",
             NEW k \in ArgKeys, call[x].args[k] # NoArg
      PROVE  \E d \in Calls : /\ SameWave(x, d)'
                              /\ pc'[d] # "idle"
                              /\ call'[d].args[k] # NoArg
                              /\ execArgs'[answer'[x]][k] = call'[d].args[k]
  <2>1. PICK d \in Calls : /\ SameWave(x, d)
                           /\ pc[d] # "idle"
                           /\ call[d].args[k] # NoArg
                           /\ execArgs[answer[x]][k] = call[d].args[k]
    BY <1>1 DEF ArgsInv, ArgsDelivered
  <2>2. answer[x] \in Calls \ {c}
    BY <1>1 DEF IInv, ServedByStarted, NotStarted
  <2>3. d # c /\ SameWave(x, d)'
    BY <2>1 DEF SameWave
  <2>4. QED BY <2>1, <2>2, <2>3
<1>2. ASSUME NEW x \in Calls \ {c}, NEW k \in ArgKeys,
             exec'[x] # "none", execArgs'[x][k] # NoArg
      PROVE  \E d \in Calls : /\ SameWave(x, d)'
                              /\ pc'[d] # "idle"
                              /\ call'[d].args[k] = execArgs'[x][k]
  <2>1. PICK d \in Calls : /\ SameWave(x, d)
                           /\ pc[d] # "idle"
                           /\ call[d].args[k] = execArgs[x][k]
    BY <1>2 DEF ArgsInv, ArgsOrigin
  <2>2. d # c /\ SameWave(x, d)'
    BY <2>1 DEF SameWave
  <2>3. QED BY <2>1, <2>2
<1>3. QED BY <1>1, <1>2

LEMMA RefuseArgs ==
  ASSUME IInv, ArgsInv,
         NEW c \in Calls, NEW m \in Methods, NEW i \in Ids, NEW a \in Args,
         Refuse(c, m, i, a)
  PROVE  ArgsInv'
<1>0. /\ \A d \in Calls \ {c} : call'[d] = call[d] /\ pc'[d] = pc[d]
      /\ pc[c] = "idle" /\ pc'[c] = "refused" /\ exec[c] = "none"
      /\ UNCHANGED <<currentExec, nextArgs, waitOn, answer, exec, execArgs>>
  BY DEF Refuse, Register, IInv, TypeOK, NotStarted
<1>1. WaitersMerged'
  BY <1>0 DEF ArgsInv, WaitersMerged
<1>2. MergedFromWaiters'
  <2> SUFFICES ASSUME NEW n \in Methods, NEW j \in Ids, NEW k \in ArgKeys,
                      currentExec[n][j] # NoExec, nextArgs[n][j][k] # NoArg
               PROVE  \E d \in Calls : /\ pc'[d] = "waiting"
                                       /\ waitOn[d] = currentExec[n][j]
                                       /\ call'[d].args[k] = nextArgs[n][j][k]
    BY <1>0 DEF MergedFromWaiters
  <2>1. PICK d \in Calls : /\ pc[d] = "waiting"
                           /\ waitOn[d] = currentExec[n][j]
                           /\ call[d].args[k] = nextArgs[n][j][k]
    BY DEF ArgsInv, MergedFromWaiters
  <2>2. d # c
    BY <1>0, <2>1
  <2>3. QED BY <1>0, <2>1, <2>2
<1>3. ArgsDelivered'
  BY <1>0, OthersKept DEF ArgsDelivered
<1>4. ArgsOrigin'
  BY <1>0, OthersKept DEF ArgsOrigin
<1>5. UnstartedHasNoArgs'
  BY <1>0 DEF ArgsInv, UnstartedHasNoArgs
<1>6. QED BY <1>1, <1>2, <1>3, <1>4, <1>5 DEF ArgsInv

LEMMA JoinArgs ==
  ASSUME IInv, ArgsInv,
         NEW c \in Calls, NEW m \in Methods, NEW i \in Ids, NEW a \in Args,
         Join(c, m, i, a)
  PROVE  ArgsInv'
<1>0. /\ \A d \in Calls \ {c} : /\ call'[d] = call[d] /\ pc'[d] = pc[d]
                                /\ waitOn'[d] = waitOn[d]
      /\ pc[c] = "idle" /\ pc'[c] = "waiting" /\ exec[c] = "none"
      /\ call'[c] = Invoke(m, i, a)
      /\ waitOn'[c] = currentExec[m][i]
      /\ currentExec[m][i] # NoExec
      /\ UNCHANGED <<currentExec, answer, exec, execArgs>>
  BY DEF Join, Register, IInv, TypeOK, NotStarted
<1>a. /\ call'[c].method = m /\ call'[c].id = i /\ call'[c].args = a
  BY <1>0, InvokeType
<1>b. ASSUME NEW n \in Methods, NEW j \in Ids, NEW k \in ArgKeys
      PROVE  nextArgs'[n][j][k] = IF n = m /\ j = i /\ a[k] # NoArg
                                    THEN a[k] ELSE nextArgs[n][j][k]
  <2>1. nextArgs' = [nextArgs EXCEPT ![m][i] = Merge(nextArgs[m][i], a)]
    BY DEF Join
  <2>2. nextArgs \in [Methods -> [Ids -> Args]]
    BY DEF IInv, TypeOK
  <2>3. CASE n = m /\ j = i
    <3>1. nextArgs'[n][j] = Merge(nextArgs[m][i], a)
      BY <2>1, <2>2, <2>3
    <3>2. QED BY <2>3, <3>1 DEF Merge
  <2>4. CASE ~(n = m /\ j = i)
    BY <2>1, <2>2, <2>4
  <2>5. QED BY <2>3, <2>4
<1>1. WaitersMerged'
  <2> SUFFICES ASSUME NEW x \in Calls, pc'[x] = "waiting", NEW k \in ArgKeys,
                      call'[x].args[k] # NoArg
               PROVE  nextArgs'[call'[x].method][call'[x].id][k] # NoArg
    BY DEF WaitersMerged
  <2>1. CASE x = c
    BY <1>a, <1>b, <2>1
  <2>2. CASE x # c
    <3>1. /\ call'[x] = call[x] /\ pc[x] = "waiting"
          /\ call[x].method \in Methods /\ call[x].id \in Ids
      BY <1>0, <2>2 DEF IInv, WaitsForTracked
    <3>2. nextArgs[call[x].method][call[x].id][k] # NoArg
      BY <3>1 DEF ArgsInv, WaitersMerged
    <3>3. QED BY <1>b, <3>1, <3>2
  <2>3. QED BY <2>1, <2>2
<1>2. MergedFromWaiters'
  <2> SUFFICES ASSUME NEW n \in Methods, NEW j \in Ids, NEW k \in ArgKeys,
                      currentExec[n][j] # NoExec, nextArgs'[n][j][k] # NoArg
               PROVE  \E d \in Calls : /\ pc'[d] = "waiting"
                                       /\ waitOn'[d] = currentExec[n][j]
                                       /\ call'[d].args[k] = nextArgs'[n][j][k]
    BY <1>0 DEF MergedFromWaiters
  <2>1. CASE n = m /\ j = i /\ a[k] # NoArg
    BY <1>0, <1>a, <1>b, <2>1
  <2>2. CASE ~(n = m /\ j = i /\ a[k] # NoArg)
    <3>1. nextArgs'[n][j][k] = nextArgs[n][j][k]
      BY <1>b, <2>2
    <3>2. PICK d \in Calls : /\ pc[d] = "waiting"
                             /\ waitOn[d] = currentExec[n][j]
                             /\ call[d].args[k] = nextArgs[n][j][k]
      BY <3>1 DEF ArgsInv, MergedFromWaiters
    <3>3. d # c
      BY <1>0, <3>2
    <3>4. QED BY <1>0, <3>1, <3>2, <3>3
  <2>3. QED BY <2>1, <2>2
<1>3. ArgsDelivered'
  BY <1>0, OthersKept DEF ArgsDelivered
<1>4. ArgsOrigin'
  BY <1>0, OthersKept DEF ArgsOrigin
<1>5. UnstartedHasNoArgs'
  BY <1>0 DEF ArgsInv, UnstartedHasNoArgs
<1>6. QED BY <1>1, <1>2, <1>3, <1>4, <1>5 DEF ArgsInv

LEMMA StartArgs ==
  ASSUME IInv, ArgsInv,
         NEW c \in Calls, NEW m \in Methods, NEW i \in Ids, NEW a \in Args,
         Start(c, m, i, a)
  PROVE  ArgsInv'
<1>0. /\ \A d \in Calls \ {c} : /\ call'[d] = call[d] /\ pc'[d] = pc[d]
                                /\ answer'[d] = answer[d]
                                /\ exec'[d] = exec[d]
                                /\ execArgs'[d] = execArgs[d]
      /\ pc[c] = "idle" /\ pc'[c] = "served"
      /\ call'[c] = Invoke(m, i, a)
      /\ answer'[c] = c /\ execArgs'[c] = a /\ exec'[c] = "running"
      /\ currentExec[m][i] = NoExec
      /\ currentExec' = [currentExec EXCEPT ![m][i] = c]
      /\ nextArgs' = [nextArgs EXCEPT ![m][i] = NoArgs]
      /\ UNCHANGED waitOn
  BY DEF Start, Register, IInv, TypeOK
<1>a. call'[c].args = a
  BY <1>0, InvokeType
<1>t. /\ nextArgs \in [Methods -> [Ids -> Args]]
      /\ currentExec \in [Methods -> [Ids \cup {NoId} -> Calls \cup {NoExec}]]
  BY DEF IInv, TypeOK
<1>1. WaitersMerged'
  <2> SUFFICES ASSUME NEW x \in Calls, pc'[x] = "waiting", NEW k \in ArgKeys,
                      call'[x].args[k] # NoArg
               PROVE  nextArgs'[call'[x].method][call'[x].id][k] # NoArg
    BY DEF WaitersMerged
  <2>1. /\ x # c /\ call'[x] = call[x] /\ pc[x] = "waiting"
    BY <1>0
  <2>2. /\ call[x].method \in Methods /\ call[x].id \in Ids
        /\ currentExec[call[x].method][call[x].id] \in Calls
    BY <2>1 DEF IInv, WaitsForTracked
  <2>3. ~(call[x].method = m /\ call[x].id = i)
    BY <1>0, <2>2, MarkersAssumption
  <2>4. nextArgs'[call[x].method][call[x].id] = nextArgs[call[x].method][call[x].id]
    BY <1>0, <1>t, <2>2, <2>3
  <2>5. QED BY <2>1, <2>4 DEF ArgsInv, WaitersMerged
<1>2. MergedFromWaiters'
  <2> SUFFICES ASSUME NEW n \in Methods, NEW j \in Ids, NEW k \in ArgKeys,
                      currentExec'[n][j] # NoExec, nextArgs'[n][j][k] # NoArg
               PROVE  \E d \in Calls : /\ pc'[d] = "waiting"
                                       /\ waitOn'[d] = currentExec'[n][j]
                                       /\ call'[d].args[k] = nextArgs'[n][j][k]
    BY DEF MergedFromWaiters
  <2>1. ~(n = m /\ j = i)
    BY <1>0, <1>t DEF NoArgs
  <2>2. /\ currentExec'[n][j] = currentExec[n][j]
        /\ nextArgs'[n][j] = nextArgs[n][j]
    BY <1>0, <1>t, <2>1
  <2>3. PICK d \in Calls : /\ pc[d] = "waiting"
                           /\ waitOn[d] = currentExec[n][j]
                           /\ call[d].args[k] = nextArgs[n][j][k]
    BY <2>2 DEF ArgsInv, MergedFromWaiters
  <2>4. d # c
    BY <1>0, <2>3
  <2>5. QED BY <1>0, <2>2, <2>3, <2>4
<1>3. ArgsDelivered'
  <2> SUFFICES ASSUME NEW x \in Calls, pc'[x] = "served",
                      NEW k \in ArgKeys, call'[x].args[k] # NoArg
               PROVE  \E d \in Calls : /\ SameWave(x, d)'
                                       /\ pc'[d] # "idle"
                                       /\ call'[d].args[k] # NoArg
                                       /\ execArgs'[answer'[x]][k]
                                            = call'[d].args[k]
    BY DEF ArgsDelivered
  <2>1. CASE x = c
    BY <1>0, <1>a, <2>1 DEF SameWave
  <2>2. CASE x # c
    BY <1>0, <2>2, OthersKept
  <2>3. QED BY <2>1, <2>2
<1>4. ArgsOrigin'
  <2> SUFFICES ASSUME NEW x \in Calls, NEW k \in ArgKeys,
                      exec'[x] # "none", execArgs'[x][k] # NoArg
               PROVE  \E d \in Calls : /\ SameWave(x, d)'
                                       /\ pc'[d] # "idle"
                                       /\ call'[d].args[k] = execArgs'[x][k]
    BY DEF ArgsOrigin
  <2>1. CASE x = c
    BY <1>0, <1>a, <2>1 DEF SameWave
  <2>2. CASE x # c
    BY <1>0, <2>2, OthersKept
  <2>3. QED BY <2>1, <2>2
<1>5. UnstartedHasNoArgs'
  BY <1>0 DEF ArgsInv, UnstartedHasNoArgs
<1>6. QED BY <1>1, <1>2, <1>3, <1>4, <1>5 DEF ArgsInv

LEMMA CallNoIdArgs ==
  ASSUME IInv, ArgsInv, NEW c \in Calls, NEW m \in NoIdMethods,
         CallNoId(c, m)
  PROVE  ArgsInv'
<1>0. /\ \A d \in Calls \ {c} : /\ call'[d] = call[d] /\ pc'[d] = pc[d]
                                /\ answer'[d] = answer[d]
                                /\ exec'[d] = exec[d]
      /\ pc[c] = "idle" /\ pc'[c] = "served" /\ exec[c] = "none"
      /\ call'[c] = Invoke(m, NoId, NoArgs)
      /\ UNCHANGED <<nextArgs, waitOn, execArgs>>
  BY DEF CallNoId, Register, IInv, TypeOK, NotStarted
<1>a. call'[c].args = NoArgs
  BY <1>0, NoArgsType, MarkersAssumption DEF Invoke
<1>b. \A n \in Methods, j \in Ids : currentExec'[n][j] = currentExec[n][j]
  <2>1. \/ currentExec' = currentExec
        \/ currentExec' = [currentExec EXCEPT ![m][NoId] = c]
    BY DEF CallNoId
  <2>2. currentExec \in [Methods -> [Ids \cup {NoId} -> Calls \cup {NoExec}]]
    BY DEF IInv, TypeOK
  <2>3. QED BY <2>1, <2>2, MarkersAssumption
<1>1. WaitersMerged'
  BY <1>0 DEF ArgsInv, WaitersMerged
<1>2. MergedFromWaiters'
  <2> SUFFICES ASSUME NEW n \in Methods, NEW j \in Ids, NEW k \in ArgKeys,
                      currentExec[n][j] # NoExec, nextArgs[n][j][k] # NoArg
               PROVE  \E d \in Calls : /\ pc'[d] = "waiting"
                                       /\ waitOn[d] = currentExec[n][j]
                                       /\ call'[d].args[k] = nextArgs[n][j][k]
    BY <1>0, <1>b DEF MergedFromWaiters
  <2>1. PICK d \in Calls : /\ pc[d] = "waiting"
                           /\ waitOn[d] = currentExec[n][j]
                           /\ call[d].args[k] = nextArgs[n][j][k]
    BY DEF ArgsInv, MergedFromWaiters
  <2>2. d # c
    BY <1>0, <2>1
  <2>3. QED BY <1>0, <2>1, <2>2
<1>3. ArgsDelivered'
  <2>1. \A k \in ArgKeys : call'[c].args[k] = NoArg
    BY <1>a DEF NoArgs
  <2>2. QED BY <1>0, <2>1, OthersKept DEF ArgsDelivered
<1>4. ArgsOrigin'
  <2>1. \A k \in ArgKeys : execArgs'[c][k] = NoArg
    BY <1>0 DEF ArgsInv, UnstartedHasNoArgs, NoArgs
  <2>2. QED BY <1>0, <2>1, OthersKept DEF ArgsOrigin
<1>5. UnstartedHasNoArgs'
  BY <1>0 DEF ArgsInv, UnstartedHasNoArgs
<1>6. QED BY <1>1, <1>2, <1>3, <1>4, <1>5 DEF ArgsInv

LEMMA RejectArgs ==
  ASSUME IInv, ArgsInv, NEW e \in Calls, Reject(e)
  PROVE  ArgsInv'
<1>0. /\ UNCHANGED <<currentExec, nextArgs, call, pc, waitOn, answer, execArgs>>
      /\ \A x \in Calls : exec'[x] = "none" <=> exec[x] = "none"
  BY DEF Reject, IInv, TypeOK
<1>1. UnstartedHasNoArgs' /\ WaitersMerged'
  BY <1>0 DEF ArgsInv, UnstartedHasNoArgs, WaitersMerged
<1>2. MergedFromWaiters'
  BY <1>0 DEF ArgsInv, MergedFromWaiters
<1>3. ArgsDelivered'
  BY <1>0 DEF ArgsInv, ArgsDelivered, SameWave
<1>4. ArgsOrigin'
  BY <1>0 DEF ArgsInv, ArgsOrigin, SameWave
<1>5. QED BY <1>1, <1>2, <1>3, <1>4 DEF ArgsInv

LEMMA ResolveArgs ==
  ASSUME IInv, ArgsInv, NEW e \in Calls, Resolve(e)
  PROVE  ArgsInv'
<1> DEFINE m == call[e].method
           i == call[e].id
           W == Waiters(e)
<1>0. /\ \A x \in Calls \ W : /\ execArgs'[x] = execArgs[x]
                              /\ answer'[x] = answer[x] /\ pc'[x] = pc[x]
                              /\ exec'[x] = "none" => exec[x] = "none"
                              /\ exec'[x] # "none" => exec[x] # "none"
      /\ \A x \in W : /\ execArgs'[x] = nextArgs[m][i]
                      /\ answer'[x] = x
                      /\ pc'[x] = "served" /\ exec'[x] # "none"
      /\ UNCHANGED <<nextArgs, call, waitOn>>
  BY DEF Resolve, Waiters
<1>a. ASSUME NEW x \in W
      PROVE  /\ pc[x] = "waiting" /\ waitOn[x] = e /\ exec[x] = "none"
             /\ call[x].method = m /\ call[x].id = i
             /\ m \in Methods /\ i \in Ids
             /\ currentExec[m][i] = e
  BY MarkersAssumption
     DEF Waiters, IInv, NotStarted, WaitsForTracked, TracksLive
\* What the callers of the wave merged is what its executions receive.
<1>b. ASSUME NEW x \in W, NEW k \in ArgKeys, nextArgs[m][i][k] # NoArg
      PROVE  \E d \in Calls : /\ SameWave(x, d)'
                              /\ pc'[d] # "idle"
                              /\ call'[d].args[k] # NoArg
                              /\ nextArgs[m][i][k] = call'[d].args[k]
  <2>1. currentExec[m][i] # NoExec
    BY <1>a, MarkersAssumption
  <2>2. PICK d \in Calls : /\ pc[d] = "waiting"
                           /\ waitOn[d] = currentExec[m][i]
                           /\ call[d].args[k] = nextArgs[m][i][k]
    BY <1>a, <1>b, <2>1 DEF ArgsInv, MergedFromWaiters
  <2>3. d \in W
    BY <1>a, <2>2 DEF Waiters
  <2>4. SameWave(x, d)'
    BY <1>0, <1>a, <2>1, <2>2 DEF SameWave
  <2>5. QED BY <1>0, <1>b, <2>2, <2>3, <2>4
<1>1. UnstartedHasNoArgs'
  BY <1>0 DEF ArgsInv, UnstartedHasNoArgs
<1>2. WaitersMerged'
  <2> SUFFICES ASSUME NEW x \in Calls, pc'[x] = "waiting", NEW k \in ArgKeys,
                      call[x].args[k] # NoArg
               PROVE  nextArgs[call[x].method][call[x].id][k] # NoArg
    BY <1>0 DEF WaitersMerged
  <2>1. pc[x] = "waiting"
    BY <1>0
  <2>2. QED BY <2>1 DEF ArgsInv, WaitersMerged
<1>3. MergedFromWaiters'
  <2> SUFFICES ASSUME NEW n \in Methods, NEW j \in Ids, NEW k \in ArgKeys,
                      currentExec'[n][j] # NoExec, nextArgs[n][j][k] # NoArg
               PROVE  \E d \in Calls : /\ pc'[d] = "waiting"
                                       /\ waitOn[d] = currentExec'[n][j]
                                       /\ call[d].args[k] = nextArgs[n][j][k]
    BY <1>0 DEF MergedFromWaiters
  <2>1. /\ currentExec'[n][j] = currentExec[n][j]
        /\ currentExec[n][j] # e
    BY DEF Resolve, Tracked, IInv, TypeOK, TracksLive
  <2>2. PICK d \in Calls : /\ pc[d] = "waiting"
                           /\ waitOn[d] = currentExec[n][j]
                           /\ call[d].args[k] = nextArgs[n][j][k]
    BY <2>1 DEF ArgsInv, MergedFromWaiters
  <2>3. d \notin W
    BY <1>a, <2>1, <2>2
  <2>4. QED BY <1>0, <2>1, <2>2, <2>3
<1>4. ArgsDelivered'
  <2> SUFFICES ASSUME NEW x \in Calls, pc'[x] = "served",
                      NEW k \in ArgKeys, call[x].args[k] # NoArg
               PROVE  \E d \in Calls : /\ SameWave(x, d)'
                                       /\ pc'[d] # "idle"
                                       /\ call'[d].args[k] # NoArg
                                       /\ execArgs'[answer'[x]][k]
                                            = call'[d].args[k]
    BY <1>0 DEF ArgsDelivered
  <2>1. CASE x \in W
    <3>1. nextArgs[m][i][k] # NoArg
      BY <1>a, <2>1 DEF ArgsInv, WaitersMerged
    <3>2. QED BY <1>0, <1>b, <2>1, <3>1
  <2>2. CASE x \notin W
    <3>1. pc[x] = "served"
      BY <1>0, <2>2
    <3>2. PICK d \in Calls : /\ SameWave(x, d)
                             /\ pc[d] # "idle"
                             /\ call[d].args[k] # NoArg
                             /\ execArgs[answer[x]][k] = call[d].args[k]
      BY <3>1 DEF ArgsInv, ArgsDelivered
    <3>3. answer[x] \in Calls \ W
      BY <1>a, <3>1 DEF IInv, ServedByStarted
    <3>4. pc'[d] # "idle" /\ SameWave(x, d)'
      BY <1>0, <3>2 DEF SameWave
    <3>5. QED BY <1>0, <2>2, <3>2, <3>3, <3>4
  <2>3. QED BY <2>1, <2>2
<1>5. ArgsOrigin'
  <2> SUFFICES ASSUME NEW x \in Calls, NEW k \in ArgKeys,
                      exec'[x] # "none", execArgs'[x][k] # NoArg
               PROVE  \E d \in Calls : /\ SameWave(x, d)'
                                       /\ pc'[d] # "idle"
                                       /\ call'[d].args[k] = execArgs'[x][k]
    BY DEF ArgsOrigin
  <2>1. CASE x \in W
    BY <1>0, <1>b, <2>1
  <2>2. CASE x \notin W
    <3>1. PICK d \in Calls : /\ SameWave(x, d)
                             /\ pc[d] # "idle"
                             /\ call[d].args[k] = execArgs[x][k]
      BY <1>0, <2>2 DEF ArgsInv, ArgsOrigin
    <3>2. pc'[d] # "idle" /\ SameWave(x, d)'
      BY <1>0, <3>1 DEF SameWave
    <3>3. QED BY <1>0, <2>2, <3>1, <3>2
  <2>3. QED BY <2>1, <2>2
<1>6. QED BY <1>1, <1>2, <1>3, <1>4, <1>5 DEF ArgsInv

LEMMA NextArgsInv == IInv /\ ArgsInv /\ [Next]_proxyVars => ArgsInv'
<1> SUFFICES ASSUME IInv, ArgsInv, [Next]_proxyVars PROVE ArgsInv'
  OBVIOUS
<1>1. CASE UNCHANGED proxyVars
  <2> USE <1>1 DEF proxyVars, ArgsInv
  <2>1. UnstartedHasNoArgs' /\ WaitersMerged' /\ MergedFromWaiters'
    BY DEF UnstartedHasNoArgs, WaitersMerged, MergedFromWaiters
  <2>2. ArgsDelivered' /\ ArgsOrigin'
    BY DEF ArgsDelivered, ArgsOrigin, SameWave
  <2>3. QED BY <2>1, <2>2
<1>2. ASSUME NEW c \in Calls, CallStep(c) PROVE ArgsInv'
  BY <1>2, RefuseArgs, JoinArgs, StartArgs, CallNoIdArgs DEF CallStep, Call
<1>3. ASSUME NEW e \in Calls, End(e) PROVE ArgsInv'
  BY <1>3, ResolveArgs, RejectArgs DEF End
<1>4. QED BY <1>1, <1>2, <1>3 DEF Next

LEMMA ArgsInductive == Spec => []ArgsInv
BY Inductive, InitArgs, NextArgsInv, PTL DEF Spec

\* Every argument a caller passed reaches the execution that answers it,
\* possibly overridden by a call of the same wave (ProxyCalls!ArgsDelivered).
THEOREM Delivery == Spec => []ArgsDelivered
<1>1. ArgsInv => ArgsDelivered
  BY DEF ArgsInv
<1>2. QED BY ArgsInductive, <1>1, PTL

\* No execution receives an argument that no call of its wave passed
\* (ProxyCalls!ArgsOrigin).
THEOREM Origin == Spec => []ArgsOrigin
<1>1. ArgsInv => ArgsOrigin
  BY DEF ArgsInv
<1>2. QED BY ArgsInductive, <1>1, PTL

-----------------------------------------------------------------------------
(* The execution of a hook.                                                *)


Before(s) == CASE s = "pre"  -> {}
               [] s = "main" -> {"pre"}
               [] s = "post" -> {"pre", "main"}
               [] OTHER      -> {}

Replies(s) == \A p \in steps[s] : log[s][p] # "none"

Gave(s, status) == \E p \in steps[s] : log[s][p] = status

\* While the promise is pending, the functions called and not returned are
\* those of the step in progress without a reply.
OpenAwaitsReply ==
  /\ open \subseteq steps[step]
  /\ state = "pending" => open = {p \in steps[step] : log[step][p] = "none"}
  /\ state = "settled" => open = {}

\* A plugin without a function in a step, and a step that has not begun, have
\* no reply.
NoEarlyReply ==
  /\ \A s \in HookSteps, p \in Plugins : log[s][p] # "none" => p \in steps[s]
  /\ step # "revert" => \A p \in Plugins : log["revert"][p] = "none"
  /\ step = "pre" => \A p \in Plugins : log["main"][p] = "none"
  /\ step \in {"pre", "main"} => \A p \in Plugins : log["post"][p] = "none"

\* The steps before the one in progress have all their replies and no
\* failure, and what they warned of is in the payload.
MainGoesWell ==
  step \in MainSteps /\ state = "pending" =>
    /\ failed = {}
    /\ \A t \in Before(step) : Replies(t) /\ ~Gave(t, "KO")
    /\ warning # {} <=> \E t \in Before(step) : Gave(t, "WARNING")

\* The engine reverts because a step that was reached ended with a failure.
RevertHasCause ==
  step = "revert" =>
    /\ failed # {}
    /\ \E s \in MainSteps :
         /\ \A t \in Before(s) : Replies(t) /\ ~Gave(t, "KO")
         /\ Replies(s) /\ Gave(s, "KO")

\* The result of a plugin is KO when its name is among the failures, until
\* it reverts, and WARNING only when it is among the warnings.
ResultsFollowReplies ==
  state # "rejected" =>
    \A p \in Plugins :
      /\ p \in failed /\ (state = "pending" \/ p \notin steps["revert"])
           => results[p] = "KO"
      /\ results[p] = "KO" => p \in failed
      /\ results[p] = "WARNING" => p \in warning

\* An execution settles after post without a failure, or after revert.
SettledAtEnd ==
  state = "settled" =>
    /\ Replies(step)
    /\ \/ step = "revert"
       \/ step = "post" /\ failed = {}

HInv ==
  /\ HookTypeOK
  /\ OpenAwaitsReply
  /\ NoEarlyReply
  /\ MainGoesWell
  /\ RevertHasCause
  /\ ResultsFollowReplies
  /\ SettledAtEnd

-----------------------------------------------------------------------------
(* The operators of the engine.                                            *)

\* A function that returns leaves one reply, in the step in progress.
LEMMA OneReply ==
  ASSUME HookTypeOK, NEW p \in Plugins, NEW status \in Status
  PROVE  LET L == [log EXCEPT ![step][p] = status] IN
         /\ L \in [HookSteps -> [Plugins -> Status \cup {"none"}]]
         /\ \A s \in HookSteps, q \in Plugins :
              L[s][q] = IF s = step /\ q = p THEN status ELSE log[s][q]
BY DEF HookTypeOK

\* The results a step ends with are replies or earlier results.
LEMMA MergedType ==
  ASSUME HookTypeOK
  PROVE  Merged \in [Plugins -> Status \cup {"none"}]
BY DEF HookTypeOK, Merged

LEMMA ProvisionalType ==
  ASSUME HookTypeOK, NEW s \in HookSteps, NEW res \in [Plugins -> Status \cup {"none"}]
  PROVE  Provisional(s, res) \in [Plugins -> Status \cup {"none"}]
BY DEF Provisional, Status

LEMMA RepliedType ==
  ASSUME HookTypeOK, NEW status
  PROVE  Replied(status) \subseteq Plugins
BY DEF HookTypeOK, Replied

-----------------------------------------------------------------------------
(* The inductive invariant.                                                *)

LEMMA InitH == HookInit => HInv
<1> SUFFICES ASSUME HookInit PROVE HInv
  OBVIOUS
<1>1. HookTypeOK
  BY DEF HookInit, HookTypeOK, HookSteps, Provisional, Status
<1>2. OpenAwaitsReply /\ NoEarlyReply
  BY <1>1 DEF HookInit, OpenAwaitsReply, NoEarlyReply, HookSteps, HookTypeOK
<1>3. MainGoesWell /\ RevertHasCause /\ SettledAtEnd
  BY DEF HookInit, MainGoesWell, RevertHasCause, SettledAtEnd, Before
<1>4. ResultsFollowReplies
  BY DEF HookInit, ResultsFollowReplies, Provisional
<1>5. QED BY <1>1, <1>2, <1>3, <1>4 DEF HInv

LEMMA ReturnH ==
  ASSUME HInv, NEW p \in Plugins, NEW status \in Status, Return(p, status)
  PROVE  HInv'
<1> USE DEF HInv
<1>1. CASE state = "pending"
  <2>1. log' = [log EXCEPT ![step][p] = status]
    BY <1>1 DEF Return
  <2>2. /\ log' \in [HookSteps -> [Plugins -> Status \cup {"none"}]]
        /\ \A s \in HookSteps, q \in Plugins :
             log'[s][q] = IF s = step /\ q = p THEN status ELSE log[s][q]
    BY <2>1, OneReply
  <2>3. p \in steps[step] /\ step \in HookSteps /\ status # "none"
    BY DEF Return, OpenAwaitsReply, HookTypeOK, Status
  <2>4. HookTypeOK'
    BY <2>2 DEF HookTypeOK, Return
  <2>5. OpenAwaitsReply'
    BY <1>1, <2>2, <2>3 DEF HookTypeOK, OpenAwaitsReply, Return
  <2>6. NoEarlyReply'
    BY <2>2, <2>3 DEF HookTypeOK, NoEarlyReply, Return, HookSteps
  <2>7. MainGoesWell'
    <3>1. \A t \in Before(step) : t \in HookSteps /\ t # step
      BY DEF Before, HookSteps
    <3>2. \A t \in Before(step) : \A q \in steps[t] : log'[t][q] = log[t][q]
      BY <2>2, <3>1 DEF HookTypeOK
    <3>3. \A t \in Before(step) : /\ Replies(t)' <=> Replies(t)
                                  /\ Gave(t, "KO")' <=> Gave(t, "KO")
                                  /\ Gave(t, "WARNING")' <=> Gave(t, "WARNING")
      BY <3>2 DEF Replies, Gave, Return
    <3>4. QED BY <3>3 DEF MainGoesWell, Return
  <2>8. RevertHasCause'
    <3> SUFFICES ASSUME step = "revert" PROVE RevertHasCause'
      BY DEF RevertHasCause, Return
    <3>1. \A s \in MainSteps : \A q \in steps[s] : log'[s][q] = log[s][q]
      BY <2>2 DEF HookTypeOK, MainSteps, HookSteps
    <3>2. \A s \in MainSteps : /\ Replies(s)' <=> Replies(s)
                               /\ Gave(s, "KO")' <=> Gave(s, "KO")
      BY <3>1 DEF Replies, Gave, Return
    <3>3. \A s \in MainSteps : Before(s) \subseteq MainSteps
      BY DEF Before, MainSteps
    <3>4. QED BY <3>2, <3>3 DEF RevertHasCause, Return
  <2>9. ResultsFollowReplies' /\ SettledAtEnd'
    BY <1>1 DEF ResultsFollowReplies, SettledAtEnd, Return
  <2>10. QED BY <2>4, <2>5, <2>6, <2>7, <2>8, <2>9
<1>2. CASE state # "pending"
  <2>1. UNCHANGED <<steps, step, log, failed, warning, results, state>>
    BY <1>2 DEF Return
  <2>2. state = "rejected"
    BY <1>2 DEF HookTypeOK, OpenAwaitsReply, Return
  <2>3. HookTypeOK' /\ OpenAwaitsReply'
    BY <2>1, <2>2 DEF HookTypeOK, OpenAwaitsReply, Return
  <2>4. NoEarlyReply' /\ MainGoesWell' /\ RevertHasCause'
    BY <2>1 DEF NoEarlyReply, MainGoesWell, RevertHasCause, Replies, Gave
  <2>5. ResultsFollowReplies' /\ SettledAtEnd'
    BY <2>1, <2>2 DEF ResultsFollowReplies, SettledAtEnd
  <2>6. QED BY <2>3, <2>4, <2>5
<1>3. QED BY <1>1, <1>2

LEMMA ThrowH ==
  ASSUME HInv, NEW p \in Plugins, Throw(p)
  PROVE  HInv'
<1> USE DEF HInv
<1>1. HookTypeOK' /\ OpenAwaitsReply'
  BY DEF HookTypeOK, OpenAwaitsReply, Throw
<1>2. NoEarlyReply' /\ RevertHasCause'
  BY DEF NoEarlyReply, RevertHasCause, Replies, Gave, Throw
<1>3. MainGoesWell' /\ ResultsFollowReplies' /\ SettledAtEnd'
  BY DEF MainGoesWell, ResultsFollowReplies, SettledAtEnd, Throw
<1>4. QED BY <1>1, <1>2, <1>3

\* When every function of the step has returned, the engine looks at all the
\* replies of the step.
LEMMA AllReplied ==
  ASSUME HInv, Collect
  PROVE  /\ Replies(step)
         /\ \A p \in steps[step] : log[step][p] \in Status
         /\ Failures \subseteq Plugins /\ Warnings \subseteq Plugins
         /\ \A p \in Plugins :
              /\ p \in steps[step] => Merged[p] = log[step][p]
              /\ p \notin steps[step] => Merged[p] = results[p]
<1> USE DEF HInv
<1>1. Replies(step)
  BY DEF Collect, OpenAwaitsReply, Replies
<1>2. \A p \in steps[step] : log[step][p] \in Status
  BY <1>1 DEF HookTypeOK, Replies
<1>3. Failures \subseteq Plugins /\ Warnings \subseteq Plugins
  BY RepliedType DEF Failures, Warnings, HookTypeOK
<1>4. QED BY <1>1, <1>2, <1>3 DEF Merged

\* Entering a step keeps the type of everything, and no reply is there yet.
LEMMA EnterH ==
  ASSUME HInv, Collect, NEW s \in HookSteps, Enter(s), s # step, s # "pre",
         step \in {"pre", "main"} \/ s = "revert",
         \A p \in Plugins : log[s][p] = "none",
         s = "main" => step = "pre", s = "post" => step = "main",
         step # "revert"
  PROVE  /\ HookTypeOK'
         /\ OpenAwaitsReply'
         /\ NoEarlyReply'
         /\ SettledAtEnd'
         /\ UNCHANGED <<steps, log, state>>
<1> USE DEF HInv
<1>1. HookTypeOK'
  <2>1. results' \in [Plugins -> Status \cup {"none"}]
    BY MergedType, ProvisionalType DEF Enter
  <2>2. failed' \subseteq Plugins /\ warning' \subseteq Plugins
    BY AllReplied DEF Collect
  <2>3. QED BY <2>1, <2>2 DEF HookTypeOK, Enter
<1>2. OpenAwaitsReply'
  BY DEF OpenAwaitsReply, Enter, Collect, HookTypeOK
<1>3. NoEarlyReply'
  BY DEF NoEarlyReply, Enter, HookTypeOK, HookSteps
<1>4. SettledAtEnd'
  BY DEF SettledAtEnd, Enter, Collect
<1>5. QED BY <1>1, <1>2, <1>3, <1>4 DEF Enter

\* The results a step begins with: a reply of the step before, an earlier
\* result, or the provisional OK.
LEMMA EnteredResults ==
  ASSUME HInv, Collect, NEW s \in HookSteps, Enter(s), NEW p \in Plugins
  PROVE  /\ results'[p] = "KO" <=> Merged[p] = "KO"
         /\ results'[p] = "WARNING" <=> Merged[p] = "WARNING"
BY DEF Enter, Provisional

\* What the replies of the step add to the failures and the warnings shows
\* in the results.
LEMMA MergedFollow ==
  ASSUME HInv, Collect, NEW p \in Plugins
  PROVE  /\ p \in Failures /\ (p \notin failed \/ p \notin steps[step]) => Merged[p] = "KO"
         /\ Merged[p] = "KO" => p \in Failures
         /\ Merged[p] = "WARNING" => p \in Warnings
<1> USE DEF HInv
<1>1. CASE p \in steps[step]
  BY <1>1, AllReplied DEF Failures, Warnings, Replied
<1>2. CASE p \notin steps[step]
  <2>1. Merged[p] = results[p]
    BY <1>2, AllReplied
  <2>2. p \in failed => results[p] = "KO"
    BY DEF ResultsFollowReplies, Collect
  <2>3. QED
    BY <1>2, <2>1, <2>2 DEF ResultsFollowReplies, Collect, Failures, Warnings, Replied
<1>3. QED BY <1>1, <1>2

LEMMA ProceedH ==
  ASSUME HInv, Proceed
  PROVE  HInv'
<1> USE DEF HInv
<1> DEFINE next == Following(step)
<1>1. /\ Collect /\ Enter(next) /\ failed' = {}
      /\ step = "pre" => next = "main"
      /\ step = "main" => next = "post"
      /\ step \in {"pre", "main"}
  BY DEF Proceed, Following
<1>2. next \in HookSteps /\ next # step /\ next # "pre" /\ step # "revert"
  BY <1>1 DEF HookSteps
<1>3. \A p \in Plugins : log[next][p] = "none"
  BY <1>1 DEF NoEarlyReply
<1>4. /\ HookTypeOK' /\ OpenAwaitsReply' /\ NoEarlyReply' /\ SettledAtEnd'
      /\ UNCHANGED <<steps, log, state>>
  BY <1>1, <1>2, <1>3, EnterH
<1>5. step' = next
  BY <1>1 DEF Enter
<1>6. ~Gave(step, "KO") /\ failed = {}
  BY <1>1 DEF Collect, Failures, Replied, Gave
<1>7. MainGoesWell'
  <2>1. Before(next) = Before(step) \cup {step}
    BY <1>1 DEF Before
  <2>2. \A t \in Before(step) : Replies(t) /\ ~Gave(t, "KO")
    BY <1>1 DEF MainGoesWell, MainSteps, Collect
  <2>3. \A t \in Before(next) : Replies(t) /\ ~Gave(t, "KO")
    BY <1>1, <1>6, <2>1, <2>2, AllReplied
  <2>4. warning' # {} <=> warning # {} \/ Gave(step, "WARNING")
    BY <1>1 DEF Collect, Warnings, Replied, Gave
  <2>5. warning' # {} <=> \E t \in Before(next) : Gave(t, "WARNING")
    BY <1>1, <2>1, <2>4 DEF MainGoesWell, MainSteps, Collect
  <2>6. \A t : /\ Replies(t)' <=> Replies(t)
               /\ Gave(t, "KO")' <=> Gave(t, "KO")
               /\ Gave(t, "WARNING")' <=> Gave(t, "WARNING")
    BY <1>4 DEF Replies, Gave
  <2>7. QED BY <1>1, <1>5, <2>3, <2>5, <2>6 DEF MainGoesWell
<1>8. RevertHasCause'
  BY <1>1, <1>5 DEF RevertHasCause
<1>9. ResultsFollowReplies'
  <2>1. ASSUME NEW p \in Plugins
        PROVE  /\ p \notin failed'
               /\ results'[p] = "KO" => p \in failed'
               /\ results'[p] = "WARNING" => p \in warning'
    BY <1>1, <1>2, EnteredResults, MergedFollow DEF Collect
  <2>2. QED BY <2>1 DEF ResultsFollowReplies
<1>10. QED BY <1>4, <1>7, <1>8, <1>9

LEMMA RevertH ==
  ASSUME HInv, Revert
  PROVE  HInv'
<1> USE DEF HInv
<1>1. /\ Collect /\ Enter("revert") /\ failed' # {}
      /\ step \in MainSteps /\ state = "pending"
  BY DEF Revert, HookTypeOK, HookSteps, MainSteps, Collect
<1>2. /\ HookTypeOK' /\ OpenAwaitsReply' /\ NoEarlyReply' /\ SettledAtEnd'
      /\ UNCHANGED <<steps, log, state>>
  <2>1. "revert" \in HookSteps /\ step # "revert" /\ \A p \in Plugins : log["revert"][p] = "none"
    BY <1>1 DEF HookSteps, MainSteps, NoEarlyReply
  <2>2. QED BY <1>1, <2>1, EnterH
<1>3. step' = "revert" /\ failed = {}
  BY <1>1 DEF Enter, MainGoesWell
<1>4. MainGoesWell'
  BY <1>3 DEF MainGoesWell, MainSteps
<1>5. RevertHasCause'
  <2>1. Gave(step, "KO")
    BY <1>1, <1>3 DEF Collect, Failures, Replied, Gave
  <2>2. Replies(step) /\ \A t \in Before(step) : Replies(t) /\ ~Gave(t, "KO")
    BY <1>1, AllReplied DEF MainGoesWell
  <2>3. \A t : (Replies(t)' <=> Replies(t)) /\ (Gave(t, "KO")' <=> Gave(t, "KO"))
    BY <1>2 DEF Replies, Gave
  <2>4. QED BY <1>1, <2>1, <2>2, <2>3 DEF RevertHasCause
<1>6. ResultsFollowReplies'
  <2>1. ASSUME NEW p \in Plugins
        PROVE  /\ p \in failed' => results'[p] = "KO"
               /\ results'[p] = "KO" => p \in failed'
               /\ results'[p] = "WARNING" => p \in warning'
    <3>1. "revert" \in HookSteps
      BY DEF HookSteps
    <3>2. QED BY <1>1, <1>3, <3>1, EnteredResults, MergedFollow DEF Collect
  <2>2. QED BY <2>1 DEF ResultsFollowReplies
<1>7. QED BY <1>2, <1>4, <1>5, <1>6

LEMMA SettleH ==
  ASSUME HInv, Settle
  PROVE  HInv'
<1> USE DEF HInv
<1>1. /\ Collect /\ results' = Merged /\ state' = "settled"
      /\ UNCHANGED <<steps, step, open, log>>
      /\ state = "pending"
      /\ step = "revert" \/ (step = "post" /\ failed' = {})
  BY DEF Settle, Collect
<1>2. HookTypeOK'
  BY <1>1, MergedType, AllReplied DEF HookTypeOK, Collect
<1>3. OpenAwaitsReply' /\ NoEarlyReply' /\ MainGoesWell'
  BY <1>1 DEF OpenAwaitsReply, NoEarlyReply, MainGoesWell, Collect
<1>4. RevertHasCause'
  <2>1. failed \subseteq failed'
    BY <1>1 DEF Collect, Failures
  <2>2. \A t : (Replies(t)' <=> Replies(t)) /\ (Gave(t, "KO")' <=> Gave(t, "KO"))
    BY <1>1 DEF Replies, Gave
  <2>3. QED BY <1>1, <2>1, <2>2 DEF RevertHasCause
<1>5. ResultsFollowReplies'
  <2>1. ASSUME NEW p \in Plugins
        PROVE  /\ p \in failed' /\ p \notin steps["revert"] => results'[p] = "KO"
               /\ results'[p] = "KO" => p \in failed'
               /\ results'[p] = "WARNING" => p \in warning'
    <3>1. failed' = Failures /\ warning' = Warnings
      BY <1>1 DEF Collect
    <3>2. CASE step = "revert"
      BY <1>1, <3>1, <3>2, MergedFollow
    <3>3. CASE failed' = {}
      BY <1>1, <3>1, <3>3, MergedFollow
    <3>4. QED BY <1>1, <3>2, <3>3
  <2>2. QED BY <1>1, <2>1 DEF ResultsFollowReplies
<1>6. SettledAtEnd'
  <2>1. Replies(step)'
    BY <1>1, AllReplied DEF Replies
  <2>2. QED BY <1>1, <2>1 DEF SettledAtEnd
<1>7. QED BY <1>2, <1>3, <1>4, <1>5, <1>6

LEMMA StepH == HInv /\ [HookNext]_hookVars => HInv'
<1> SUFFICES ASSUME HInv, [HookNext]_hookVars PROVE HInv'
  OBVIOUS
<1>1. CASE UNCHANGED hookVars
  BY <1>1 DEF hookVars, HInv, HookTypeOK, OpenAwaitsReply, NoEarlyReply, MainGoesWell,
     RevertHasCause, ResultsFollowReplies, SettledAtEnd, Replies, Gave
<1>2. ASSUME NEW p \in Plugins, NEW status \in Status, Return(p, status) PROVE HInv'
  BY <1>2, ReturnH
<1>3. ASSUME NEW p \in Plugins, Throw(p) PROVE HInv'
  BY <1>3, ThrowH
<1>4. CASE Proceed
  BY <1>4, ProceedH
<1>5. CASE Revert
  BY <1>5, RevertH
<1>6. CASE Settle
  BY <1>6, SettleH
<1>7. QED BY <1>1, <1>2, <1>3, <1>4, <1>5, <1>6 DEF HookNext

\* What holds at every step of a hook: a function still open has not replied,
\* none replies before its step, the steps after main and the revert have
\* their cause, and the results merged so far follow the replies
\* (hook.ts:48-135).
THEOREM HookInvariant == HookSpec => []HInv
BY InitH, StepH, PTL DEF HookSpec

\* Whatever plugins subscribe, reply or throw, the variables keep their types.
THEOREM HookTypeCorrect == HookSpec => []HookTypeOK
<1>1. HInv => HookTypeOK
  BY DEF HInv
<1>2. QED BY <1>1, HookInvariant, PTL

\* A settled execution has called the reverts when it failed, and only then
\* (hook.ts:121-124).
THEOREM RevertsWhenFailed == HookSpec => []RevertIffFailed
<1>1. HInv => RevertIffFailed
  <2> SUFFICES ASSUME HInv, state = "settled", NEW p \in steps["revert"]
               PROVE  log["revert"][p] # "none" <=> failed # {}
    BY DEF RevertIffFailed
  <2> USE DEF HInv
  <2>1. CASE step = "revert"
    BY <2>1 DEF SettledAtEnd, Replies, RevertHasCause
  <2>2. CASE step = "post" /\ failed = {}
    BY <2>2 DEF NoEarlyReply, HookTypeOK, HookSteps
  <2>3. QED BY <2>1, <2>2 DEF SettledAtEnd
<1>2. QED BY <1>1, HookInvariant, PTL

\* The results the caller reads agree with the failures and the warnings
\* (hook.ts:48-63 and 88).
THEOREM ResultsAgree == HookSpec => []ResultsMatchFailures
<1>1. HInv => ResultsMatchFailures
  BY DEF HInv, ResultsFollowReplies, ResultsMatchFailures
<1>2. QED BY <1>1, HookInvariant, PTL

-----------------------------------------------------------------------------
(* The refinement of HookOutcome.                                          *)

\* The operators of the contract, read on the state of the engine.
LEMMA Mapped ==
  ASSUME NEW s \in MainSteps
  PROVE  /\ Outcome!Complete(s) <=> Replies(s)
         /\ \A status : Outcome!Some(s, status) <=> Gave(s, status)
         /\ Outcome!Earlier(s) = Before(s) /\ Before(s) \subseteq MainSteps
<1>1. Outcome!Complete(s) <=> Replies(s)
  BY DEF Outcome!Complete, Replies
<1>2. \A status : Outcome!Some(s, status) <=> Gave(s, status)
  BY DEF Outcome!Some, Gave
<1>3. Outcome!Earlier(s) = Before(s) /\ Before(s) \subseteq MainSteps
  BY DEF Outcome!Earlier, Before, MainSteps
<1>4. QED BY <1>1, <1>2, <1>3

LEMMA MappedReached ==
  ASSUME NEW s \in MainSteps
  PROVE  Outcome!Reached(s) <=> \A t \in Before(s) : Replies(t) /\ ~Gave(t, "KO")
<1>1. \A t \in Before(s) : t \in MainSteps
  BY Mapped
<1>2. \A t \in Before(s) : /\ Outcome!Complete(t) <=> Replies(t)
                           /\ Outcome!Some(t, "KO") <=> Gave(t, "KO")
  BY <1>1, Mapped
<1>3. QED BY <1>2, Mapped DEF Outcome!Reached

LEMMA InitMapped == HookInit => Outcome!Init
<1> SUFFICES ASSUME HookInit PROVE Outcome!Init
  OBVIOUS
<1>1. \A s \in MainSteps : s \in HookSteps
  BY DEF MainSteps, HookSteps
<1>2. [s \in MainSteps |-> steps[s]] \in [MainSteps -> SUBSET Plugins]
  BY <1>1 DEF HookInit
<1>3. [s \in MainSteps |-> log[s]] = [s \in MainSteps |-> [p \in Plugins |-> "none"]]
  BY <1>1 DEF HookInit
<1>4. Verdict = "pending"
  BY DEF HookInit, Verdict
<1>5. QED BY <1>2, <1>3, <1>4 DEF Outcome!Init, Outcome!MainSteps, MainSteps

\* A step that changes neither the replies of the main steps nor the verdict
\* is nothing to the caller.
LEMMA Unseen ==
  ASSUME steps' = steps, Verdict' = Verdict,
         \A s \in MainSteps : log'[s] = log[s]
  PROVE  UNCHANGED Outcome!outcomeVars
BY DEF Outcome!outcomeVars

LEMMA ReturnMapped ==
  ASSUME HInv, NEW p \in Plugins, NEW status \in Status, Return(p, status)
  PROVE  [Outcome!Next]_Outcome!outcomeVars
<1> USE DEF HInv
<1>1. Verdict' = Verdict
  BY DEF Verdict, Return
<1>2. CASE state = "pending" /\ step \in MainSteps
  <2>1. /\ log' = [log EXCEPT ![step][p] = status]
        /\ p \in steps[step] /\ log[step][p] = "none"
    BY <1>2 DEF Return, OpenAwaitsReply
  <2>2. Outcome!Reached(step)
    BY <1>2, MappedReached DEF MainGoesWell
  <2>3. [s \in MainSteps |-> log[s]]'
          = [[s \in MainSteps |-> log[s]] EXCEPT ![step][p] = status]
    <3>1. \A s \in MainSteps : s \in HookSteps
      BY DEF MainSteps, HookSteps
    <3>2. QED BY <1>2, <2>1, <3>1 DEF HookTypeOK
  <2>4. Verdict = "pending"
    BY <1>2 DEF Verdict
  <2>5. Outcome!Reply(step, p, status)
    BY <1>1, <1>2, <2>1, <2>2, <2>3, <2>4 DEF Outcome!Reply, Return
  <2>6. step \in Outcome!MainSteps /\ status \in Outcome!Status
    BY <1>2 DEF MainSteps, Outcome!MainSteps, Status, Outcome!Status
  <2>7. QED BY <2>5, <2>6 DEF Outcome!Next
<1>3. CASE state = "pending" /\ step = "revert"
  <2>1. \A s \in MainSteps : log'[s] = log[s]
    BY <1>3 DEF Return, HookTypeOK, MainSteps, HookSteps
  <2>2. QED BY <1>1, <2>1, Unseen DEF Return
<1>4. CASE state # "pending"
  BY <1>1, <1>4, Unseen DEF Return
<1>5. QED BY <1>2, <1>3, <1>4 DEF HookTypeOK, HookSteps, MainSteps

LEMMA ThrowMapped ==
  ASSUME HInv, NEW p \in Plugins, Throw(p)
  PROVE  [Outcome!Next]_Outcome!outcomeVars
<1> USE DEF HInv
<1>1. state # "settled" /\ Verdict' = "rejected" /\ UNCHANGED <<steps, log>>
  BY DEF Throw, OpenAwaitsReply, Verdict
<1>2. CASE state = "pending"
  BY <1>1, <1>2 DEF Verdict, Outcome!Throw, Outcome!Next
<1>3. CASE state = "rejected"
  BY <1>1, <1>3, Unseen DEF Verdict
<1>4. QED BY <1>1, <1>2, <1>3 DEF HookTypeOK

LEMMA EnterMapped ==
  ASSUME HInv, Proceed \/ Revert
  PROVE  [Outcome!Next]_Outcome!outcomeVars
<1>1. state = "pending" /\ UNCHANGED <<steps, log, state>>
  BY DEF Proceed, Revert, Collect, Enter
<1>2. QED BY <1>1, Unseen DEF Verdict

LEMMA SettleMapped ==
  ASSUME HInv, Settle
  PROVE  [Outcome!Next]_Outcome!outcomeVars
<1> USE DEF HInv
<1>1. /\ Collect /\ UNCHANGED <<steps, log>>
      /\ state = "pending" /\ state' = "settled" /\ Verdict = "pending"
      /\ failed \subseteq failed'
  BY DEF Settle, Collect, Failures, Verdict
<1>2. CASE step = "revert"
  <2>1. PICK s \in MainSteps :
          /\ \A t \in Before(s) : Replies(t) /\ ~Gave(t, "KO")
          /\ Replies(s) /\ Gave(s, "KO")
    BY <1>2 DEF RevertHasCause
  <2>2. Outcome!Reached(s) /\ Outcome!Complete(s) /\ Outcome!Some(s, "KO")
    BY <2>1, Mapped, MappedReached
  <2>3. Verdict' = "failed"
    BY <1>1, <1>2 DEF Verdict, RevertHasCause
  <2>4. Outcome!Fail
    BY <1>1, <2>2, <2>3 DEF Outcome!Fail, MainSteps, Outcome!MainSteps
  <2>5. QED BY <2>4 DEF Outcome!Next
<1>3. CASE step = "post" /\ failed' = {}
  <2>1. \A t \in {"pre", "main"} : Replies(t) /\ ~Gave(t, "KO")
    BY <1>1, <1>3 DEF MainGoesWell, MainSteps, Before
  <2>2. Replies("post") /\ ~Gave("post", "KO")
    BY <1>1, <1>3, AllReplied DEF Collect, Failures, Replied, Gave
  <2>3. warning' # {} <=> \E s \in MainSteps : Gave(s, "WARNING")
    <3>1. warning # {} <=> \E t \in {"pre", "main"} : Gave(t, "WARNING")
      BY <1>1, <1>3 DEF MainGoesWell, MainSteps, Before
    <3>2. warning' # {} <=> warning # {} \/ Gave("post", "WARNING")
      BY <1>1, <1>3 DEF Collect, Warnings, Replied, Gave
    <3>3. QED BY <3>1, <3>2 DEF MainSteps
  <2>4. Verdict' = IF \E s \in MainSteps : Gave(s, "WARNING") THEN "warning" ELSE "done"
    BY <1>1, <1>3, <2>3 DEF Verdict
  <2>5. \A s \in MainSteps : Outcome!Complete(s) /\ ~Outcome!Some(s, "KO")
    BY <2>1, <2>2, Mapped DEF MainSteps
  <2>6. (\E s \in MainSteps : Gave(s, "WARNING")) <=> \E s \in MainSteps : Outcome!Some(s, "WARNING")
    BY Mapped
  <2>7. Outcome!Succeed
    BY <1>1, <2>4, <2>5, <2>6 DEF Outcome!Succeed, MainSteps, Outcome!MainSteps
  <2>8. QED BY <2>7 DEF Outcome!Next
<1>4. QED BY <1>2, <1>3 DEF Settle

\* Every step of the engine is a step of the contract, or none.
LEMMA StepMapped == HInv /\ [HookNext]_hookVars => [Outcome!Next]_Outcome!outcomeVars
<1> SUFFICES ASSUME HInv, [HookNext]_hookVars
             PROVE  [Outcome!Next]_Outcome!outcomeVars
  OBVIOUS
<1>1. CASE UNCHANGED hookVars
  BY <1>1, Unseen DEF hookVars, Verdict
<1>2. ASSUME NEW p \in Plugins, NEW status \in Status, Return(p, status)
      PROVE  [Outcome!Next]_Outcome!outcomeVars
  BY <1>2, ReturnMapped
<1>3. ASSUME NEW p \in Plugins, Throw(p)
      PROVE  [Outcome!Next]_Outcome!outcomeVars
  BY <1>3, ThrowMapped
<1>4. CASE Proceed \/ Revert
  BY <1>4, EnterMapped
<1>5. CASE Settle
  BY <1>5, SettleMapped
<1>6. QED BY <1>1, <1>2, <1>3, <1>4, <1>5 DEF HookNext

\* The engine gives its callers the verdict their contract defines from the
\* replies of the plugins, and asks nothing of a plugin after a failure
\* (hook.ts:103-135, hook-wrapper.ts:80-94).
THEOREM EngineImplementsOutcome == HookSpec => ImplementsOutcome
<1>1. HookInit => Outcome!Init
  BY InitMapped
<1>2. HInv /\ [HookNext]_hookVars => [Outcome!Next]_Outcome!outcomeVars
  BY StepMapped
<1>3. QED BY <1>1, <1>2, HookInvariant, PTL DEF HookSpec, ImplementsOutcome, Outcome!Spec
=============================================================================
