--------------------------- MODULE LifecycleProofs ---------------------------
(***************************************************************************)
(* Proofs about one project (ProjectLifecycle), for any number of requests *)
(* at a time, of environments, repositories and clusters, whatever the     *)
(* hooks end in and however handlers and executions interleave.            *)
(***************************************************************************)
EXTENDS ProjectLifecycle, TLAPS

-----------------------------------------------------------------------------
(* Where a request and its execution are.                                  *)

BeforeCall == {"idle", "read", "write", "org", "empty", "call"}

\* The handler of a request and its call of the hook agree.
HandlerOK(r) ==
  /\ rpc[r] # "idle" => op[r] \in Operation
  /\ rpc[r] \in {"empty", "unlock"} => Kind(r) = "archive"
  /\ rpc[r] = "org" => Kind(r) \in {"orgOff", "orgOn"}
  /\ rpc[r] # "done" => result[r] = "none"
  /\ rpc[r] \in BeforeCall => pc[r] = "idle"
  /\ pc[r] = "waiting" => rpc[r] = "hook" /\ todo[r] = PayloadQueries
  /\ pc[r] = "served" => rpc[r] \in {"hook", "unlock", "done"} /\ answer[r] = r
  /\ pc[r] = "served" <=> exec[r] # "none"
  /\ pc[r] # "idle" => /\ op[r] \in Operation
                       /\ call[r].method = HookMethod(r) /\ call[r].id = Project

\* The answer of a request says how its execution ended.
AnswerOK(r) ==
  /\ rpc[r] = "unlock" => exec[r] = "resolved"
  /\ rpc[r] = "done" =>
       /\ exec[r] # "running"
       /\ exec[r] = "rejected" => result[r] = "threw"
       /\ exec[r] = "resolved" => result[r] = IF outcome[r] = "failed" THEN "failed" ELSE "ok"

ExecutionOK(x) ==
  /\ exec[x] = "none" => xpc[x] = "read"
  /\ exec[x] = "resolved" => xpc[x] = "end"
  /\ exec[x] # "none" => todo[x] \subseteq PayloadQueries
  /\ xpc[x] # "read" => todo[x] = {}
  /\ xpc[x] = "history" => outcome[x] \in {"done", "warning"}
  /\ xpc[x] \in {"status", "end"} => outcome[x] # "none"

BaseInv ==
  /\ TypeOK
  /\ \A r \in Requests : HandlerOK(r) /\ AnswerOK(r) /\ ExecutionOK(r)

-----------------------------------------------------------------------------
(* A row that was created reaches the execution that answers.              *)

Creates(r, t) == op[r] \in Ask("createEnv", t) \cup Ask("createRepo", t)

\* Nobody was asked to remove it.
Kept(t) ==
  \A q \in Requests :
    rpc[q] # "idle" =>
      op[q] \notin Ask("archive", None) \cup Ask("deleteEnv", t) \cup Ask("deleteRepo", t)

HasRow(r, t) ==
  IF Kind(r) = "createEnv" THEN t \in envs ELSE t \in RepoNames

Holds(x, t) == t \in snapshot[x].envs \cup snapshot[x].repos

Delivering(r, t) ==
  /\ rpc[r] \in {"call", "hook"} => HasRow(r, t)
  /\ rpc[r] = "hook" => Holds(r, t) \/ (xpc[r] = "read" /\ "project" \in todo[r])
  /\ result[r] = "ok" => Holds(r, t) /\ exec[r] = "resolved"

DeliveryInv ==
  \A r \in Requests, t \in Envs \cup Repos :
    Creates(r, t) /\ Kept(t) => Delivering(r, t)

-----------------------------------------------------------------------------
(* A failure of the project has an execution to blame.                     *)

Culprit(x) == exec[x] # "none" /\ (xpc[x] = "end" => outcome[x] = "failed")

FailureInv == status = "failed" => \E x \in Requests : Culprit(x)

-----------------------------------------------------------------------------
(* What an undisturbed execution knows of the services.                    *)

\* What the execution leaves on the services, when it has looked for what is
\* there on every cluster of the history.
Left(x) ==
  [envs |-> IF Method(x) = "upsert" THEN snapshot[x].envs ELSE {},
   repos |-> IF Method(x) = "upsert" THEN snapshot[x].repos ELSE {}]

Known == ClustersOf(services.envs) \subseteq history

Tracking(x) ==
  /\ xpc[x] # "history" => Known
  /\ xpc[x] \in {"read", "hook"} /\ "history" \notin todo[x] =>
       history \subseteq snapshot[x].clusters
  /\ xpc[x] = "history" \/ (xpc[x] = "status" /\ Method(x) = "delete") =>
       services = Left(x)

TrackInv ==
  clean => /\ Undisturbed
           /\ (\A x \in Requests : ~Running(x)) => Known
           /\ \A x \in Requests : Running(x) => Tracking(x)

-----------------------------------------------------------------------------
(* Why rows and services end up the same.                                  *)

Archives(r) == rpc[r] # "idle" /\ op[r] \in Ask("archive", None)

\* The condition of CleanRunsConverge, while requests are in progress.
Calm ==
  /\ clean
  /\ \A r \in Requests : pc[r] # "refused"
  /\ \A r \in Requests : Archives(r) => result[r] \in {"none", "ok"}

NoArchive == \A r \in Requests : ~Archives(r)

\* Services that hold these environments and repositories are as promised.
Matches(es, rs) ==
  /\ es \subseteq envs /\ rs \subseteq RepoNames
  /\ NoArchive => es = envs /\ rs = RepoNames

\* An execution has still to begin for the request.
Coming(r) == rpc[r] \in {"empty", "call"} \/ pc[r] = "waiting"

Reading(x) == Running(x) /\ xpc[x] \in {"read", "hook"}

\* The execution has still to read the rows, or has read them as they are.
Current(x) == "project" \in todo[x] \/ Matches(Left(x).envs, Left(x).repos)

ConvergeInv ==
  Calm =>
    /\ \/ Matches(services.envs, services.repos)
       \/ \E r \in Requests : Coming(r) \/ (Reading(r) /\ Current(r))
    /\ \A x \in Requests : Reading(x) => Current(x) \/ \E r \in Requests : Coming(r)

LInv == BaseInv /\ DeliveryInv /\ FailureInv /\ TrackInv /\ ConvergeInv

-----------------------------------------------------------------------------
(* Types.                                                                  *)

USE DEF rowVars, requestVars, execVars, proxyVars

ProxyTypes ==
  /\ currentExec \in [ProjectMethods -> [{Project} \cup {None} -> Requests \cup {None}]]
  /\ nextArgs \in [ProjectMethods -> [{Project} -> Proxy!Args]]
  /\ call \in [Requests -> Proxy!Invocation \cup {None}]
  /\ pc \in [Requests -> {"idle", "waiting", "served", "refused"}]
  /\ waitOn \in [Requests -> Requests \cup {None}]
  /\ answer \in [Requests -> Requests \cup {None}]
  /\ exec \in [Requests -> {"none", "running", "resolved", "rejected"}]
  /\ execArgs \in [Requests -> Proxy!Args]

LEMMA ProxyTyped == Proxy!TypeOK <=> ProxyTypes
BY DEF Proxy!TypeOK, ProxyTypes, Proxy!CallState, Proxy!ExecState

\* A call of the hook by a request that has not called it yet.
LEMMA CallTyped ==
  ASSUME ProxyTypes, NEW r \in Requests, NEW m \in ProjectMethods,
         Proxy!Call(r, m, Project, Proxy!NoArgs)
  PROVE  ProxyTypes'
<1>1. Proxy!NoArgs \in Proxy!Args
  BY DEF Proxy!NoArgs, Proxy!Args
<1>2. Proxy!Invoke(m, Project, Proxy!NoArgs) \in Proxy!Invocation
  BY <1>1 DEF Proxy!Invoke, Proxy!Invocation
<1>3. call' \in [Requests -> Proxy!Invocation \cup {None}]
  BY <1>2 DEF ProxyTypes, Proxy!Call, Proxy!Refuse, Proxy!Join, Proxy!Start, Proxy!Register
<1>4. CASE Proxy!Refuse(r, m, Project, Proxy!NoArgs)
  BY <1>3, <1>4 DEF ProxyTypes, Proxy!Refuse
<1>5. CASE Proxy!Join(r, m, Project, Proxy!NoArgs)
  <2>1. nextArgs[m][Project] \in Proxy!Args
    BY DEF ProxyTypes
  <2>2. Proxy!Merge(nextArgs[m][Project], Proxy!NoArgs) \in Proxy!Args
    BY <2>1 DEF Proxy!Merge, Proxy!Args
  <2>3. /\ pc' = [pc EXCEPT ![r] = "waiting"]
        /\ waitOn' = [waitOn EXCEPT ![r] = currentExec[m][Project]]
        /\ nextArgs' = [nextArgs EXCEPT ![m][Project] =
                          Proxy!Merge(nextArgs[m][Project], Proxy!NoArgs)]
        /\ UNCHANGED <<currentExec, answer, exec, execArgs>>
    BY <1>5 DEF Proxy!Join
  <2>4. nextArgs' \in [ProjectMethods -> [{Project} -> Proxy!Args]]
    BY <2>2, <2>3 DEF ProxyTypes
  <2>5. currentExec[m][Project] \in Requests \cup {None}
    BY DEF ProxyTypes
  <2>6. /\ waitOn' \in [Requests -> Requests \cup {None}]
        /\ pc' \in [Requests -> {"idle", "waiting", "served", "refused"}]
    BY <2>3, <2>5 DEF ProxyTypes
  <2>7. QED BY <1>3, <2>3, <2>4, <2>6 DEF ProxyTypes
<1>6. CASE Proxy!Start(r, m, Project, Proxy!NoArgs)
  BY <1>1, <1>3, <1>6 DEF ProxyTypes, Proxy!Start
<1>7. QED BY <1>4, <1>5, <1>6 DEF Proxy!Call

LEMMA ResolveTyped ==
  ASSUME ProxyTypes, NEW x \in Requests, call[x].method \in ProjectMethods,
         call[x].id = Project, Proxy!Resolve(x)
  PROVE  ProxyTypes'
<1>1. nextArgs[call[x].method][call[x].id] \in Proxy!Args
  BY DEF ProxyTypes
<1>2. QED BY <1>1 DEF ProxyTypes, Proxy!Resolve

LEMMA RejectTyped ==
  ASSUME ProxyTypes, NEW x \in Requests, Proxy!Reject(x)
  PROVE  ProxyTypes'
BY DEF ProxyTypes, Proxy!Reject

\* What the rows, the requests and the executions may be.
LocalTypes ==
  /\ status \in RowStatus /\ locked \in BOOLEAN /\ orgActive \in BOOLEAN
  /\ envs \subseteq Envs /\ repos \in [Repos -> Nat] /\ history \subseteq Clusters
  /\ services \in [envs : SUBSET Envs, repos : SUBSET Repos]
  /\ op \in [Requests -> Operation \cup {None}]
  /\ rpc \in [Requests -> {"idle", "read", "write", "org", "empty", "call",
                           "hook", "unlock", "done"}]
  /\ todo \in [Requests -> SUBSET (EmptyQueries \cup PayloadQueries)]
  /\ seen \in [Requests -> [status : RowStatus, locked : BOOLEAN]]
  /\ result \in [Requests -> {"none", "ok", "failed", "forbidden", "threw"}]
  /\ xpc \in [Requests -> {"read", "hook", "history", "status", "end"}]
  /\ snapshot \in [Requests -> [envs : SUBSET Envs, repos : SUBSET Repos,
                                clusters : SUBSET Clusters]]
  /\ outcome \in [Requests -> {"none", "done", "warning", "failed"}]
  /\ attempt \in [Requests -> 1..2]
  /\ clean \in BOOLEAN

LEMMA Typed == TypeOK <=> LocalTypes /\ ProxyTypes
BY ProxyTyped DEF TypeOK, LocalTypes

LEMMA OperationShape ==
  ASSUME NEW o \in Operation
  PROVE  /\ o.kind \in EnvKinds => o.target \in Envs
         /\ o.kind \in RepoKinds => o.target \in Repos
         /\ o.kind \notin EnvKinds \cup RepoKinds => o.target = None
         /\ o \in Ask(o.kind, o.target)
BY DEF Operation, EnvKinds, RepoKinds, Ask

\* The steps of a handler that call nothing.
Handling(r) ==
  \/ \E o \in Operation : Receive(r, o)
  \/ ReadProject(r) \/ ReadNames(r) \/ ReadOrganization(r)
  \/ WriteProject(r) \/ WriteEnv(r) \/ WriteRepo(r)
  \/ WriteLocks(r) \/ WriteOrganization(r)
  \/ EmptyStep(r) \/ CheckArchive(r) \/ Answer(r) \/ Unlock(r)

\* The steps of an execution that do not end it.
Executing(x) ==
  \/ ReadPayload(x) \/ (ReadAll(x) /\ UNCHANGED proxyVars)
  \/ \E res \in Outcomes : RunHook(x, res)
  \/ WriteHistory(x) \/ WriteStatus(x) \/ Retry(x)

\* An execution that is rejected changes nothing else.
Rejecting(x) ==
  Proxy!Reject(x) /\ UNCHANGED <<rowVars, services, requestVars, todo, execVars>>

LEMMA NextForms ==
  ASSUME Next
  PROVE  /\ Note
         /\ \E r \in Requests :
              Handling(r) \/ CallHook(r) \/ Executing(r) \/ End(r) \/ Rejecting(r)
<1>1. PICK r \in Requests :
        (\E o \in Operation : Receive(r, o)) \/ Handle(r) \/ Execute(r) \/ Throw(r)
  BY DEF Next
<1>2. CASE \E o \in Operation : Receive(r, o)
  BY <1>2 DEF Next, Handling
<1>3. CASE Handle(r)
  BY <1>3 DEF Next, Handle, Handling
<1>4. CASE Execute(r)
  BY <1>4 DEF Next, Execute, Executing, ReadAll, Rejecting
<1>5. CASE Throw(r)
  BY <1>5 DEF Next, Throw, Rejecting
<1>6. QED BY <1>1, <1>2, <1>3, <1>4, <1>5

-----------------------------------------------------------------------------
(* The base of the invariant.                                              *)

\* Nothing changes for a request.
Same(q) ==
  /\ op'[q] = op[q] /\ rpc'[q] = rpc[q] /\ result'[q] = result[q]
  /\ todo'[q] = todo[q] /\ xpc'[q] = xpc[q] /\ outcome'[q] = outcome[q]
  /\ pc'[q] = pc[q] /\ answer'[q] = answer[q] /\ exec'[q] = exec[q]
  /\ call'[q] = call[q]

RequestOK(r) == HandlerOK(r) /\ AnswerOK(r) /\ ExecutionOK(r)

LEMMA SameKept ==
  ASSUME NEW q \in Requests, RequestOK(q), Same(q)
  PROVE  RequestOK(q)'
BY DEF Same, RequestOK, HandlerOK, AnswerOK, ExecutionOK, HookMethod, Kind

LEMMA HandlingTyped ==
  ASSUME LocalTypes, NEW r \in Requests, RequestOK(r), Handling(r),
         clean' \in BOOLEAN
  PROVE  LocalTypes'
<1>1. CASE \E o \in Operation : Receive(r, o)
  <2>1. PICK o \in Operation : Receive(r, o)
    BY <1>1
  <2>2. FirstStep(o.kind) \in {"write", "empty", "read"}
    BY DEF FirstStep
  <2>3. /\ rpc' \in [Requests -> {"idle", "read", "write", "org", "empty", "call",
                                  "hook", "unlock", "done"}]
        /\ result' \in [Requests -> {"none", "ok", "failed", "forbidden", "threw"}]
    BY <2>1, <2>2 DEF LocalTypes, Receive, Goto, Finish
  <2>4. op' \in [Requests -> Operation \cup {None}]
    BY <2>1 DEF LocalTypes, Receive
  <2>5. todo' \in [Requests -> SUBSET (EmptyQueries \cup PayloadQueries)]
    BY <2>1 DEF LocalTypes, Receive
  <2>6. QED BY <2>1, <2>3, <2>4, <2>5 DEF LocalTypes, Receive
<1>2. CASE ReadProject(r)
  BY <1>2 DEF LocalTypes, ReadProject, Goto, Finish
<1>3. CASE ReadNames(r)
  BY <1>3 DEF LocalTypes, ReadNames, Goto, Finish
<1>4. CASE ReadOrganization(r)
  BY <1>4 DEF LocalTypes, ReadOrganization, Goto, Finish
<1>5. CASE WriteProject(r)
  BY <1>5 DEF LocalTypes, WriteProject, Goto
<1>6. CASE WriteEnv(r)
  <2>1. op[r] \in Operation
    BY <1>6 DEF WriteEnv, At, RequestOK, HandlerOK
  <2>2. Target(r) \in Envs
    BY <1>6, <2>1, OperationShape DEF WriteEnv, Kind, Target
  <2>3. /\ rpc' \in [Requests -> {"idle", "read", "write", "org", "empty", "call",
                                  "hook", "unlock", "done"}]
        /\ result' \in [Requests -> {"none", "ok", "failed", "forbidden", "threw"}]
    BY <1>6 DEF LocalTypes, WriteEnv, Goto, Finish
  <2>4. envs' \subseteq Envs
    BY <1>6, <2>2 DEF LocalTypes, WriteEnv
  <2>5. QED BY <1>6, <2>3, <2>4 DEF LocalTypes, WriteEnv
<1>7. CASE WriteRepo(r)
  <2>1. op[r] \in Operation
    BY <1>7 DEF WriteRepo, At, RequestOK, HandlerOK
  <2>2. Target(r) \in Repos /\ repos[Target(r)] \in Nat
    BY <1>7, <2>1, OperationShape DEF WriteRepo, Kind, Target, LocalTypes
  <2>3. repos' \in [Repos -> Nat]
    BY <1>7, <2>2 DEF LocalTypes, WriteRepo, RepoNames, RepoKinds
  <2>4. QED BY <1>7, <2>3 DEF LocalTypes, WriteRepo, Goto, Finish
<1>8. CASE WriteLocks(r)
  BY <1>8 DEF LocalTypes, WriteLocks, Goto
<1>9. CASE WriteOrganization(r)
  BY <1>9 DEF LocalTypes, WriteOrganization, Finish
<1>10. CASE EmptyStep(r)
  BY <1>10 DEF LocalTypes, EmptyStep, Row
<1>11. CASE CheckArchive(r)
  BY <1>11 DEF LocalTypes, CheckArchive, Goto, Finish
<1>12. CASE Answer(r)
  BY <1>12 DEF LocalTypes, Answer, Goto, Finish, Verdict
<1>13. CASE Unlock(r)
  BY <1>13 DEF LocalTypes, Unlock, Finish, Verdict
<1>14. QED
  BY <1>1, <1>2, <1>3, <1>4, <1>5, <1>6, <1>7, <1>8, <1>9, <1>10, <1>11, <1>12, <1>13
     DEF Handling

LEMMA ExecutingTyped ==
  ASSUME LocalTypes, NEW x \in Requests, RequestOK(x), Executing(x),
         clean' \in BOOLEAN
  PROVE  LocalTypes'
<1>1. CASE ReadPayload(x)
  <2>1. /\ snapshot[x] \in [envs : SUBSET Envs, repos : SUBSET Repos,
                             clusters : SUBSET Clusters]
        /\ RepoNames \subseteq Repos /\ envs \subseteq Envs
        /\ ClustersOf(envs) \subseteq Clusters /\ history \subseteq Clusters
    BY LifecycleAssumption DEF LocalTypes, RepoNames, ClustersOf
  <2>2. PICK q \in todo[x] :
          /\ todo' = [todo EXCEPT ![x] = @ \ {q}]
          /\ snapshot' = CASE q = "project" ->
                                [snapshot EXCEPT ![x].envs = envs,
                                                 ![x].repos = RepoNames]
                           [] q = "history" ->
                                [snapshot EXCEPT ![x].clusters = @ \cup history]
                           [] q = "clusters" ->
                                [snapshot EXCEPT ![x].clusters =
                                   @ \cup ClustersOf(envs)]
    BY <1>1 DEF ReadPayload
  <2>3. q \in PayloadQueries
    BY <1>1, <2>2 DEF ReadPayload, Running, RequestOK, ExecutionOK
  <2>4. snapshot' \in [Requests -> [envs : SUBSET Envs, repos : SUBSET Repos,
                                     clusters : SUBSET Clusters]]
    <3>1. CASE q = "project"
      BY <2>1, <2>2, <3>1 DEF LocalTypes
    <3>2. CASE q = "history"
      BY <2>1, <2>2, <3>2 DEF LocalTypes
    <3>3. CASE q = "clusters"
      BY <2>1, <2>2, <3>3 DEF LocalTypes
    <3>4. QED BY <2>3, <3>1, <3>2, <3>3 DEF PayloadQueries
  <2>5. todo' \in [Requests -> SUBSET (EmptyQueries \cup PayloadQueries)]
    BY <2>2 DEF LocalTypes
  <2>6. QED BY <1>1, <2>4, <2>5 DEF LocalTypes, ReadPayload
<1>2. CASE ReadAll(x) /\ UNCHANGED proxyVars
  BY <1>2 DEF LocalTypes, ReadAll
<1>3. CASE \E res \in Outcomes : RunHook(x, res)
  BY <1>3, LifecycleAssumption
     DEF LocalTypes, RunHook, Namespaces, Repositories
<1>4. CASE WriteHistory(x)
  BY <1>4, LifecycleAssumption DEF LocalTypes, WriteHistory, ClustersOf
<1>5. CASE WriteStatus(x)
  BY <1>5 DEF LocalTypes, WriteStatus, StatusAfter, RowStatus, RequestOK, ExecutionOK
<1>6. CASE Retry(x)
  BY <1>6 DEF LocalTypes, Retry, NoPayload
<1>7. QED BY <1>1, <1>2, <1>3, <1>4, <1>5, <1>6 DEF Executing

\* Every step leaves the other requests as they are, and the request that
\* moves in order.
LEMMA HandlingBase ==
  ASSUME LocalTypes, ProxyTypes, NEW r \in Requests, RequestOK(r), Handling(r)
  PROVE  /\ \A q \in Requests \ {r} : Same(q)
         /\ RequestOK(r)'
         /\ UNCHANGED proxyVars
<1>0. /\ UNCHANGED proxyVars
      /\ UNCHANGED execVars
  BY DEF Handling, Receive, ReadProject, ReadNames, ReadOrganization, WriteProject,
         WriteEnv, WriteRepo, WriteLocks, WriteOrganization, EmptyStep, CheckArchive,
         Answer, Unlock
<1>1. \A q \in Requests \ {r} :
        /\ op'[q] = op[q] /\ rpc'[q] = rpc[q] /\ result'[q] = result[q]
        /\ todo'[q] = todo[q]
  <2>1. ASSUME NEW o \in Operation, Receive(r, o)
        PROVE  \A q \in Requests \ {r} :
                 /\ op'[q] = op[q] /\ rpc'[q] = rpc[q] /\ result'[q] = result[q]
                 /\ todo'[q] = todo[q]
    BY <2>1 DEF LocalTypes, Receive, Goto, Finish
  <2>2. CASE ReadProject(r) \/ ReadNames(r) \/ ReadOrganization(r) \/ CheckArchive(r)
    BY <2>2 DEF LocalTypes, ReadProject, ReadNames, ReadOrganization, CheckArchive,
                Goto, Finish
  <2>3. CASE WriteProject(r) \/ WriteEnv(r) \/ WriteRepo(r)
    BY <2>3 DEF LocalTypes, WriteProject, WriteEnv, WriteRepo, Goto, Finish
  <2>4. CASE WriteLocks(r) \/ WriteOrganization(r) \/ EmptyStep(r)
    BY <2>4 DEF LocalTypes, WriteLocks, WriteOrganization, EmptyStep, Goto, Finish
  <2>5. CASE Answer(r) \/ Unlock(r)
    BY <2>5 DEF LocalTypes, Answer, Unlock, Goto, Finish
  <2>6. QED BY <2>1, <2>2, <2>3, <2>4, <2>5 DEF Handling
<1>2. \A q \in Requests \ {r} : Same(q)
  BY <1>0, <1>1 DEF Same
<1>3. RequestOK(r)'
  <2>1. ASSUME NEW o \in Operation, Receive(r, o)
        PROVE  RequestOK(r)'
    <3>1. /\ op'[r] = o /\ rpc[r] = "idle"
          /\ \/ rpc'[r] = FirstStep(o.kind) /\ result'[r] = result[r]
             \/ rpc'[r] = "done" /\ result'[r] = "forbidden"
          /\ rpc'[r] = "empty" => o.kind = "archive"
      BY <2>1 DEF LocalTypes, Receive, At, Goto, Finish, FirstStep
    <3>2. FirstStep(o.kind) \in {"write", "empty", "read"}
      BY DEF FirstStep
    <3>3. pc[r] = "idle" /\ exec[r] = "none" /\ xpc[r] = "read"
      BY <3>1 DEF RequestOK, HandlerOK, AnswerOK, ExecutionOK, BeforeCall, ProxyTypes
    <3>4. QED
      BY <1>0, <3>1, <3>2, <3>3
         DEF RequestOK, HandlerOK, AnswerOK, ExecutionOK, BeforeCall, Kind
  <2>2. CASE ReadProject(r) \/ ReadNames(r) \/ ReadOrganization(r) \/ CheckArchive(r)
    <3>1. /\ op'[r] = op[r] /\ todo'[r] = todo[r] /\ rpc[r] \in {"read", "empty"}
          /\ \/ rpc'[r] \in {"write", "org", "call"} /\ result'[r] = result[r]
             \/ rpc'[r] = "done" /\ result'[r] = "forbidden"
          /\ rpc'[r] = "org" => Kind(r) \in {"orgOff", "orgOn"}
      BY <2>2 DEF LocalTypes, ReadProject, ReadNames, ReadOrganization, CheckArchive,
                  At, Goto, Finish
    <3>2. pc[r] = "idle" /\ exec[r] = "none"
      BY <3>1 DEF RequestOK, HandlerOK, BeforeCall, ProxyTypes
    <3>3. QED
      BY <1>0, <3>1, <3>2
         DEF RequestOK, HandlerOK, AnswerOK, ExecutionOK, BeforeCall, Kind
  <2>3. CASE \/ WriteProject(r) \/ WriteEnv(r) \/ WriteRepo(r)
             \/ WriteLocks(r) \/ WriteOrganization(r)
    <3>1. /\ op'[r] = op[r] /\ todo'[r] = todo[r] /\ rpc[r] \in {"write", "org"}
          /\ \/ rpc'[r] \in {"org", "call"} /\ result'[r] = result[r]
             \/ rpc'[r] = "done" /\ result'[r] \in {"threw", "ok"}
          /\ rpc'[r] = "org" => Kind(r) \in {"orgOff", "orgOn"}
      BY <2>3 DEF LocalTypes, WriteProject, WriteEnv, WriteRepo, WriteLocks,
                  WriteOrganization, At, Goto, Finish
    <3>2. pc[r] = "idle" /\ exec[r] = "none"
      BY <3>1 DEF RequestOK, HandlerOK, BeforeCall, ProxyTypes
    <3>3. QED
      BY <1>0, <3>1, <3>2
         DEF RequestOK, HandlerOK, AnswerOK, ExecutionOK, BeforeCall, Kind
  <2>4. CASE EmptyStep(r)
    <3>1. /\ op'[r] = op[r] /\ rpc'[r] = rpc[r] /\ rpc[r] = "empty"
          /\ result'[r] = result[r] /\ todo'[r] \subseteq todo[r]
      BY <2>4 DEF LocalTypes, EmptyStep, At
    <3>2. pc[r] = "idle" /\ exec[r] = "none"
      BY <3>1 DEF RequestOK, HandlerOK, BeforeCall, ProxyTypes
    <3>3. QED
      BY <1>0, <3>1, <3>2
         DEF RequestOK, HandlerOK, AnswerOK, ExecutionOK, BeforeCall, Kind
  <2>5. CASE Answer(r) \/ Unlock(r)
    <3>1. /\ op'[r] = op[r] /\ todo'[r] = todo[r] /\ rpc[r] \in {"hook", "unlock"}
          /\ \/ rpc'[r] = "unlock" /\ exec[answer[r]] = "resolved" /\ result'[r] = result[r]
             \/ rpc'[r] = "done" /\ exec[answer[r]] = "rejected" /\ result'[r] = "threw"
             \/ /\ rpc'[r] = "done" /\ (exec[answer[r]] = "resolved" \/ rpc[r] = "unlock")
                /\ result'[r] = Verdict(r)
          /\ rpc[r] = "hook" => pc[r] = "served"
          /\ rpc'[r] = "unlock" => Kind(r) = "archive"
      BY <2>5 DEF LocalTypes, Answer, Unlock, At, Goto, Finish
    <3>2. pc[r] = "served" /\ answer[r] = r
      BY <3>1 DEF RequestOK, HandlerOK, AnswerOK
    <3>3. rpc'[r] = "done" => exec[r] = "rejected" \/ exec[r] = "resolved"
      BY <3>1, <3>2 DEF RequestOK, AnswerOK
    <3>4. QED
      BY <1>0, <3>1, <3>2, <3>3
         DEF RequestOK, HandlerOK, AnswerOK, ExecutionOK, BeforeCall, Kind, HookMethod,
             Verdict
  <2>6. QED BY <2>1, <2>2, <2>3, <2>4, <2>5 DEF Handling
<1>4. QED BY <1>0, <1>2, <1>3

LEMMA ExecutingBase ==
  ASSUME LocalTypes, ProxyTypes, NEW x \in Requests, RequestOK(x), Executing(x)
  PROVE  /\ \A q \in Requests \ {x} : Same(q)
         /\ RequestOK(x)'
         /\ UNCHANGED <<requestVars, proxyVars>>
<1>0. UNCHANGED <<requestVars, proxyVars>> /\ Running(x)
  BY DEF Executing, ReadPayload, ReadAll, RunHook, WriteHistory, WriteStatus, Retry
<1>1. \A q \in Requests \ {x} :
        todo'[q] = todo[q] /\ xpc'[q] = xpc[q] /\ outcome'[q] = outcome[q]
  BY DEF Executing, LocalTypes, ReadPayload, ReadAll, RunHook, WriteHistory,
         WriteStatus, Retry
<1>2. \A q \in Requests \ {x} : Same(q)
  BY <1>0, <1>1 DEF Same
<1>3. pc[x] = "served" /\ answer[x] = x /\ rpc[x] = "hook" /\ todo[x] \subseteq PayloadQueries
  BY <1>0 DEF RequestOK, HandlerOK, AnswerOK, ExecutionOK, Running
<1>4. ASSUME todo'[x] \subseteq PayloadQueries,
             xpc'[x] # "read" => todo'[x] = {},
             xpc'[x] = "history" => outcome'[x] \in {"done", "warning"},
             xpc'[x] \in {"status", "end"} => outcome'[x] # "none"
      PROVE  RequestOK(x)'
  BY <1>0, <1>3, <1>4
     DEF RequestOK, HandlerOK, AnswerOK, ExecutionOK, BeforeCall, HookMethod, Kind, Running
<1>5. CASE ReadPayload(x)
  <2>1. todo'[x] \subseteq todo[x] /\ xpc'[x] = "read"
    BY <1>5 DEF ReadPayload, LocalTypes
  <2>2. QED BY <1>0, <1>2, <1>3, <1>4, <2>1
<1>6. CASE ReadAll(x) /\ UNCHANGED proxyVars
  <2>1. todo'[x] = {} /\ xpc'[x] \in {"read", "hook"}
    BY <1>6 DEF ReadAll, LocalTypes
  <2>2. QED BY <1>0, <1>2, <1>4, <2>1
<1>7. CASE \E res \in Outcomes : RunHook(x, res)
  <2>1. PICK res \in Outcomes : RunHook(x, res)
    BY <1>7
  <2>2. /\ todo'[x] = {} /\ outcome'[x] = res
        /\ xpc'[x] = IF res = "failed" THEN "status" ELSE "history"
    BY <2>1 DEF RunHook, LocalTypes, RequestOK, ExecutionOK
  <2>3. QED BY <1>0, <1>2, <1>4, <2>2, LifecycleAssumption
<1>8. CASE WriteHistory(x) \/ WriteStatus(x)
  <2>1. /\ todo'[x] = {} /\ outcome'[x] # "none"
        /\ xpc'[x] \in {"status", "end"}
    BY <1>8 DEF WriteHistory, WriteStatus, LocalTypes, RequestOK, ExecutionOK
  <2>2. QED BY <1>0, <1>2, <1>4, <2>1
<1>9. CASE Retry(x)
  <2>1. todo'[x] = PayloadQueries /\ xpc'[x] = "read"
    BY <1>9 DEF Retry, LocalTypes
  <2>2. QED BY <1>0, <1>2, <1>4, <2>1
<1>10. QED BY <1>0, <1>2, <1>5, <1>6, <1>7, <1>8, <1>9 DEF Executing

LEMMA CallBase ==
  ASSUME LocalTypes, ProxyTypes, NEW r \in Requests, RequestOK(r), CallHook(r)
  PROVE  /\ \A q \in Requests \ {r} : Same(q)
         /\ RequestOK(r)'
         /\ UNCHANGED <<rowVars, services, op, seen, execVars>>
         /\ HookMethod(r) \in ProjectMethods
         /\ todo'[r] = PayloadQueries
         /\ xpc[r] = "read"
<1>0. UNCHANGED <<rowVars, services, op, seen, execVars>> /\ rpc[r] = "call"
  BY DEF CallHook, At
<1>1. HookMethod(r) \in ProjectMethods
  BY DEF HookMethod, ProjectMethods
<1>2. pc[r] = "idle" /\ exec[r] = "none" /\ xpc[r] = "read" /\ op[r] \in Operation
      /\ result[r] = "none"
  BY <1>0 DEF RequestOK, HandlerOK, ExecutionOK, BeforeCall, ProxyTypes
<1>3. /\ call' = [call EXCEPT ![r] = Proxy!Invoke(HookMethod(r), Project, Proxy!NoArgs)]
      /\ \/ pc' = [pc EXCEPT ![r] = "refused"] /\ UNCHANGED <<answer, exec>>
         \/ pc' = [pc EXCEPT ![r] = "waiting"] /\ UNCHANGED <<answer, exec>>
         \/ /\ pc' = [pc EXCEPT ![r] = "served"]
            /\ answer' = [answer EXCEPT ![r] = r]
            /\ exec' = [exec EXCEPT ![r] = "running"]
  BY DEF CallHook, Proxy!Call, Proxy!Refuse, Proxy!Join, Proxy!Start, Proxy!Register
<1>4. /\ todo' = [todo EXCEPT ![r] = PayloadQueries]
      /\ \/ /\ pc'[r] = "refused"
            /\ rpc' = [rpc EXCEPT ![r] = "done"]
            /\ result' = [result EXCEPT ![r] = "threw"]
         \/ /\ pc'[r] # "refused"
            /\ rpc' = [rpc EXCEPT ![r] = "hook"]
            /\ result' = result
  BY DEF CallHook, Goto, Finish
<1>5. \A q \in Requests \ {r} : Same(q)
  BY <1>0, <1>3, <1>4 DEF Same, LocalTypes, ProxyTypes
<1>6. call'[r].method = HookMethod(r) /\ call'[r].id = Project
  BY <1>3 DEF Proxy!Invoke, ProxyTypes
<1>7. /\ op'[r] \in Operation /\ HookMethod(r)' = HookMethod(r)
      /\ todo'[r] = PayloadQueries /\ xpc'[r] = "read"
  BY <1>0, <1>2, <1>4 DEF HookMethod, Kind, LocalTypes
<1>8. \/ /\ pc'[r] = "refused" /\ rpc'[r] = "done" /\ result'[r] = "threw"
         /\ exec'[r] = "none"
      \/ /\ pc'[r] = "waiting" /\ rpc'[r] = "hook" /\ result'[r] = "none"
         /\ exec'[r] = "none"
      \/ /\ pc'[r] = "served" /\ rpc'[r] = "hook" /\ result'[r] = "none"
         /\ exec'[r] = "running" /\ answer'[r] = r
  BY <1>2, <1>3, <1>4 DEF LocalTypes, ProxyTypes
<1>9. RequestOK(r)'
  BY <1>6, <1>7, <1>8 DEF RequestOK, HandlerOK, AnswerOK, ExecutionOK, BeforeCall
<1>10. QED BY <1>0, <1>1, <1>2, <1>5, <1>7, <1>9

\* An execution ends, and those who waited for it start their own.
Woken(x) == {q \in Requests : pc[q] = "waiting" /\ waitOn[q] = x}

LEMMA EndBase ==
  ASSUME LocalTypes, ProxyTypes, \A q \in Requests : RequestOK(q),
         NEW x \in Requests, End(x)
  PROVE  /\ \A q \in Requests \ ({x} \cup Woken(x)) : Same(q)
         /\ \A q \in Requests : RequestOK(q)'
         /\ \A q \in Woken(x) : /\ pc'[q] = "served" /\ answer'[q] = q
                               /\ exec[q] = "none" /\ exec'[q] = "running"
                               /\ xpc[q] = "read" /\ todo[q] = PayloadQueries
         /\ exec'[x] = "resolved" /\ pc'[x] = pc[x] /\ answer'[x] = answer[x]
         /\ x \notin Woken(x) /\ Running(x) /\ xpc[x] = "end"
         /\ UNCHANGED <<rowVars, services, requestVars, todo, execVars, call>>
         /\ call[x].method \in ProjectMethods /\ call[x].id = Project
<1>0. /\ UNCHANGED <<rowVars, services, requestVars, todo, execVars, call>>
      /\ Running(x) /\ xpc[x] = "end" /\ Proxy!Resolve(x)
  BY DEF End, Proxy!Resolve
<1>1. /\ exec' = [q \in Requests |-> IF q = x THEN "resolved"
                                     ELSE IF q \in Woken(x) THEN "running" ELSE exec[q]]
      /\ answer' = [q \in Requests |-> IF q \in Woken(x) THEN q ELSE answer[q]]
      /\ pc' = [q \in Requests |-> IF q \in Woken(x) THEN "served" ELSE pc[q]]
  BY <1>0 DEF Proxy!Resolve, Proxy!Waiters, Woken
<1>2. pc[x] = "served" /\ rpc[x] = "hook" /\ x \notin Woken(x)
  BY <1>0 DEF RequestOK, HandlerOK, AnswerOK, Running, Woken
<1>3. call[x].method \in ProjectMethods /\ call[x].id = Project
  BY <1>2 DEF RequestOK, HandlerOK, HookMethod, ProjectMethods
<1>4. \A q \in Requests \ ({x} \cup Woken(x)) : Same(q)
  BY <1>0, <1>1 DEF Same
<1>5. ASSUME NEW q \in Woken(x)
      PROVE  /\ pc'[q] = "served" /\ answer'[q] = q
             /\ exec[q] = "none" /\ exec'[q] = "running"
             /\ xpc[q] = "read" /\ todo[q] = PayloadQueries
             /\ RequestOK(q)'
  <2>1. q \in Requests /\ q # x /\ pc[q] = "waiting"
    BY <1>2 DEF Woken
  <2>2. /\ exec[q] = "none" /\ xpc[q] = "read" /\ todo[q] = PayloadQueries
        /\ rpc[q] = "hook"
    BY <2>1 DEF RequestOK, HandlerOK, ExecutionOK, ProxyTypes
  <2>3. pc'[q] = "served" /\ answer'[q] = q /\ exec'[q] = "running"
    BY <1>1, <2>1
  <2>4. RequestOK(q)
    BY <2>1
  <2>5. RequestOK(q)'
    BY <1>0, <2>1, <2>2, <2>3, <2>4
       DEF RequestOK, HandlerOK, AnswerOK, ExecutionOK, BeforeCall, Kind, HookMethod
  <2>6. QED BY <2>2, <2>3, <2>5
<1>6. exec'[x] = "resolved" /\ pc'[x] = pc[x] /\ answer'[x] = answer[x]
  BY <1>1, <1>2
<1>7. RequestOK(x)'
  BY <1>0, <1>2, <1>6 DEF RequestOK, HandlerOK, AnswerOK, ExecutionOK, BeforeCall, Kind, HookMethod
<1>8. \A q \in Requests : RequestOK(q)'
  BY <1>4, <1>5, <1>7, SameKept
<1>9. QED BY <1>0, <1>2, <1>3, <1>4, <1>5, <1>6, <1>8

LEMMA RejectBase ==
  ASSUME LocalTypes, ProxyTypes, NEW x \in Requests, RequestOK(x), Rejecting(x)
  PROVE  /\ \A q \in Requests \ {x} : Same(q)
         /\ RequestOK(x)'
         /\ Running(x) /\ exec'[x] = "rejected"
<1>1. /\ exec[x] = "running" /\ exec' = [exec EXCEPT ![x] = "rejected"]
      /\ UNCHANGED <<pc, call, answer, op, rpc, result, todo, xpc, outcome>>
  BY DEF Rejecting, Proxy!Reject
<1>2. \A q \in Requests \ {x} : Same(q)
  BY <1>1 DEF Same, ProxyTypes
<1>3. pc[x] = "served" /\ rpc[x] = "hook" /\ exec'[x] = "rejected"
  BY <1>1 DEF RequestOK, HandlerOK, AnswerOK, ProxyTypes
<1>4. RequestOK(x)'
  BY <1>1, <1>3 DEF RequestOK, HandlerOK, AnswerOK, ExecutionOK, BeforeCall, Kind, HookMethod
<1>5. QED BY <1>1, <1>2, <1>3, <1>4 DEF Running

LEMMA BaseInit == Init => BaseInv
<1>1. SUFFICES ASSUME Init PROVE BaseInv
  OBVIOUS
<1>2. LocalTypes
  <2>1. snapshot \in [Requests -> [envs : SUBSET Envs, repos : SUBSET Repos,
                                  clusters : SUBSET Clusters]]
    BY <1>1 DEF Init, NoPayload
  <2>2. seen \in [Requests -> [status : RowStatus, locked : BOOLEAN]]
    BY <1>1 DEF Init, Row, RowStatus
  <2>3. services \in [envs : SUBSET Envs, repos : SUBSET Repos]
    BY <1>1 DEF Init
  <2>4. /\ repos \in [Repos -> Nat]
        /\ op \in [Requests -> Operation \cup {None}]
        /\ todo \in [Requests -> SUBSET (EmptyQueries \cup PayloadQueries)]
        /\ attempt \in [Requests -> 1..2]
    BY <1>1 DEF Init
  <2>5. /\ rpc \in [Requests -> {"idle", "read", "write", "org", "empty", "call",
                                 "hook", "unlock", "done"}]
        /\ result \in [Requests -> {"none", "ok", "failed", "forbidden", "threw"}]
        /\ xpc \in [Requests -> {"read", "hook", "history", "status", "end"}]
        /\ outcome \in [Requests -> {"none", "done", "warning", "failed"}]
    BY <1>1 DEF Init
  <2>6. /\ status \in RowStatus /\ locked \in BOOLEAN /\ orgActive \in BOOLEAN
        /\ envs \subseteq Envs /\ history \subseteq Clusters /\ clean \in BOOLEAN
    BY <1>1 DEF Init, RowStatus
  <2>7. QED BY <2>1, <2>2, <2>3, <2>4, <2>5, <2>6 DEF LocalTypes
<1>3. Proxy!NoArgs \in Proxy!Args
  BY DEF Proxy!NoArgs, Proxy!Args
<1>4. ProxyTypes
  BY <1>1, <1>3 DEF Init, Proxy!ProxyInit, ProxyTypes
<1>5. \A r \in Requests : RequestOK(r)
  BY <1>1 DEF Init, Proxy!ProxyInit, RequestOK, HandlerOK, AnswerOK, ExecutionOK, BeforeCall
<1>6. QED BY <1>2, <1>4, <1>5, Typed DEF BaseInv, RequestOK

LEMMA BaseNext == BaseInv /\ Next => BaseInv'
<1>1. SUFFICES ASSUME BaseInv, Next PROVE BaseInv'
  OBVIOUS
<1>2. LocalTypes /\ ProxyTypes /\ \A r \in Requests : RequestOK(r)
  BY <1>1, Typed DEF BaseInv, RequestOK
<1>3. clean' \in BOOLEAN
  BY <1>1, <1>2 DEF Next, Note, LocalTypes
<1>4. PICK r \in Requests :
        Handling(r) \/ CallHook(r) \/ Executing(r) \/ End(r) \/ Rejecting(r)
  BY <1>1, NextForms
<1>5. LocalTypes' /\ ProxyTypes' /\ \A q \in Requests : RequestOK(q)'
  <2>1. CASE Handling(r)
    <3>1. UNCHANGED proxyVars
      BY <1>2, <2>1, HandlingBase
    <3>2. ProxyTypes'
      BY <1>2, <3>1 DEF ProxyTypes
    <3>3. QED BY <1>2, <1>3, <2>1, <3>2, HandlingBase, HandlingTyped, SameKept
  <2>2. CASE CallHook(r)
    <3>1. HookMethod(r) \in ProjectMethods /\ Proxy!Call(r, HookMethod(r), Project, Proxy!NoArgs)
      BY <1>2, <2>2, CallBase DEF CallHook
    <3>2. PICK m \in ProjectMethods : m = HookMethod(r)
      BY <3>1
    <3>3. Proxy!Call(r, m, Project, Proxy!NoArgs)
      BY <3>1, <3>2
         DEF Proxy!Call, Proxy!Refuse, Proxy!Join, Proxy!Start, Proxy!Register,
             Proxy!Excluded, Proxy!Invoke, Proxy!Merge
    <3>4. ProxyTypes'
      BY <1>2, <3>3, CallTyped
    <3>5. LocalTypes'
      BY <1>2, <1>3, <2>2 DEF CallHook, Goto, Finish, LocalTypes
    <3>6. QED BY <1>2, <2>2, <3>4, <3>5, CallBase, SameKept
  <2>3. CASE Executing(r)
    <3>1. UNCHANGED proxyVars
      BY <1>2, <2>3, ExecutingBase
    <3>2. ProxyTypes'
      BY <1>2, <3>1 DEF ProxyTypes
    <3>3. QED BY <1>2, <1>3, <2>3, <3>2, ExecutingBase, ExecutingTyped, SameKept
  <2>4. CASE End(r)
    <3>1. LocalTypes'
      BY <1>2, <1>3, <2>4 DEF End, LocalTypes
    <3>2. ProxyTypes'
      BY <1>2, <2>4, EndBase, ResolveTyped DEF End
    <3>3. QED BY <1>2, <2>4, <3>1, <3>2, EndBase
  <2>5. CASE Rejecting(r)
    <3>1. LocalTypes'
      BY <1>2, <1>3, <2>5 DEF Rejecting, LocalTypes
    <3>2. ProxyTypes'
      BY <1>2, <2>5, RejectTyped DEF Rejecting
    <3>3. QED BY <1>2, <2>5, <3>1, <3>2, RejectBase, SameKept
  <2>6. QED BY <1>4, <2>1, <2>2, <2>3, <2>4, <2>5
<1>6. TypeOK'
  BY <1>5
     DEF TypeOK, LocalTypes, ProxyTypes, Proxy!TypeOK, Proxy!CallState, Proxy!ExecState
<1>7. QED BY <1>5, <1>6 DEF BaseInv, RequestOK

-----------------------------------------------------------------------------
(* The row a request created reaches the execution that answers it.        *)

BaseFacts == LocalTypes /\ ProxyTypes /\ \A q \in Requests : RequestOK(q)

LEMMA BaseGives == BaseInv => BaseFacts
BY Typed DEF BaseInv, BaseFacts, RequestOK

LEMMA BaseGivesNext == BaseInv' => BaseFacts'
BY DEF BaseInv, BaseFacts, RequestOK, TypeOK, LocalTypes, ProxyTypes, Proxy!TypeOK,
       Proxy!CallState, Proxy!ExecState

\* Once received, an operation is what it is.
LEMMA OpKept ==
  ASSUME BaseInv, Next, NEW q \in Requests, rpc[q] # "idle"
  PROVE  rpc'[q] # "idle" /\ op'[q] = op[q]
<1>1. BaseFacts
  BY BaseGives
<1>2. PICK r \in Requests :
        Handling(r) \/ CallHook(r) \/ Executing(r) \/ End(r) \/ Rejecting(r)
  BY NextForms
<1>3. CASE Handling(r)
  <2>1. CASE q = r
    BY <1>1, <1>3, <2>1
       DEF Handling, BaseFacts, LocalTypes, Receive, ReadProject, ReadNames,
           ReadOrganization, WriteProject, WriteEnv, WriteRepo, WriteLocks,
           WriteOrganization, EmptyStep, CheckArchive, Answer, Unlock, At, Goto, Finish
  <2>2. CASE q # r
    BY <1>1, <1>3, <2>2, HandlingBase DEF BaseFacts, Same
  <2>3. QED BY <2>1, <2>2
<1>4. CASE CallHook(r)
  BY <1>1, <1>4 DEF CallHook, At, Goto, Finish, BaseFacts, LocalTypes
<1>5. CASE Executing(r)
  BY <1>1, <1>5, ExecutingBase DEF BaseFacts
<1>6. CASE End(r) \/ Rejecting(r)
  BY <1>6 DEF End, Rejecting
<1>7. QED BY <1>2, <1>3, <1>4, <1>5, <1>6

LEMMA KeptBackwards ==
  ASSUME BaseInv, Next, NEW t, Kept(t)'
  PROVE  Kept(t)
BY OpKept DEF Kept

\* Rows that nobody was asked to remove stay.
LEMMA RowsStay ==
  ASSUME BaseFacts, NEW r \in Requests, Handling(r), NEW t, Kept(t)
  PROVE  /\ t \in envs => t \in envs'
         /\ t \in RepoNames => t \in RepoNames'
<1>1. CASE WriteEnv(r)
  <2>1. op[r] \in Operation /\ rpc[r] = "write"
    BY <1>1 DEF WriteEnv, At, BaseFacts, RequestOK, HandlerOK
  <2>2. op[r] \in Ask(Kind(r), Target(r))
    BY <2>1, OperationShape DEF Kind, Target
  <2>3. Kind(r) = "deleteEnv" => Target(r) # t
    BY <2>1, <2>2 DEF Kept
  <2>4. QED BY <1>1, <2>3 DEF WriteEnv, RepoNames
<1>2. CASE WriteRepo(r)
  <2>1. op[r] \in Operation /\ rpc[r] = "write"
    BY <1>2 DEF WriteRepo, At, BaseFacts, RequestOK, HandlerOK
  <2>2. op[r] \in Ask(Kind(r), Target(r))
    BY <2>1, OperationShape DEF Kind, Target
  <2>3. Kind(r) = "deleteRepo" => Target(r) # t
    BY <2>1, <2>2 DEF Kept
  <2>4. ASSUME t \in RepoNames
        PROVE  repos'[t] > 0 /\ t \in Repos
    BY <1>2, <2>3, <2>4 DEF WriteRepo, RepoNames, RepoKinds, BaseFacts, LocalTypes
  <2>5. QED BY <1>2, <2>4 DEF WriteRepo, RepoNames
<1>3. CASE EmptyStep(r)
  <2>1. op[r] \in Operation /\ rpc[r] = "empty" /\ Kind(r) = "archive"
    BY <1>3 DEF EmptyStep, At, BaseFacts, RequestOK, HandlerOK
  <2>2. op[r] \in Ask("archive", None)
    BY <2>1, OperationShape DEF Kind, Target, EnvKinds, RepoKinds
  <2>3. QED BY <2>1, <2>2 DEF Kept
<1>4. CASE ~(WriteEnv(r) \/ WriteRepo(r) \/ EmptyStep(r))
  BY <1>4 DEF Handling, Receive, ReadProject, ReadNames, ReadOrganization, WriteProject,
              WriteLocks, WriteOrganization, CheckArchive, Answer, Unlock, RepoNames
<1>5. QED BY <1>1, <1>2, <1>3, <1>4

\* A request that is about to call its hook, or has, finds its row.
LEMMA RowFound ==
  ASSUME BaseFacts, NEW r \in Requests, NEW t \in Envs \cup Repos,
         Handling(r), rpc'[r] = "call", Creates(r, t)'
  PROVE  HasRow(r, t)'
<1>0. ~ \E o \in Operation : Receive(r, o)
  <2>1. ASSUME NEW o \in Operation, Receive(r, o)
        PROVE  FALSE
    <3>1. FirstStep(o.kind) \in {"write", "empty", "read"}
      BY DEF FirstStep
    <3>2. QED BY <2>1, <3>1 DEF Receive, Goto, Finish, BaseFacts, LocalTypes
  <2>2. QED BY <2>1
<1>1. rpc[r] # "idle"
  BY <1>0 DEF Handling, At,
         ReadProject, ReadNames, ReadOrganization, WriteProject, WriteEnv, WriteRepo,
         WriteLocks, WriteOrganization, EmptyStep, CheckArchive, Answer, Unlock
<1>2. op'[r] = op[r] /\ op[r] \in Operation
  BY <1>1 DEF Handling, Receive, At, BaseFacts, LocalTypes, RequestOK, HandlerOK,
         ReadProject, ReadNames, ReadOrganization, WriteProject, WriteEnv, WriteRepo,
         WriteLocks, WriteOrganization, EmptyStep, CheckArchive, Answer, Unlock
<1>3. Kind(r) \in {"createEnv", "createRepo"} /\ Target(r) = t /\ Kind(r)' = Kind(r)
  BY <1>2 DEF Creates, Ask, Kind, Target
<1>4. WriteEnv(r) \/ WriteRepo(r)
  <2>1. ~ (ReadNames(r) \/ EmptyStep(r) \/ Answer(r))
    BY DEF ReadNames, EmptyStep, Answer, At, Goto, Finish, BaseFacts, LocalTypes
  <2>2. ~ (CheckArchive(r) \/ Unlock(r) \/ WriteOrganization(r))
    BY <1>3 DEF CheckArchive, Unlock, WriteOrganization, At, BaseFacts, RequestOK, HandlerOK
  <2>3. ~ (ReadProject(r) \/ WriteProject(r) \/ ReadOrganization(r) \/ WriteLocks(r))
    BY <1>3 DEF ReadProject, WriteProject, ReadOrganization, WriteLocks
  <2>4. QED BY <1>0, <2>1, <2>2, <2>3 DEF Handling
<1>5. CASE WriteEnv(r)
  <2>1. Kind(r) = "createEnv" /\ t \in envs'
    BY <1>3, <1>5 DEF WriteEnv, EnvKinds, Goto, Finish, BaseFacts, LocalTypes
  <2>2. QED BY <1>3, <2>1 DEF HasRow
<1>6. CASE WriteRepo(r)
  <2>1. Kind(r) = "createRepo" /\ t \in Repos
    BY <1>2, <1>3, <1>6, OperationShape DEF WriteRepo, RepoKinds, Kind, Target
  <2>2. repos'[t] > 0
    BY <1>3, <1>6, <2>1 DEF WriteRepo, BaseFacts, LocalTypes
  <2>3. QED BY <1>3, <2>1, <2>2 DEF HasRow, RepoNames
<1>7. QED BY <1>4, <1>5, <1>6

\* What a request that waits for its answer sees of its own handler.
LEMMA HandlingSelf ==
  ASSUME BaseFacts, NEW r \in Requests, Handling(r), Kind(r)' \in {"createEnv", "createRepo"}
  PROVE  /\ rpc'[r] # "hook"
         /\ result'[r] = "ok" =>
              /\ rpc[r] = "hook" /\ exec[r] = "resolved"
<1>1. CASE Answer(r)
  <2>1. rpc[r] = "hook" /\ pc[r] = "served" /\ result[r] = "none"
    BY <1>1 DEF Answer, At, BaseFacts, RequestOK, HandlerOK
  <2>2. answer[r] = r
    BY <2>1 DEF BaseFacts, RequestOK, HandlerOK
  <2>3. QED BY <1>1, <2>1, <2>2 DEF Answer, Goto, Finish, BaseFacts, LocalTypes
<1>2. CASE Unlock(r)
  BY <1>2 DEF Unlock, At, BaseFacts, RequestOK, HandlerOK, Kind
<1>3. CASE WriteOrganization(r)
  BY <1>3 DEF WriteOrganization, At, BaseFacts, RequestOK, HandlerOK, Kind
<1>4. CASE \E o \in Operation : Receive(r, o)
  <2>1. result[r] = "none"
    BY <1>4 DEF Receive, At, BaseFacts, RequestOK, HandlerOK
  <2>2. QED BY <1>4, <2>1 DEF Receive, Goto, Finish, FirstStep, BaseFacts, LocalTypes
<1>5. CASE ReadProject(r) \/ ReadNames(r) \/ ReadOrganization(r) \/ CheckArchive(r)
  <2>1. result[r] = "none"
    BY <1>5 DEF ReadProject, ReadNames, ReadOrganization, CheckArchive, At, BaseFacts,
                RequestOK, HandlerOK
  <2>2. QED
    BY <1>5, <2>1 DEF ReadProject, ReadNames, ReadOrganization, CheckArchive, Goto,
                      Finish, BaseFacts, LocalTypes
<1>6. CASE WriteProject(r) \/ WriteEnv(r) \/ WriteRepo(r) \/ WriteLocks(r) \/ EmptyStep(r)
  <2>1. result[r] = "none"
    BY <1>6 DEF WriteProject, WriteEnv, WriteRepo, WriteLocks, EmptyStep, At, BaseFacts,
                RequestOK, HandlerOK
  <2>2. QED
    BY <1>6, <2>1 DEF WriteProject, WriteEnv, WriteRepo, WriteLocks, EmptyStep, At, Goto,
                      Finish, BaseFacts, LocalTypes
<1>7. QED BY <1>1, <1>2, <1>3, <1>4, <1>5, <1>6 DEF Handling

\* The execution that will answer the request has the row, or will read it.
LEMMA ReadingDelivers ==
  ASSUME BaseFacts, NEW x \in Requests, NEW t \in Envs \cup Repos,
         Executing(x), HasRow(x, t),
         Holds(x, t) \/ (xpc[x] = "read" /\ "project" \in todo[x])
  PROVE  Holds(x, t)' \/ (xpc'[x] = "read" /\ "project" \in todo'[x])
<1>1. CASE ReadPayload(x)
  <2>1. PICK q \in todo[x] :
          /\ todo' = [todo EXCEPT ![x] = @ \ {q}]
          /\ snapshot' = CASE q = "project" ->
                                [snapshot EXCEPT ![x].envs = envs,
                                                 ![x].repos = RepoNames]
                           [] q = "history" ->
                                [snapshot EXCEPT ![x].clusters = @ \cup history]
                           [] q = "clusters" ->
                                [snapshot EXCEPT ![x].clusters =
                                   @ \cup ClustersOf(envs)]
    BY <1>1 DEF ReadPayload
  <2>2. q \in PayloadQueries
    BY <1>1, <2>1 DEF ReadPayload, Running, BaseFacts, RequestOK, ExecutionOK
  <2>3. CASE q = "project"
    <3>1. snapshot'[x].envs = envs /\ snapshot'[x].repos = RepoNames
      BY <2>1, <2>3 DEF BaseFacts, LocalTypes
    <3>2. QED BY <3>1 DEF Holds, HasRow
  <2>4. CASE q \in {"history", "clusters"}
    <3>1. /\ snapshot'[x].envs = snapshot[x].envs
          /\ snapshot'[x].repos = snapshot[x].repos
      BY <2>1, <2>4 DEF BaseFacts, LocalTypes
    <3>2. xpc'[x] = xpc[x] /\ todo'[x] = todo[x] \ {q}
      BY <1>1, <2>1 DEF ReadPayload, BaseFacts, LocalTypes
    <3>3. QED BY <2>4, <3>1, <3>2 DEF Holds
  <2>5. QED BY <2>2, <2>3, <2>4 DEF PayloadQueries
<1>2. CASE ReadAll(x) /\ UNCHANGED proxyVars
  BY <1>2 DEF ReadAll, Holds
<1>3. CASE (\E res \in Outcomes : RunHook(x, res)) \/ WriteHistory(x) \/ WriteStatus(x)
  BY <1>3 DEF RunHook, WriteHistory, WriteStatus, Holds
<1>4. CASE Retry(x)
  BY <1>4 DEF Retry, BaseFacts, LocalTypes, PayloadQueries
<1>5. QED BY <1>1, <1>2, <1>3, <1>4 DEF Executing

LEMMA SnapshotOfOthers ==
  ASSUME BaseFacts, NEW x \in Requests, Executing(x), NEW q \in Requests \ {x}
  PROVE  snapshot'[q] = snapshot[q] /\ attempt'[q] = attempt[q]
<1>1. CASE ReadPayload(x)
  <2>1. PICK p \in todo[x] :
          snapshot' = CASE p = "project" ->
                                [snapshot EXCEPT ![x].envs = envs,
                                                 ![x].repos = RepoNames]
                           [] p = "history" ->
                                [snapshot EXCEPT ![x].clusters = @ \cup history]
                           [] p = "clusters" ->
                                [snapshot EXCEPT ![x].clusters =
                                   @ \cup ClustersOf(envs)]
    BY <1>1 DEF ReadPayload
  <2>2. p \in PayloadQueries
    BY <1>1, <2>1 DEF ReadPayload, Running, BaseFacts, RequestOK, ExecutionOK
  <2>3. QED BY <1>1, <2>1, <2>2 DEF ReadPayload, BaseFacts, LocalTypes, PayloadQueries
<1>2. CASE ~ReadPayload(x)
  BY <1>2 DEF Executing, ReadAll, RunHook, WriteHistory, WriteStatus, Retry, BaseFacts,
              LocalTypes
<1>3. QED BY <1>1, <1>2

LEMMA DeliveryStep ==
  ASSUME BaseInv, DeliveryInv, Next, NEW r \in Requests, NEW t \in Envs \cup Repos,
         Creates(r, t)', Kept(t)'
  PROVE  Delivering(r, t)'
<1>1. BaseFacts
  BY BaseGives
<1>2. PICK a \in Requests :
        Handling(a) \/ CallHook(a) \/ Executing(a) \/ End(a) \/ Rejecting(a)
  BY NextForms
<1>3. Kept(t)
  BY KeptBackwards
<1>4. op'[r] = op[r] => Delivering(r, t)
  BY <1>3 DEF DeliveryInv, Creates
<1>5. Kind(r)' \in {"createEnv", "createRepo"}
  BY DEF Creates, Ask, Kind
<1>6. ASSUME Same(r), snapshot'[r] = snapshot[r],
             HasRow(r, t) => HasRow(r, t)',
             rpc[r] = "done" /\ exec[r] = "resolved" => exec'[r] = "resolved"
      PROVE  Delivering(r, t)'
  BY <1>4, <1>6 DEF Same, Delivering, Holds
<1>7. CASE Handling(a)
  <2>1. HasRow(r, t) /\ op'[r] = op[r] => HasRow(r, t)'
    BY <1>1, <1>3, <1>7, RowsStay DEF HasRow, Kind
  <2>2. UNCHANGED <<proxyVars, execVars>>
    BY <1>7 DEF Handling, Receive, ReadProject, ReadNames, ReadOrganization, WriteProject,
         WriteEnv, WriteRepo, WriteLocks, WriteOrganization, EmptyStep, CheckArchive,
         Answer, Unlock
  <2>3. CASE a # r
    BY <1>1, <1>6, <1>7, <2>1, <2>2, <2>3, HandlingBase DEF BaseFacts, Same
  <2>4. CASE a = r
    <3>1. /\ rpc'[r] # "hook"
          /\ result'[r] = "ok" => rpc[r] = "hook" /\ exec[r] = "resolved"
      BY <1>1, <1>5, <1>7, <2>4, HandlingSelf
    <3>2. rpc'[r] = "call" => HasRow(r, t)'
      BY <1>1, <1>7, <2>4, RowFound
    <3>3. result'[r] = "ok" => Holds(r, t)' /\ exec'[r] = "resolved"
      <4>1. SUFFICES ASSUME result'[r] = "ok" PROVE Holds(r, t)' /\ exec'[r] = "resolved"
        OBVIOUS
      <4>2. rpc[r] = "hook" /\ exec[r] = "resolved"
        BY <3>1, <4>1
      <4>3. xpc[r] = "end" /\ op'[r] = op[r]
        BY <1>1, <4>2, OpKept DEF BaseFacts, RequestOK, ExecutionOK
      <4>4. Holds(r, t)
        BY <1>4, <4>2, <4>3 DEF Delivering
      <4>5. QED BY <2>2, <4>2, <4>4 DEF Holds
    <3>4. QED BY <3>1, <3>2, <3>3 DEF Delivering
  <2>5. QED BY <2>3, <2>4
<1>8. CASE CallHook(a)
  <2>1. UNCHANGED <<rowVars, op, snapshot, xpc>>
    BY <1>8 DEF CallHook
  <2>2. HasRow(r, t)' = HasRow(r, t)
    BY <2>1 DEF HasRow, Kind, RepoNames
  <2>3. CASE a # r
    BY <1>1, <1>6, <1>8, <2>1, <2>2, <2>3, CallBase DEF BaseFacts, Same
  <2>4. CASE a = r
    <3>1. rpc[r] = "call" /\ result[r] = "none"
      BY <1>1, <1>8, <2>4 DEF CallHook, At, BaseFacts, RequestOK, HandlerOK
    <3>2. todo'[r] = PayloadQueries /\ xpc'[r] = "read"
      BY <1>1, <1>8, <2>1, <2>4, CallBase DEF BaseFacts
    <3>3. rpc'[r] \in {"hook", "done"} /\ result'[r] \in {"none", "threw"}
      BY <1>1, <1>8, <2>4, <3>1 DEF CallHook, Goto, Finish, BaseFacts, LocalTypes
    <3>4. HasRow(r, t)'
      BY <1>4, <2>1, <2>2, <3>1 DEF Delivering
    <3>5. QED BY <3>2, <3>3, <3>4 DEF Delivering, PayloadQueries
  <2>5. QED BY <2>3, <2>4
<1>9. CASE Executing(a)
  <2>1. UNCHANGED <<requestVars, proxyVars>> /\ \A q \in Requests \ {a} : Same(q)
    BY <1>1, <1>9, ExecutingBase DEF BaseFacts
  <2>2. UNCHANGED <<envs, repos>>
    BY <1>9 DEF Executing, ReadPayload, ReadAll, RunHook, WriteHistory, WriteStatus, Retry
  <2>3. HasRow(r, t)' = HasRow(r, t)
    BY <2>1, <2>2 DEF HasRow, Kind, RepoNames
  <2>4. CASE a # r
    <3>1. snapshot'[r] = snapshot[r]
      BY <1>1, <1>9, <2>4, SnapshotOfOthers
    <3>2. QED BY <1>6, <2>1, <2>3, <2>4, <3>1 DEF Same
  <2>5. CASE a = r
    <3>1. Running(r)
      BY <1>9, <2>5 DEF Executing, ReadPayload, ReadAll, RunHook, WriteHistory,
                        WriteStatus, Retry
    <3>2. rpc[r] = "hook" /\ result[r] = "none"
      BY <1>1, <3>1 DEF BaseFacts, RequestOK, HandlerOK, AnswerOK, Running
    <3>3. Delivering(r, t)
      BY <1>4, <2>1
    <3>4. HasRow(r, t) /\ (Holds(r, t) \/ (xpc[r] = "read" /\ "project" \in todo[r]))
      BY <3>2, <3>3 DEF Delivering
    <3>5. Holds(r, t)' \/ (xpc'[r] = "read" /\ "project" \in todo'[r])
      BY <1>1, <1>9, <2>5, <3>4, ReadingDelivers
    <3>6. QED BY <2>1, <2>3, <3>2, <3>4, <3>5 DEF Delivering
  <2>6. QED BY <2>4, <2>5
<1>10. CASE End(a)
  <2>1. UNCHANGED <<rowVars, requestVars, todo, execVars>>
    BY <1>10 DEF End
  <2>2. rpc[r] = "done" /\ exec[r] = "resolved" => exec'[r] = "resolved"
    BY <1>1, <1>10, EndBase DEF BaseFacts, Same, Running
  <2>3. Delivering(r, t)
    BY <1>4, <2>1
  <2>4. result[r] = "ok" => rpc[r] = "done"
    BY <1>1 DEF BaseFacts, RequestOK, HandlerOK
  <2>5. QED BY <2>1, <2>2, <2>3, <2>4 DEF Delivering, HasRow, Holds, Kind, RepoNames
<1>11. CASE Rejecting(a)
  <2>1. UNCHANGED <<rowVars, requestVars, todo, execVars>>
    BY <1>11 DEF Rejecting
  <2>2. exec[r] = "resolved" => exec'[r] = "resolved"
    BY <1>1, <1>11, RejectBase DEF BaseFacts, Same, Running
  <2>3. Delivering(r, t)
    BY <1>4, <2>1
  <2>4. QED BY <2>1, <2>2, <2>3 DEF Delivering, HasRow, Holds, Kind, RepoNames
<1>12. QED BY <1>2, <1>7, <1>8, <1>9, <1>10, <1>11

LEMMA DeliveryNext == BaseInv /\ DeliveryInv /\ Next => DeliveryInv'
BY DeliveryStep DEF DeliveryInv

-----------------------------------------------------------------------------
(* A failure of the project has an execution to blame.                     *)

LEMMA FailureNext == BaseInv /\ FailureInv /\ Next => FailureInv'
<1>1. SUFFICES ASSUME BaseInv, FailureInv, Next, status' = "failed"
               PROVE  \E x \in Requests : Culprit(x)'
  BY DEF FailureInv
<1>2. BaseFacts
  BY <1>1, BaseGives
<1>3. PICK a \in Requests :
        Handling(a) \/ CallHook(a) \/ Executing(a) \/ End(a) \/ Rejecting(a)
  BY <1>1, NextForms
<1>4. CASE Executing(a) /\ WriteStatus(a)
  <2>1. Running(a) /\ xpc'[a] = "end" /\ outcome'[a] = outcome[a] /\ exec'[a] = exec[a]
        /\ status' = StatusAfter(a)
    BY <1>2, <1>4 DEF WriteStatus, BaseFacts, LocalTypes
  <2>2. outcome[a] = "failed"
    BY <1>1, <2>1 DEF StatusAfter
  <2>3. Culprit(a)'
    BY <2>1, <2>2 DEF Culprit, Running
  <2>4. QED BY <2>3
<1>5. CASE ~(Executing(a) /\ WriteStatus(a))
  <2>1. status' = status
    BY <1>3, <1>5
       DEF Handling, Receive, ReadProject, ReadNames, ReadOrganization, WriteProject,
           WriteEnv, WriteRepo, WriteLocks, WriteOrganization, EmptyStep, CheckArchive,
           Answer, Unlock, CallHook, Executing, ReadPayload, ReadAll, RunHook,
           WriteHistory, Retry, End, Rejecting
  <2>2. PICK x \in Requests : Culprit(x)
    BY <1>1, <2>1 DEF FailureInv
  <2>3. CASE Handling(a) \/ CallHook(a)
    <3>1. UNCHANGED execVars
      BY <2>3 DEF Handling, Receive, ReadProject, ReadNames, ReadOrganization,
           WriteProject, WriteEnv, WriteRepo, WriteLocks, WriteOrganization, EmptyStep,
           CheckArchive, Answer, Unlock, CallHook
    <3>2. exec'[x] = exec[x]
      <4>1. CASE Handling(a)
        BY <1>2, <4>1, HandlingBase DEF BaseFacts
      <4>2. CASE CallHook(a) /\ a # x
        BY <1>2, <4>2, CallBase DEF BaseFacts, Same
      <4>3. CASE CallHook(a) /\ a = x
        BY <1>2, <2>2, <4>3
           DEF BaseFacts, RequestOK, HandlerOK, BeforeCall, CallHook, At, Culprit, ProxyTypes
      <4>4. QED BY <2>3, <4>1, <4>2, <4>3
    <3>3. QED BY <2>2, <3>1, <3>2 DEF Culprit
  <2>4. CASE Executing(a) /\ a # x
    BY <1>2, <2>2, <2>4, ExecutingBase DEF BaseFacts, Same, Culprit
  <2>5. CASE Executing(a) /\ a = x
    <3>1. exec'[x] = exec[x]
      BY <1>2, <2>5, ExecutingBase DEF BaseFacts
    <3>2. xpc'[x] = "end" => outcome'[x] = "failed"
      BY <1>2, <1>5, <2>2, <2>5
         DEF Executing, ReadPayload, ReadAll, RunHook, WriteHistory, Retry, BaseFacts,
             LocalTypes, Culprit
    <3>3. QED BY <2>2, <3>1, <3>2 DEF Culprit
  <2>6. CASE End(a)
    <3>1. exec'[x] # "none"
      BY <1>2, <2>2, <2>6, EndBase DEF BaseFacts, Same, Culprit
    <3>2. QED BY <2>2, <2>6, <3>1 DEF Culprit, End
  <2>7. CASE Rejecting(a)
    <3>1. exec'[x] # "none"
      BY <1>2, <2>2, <2>7, RejectBase DEF BaseFacts, Same, Culprit
    <3>2. QED BY <2>2, <2>7, <3>1 DEF Culprit, Rejecting
  <2>8. QED BY <1>3, <2>3, <2>4, <2>5, <2>6, <2>7
<1>6. QED BY <1>4, <1>5

LEMMA FailureShown == BaseInv /\ FailureInv => FailureIsReported
<1>1. SUFFICES ASSUME BaseInv, FailureInv, AtRest, status = "failed"
               PROVE  \E r \in Requests :
                        /\ exec[r] = "rejected" \/ outcome[r] = "failed"
                        /\ op[r].bulk \/ Told(r) \in {"failed", "threw"}
  BY DEF FailureIsReported
<1>2. BaseFacts
  BY <1>1, BaseGives
<1>3. PICK x \in Requests : Culprit(x)
  BY <1>1 DEF FailureInv
<1>4. exec[x] \in {"resolved", "rejected"} /\ rpc[x] \in {"idle", "done"}
  BY <1>1, <1>2, <1>3 DEF AtRest, Running, Culprit, BaseFacts, ProxyTypes
<1>5. rpc[x] = "done"
  BY <1>2, <1>3, <1>4 DEF BaseFacts, RequestOK, HandlerOK, BeforeCall, Culprit
<1>6. CASE exec[x] = "rejected"
  <2>1. result[x] = "threw"
    BY <1>2, <1>5, <1>6 DEF BaseFacts, RequestOK, AnswerOK
  <2>2. QED BY <1>6, <2>1 DEF Told
<1>7. CASE exec[x] = "resolved"
  <2>1. outcome[x] = "failed" /\ result[x] = "failed"
    BY <1>2, <1>3, <1>5, <1>7 DEF BaseFacts, RequestOK, AnswerOK, ExecutionOK, Culprit
  <2>2. QED BY <2>1 DEF Told
<1>8. QED BY <1>4, <1>6, <1>7

-----------------------------------------------------------------------------
(* What an undisturbed execution knows of the services.                    *)

\* The steps that change what this part of the invariant speaks of.
LEMMA HandlingLeaves ==
  ASSUME BaseFacts, NEW r \in Requests, Handling(r)
  PROVE  /\ UNCHANGED <<status, history, services, execVars, proxyVars>>
         /\ \A q \in Requests : exec[q] # "none" => todo'[q] = todo[q]
<1>1. UNCHANGED <<status, history, services, execVars, proxyVars>>
  BY DEF Handling, Receive, ReadProject, ReadNames, ReadOrganization, WriteProject,
         WriteEnv, WriteRepo, WriteLocks, WriteOrganization, EmptyStep, CheckArchive,
         Answer, Unlock
<1>2. ASSUME NEW q \in Requests, exec[q] # "none"
      PROVE  todo'[q] = todo[q]
  <2>1. CASE q # r
    BY <2>1, HandlingBase DEF BaseFacts, Same
  <2>2. CASE q = r
    <3>1. rpc[r] \notin BeforeCall
      BY <1>2, <2>2 DEF BaseFacts, RequestOK, HandlerOK
    <3>2. ~ EmptyStep(r) /\ ~ \E o \in Operation : Receive(r, o)
      BY <3>1 DEF EmptyStep, Receive, At, BeforeCall
    <3>3. QED
      BY <2>2, <3>2 DEF Handling, ReadProject, ReadNames, ReadOrganization, WriteProject,
         WriteEnv, WriteRepo, WriteLocks, WriteOrganization, CheckArchive, Answer, Unlock
  <2>3. QED BY <2>1, <2>2
<1>3. QED BY <1>1, <1>2

\* The state an execution starts in.
LEMMA FreshTracking ==
  ASSUME NEW x \in Requests, Known', xpc'[x] = "read", todo'[x] = PayloadQueries
  PROVE  Tracking(x)'
BY DEF Tracking, PayloadQueries

LEMMA ExecutingTracks ==
  ASSUME BaseFacts, NEW x \in Requests, Executing(x), Tracking(x),
         outcome'[x] # "failed"
  PROVE  Tracking(x)'
<1>0. Running(x) /\ UNCHANGED <<requestVars, proxyVars>> /\ Method(x)' = Method(x)
  BY DEF Executing, ReadPayload, ReadAll, RunHook, WriteHistory, WriteStatus, Retry, Method
<1>1. CASE ReadPayload(x)
  <2>1. PICK q \in todo[x] :
          /\ todo' = [todo EXCEPT ![x] = @ \ {q}]
          /\ snapshot' = CASE q = "project" ->
                                [snapshot EXCEPT ![x].envs = envs,
                                                 ![x].repos = RepoNames]
                           [] q = "history" ->
                                [snapshot EXCEPT ![x].clusters = @ \cup history]
                           [] q = "clusters" ->
                                [snapshot EXCEPT ![x].clusters =
                                   @ \cup ClustersOf(envs)]
    BY <1>1 DEF ReadPayload
  <2>2. q \in PayloadQueries
    BY <1>1, <2>1 DEF ReadPayload, Running, BaseFacts, RequestOK, ExecutionOK
  <2>3. /\ snapshot[x].clusters \subseteq snapshot'[x].clusters
        /\ q = "history" => history \subseteq snapshot'[x].clusters
    <3>1. CASE q = "project"
      BY <2>1, <3>1 DEF BaseFacts, LocalTypes
    <3>2. CASE q = "history"
      BY <2>1, <3>2 DEF BaseFacts, LocalTypes
    <3>3. CASE q = "clusters"
      BY <2>1, <3>3 DEF BaseFacts, LocalTypes
    <3>4. QED BY <2>2, <3>1, <3>2, <3>3 DEF PayloadQueries
  <2>4. /\ xpc[x] = "read" /\ xpc'[x] = "read" /\ todo'[x] = todo[x] \ {q}
        /\ UNCHANGED <<history, services>>
    BY <1>1, <2>1 DEF ReadPayload, BaseFacts, LocalTypes
  <2>5. Known' /\ (q # "history" /\ "history" \notin todo[x] =>
                     history \subseteq snapshot[x].clusters)
    BY <2>4 DEF Tracking, Known
  <2>6. "history" \notin todo'[x] => history' \subseteq snapshot'[x].clusters
    BY <2>3, <2>4, <2>5
  <2>7. QED BY <2>4, <2>5, <2>6 DEF Tracking
<1>2. CASE ReadAll(x) /\ UNCHANGED proxyVars
  <2>1. /\ xpc[x] = "read" /\ xpc'[x] = "hook"
        /\ UNCHANGED <<history, services, snapshot, todo>>
    BY <1>2 DEF ReadAll, Proxy!Reject, BaseFacts, LocalTypes, ProxyTypes
  <2>2. QED BY <2>1 DEF Tracking, Known
<1>3. ASSUME NEW res \in Outcomes, RunHook(x, res)
      PROVE  Tracking(x)'
  <2>1. /\ res # "failed" /\ xpc[x] = "hook" /\ todo[x] = {}
        /\ UNCHANGED <<history, snapshot>> /\ xpc'[x] = "history"
        /\ services' \in [envs : {Namespaces(x)}, repos : {Repositories(x)}]
    BY <1>3 DEF RunHook, BaseFacts, LocalTypes, RequestOK, ExecutionOK
  <2>2. Known /\ history \subseteq snapshot[x].clusters
    BY <2>1 DEF Tracking
  <2>3. {e \in services.envs : ClusterOf[e] \notin snapshot[x].clusters} = {}
    BY <2>2 DEF Known, ClustersOf
  <2>4. /\ Namespaces(x) = IF Method(x) = "upsert" THEN snapshot[x].envs ELSE {}
        /\ Repositories(x) = IF Method(x) = "upsert" THEN snapshot[x].repos ELSE {}
    BY <2>3 DEF Namespaces, Repositories
  <2>5. services' = Left(x)
    BY <2>1, <2>4 DEF Left
  <2>6. Left(x)' = Left(x)
    BY <1>0, <2>1 DEF Left
  <2>7. QED BY <2>1, <2>5, <2>6 DEF Tracking
<1>4. CASE WriteHistory(x)
  <2>1. /\ xpc[x] = "history" /\ xpc'[x] = "status" /\ UNCHANGED <<services, snapshot>>
        /\ history' = IF Method(x) = "upsert" THEN ClustersOf(snapshot[x].envs) ELSE {}
    BY <1>4 DEF WriteHistory, BaseFacts, LocalTypes
  <2>2. services = Left(x)
    BY <2>1 DEF Tracking
  <2>3. Known'
    <3>1. CASE Method(x) = "upsert"
      BY <2>1, <2>2, <3>1 DEF Left, Known
    <3>2. CASE Method(x) # "upsert"
      BY <2>1, <2>2, <3>2 DEF Left, Known, ClustersOf
    <3>3. QED BY <3>1, <3>2
  <2>4. Left(x)' = Left(x)
    BY <1>0, <2>1 DEF Left
  <2>5. QED BY <2>1, <2>2, <2>3, <2>4 DEF Tracking
<1>5. CASE WriteStatus(x)
  <2>1. /\ xpc[x] = "status" /\ xpc'[x] = "end" /\ UNCHANGED <<history, services>>
    BY <1>5 DEF WriteStatus, BaseFacts, LocalTypes
  <2>2. QED BY <2>1 DEF Tracking, Known
<1>6. CASE Retry(x)
  <2>1. outcome'[x] = "failed"
    BY <1>6 DEF Retry, Retries
  <2>2. QED BY <2>1
<1>7. QED BY <1>1, <1>2, <1>3, <1>4, <1>5, <1>6 DEF Executing

LEMMA TrackNext == BaseInv /\ TrackInv /\ Next => TrackInv'
<1>1. SUFFICES ASSUME BaseInv, TrackInv, Next, clean'
               PROVE  /\ Undisturbed'
                      /\ (\A x \in Requests : ~Running(x))' => Known'
                      /\ \A x \in Requests : Running(x)' => Tracking(x)'
  BY DEF TrackInv
<1>2. BaseFacts
  BY <1>1, BaseGives
<1>3. /\ clean /\ Undisturbed /\ Undisturbed'
      /\ (\A x \in Requests : ~Running(x)) => Known
      /\ \A x \in Requests : Running(x) => Tracking(x)
  BY <1>1, <1>2 DEF TrackInv, Next, Note, BaseFacts, LocalTypes
<1>4. PICK a \in Requests :
        Handling(a) \/ CallHook(a) \/ Executing(a) \/ End(a) \/ Rejecting(a)
  BY <1>1, NextForms
<1>5. CASE Handling(a)
  <2>1. /\ UNCHANGED <<history, services, execVars, proxyVars>>
        /\ \A q \in Requests : exec[q] # "none" => todo'[q] = todo[q]
    BY <1>2, <1>5, HandlingLeaves
  <2>2. Known' = Known /\ \A x \in Requests : Running(x)' = Running(x)
    BY <2>1 DEF Known, Running
  <2>3. \A x \in Requests : Running(x) => (Tracking(x)' <=> Tracking(x))
    BY <2>1, <2>2 DEF Tracking, Left, Method, Running
  <2>4. QED BY <1>3, <2>2, <2>3
<1>6. CASE CallHook(a)
  <2>1. /\ UNCHANGED <<history, services, execVars>>
        /\ \A q \in Requests \ {a} : Same(q)
        /\ todo'[a] = PayloadQueries /\ xpc'[a] = "read"
    BY <1>2, <1>6, CallBase DEF BaseFacts
  <2>2. Known' = Known /\ ~Running(a)
    BY <1>2, <1>6, <2>1
       DEF Known, Running, CallHook, At, BaseFacts, RequestOK, HandlerOK, BeforeCall
  <2>3. \A x \in Requests \ {a} : /\ Running(x)' = Running(x)
                                  /\ Tracking(x)' <=> Tracking(x)
    BY <2>1, <2>2 DEF Tracking, Left, Method, Running, Same
  <2>4. CASE Running(a)'
    <3>1. \A x \in Requests : ~Running(x)
      BY <1>3, <2>2, <2>3, <2>4 DEF Undisturbed
    <3>2. Tracking(a)'
      BY <1>3, <2>1, <2>2, <3>1, FreshTracking
    <3>3. QED BY <1>3, <2>3, <2>4, <3>1, <3>2
  <2>5. CASE ~Running(a)'
    BY <1>3, <2>2, <2>3, <2>5
  <2>6. QED BY <2>4, <2>5
<1>7. CASE Executing(a)
  <2>1. UNCHANGED proxyVars /\ Running(a)
    BY <1>7 DEF Executing, ReadPayload, ReadAll, RunHook, WriteHistory, WriteStatus, Retry
  <2>2. \A x \in Requests : Running(x)' <=> x = a
    BY <1>3, <2>1 DEF Undisturbed, Running
  <2>3. outcome'[a] # "failed"
    BY <1>3 DEF Undisturbed
  <2>4. Tracking(a)'
    BY <1>2, <1>3, <1>7, <2>1, <2>3, ExecutingTracks
  <2>5. QED BY <1>3, <2>2, <2>4
<1>8. CASE End(a)
  <2>1. /\ UNCHANGED <<rowVars, services, todo, execVars>>
        /\ Running(a) /\ xpc[a] = "end" /\ exec'[a] = "resolved"
        /\ \A q \in Requests \ ({a} \cup Woken(a)) : Same(q)
        /\ \A q \in Woken(a) : xpc[q] = "read" /\ todo[q] = PayloadQueries
    BY <1>2, <1>8, EndBase DEF BaseFacts
  <2>2. Known'
    BY <1>3, <2>1 DEF Tracking, Known
  <2>3. ASSUME NEW x \in Requests, Running(x)'
        PROVE  Tracking(x)'
    <3>1. x # a
      BY <2>1, <2>3 DEF Running
    <3>2. x \in Woken(a)
      BY <1>3, <2>1, <2>3, <3>1 DEF Undisturbed, Running, Same
    <3>3. QED BY <2>1, <2>2, <3>2, FreshTracking
  <2>4. QED BY <1>3, <2>2, <2>3
<1>9. CASE Rejecting(a)
  BY <1>2, <1>3, <1>9, RejectBase DEF BaseFacts, Undisturbed
<1>10. QED BY <1>4, <1>5, <1>6, <1>7, <1>8, <1>9

\* Only an execution of delete that archived everything archives.
LEMMA GoneStep ==
  ASSUME BaseInv, TrackInv, Next, status' = "archived", status # "archived", clean'
  PROVE  services = [envs |-> {}, repos |-> {}]
<1>1. BaseFacts
  BY BaseGives
<1>2. clean /\ \A x \in Requests : Running(x) => Tracking(x)
  BY <1>1 DEF TrackInv, Next, Note, BaseFacts, LocalTypes
<1>3. PICK a \in Requests :
        Handling(a) \/ CallHook(a) \/ Executing(a) \/ End(a) \/ Rejecting(a)
  BY NextForms
<1>4. WriteStatus(a)
  BY <1>1, <1>3, HandlingLeaves
     DEF CallHook, Executing, ReadPayload, ReadAll, RunHook, WriteHistory, Retry, End,
         Rejecting
<1>5. /\ Running(a) /\ xpc[a] = "status" /\ StatusAfter(a) = "archived"
  BY <1>4 DEF WriteStatus
<1>6. Method(a) # "upsert"
  BY <1>1, <1>5 DEF StatusAfter, BaseFacts, LocalTypes
<1>7. Method(a) = "delete"
  BY <1>1, <1>5, <1>6
     DEF Method, Running, BaseFacts, RequestOK, HandlerOK, HookMethod
<1>8. services = Left(a)
  BY <1>2, <1>5, <1>7 DEF Tracking
<1>9. QED BY <1>6, <1>8 DEF Left

-----------------------------------------------------------------------------
(* Why rows and services end up the same.                                  *)

\* An answer is given once.
LEMMA AnsweredOnce ==
  ASSUME BaseInv, Next, NEW q \in Requests
  PROVE  /\ result[q] # "none" => result'[q] = result[q]
         /\ pc[q] = "refused" => pc'[q] = "refused"
<1>1. BaseFacts
  BY BaseGives
<1>2. PICK r \in Requests :
        Handling(r) \/ CallHook(r) \/ Executing(r) \/ End(r) \/ Rejecting(r)
  BY NextForms
<1>3. result[q] # "none" => rpc[q] = "done"
  BY <1>1 DEF BaseFacts, RequestOK, HandlerOK
<1>4. CASE Handling(r)
  <2>1. CASE q = r
    <3>1. rpc[r] # "done" /\ UNCHANGED proxyVars
      BY <1>4 DEF Handling, Receive, ReadProject, ReadNames, ReadOrganization,
           WriteProject, WriteEnv, WriteRepo, WriteLocks, WriteOrganization, EmptyStep,
           CheckArchive, Answer, Unlock, At
    <3>2. QED BY <1>3, <2>1, <3>1
  <2>2. CASE q # r
    BY <1>1, <1>4, <2>2, HandlingBase DEF BaseFacts, Same
  <2>3. QED BY <2>1, <2>2
<1>5. CASE CallHook(r)
  <2>1. rpc[r] = "call" /\ pc[r] = "idle"
    BY <1>1, <1>5 DEF CallHook, At, BaseFacts, RequestOK, HandlerOK, BeforeCall
  <2>2. q # r => Same(q)
    BY <1>1, <1>5, CallBase DEF BaseFacts
  <2>3. QED BY <1>3, <2>1, <2>2 DEF Same
<1>6. CASE Executing(r)
  BY <1>1, <1>6, ExecutingBase DEF BaseFacts
<1>7. CASE End(r)
  <2>1. pc[q] = "refused" => q \notin Woken(r)
    BY DEF Woken
  <2>2. UNCHANGED result /\ (q \notin Woken(r) => pc'[q] = pc[q])
    BY <1>1, <1>7, EndBase DEF BaseFacts, Same
  <2>3. QED BY <2>1, <2>2
<1>8. CASE Rejecting(r)
  BY <1>8 DEF Rejecting, Proxy!Reject
<1>9. QED BY <1>2, <1>4, <1>5, <1>6, <1>7, <1>8

LEMMA CalmBackwards ==
  ASSUME BaseInv, Next
  PROVE  /\ Calm' => Calm /\ Undisturbed'
         /\ NoArchive' => NoArchive
<1>1. BaseFacts
  BY BaseGives
<1>2. clean' => clean /\ Undisturbed'
  BY <1>1 DEF Next, Note, BaseFacts, LocalTypes
<1>3. \A q \in Requests : Archives(q) => Archives(q)'
  BY OpKept DEF Archives
<1>4. \A q \in Requests : result[q] # "none" => result'[q] = result[q]
  BY AnsweredOnce
<1>5. \A q \in Requests : pc[q] = "refused" => pc'[q] = "refused"
  BY AnsweredOnce
<1>6. Calm' => Calm
  BY <1>2, <1>3, <1>4, <1>5 DEF Calm
<1>7. NoArchive' => NoArchive
  BY <1>3 DEF NoArchive
<1>8. QED BY <1>2, <1>6, <1>7 DEF Calm

\* Rows change only under a request whose execution has still to begin.
LEMMA HandlingComes ==
  ASSUME BaseFacts, NEW r \in Requests, Handling(r)
  PROVE  /\ UNCHANGED <<envs, repos>> \/ Coming(r)'
         /\ Coming(r) => Coming(r)' \/ (Archives(r)' /\ result'[r] = "forbidden")
<1>0. UNCHANGED proxyVars
  BY HandlingBase DEF BaseFacts
<1>1. CASE WriteEnv(r) \/ WriteRepo(r)
  BY <1>0, <1>1 DEF WriteEnv, WriteRepo, At, Goto, Finish, Coming, BaseFacts, LocalTypes
<1>2. CASE EmptyStep(r)
  BY <1>0, <1>2 DEF EmptyStep, At, Coming, BaseFacts, LocalTypes
<1>3. CASE CheckArchive(r)
  <2>1. op[r] \in Operation /\ rpc[r] = "empty" /\ Kind(r) = "archive"
    BY <1>3 DEF CheckArchive, At, BaseFacts, RequestOK, HandlerOK
  <2>2. op[r] \in Ask("archive", None) /\ op'[r] = op[r]
    BY <1>3, <2>1, OperationShape DEF Kind, Target, EnvKinds, RepoKinds, CheckArchive
  <2>3. QED
    BY <1>0, <1>3, <2>2 DEF CheckArchive, Goto, Finish, Coming, Archives, BaseFacts, LocalTypes
<1>4. CASE \/ \E o \in Operation : Receive(r, o)
           \/ ReadProject(r) \/ ReadNames(r) \/ ReadOrganization(r) \/ WriteProject(r)
           \/ WriteLocks(r) \/ WriteOrganization(r) \/ Unlock(r)
  <2>1. /\ UNCHANGED <<envs, repos>>
        /\ rpc[r] \in {"idle", "read", "write", "org", "unlock"}
    BY <1>4 DEF Receive, ReadProject, ReadNames, ReadOrganization, WriteProject,
                WriteLocks, WriteOrganization, Unlock, At
  <2>2. ~Coming(r)
    BY <2>1 DEF Coming, BaseFacts, RequestOK, HandlerOK
  <2>3. QED BY <2>1, <2>2
<1>5. CASE Answer(r)
  BY <1>5 DEF Answer, At, Coming
<1>6. QED BY <1>1, <1>2, <1>3, <1>4, <1>5 DEF Handling

LEMMA ReadingStaysCurrent ==
  ASSUME BaseFacts, NEW x \in Requests, Executing(x), Reading(x), Reading(x)',
         NoArchive' => NoArchive, Current(x)
  PROVE  Current(x)'
<1>1. /\ UNCHANGED <<envs, repos, requestVars, proxyVars>> /\ Method(x)' = Method(x)
  BY DEF Executing, ReadPayload, ReadAll, RunHook, WriteHistory, WriteStatus, Retry, Method
<1>2. RepoNames' = RepoNames
  BY <1>1 DEF RepoNames
<1>3. CASE ReadPayload(x)
  <2>1. PICK q \in todo[x] :
          /\ todo' = [todo EXCEPT ![x] = @ \ {q}]
          /\ snapshot' = CASE q = "project" ->
                                [snapshot EXCEPT ![x].envs = envs,
                                                 ![x].repos = RepoNames]
                           [] q = "history" ->
                                [snapshot EXCEPT ![x].clusters = @ \cup history]
                           [] q = "clusters" ->
                                [snapshot EXCEPT ![x].clusters =
                                   @ \cup ClustersOf(envs)]
    BY <1>3 DEF ReadPayload
  <2>2. q \in PayloadQueries
    BY <1>3, <2>1 DEF ReadPayload, Running, BaseFacts, RequestOK, ExecutionOK
  <2>3. todo'[x] = todo[x] \ {q}
    BY <2>1 DEF BaseFacts, LocalTypes
  <2>4. CASE q = "project"
    <3>1. snapshot'[x].envs = envs /\ snapshot'[x].repos = RepoNames
      BY <2>1, <2>4 DEF BaseFacts, LocalTypes
    <3>2. CASE Method(x) = "upsert"
      <4>1. Left(x)'.envs = envs /\ Left(x)'.repos = RepoNames
        BY <1>1, <3>1, <3>2 DEF Left
      <4>2. QED BY <1>1, <1>2, <4>1 DEF Current, Matches
    <3>3. CASE Method(x) # "upsert"
      <4>1. op[x] \in Operation /\ Kind(x) = "archive" /\ rpc[x] = "hook"
        BY <3>3 DEF Reading, Running, Method, BaseFacts, RequestOK, HandlerOK, AnswerOK,
                    HookMethod
      <4>2. Archives(x)
        BY <4>1, OperationShape DEF Archives, Kind, Target, EnvKinds, RepoKinds
      <4>3. ~NoArchive'
        BY <4>2 DEF NoArchive
      <4>4. Left(x)'.envs = {} /\ Left(x)'.repos = {}
        BY <1>1, <3>3 DEF Left
      <4>5. QED BY <4>3, <4>4 DEF Current, Matches
    <3>4. QED BY <3>2, <3>3
  <2>5. CASE q \in {"history", "clusters"}
    <3>1. /\ snapshot'[x].envs = snapshot[x].envs
          /\ snapshot'[x].repos = snapshot[x].repos
      BY <2>1, <2>5 DEF BaseFacts, LocalTypes
    <3>2. /\ Left(x)'.envs = Left(x).envs
          /\ Left(x)'.repos = Left(x).repos
      BY <1>1, <3>1 DEF Left
    <3>3. QED BY <1>1, <1>2, <2>3, <2>5, <3>2 DEF Current, Matches
  <2>6. QED BY <2>2, <2>4, <2>5 DEF PayloadQueries
<1>4. CASE ReadAll(x)
  <2>1. UNCHANGED <<todo, snapshot>>
    BY <1>4 DEF ReadAll
  <2>2. Left(x)' = Left(x)
    BY <1>1, <2>1 DEF Left
  <2>3. QED BY <1>1, <1>2, <2>1, <2>2 DEF Current, Matches
<1>5. CASE ~ReadPayload(x) /\ ~ReadAll(x)
  BY <1>5 DEF Executing, RunHook, WriteHistory, WriteStatus, Retry, Reading, BaseFacts,
              LocalTypes
<1>6. QED BY <1>3, <1>4, <1>5

LEMMA ConvergeNext == BaseInv /\ TrackInv /\ ConvergeInv /\ Next => ConvergeInv'
<1>1. SUFFICES ASSUME BaseInv, TrackInv, ConvergeInv, Next, Calm'
               PROVE  /\ \/ Matches(services.envs, services.repos)'
                         \/ \E r \in Requests : Coming(r)' \/ (Reading(r)' /\ Current(r)')
                      /\ \A x \in Requests : Reading(x)' =>
                           Current(x)' \/ \E r \in Requests : Coming(r)'
  BY DEF ConvergeInv
<1>2. BaseFacts
  BY <1>1, BaseGives
<1>3. Calm /\ Undisturbed' /\ (NoArchive' => NoArchive)
  BY <1>1, CalmBackwards
<1>4. /\ Undisturbed
      /\ \A x \in Requests : Running(x) => Tracking(x)
  BY <1>1, <1>3 DEF TrackInv, Calm
<1>5. /\ \/ Matches(services.envs, services.repos)
         \/ \E r \in Requests : Coming(r) \/ (Reading(r) /\ Current(r))
      /\ \A x \in Requests : Reading(x) => Current(x) \/ \E r \in Requests : Coming(r)
  BY <1>1, <1>3 DEF ConvergeInv
<1>6. PICK a \in Requests :
        Handling(a) \/ CallHook(a) \/ Executing(a) \/ End(a) \/ Rejecting(a)
  BY <1>1, NextForms
<1>7. ASSUME UNCHANGED <<envs, repos>>
      PROVE  /\ RepoNames' = RepoNames
             /\ \A es, rs : Matches(es, rs) =>
                  /\ es \subseteq envs' /\ rs \subseteq RepoNames'
                  /\ NoArchive' => es = envs' /\ rs = RepoNames'
  BY <1>3, <1>7 DEF Matches, RepoNames
<1>8. CASE Handling(a)
  <2>1. /\ UNCHANGED <<services, snapshot, xpc, call, exec, pc>>
        /\ \A q \in Requests : exec[q] # "none" => todo'[q] = todo[q]
        /\ \A q \in Requests \ {a} : rpc'[q] = rpc[q]
    BY <1>2, <1>8, HandlingLeaves, HandlingBase DEF BaseFacts, Same
  <2>2. CASE Coming(a)'
    BY <2>2
  <2>3. CASE ~Coming(a)'
    <3>1. UNCHANGED <<envs, repos>> /\ ~Coming(a)
      BY <1>1, <1>2, <1>8, <2>3, HandlingComes DEF Calm
    <3>2. \A r \in Requests : Coming(r) => Coming(r)'
      BY <2>1, <3>1 DEF Coming
    <3>3. \A x \in Requests : Reading(x)' <=> Reading(x)
      BY <2>1 DEF Reading, Running
    <3>4. ASSUME NEW x \in Requests, Reading(x), Current(x)
          PROVE  Current(x)'
      <4>1. Left(x)' = Left(x) /\ todo'[x] = todo[x]
        BY <2>1, <3>4 DEF Left, Method, Reading, Running
      <4>2. QED BY <1>7, <3>1, <3>4, <4>1 DEF Current, Matches
    <3>5. Matches(services.envs, services.repos) => Matches(services.envs, services.repos)'
      BY <1>7, <2>1, <3>1 DEF Matches
    <3>6. QED BY <1>5, <3>2, <3>3, <3>4, <3>5
  <2>4. QED BY <2>2, <2>3
<1>9. CASE CallHook(a)
  <2>1. /\ UNCHANGED <<envs, repos, services, execVars>>
        /\ \A q \in Requests \ {a} : Same(q)
        /\ todo'[a] = PayloadQueries /\ xpc'[a] = "read"
    BY <1>2, <1>9, CallBase DEF BaseFacts
  <2>2. pc'[a] \in {"waiting", "served"} /\ (pc'[a] = "served" => exec'[a] = "running")
    BY <1>1, <1>2, <1>9
       DEF Calm, CallHook, Proxy!Call, Proxy!Refuse, Proxy!Join, Proxy!Start, BaseFacts,
           ProxyTypes
  <2>3. CASE pc'[a] = "waiting"
    BY <2>3 DEF Coming
  <2>4. CASE exec'[a] = "running"
    <3>1. Reading(a)' /\ Current(a)'
      BY <2>1, <2>4 DEF Reading, Running, Current, PayloadQueries
    <3>2. \A x \in Requests : Reading(x)' => x = a
      BY <1>3, <3>1 DEF Undisturbed, Reading
    <3>3. QED BY <3>1, <3>2
  <2>5. QED BY <2>2, <2>3, <2>4
<1>10. CASE Executing(a)
  <2>1. /\ UNCHANGED <<envs, repos, requestVars, proxyVars>> /\ Running(a)
    BY <1>10 DEF Executing, ReadPayload, ReadAll, RunHook, WriteHistory, WriteStatus, Retry
  <2>2. \A x \in Requests : /\ Running(x) <=> x = a
                            /\ Running(x)' <=> x = a
    BY <1>4, <2>1 DEF Undisturbed, Running
  <2>3. \A r \in Requests : Coming(r)' <=> Coming(r)
    BY <2>1 DEF Coming
  <2>4. CASE \E r \in Requests : Coming(r)
    BY <2>3, <2>4
  <2>5. CASE ~ \E r \in Requests : Coming(r)
    <3>1. \/ Matches(services.envs, services.repos)
          \/ Reading(a) /\ Current(a)
      BY <1>5, <2>2, <2>5 DEF Reading
    <3>2. Reading(a) => Current(a)
      BY <1>5, <2>5
    <3>3. CASE Reading(a)'
      <4>1. Reading(a)
        BY <1>2, <1>3, <1>10, <2>1, <3>3
           DEF Executing, ReadPayload, ReadAll, RunHook, WriteHistory, WriteStatus, Retry,
               Retries, Undisturbed, Reading, Running, BaseFacts, LocalTypes
      <4>2. Current(a)'
        BY <1>2, <1>3, <1>10, <3>2, <3>3, <4>1, ReadingStaysCurrent
      <4>3. QED BY <2>2, <3>3, <4>2 DEF Reading
    <3>4. CASE ~Reading(a)' /\ Reading(a)
      <4>1. PICK res \in Outcomes : RunHook(a, res)
        BY <1>2, <1>10, <2>2, <3>4
           DEF Executing, ReadPayload, ReadAll, WriteHistory, WriteStatus, Retry,
               Reading, BaseFacts, LocalTypes
      <4>2. xpc[a] = "hook" /\ xpc'[a] = "history" /\ todo[a] = {} /\ UNCHANGED snapshot
        BY <1>2, <1>3, <4>1
           DEF RunHook, Undisturbed, BaseFacts, LocalTypes, RequestOK, ExecutionOK
      <4>3. Tracking(a)'
        BY <1>2, <1>3, <1>4, <1>10, <2>1, ExecutingTracks DEF Undisturbed
      <4>4. services' = Left(a)'
        BY <4>2, <4>3 DEF Tracking
      <4>5. Left(a)' = Left(a)
        BY <2>1, <4>2 DEF Left, Method
      <4>6. Matches(Left(a).envs, Left(a).repos)
        BY <3>2, <3>4, <4>2 DEF Current
      <4>7. Matches(services.envs, services.repos)'
        BY <1>7, <2>1, <4>4, <4>5, <4>6 DEF Matches
      <4>8. QED BY <2>2, <3>4, <4>7 DEF Reading
    <3>5. CASE ~Reading(a)' /\ ~Reading(a)
      <4>1. UNCHANGED services
        BY <1>10, <2>1, <3>5
           DEF Executing, ReadPayload, ReadAll, RunHook, WriteHistory, WriteStatus, Retry,
               Reading
      <4>2. Matches(services.envs, services.repos)'
        BY <1>7, <2>1, <3>1, <3>5, <4>1 DEF Matches
      <4>3. QED BY <2>2, <3>5, <4>2 DEF Reading
    <3>6. QED BY <3>3, <3>4, <3>5
  <2>6. QED BY <2>4, <2>5
<1>11. CASE End(a)
  <2>1. /\ UNCHANGED <<rowVars, services, rpc, todo, execVars, call>>
        /\ Running(a) /\ xpc[a] = "end" /\ exec'[a] = "resolved"
        /\ \A q \in Requests \ ({a} \cup Woken(a)) : Same(q)
        /\ \A q \in Woken(a) : /\ xpc[q] = "read" /\ todo[q] = PayloadQueries
                              /\ exec'[q] = "running"
        /\ pc'[a] = pc[a]
    BY <1>2, <1>11, EndBase DEF BaseFacts
  <2>2. \A x \in Requests : Running(x)' => x \in Woken(a)
    BY <1>4, <2>1 DEF Undisturbed, Running, Same
  <2>3. \A x \in Requests : Reading(x)' => Current(x)'
    BY <2>1, <2>2 DEF Reading, Current, PayloadQueries
  <2>4. CASE Woken(a) = {}
    <3>1. \A r \in Requests : ~Reading(r)
      BY <1>4, <2>1 DEF Undisturbed, Reading
    <3>2. \A r \in Requests : Coming(r) => Coming(r)'
      BY <2>1, <2>4 DEF Coming, Same
    <3>3. Matches(services.envs, services.repos) => Matches(services.envs, services.repos)'
      BY <1>7, <2>1 DEF Matches
    <3>4. QED BY <1>5, <2>3, <3>1, <3>2, <3>3
  <2>5. CASE Woken(a) # {}
    <3>1. PICK q \in Woken(a) : TRUE
      BY <2>5
    <3>2. q \in Requests /\ Reading(q)'
      BY <2>1, <3>1 DEF Woken, Reading, Running
    <3>3. QED BY <2>3, <3>2
  <2>6. QED BY <2>4, <2>5
<1>12. CASE Rejecting(a)
  BY <1>2, <1>3, <1>12, RejectBase DEF BaseFacts, Undisturbed
<1>13. QED BY <1>6, <1>8, <1>9, <1>10, <1>11, <1>12

LEMMA Converged == BaseInv /\ ConvergeInv => CleanRunsConverge
<1>1. SUFFICES ASSUME BaseInv, ConvergeInv, AtRest, clean,
                      \A r \in Requests : pc[r] # "refused",
                      \A r \in Requests : op[r] \in Ask("archive", None) => result[r] = "ok"
               PROVE  /\ services.envs \subseteq envs
                      /\ services.repos \subseteq RepoNames
                      /\ (\A r \in Requests : op[r] \notin Ask("archive", None))
                           => services = [envs |-> envs, repos |-> RepoNames]
  BY DEF CleanRunsConverge
<1>2. BaseFacts
  BY <1>1, BaseGives
<1>3. Calm
  BY <1>1 DEF Calm, Archives
<1>4. \A r \in Requests : ~Coming(r) /\ ~Reading(r)
  BY <1>1, <1>2 DEF AtRest, Coming, Reading, BaseFacts, RequestOK, HandlerOK
<1>5. Matches(services.envs, services.repos)
  BY <1>1, <1>3, <1>4 DEF ConvergeInv
<1>6. ASSUME \A r \in Requests : op[r] \notin Ask("archive", None)
      PROVE  services = [envs |-> envs, repos |-> RepoNames]
  <2>1. services.envs = envs /\ services.repos = RepoNames
    BY <1>5, <1>6 DEF Matches, NoArchive, Archives
  <2>2. QED BY <1>2, <2>1 DEF BaseFacts, LocalTypes
<1>7. QED BY <1>5, <1>6 DEF Matches

LEMMA Delivered == BaseInv /\ DeliveryInv => CreatedIsDelivered
<1>1. SUFFICES ASSUME BaseInv, DeliveryInv, NEW r \in Requests, NEW t \in Envs \cup Repos,
                      result[r] = "ok", Creates(r, t),
                      \A q \in Requests :
                        op[q] \notin Ask("archive", None) \cup Ask("deleteEnv", t)
                                       \cup Ask("deleteRepo", t)
               PROVE  t \in snapshot[answer[r]].envs \cup snapshot[answer[r]].repos
  BY DEF CreatedIsDelivered, Creates
<1>2. BaseFacts
  BY <1>1, BaseGives
<1>3. Holds(r, t) /\ exec[r] = "resolved"
  BY <1>1 DEF DeliveryInv, Kept, Delivering
<1>4. answer[r] = r
  BY <1>2, <1>3 DEF BaseFacts, RequestOK, HandlerOK
<1>5. QED BY <1>3, <1>4 DEF Holds

-----------------------------------------------------------------------------
(* Theorems.                                                               *)

LEMMA LInit == Init => LInv
<1>1. SUFFICES ASSUME Init PROVE LInv
  OBVIOUS
<1>2. BaseInv /\ BaseFacts
  BY <1>1, BaseInit, BaseGives
<1>3. /\ \A r \in Requests : /\ rpc[r] = "idle" /\ result[r] = "none" /\ exec[r] = "none"
                            /\ pc[r] = "idle" /\ outcome[r] = "none"
      /\ status = "created" /\ envs = {} /\ history = {} /\ services = [envs |-> {}, repos |-> {}]
      /\ RepoNames = {}
  BY <1>1 DEF Init, Proxy!ProxyInit, RepoNames
<1>4. DeliveryInv
  BY <1>3 DEF DeliveryInv, Delivering
<1>5. FailureInv
  BY <1>3 DEF FailureInv
<1>6. TrackInv
  BY <1>3 DEF TrackInv, Undisturbed, Running, Known, ClustersOf
<1>7. ConvergeInv
  BY <1>3 DEF ConvergeInv, Matches, Reading, Running
<1>8. QED BY <1>2, <1>4, <1>5, <1>6, <1>7 DEF LInv

LEMMA LNext == LInv /\ [Next]_vars => LInv'
<1>1. LInv /\ Next => LInv'
  BY BaseNext, DeliveryNext, FailureNext, TrackNext, ConvergeNext DEF LInv
<1>2. ASSUME LInv, UNCHANGED vars
      PROVE  LInv'
  <2>1. UNCHANGED <<rowVars, services, requestVars, todo, execVars, clean, proxyVars>>
    BY <1>2 DEF vars
  <2>2. BaseInv'
    <3>1. TypeOK'
      <4>1. Proxy!TypeOK'
        BY <1>2, <2>1 DEF LInv, BaseInv, TypeOK, Proxy!TypeOK
      <4>2. QED BY <1>2, <2>1, <4>1 DEF LInv, BaseInv, TypeOK
    <3>2. \A r \in Requests : RequestOK(r)
      BY <1>2 DEF LInv, BaseInv, RequestOK
    <3>3. \A r \in Requests : Same(r)
      BY <2>1 DEF Same
    <3>4. \A r \in Requests : RequestOK(r)'
      BY <3>2, <3>3, SameKept
    <3>5. QED BY <3>1, <3>4 DEF BaseInv, RequestOK
  <2>3. DeliveryInv'
    BY <1>2, <2>1 DEF LInv, DeliveryInv, Creates, Kept, Delivering, HasRow, Holds, Kind,
                      RepoNames
  <2>4. FailureInv'
    BY <1>2, <2>1 DEF LInv, FailureInv, Culprit
  <2>5. TrackInv'
    BY <1>2, <2>1 DEF LInv, TrackInv, Undisturbed, Running, Known, Tracking, Left, Method
  <2>6. ConvergeInv'
    BY <1>2, <2>1 DEF LInv, ConvergeInv, Calm, Archives, NoArchive, Matches, Coming,
                      Reading, Running, Current, Left, Method, RepoNames
  <2>7. QED BY <2>2, <2>3, <2>4, <2>5, <2>6 DEF LInv
<1>3. QED BY <1>1, <1>2

\* The strengthening that makes the properties of a project inductive: where
\* each request and its execution may be, what is still to be delivered,
\* blamed, tracked and read.
THEOREM LifecycleInvariant == Spec => []LInv
<1>1. QED BY LInit, LNext, PTL DEF Spec

\* The state of the project, of its requests and of the proxy is always well
\* formed; in particular no deletion drives the number of rows of a name
\* below zero.
THEOREM LifecycleTypeCorrect == Spec => []TypeOK
<1>1. LInv => TypeOK
  BY DEF LInv, BaseInv
<1>2. QED BY LifecycleInvariant, <1>1, PTL

\* An environment or a repository that was created and answered without
\* error was in the payload of the execution that answered, as long as
\* nobody was asked to remove it (hook-wrapper.ts:15-29, proxy.ts:54-60).
THEOREM CreationsAreDelivered == Spec => []CreatedIsDelivered
<1>1. LInv => CreatedIsDelivered
  BY Delivered DEF LInv
<1>2. QED BY LifecycleInvariant, <1>1, PTL

\* A project left failed with nothing in progress has an execution that
\* failed or threw, and whoever asked for it was told, or had asked in bulk
\* (hook-wrapper.ts:80-94, business.ts:156, 183, 211, 266).
THEOREM FailuresAreReported == Spec => []FailureIsReported
<1>1. LInv => FailureIsReported
  BY FailureShown DEF LInv
<1>2. QED BY LifecycleInvariant, <1>1, PTL

\* Undisturbed executions leave no namespace on a cluster outside the
\* history of the project (hook-wrapper.ts:81-83).
THEOREM NamespacesAreTracked == Spec => []NamespacesTracked
<1>1. LInv => NamespacesTracked
  BY DEF LInv, TrackInv, NamespacesTracked, Known
<1>2. QED BY LifecycleInvariant, <1>1, PTL

\* Rows and services agree when undisturbed executions have ended, however
\* many requests waited for one another (proxy.ts:54-70).
THEOREM CleanRunsDoConverge == Spec => []CleanRunsConverge
<1>1. LInv => CleanRunsConverge
  BY Converged DEF LInv
<1>2. QED BY LifecycleInvariant, <1>1, PTL

\* An undisturbed project is marked archived only when the services hold
\* nothing of it (hook-wrapper.ts:88-91, project/business.ts:189-213).
THEOREM ArchivedIsGone == Spec => ArchiveMeansGone
<1>1. LInv /\ [Next]_vars =>
        [(status' = "archived" /\ status # "archived" /\ clean')
           => services = [envs |-> {}, repos |-> {}]]_vars
  BY GoneStep DEF LInv, vars
<1>2. QED BY LifecycleInvariant, <1>1, PTL DEF Spec, ArchiveMeansGone
=============================================================================
