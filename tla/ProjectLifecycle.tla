-------------------------- MODULE ProjectLifecycle --------------------------
(***************************************************************************)
(* One project of the console: the requests of the API that change it      *)
(* (apps/server/src/resources/{project,environment,repository,             *)
(* organization}), each a sequence of database accesses separated by       *)
(* awaits, and the executions of the upsert and delete hooks they start    *)
(* through GenericProxy (apps/server/src/utils/hook-wrapper.ts).           *)
(*                                                                         *)
(* The plugins are represented by the outcome of a hook (HookOutcome) and  *)
(* by what exists on the services afterwards.                              *)
(***************************************************************************)
EXTENDS Naturals, FiniteSets

CONSTANTS
  Requests,    \* the requests, each one operation
  Operations,  \* the kinds of operation considered
  Envs,        \* names of environments
  Repos,       \* internal names of repositories
  Clusters,    \* the clusters
  ClusterOf,   \* the cluster an environment is created on
  Outcomes,    \* outcomes a hook may have: "done", "warning", "failed"
  MayThrow,    \* whether a query or a plugin may throw in an execution
  Project,     \* the id of the project, the key of the proxy
  None         \* no promise, no argument, no operation
               \* (The operators named Bad... are faulty variants of the
               \* definition that follows them; nothing uses them.)

ASSUME LifecycleAssumption ==
  /\ ClusterOf \in [Envs -> Clusters]
  /\ Outcomes \subseteq {"done", "warning", "failed"}
  /\ MayThrow \in BOOLEAN
  /\ None \notin Requests

VARIABLES
  status, locked,     \* columns of the project
  orgActive,          \* Organization.active
  envs,               \* rows of Environment, by name
  repos,              \* repos[n]: the number of rows of Repository named n
  history,            \* rows of ProjectClusterHistory
  services,           \* what exists on the services: namespaces, repositories
  op,                 \* the operation of each request
  rpc,                \* where its handler is
  todo,               \* the queries of its current Promise.all still to run
  seen,               \* the project row it read
  result,             \* what it returned
  xpc,                \* where the execution it started is
  snapshot,           \* the payload of that execution
  outcome,            \* the outcome of its last hook
  attempt,            \* its number of attempts so far
  clean               \* history variable, see Undisturbed

rowVars == <<status, locked, orgActive, envs, repos, history>>
requestVars == <<op, rpc, seen, result>>
execVars == <<xpc, snapshot, outcome, attempt>>

\* hook.project (hook-wrapper.ts:162); getSecrets writes nothing and
\* excludes nothing, it is left out.
ProjectMethods == {"upsert", "delete"}

ProjectExcludes ==
  [m \in ProjectMethods |-> IF m = "upsert" THEN {"delete"}
                                            ELSE {"upsert", "delete"}]

VARIABLES currentExec, nextArgs, call, pc, waitOn, answer, exec, execArgs

Proxy == INSTANCE GenericProxy
  WITH Calls <- Requests, Methods <- ProjectMethods, NoIdMethods <- {},
       Ids <- {Project}, Excludes <- ProjectExcludes, ArgKeys <- {},
       ArgVals <- {}, NoId <- None, NoExec <- None, NoArg <- None,
       NoCall <- None

proxyVars == <<currentExec, nextArgs, call, pc, waitOn, answer, exec, execArgs>>

vars ==
  <<rowVars, services, requestVars, todo, execVars, clean, proxyVars>>

-----------------------------------------------------------------------------
(* Operations.  A target is the environment or repository concerned.       *)

EnvKinds == {"createEnv", "updateEnv", "deleteEnv"}

RepoKinds == {"createRepo", "updateRepo", "deleteRepo"}

\* What bulkActionProject starts; it answers before anything runs, and drops
\* the results (bulkExector, Promise.allSettled).
BulkKinds == {"lock", "unlock", "replay", "archive"}

Operation ==
  {o \in [kind : Operations, target : Envs \cup Repos \cup {None}, bulk : BOOLEAN] :
     /\ o.target \in CASE o.kind \in EnvKinds  -> Envs
                       [] o.kind \in RepoKinds -> Repos
                       [] OTHER                -> {None}
     /\ o.bulk => o.kind \in BulkKinds}

\* An operation, asked by itself or in bulk.
Ask(k, t) == {[kind |-> k, target |-> t, bulk |-> b] : b \in BOOLEAN}

Kind(r) == op[r].kind

Target(r) == op[r].target

\* What the requester learns of what the handler returned.
Told(r) == IF op[r].bulk THEN "accepted" ELSE result[r]

RowStatus == {"created", "warning", "failed", "archived"}

Row == [status |-> status, locked |-> locked]

RepoNames == {n \in Repos : repos[n] > 0}

ClustersOf(E) == {ClusterOf[e] : e \in E}

NoPayload == [envs |-> {}, repos |-> {}, clusters |-> {}]

\* The queries of archiveProject, and those of getProjectPayload.
EmptyQueries == {"row", "repos", "envs"}

PayloadQueries == {"project", "history", "clusters"}

TypeOK ==
  /\ status \in RowStatus
  /\ locked \in BOOLEAN
  /\ orgActive \in BOOLEAN
  /\ envs \subseteq Envs
  /\ repos \in [Repos -> Nat]
  /\ history \subseteq Clusters
  /\ services \in [envs : SUBSET Envs, repos : SUBSET Repos]
  /\ op \in [Requests -> Operation \cup {None}]
  /\ rpc \in [Requests -> {"idle", "read", "write", "org", "empty", "call",
                           "hook", "unlock", "done"}]
  /\ todo \in [Requests -> SUBSET (EmptyQueries \cup PayloadQueries)]
  /\ seen \in [Requests -> [status : RowStatus, locked : BOOLEAN]]
  /\ result \in [Requests -> {"none", "ok", "failed", "forbidden", "threw"}]
  /\ xpc \in [Requests -> {"read", "hook", "history", "status", "end"}]
  /\ snapshot \in [Requests -> [envs : SUBSET Envs, repos : SUBSET Repos,
                                clusters : SUBSET Clusters]]
  /\ outcome \in [Requests -> {"none", "done", "warning", "failed"}]
  /\ attempt \in [Requests -> 1..2]
  /\ clean \in BOOLEAN
  /\ Proxy!TypeOK

\* A project that was provisioned, with nothing in it.
Init ==
  /\ status = "created" /\ locked = FALSE /\ orgActive = TRUE
  /\ envs = {} /\ repos = [n \in Repos |-> 0] /\ history = {}
  /\ services = [envs |-> {}, repos |-> {}]
  /\ op = [r \in Requests |-> None]
  /\ rpc = [r \in Requests |-> "idle"]
  /\ todo = [r \in Requests |-> {}]
  /\ seen = [r \in Requests |-> Row]
  /\ result = [r \in Requests |-> "none"]
  /\ xpc = [r \in Requests |-> "read"]
  /\ snapshot = [r \in Requests |-> NoPayload]
  /\ outcome = [r \in Requests |-> "none"]
  /\ attempt = [r \in Requests |-> 1]
  /\ clean = TRUE
  /\ Proxy!ProxyInit

-----------------------------------------------------------------------------
(* Handlers, up to their call of a hook                                    *)

At(r, l) == rpc[r] = l

Goto(r, l) ==
  /\ rpc' = [rpc EXCEPT ![r] = l]
  /\ UNCHANGED result

Finish(r, res) ==
  /\ rpc' = [rpc EXCEPT ![r] = "done"]
  /\ result' = [result EXCEPT ![r] = res]

FirstStep(k) ==
  CASE k \in {"updateEnv", "deleteEnv", "updateRepo", "deleteRepo"} -> "write"
    [] k = "archive"                                                -> "empty"
    [] OTHER                                                        -> "read"

\* What authUser and the routers let through.  The lock is tested here only,
\* before the reads and writes of the handler; a resource that does not
\* exist is not found.
AdmittedEnv(o) ==
  o.kind \in EnvKinds =>
    /\ ~locked /\ status # "archived"
    /\ o.kind # "createEnv" => o.target \in envs

AdmittedRepo(o) ==
  o.kind \in RepoKinds =>
    /\ ~locked /\ status # "archived"
    /\ o.kind # "createRepo" => o.target \in RepoNames

\* A locked project may only be unlocked; bulkActionProject tests nothing.
AdmittedProject(o) == o.kind \in {"update", "lock"} /\ ~o.bulk => ~locked

Admitted(o) == AdmittedEnv(o) /\ AdmittedRepo(o) /\ AdmittedProject(o)

Receive(r, o) ==
  /\ At(r, "idle")
  /\ op' = [op EXCEPT ![r] = o]
  /\ IF Admitted(o) THEN Goto(r, FirstStep(o.kind)) ELSE Finish(r, "forbidden")
  /\ todo' = [todo EXCEPT ![r] = IF o.kind = "archive" THEN EmptyQueries ELSE {}]
  /\ UNCHANGED <<rowVars, services, seen, execVars, proxyVars>>

\* updateProject, replayHooks: what they read decides whether they go on.
ReadProject(r) ==
  /\ At(r, "read")
  /\ Kind(r) \in {"update", "lock", "unlock", "replay"}
  /\ IF status = "archived" \/ (Kind(r) = "replay" /\ locked)
       THEN Finish(r, "forbidden")
       ELSE Goto(r, IF Kind(r) = "replay" THEN "call" ELSE "write")
  /\ UNCHANGED <<rowVars, services, op, todo, seen, execVars, proxyVars>>

\* checkEnvironmentInput, createRepository: a name in use is refused.
ReadNames(r) ==
  /\ At(r, "read")
  /\ Kind(r) \in {"createEnv", "createRepo"}
  /\ IF Target(r) \in envs \cup RepoNames
       THEN Finish(r, "forbidden")
       ELSE Goto(r, "write")
  /\ UNCHANGED <<rowVars, services, op, todo, seen, execVars, proxyVars>>

\* updateProject: locked is written when the body has it.
WriteProject(r) ==
  /\ At(r, "write")
  /\ Kind(r) \in {"update", "lock", "unlock"}
  /\ locked' = CASE Kind(r) = "lock"   -> TRUE
                 [] Kind(r) = "unlock" -> FALSE
                 [] OTHER              -> locked
  /\ Goto(r, "call")
  /\ UNCHANGED <<status, orgActive, envs, repos, history, services,
                 op, todo, seen, execVars, proxyVars>>

\* An insertion that meets the unique constraint throws, and so does an
\* update or a deletion that finds no row.
WriteEnv(r) ==
  /\ At(r, "write")
  /\ Kind(r) \in EnvKinds
  /\ IF (Target(r) \in envs) = (Kind(r) = "createEnv")
       THEN Finish(r, "threw") /\ UNCHANGED envs
       ELSE /\ Goto(r, "call")
            /\ envs' = CASE Kind(r) = "createEnv" -> envs \cup {Target(r)}
                         [] Kind(r) = "deleteEnv" -> envs \ {Target(r)}
                         [] OTHER                 -> envs
  /\ UNCHANGED <<status, locked, orgActive, repos, history, services,
                 op, todo, seen, execVars, proxyVars>>

\* Nothing in the database makes the names of repositories unique.
WriteRepo(r) ==
  /\ At(r, "write")
  /\ Kind(r) \in RepoKinds
  /\ IF Kind(r) # "createRepo" /\ Target(r) \notin RepoNames
       THEN Finish(r, "threw") /\ UNCHANGED repos
       ELSE /\ Goto(r, "call")
            /\ repos' = [repos EXCEPT ![Target(r)] =
                           CASE Kind(r) = "createRepo" -> @ + 1
                             [] Kind(r) = "deleteRepo" -> @ - 1
                             [] OTHER                  -> @]
  /\ UNCHANGED <<status, locked, orgActive, envs, history, services,
                 op, todo, seen, execVars, proxyVars>>

\* archiveProject: one of the three concurrent queries it begins with.
EmptyStep(r) ==
  /\ At(r, "empty")
  /\ \E q \in todo[r] :
       /\ todo' = [todo EXCEPT ![r] = @ \ {q}]
       /\ seen' = IF q = "row" THEN [seen EXCEPT ![r] = Row] ELSE seen
       /\ repos' = IF q = "repos" THEN [n \in Repos |-> 0] ELSE repos
       /\ envs' = IF q = "envs" THEN {} ELSE envs
  /\ UNCHANGED <<status, locked, orgActive, history, services,
                 op, rpc, result, execVars, proxyVars>>

\* Only then does it look at the row it read.
CheckArchive(r) ==
  /\ At(r, "empty")
  /\ todo[r] = {}
  /\ IF seen[r].locked \/ seen[r].status = "archived"
       THEN Finish(r, "forbidden")
       ELSE Goto(r, "call")
  /\ UNCHANGED <<rowVars, services, op, todo, seen, execVars, proxyVars>>

\* updateOrganization: when active changes, all the projects of the
\* organization are locked, or unlocked; then active is written.
ReadOrganization(r) ==
  /\ At(r, "read")
  /\ Kind(r) \in {"orgOff", "orgOn"}
  /\ Goto(r, IF orgActive = (Kind(r) = "orgOn") THEN "org" ELSE "write")
  /\ UNCHANGED <<rowVars, services, op, todo, seen, execVars, proxyVars>>

WriteLocks(r) ==
  /\ At(r, "write")
  /\ Kind(r) \in {"orgOff", "orgOn"}
  /\ locked' = (Kind(r) = "orgOff")
  /\ Goto(r, "org")
  /\ UNCHANGED <<status, orgActive, envs, repos, history, services,
                 op, todo, seen, execVars, proxyVars>>

WriteOrganization(r) ==
  /\ At(r, "org")
  /\ orgActive' = (Kind(r) = "orgOn")
  /\ Finish(r, "ok")
  /\ UNCHANGED <<status, locked, envs, repos, history, services,
                 op, todo, seen, execVars, proxyVars>>

-----------------------------------------------------------------------------
(* Handlers, from their call of a hook to their answer                     *)

HookMethod(r) == IF Kind(r) = "archive" THEN "delete" ELSE "upsert"

\* A refused call throws out of the handler.
CallHook(r) ==
  /\ At(r, "call")
  /\ Proxy!Call(r, HookMethod(r), Project, Proxy!NoArgs)
  /\ IF pc'[r] = "refused" THEN Finish(r, "threw") ELSE Goto(r, "hook")
  /\ todo' = [todo EXCEPT ![r] = PayloadQueries]
  /\ UNCHANGED <<rowVars, services, op, seen, execVars>>

BadVerdict(r) == "ok"

Verdict(r) == IF outcome[answer[r]] = "failed" THEN "failed" ELSE "ok"

\* The hook returned or threw.  An archive that did not archive goes on to
\* release the lock.
Answer(r) ==
  /\ At(r, "hook")
  /\ pc[r] = "served"
  /\ \/ /\ exec[answer[r]] = "rejected"
        /\ Finish(r, "threw")
     \/ /\ exec[answer[r]] = "resolved"
        /\ IF Kind(r) = "archive" /\ outcome[answer[r]] # "done"
                                  /\ ~seen[r].locked
             THEN Goto(r, "unlock")
             ELSE Finish(r, Verdict(r))
  /\ UNCHANGED <<rowVars, services, op, todo, seen, execVars, proxyVars>>

Unlock(r) ==
  /\ At(r, "unlock")
  /\ locked' = FALSE
  /\ Finish(r, Verdict(r))
  /\ UNCHANGED <<status, orgActive, envs, repos, history, services,
                 op, todo, seen, execVars, proxyVars>>

-----------------------------------------------------------------------------
(* Executions of hook.project.upsert and hook.project.delete, named by the *)
(* request whose call started them.                                        *)

Running(x) == exec[x] = "running"

Method(x) == call[x].method

BadReadPayload(x) ==
  /\ Running(x) /\ xpc[x] = "read"
  /\ \E q \in todo[x] :
       /\ todo' = [todo EXCEPT ![x] = @ \ {q}]
       /\ snapshot' = CASE q = "project" ->
                             [snapshot EXCEPT ![x].envs = envs,
                                              ![x].repos = RepoNames]
                        [] OTHER ->
                             [snapshot EXCEPT ![x].clusters =
                                @ \cup ClustersOf(envs)]
  /\ UNCHANGED <<rowVars, services, requestVars, xpc, outcome, attempt,
                 proxyVars>>

\* getProjectPayload: the project with its resources, the clusters of its
\* history and the clusters of its environments are read concurrently.
ReadPayload(x) ==
  /\ Running(x) /\ xpc[x] = "read"
  /\ \E q \in todo[x] :
       /\ todo' = [todo EXCEPT ![x] = @ \ {q}]
       /\ snapshot' = CASE q = "project" ->
                             [snapshot EXCEPT ![x].envs = envs,
                                              ![x].repos = RepoNames]
                        [] q = "history" ->
                             [snapshot EXCEPT ![x].clusters = @ \cup history]
                        [] q = "clusters" ->
                             [snapshot EXCEPT ![x].clusters =
                                @ \cup ClustersOf(envs)]
  /\ UNCHANGED <<rowVars, services, requestVars, xpc, outcome, attempt,
                 proxyVars>>

Complete(payload) == ClustersOf(payload.envs) \subseteq payload.clusters

\* The kubernetes plugin builds an api for every environment with its
\* cluster in the payload; it throws when the cluster is not there.
ReadAll(x) ==
  /\ Running(x) /\ xpc[x] = "read"
  /\ todo[x] = {}
  /\ IF Complete(snapshot[x])
       THEN /\ xpc' = [xpc EXCEPT ![x] = "hook"]
            /\ UNCHANGED proxyVars
       ELSE Proxy!Reject(x) /\ UNCHANGED xpc
  /\ UNCHANGED <<rowVars, services, requestVars, todo, snapshot, outcome,
                 attempt>>

\* What the plugins leave on the services: upsert creates the namespaces of
\* the payload and removes every other one from the clusters of the payload;
\* delete removes all of them from these clusters.
Namespaces(x) ==
  {e \in services.envs : ClusterOf[e] \notin snapshot[x].clusters}
    \cup (IF Method(x) = "upsert" THEN snapshot[x].envs ELSE {})

Repositories(x) == IF Method(x) = "upsert" THEN snapshot[x].repos ELSE {}

\* A failed hook did its work on some services and not on others.
RunHook(x, res) ==
  /\ Running(x) /\ xpc[x] = "hook"
  /\ outcome' = [outcome EXCEPT ![x] = res]
  /\ services' \in [envs  : {Namespaces(x)} \cup
                              IF res = "failed" THEN {services.envs} ELSE {},
                    repos : {Repositories(x)} \cup
                              IF res = "failed" THEN {services.repos} ELSE {}]
  /\ xpc' = [xpc EXCEPT ![x] = IF res = "failed" THEN "status" ELSE "history"]
  /\ UNCHANGED <<rowVars, requestVars, todo, snapshot, attempt, proxyVars>>

BadWriteHistory(x) ==
  /\ Running(x) /\ xpc[x] = "history"
  /\ history' = IF Method(x) # "upsert" THEN {}   \* the rows are only created once
                ELSE IF history = {} THEN ClustersOf(snapshot[x].envs) ELSE history
  /\ xpc' = [xpc EXCEPT ![x] = "status"]
  /\ UNCHANGED <<status, locked, orgActive, envs, repos, services,
                 requestVars, todo, snapshot, outcome, attempt, proxyVars>>

\* manageProjectStatus, first query: only when the hook did not fail.
WriteHistory(x) ==
  /\ Running(x) /\ xpc[x] = "history"
  /\ history' = IF Method(x) = "upsert" THEN ClustersOf(snapshot[x].envs) ELSE {}
  /\ xpc' = [xpc EXCEPT ![x] = "status"]
  /\ UNCHANGED <<status, locked, orgActive, envs, repos, services,
                 requestVars, todo, snapshot, outcome, attempt, proxyVars>>

\* The status manageProjectStatus settles on.
StatusAfter(x) ==
  IF outcome[x] # "done"       THEN outcome[x]
  ELSE IF Method(x) = "upsert" THEN "created"
  ELSE "archived"

\* manageProjectStatus, second query: one of updateProjectFailed,
\* updateProjectWarning, updateProjectCreated and archiveProject.
WriteStatus(x) ==
  /\ Running(x) /\ xpc[x] = "status"
  /\ status' = StatusAfter(x)
  /\ locked' = (locked \/ (outcome[x] = "done" /\ Method(x) = "delete"))
  /\ xpc' = [xpc EXCEPT ![x] = "end"]
  /\ UNCHANGED <<orgActive, envs, repos, history, services,
                 requestVars, todo, snapshot, outcome, attempt, proxyVars>>

Retries(x) == Method(x) = "upsert" /\ outcome[x] = "failed" /\ attempt[x] = 1

\* upsert starts over, once, when it failed.
Retry(x) ==
  /\ Running(x) /\ xpc[x] = "end"
  /\ Retries(x)
  /\ attempt' = [attempt EXCEPT ![x] = 2]
  /\ snapshot' = [snapshot EXCEPT ![x] = NoPayload]
  /\ todo' = [todo EXCEPT ![x] = PayloadQueries]
  /\ xpc' = [xpc EXCEPT ![x] = "read"]
  /\ UNCHANGED <<rowVars, services, requestVars, outcome, proxyVars>>

End(x) ==
  /\ Running(x) /\ xpc[x] = "end"
  /\ ~Retries(x)
  /\ Proxy!Resolve(x)
  /\ UNCHANGED <<rowVars, services, requestVars, todo, execVars>>

\* A query or a plugin throws.
Throw(x) ==
  /\ MayThrow
  /\ Proxy!Reject(x)
  /\ UNCHANGED <<rowVars, services, requestVars, todo, execVars>>

-----------------------------------------------------------------------------

Handle(r) ==
  \/ ReadProject(r) \/ ReadNames(r) \/ ReadOrganization(r)
  \/ WriteProject(r) \/ WriteEnv(r) \/ WriteRepo(r)
  \/ WriteLocks(r) \/ WriteOrganization(r)
  \/ EmptyStep(r) \/ CheckArchive(r)
  \/ CallHook(r) \/ Answer(r) \/ Unlock(r)

Execute(x) ==
  \/ ReadPayload(x) \/ ReadAll(x)
  \/ \E res \in Outcomes : RunHook(x, res)
  \/ WriteHistory(x) \/ WriteStatus(x) \/ Retry(x) \/ End(x)

\* No two executions at once, none that failed or threw.
Undisturbed ==
  /\ \A x \in Requests, y \in Requests : Running(x) /\ Running(y) => x = y
  /\ \A x \in Requests : exec[x] # "rejected" /\ outcome[x] # "failed"

Note == clean' = (clean /\ Undisturbed')

Next ==
  /\ \E r \in Requests :
       \/ \E o \in Operation : Receive(r, o)
       \/ Handle(r)
       \/ Execute(r)
       \/ Throw(r)
  /\ Note

Spec == Init /\ [][Next]_vars

\* Every query and every plugin eventually returns.
FairSpec ==
  Spec /\ \A r \in Requests : WF_vars((Handle(r) \/ Execute(r)) /\ Note)

-----------------------------------------------------------------------------
(* Properties                                                              *)

AtRest == \A r \in Requests : rpc[r] \in {"idle", "done"} /\ ~Running(r)

\* A request that created an environment or a repository and was answered
\* without error was answered by an execution that read the row it wrote,
\* even when it had to wait for another one (proxy.ts:54-60 and the order
\* of write and call in environment/business.ts:59-61 and
\* repository/business.ts:47-48), unless somebody removed the row since.
CreatedIsDelivered ==
  \A r \in Requests, t \in Envs \cup Repos :
    (/\ result[r] = "ok"
     /\ op[r] \in Ask("createEnv", t) \cup Ask("createRepo", t)
     /\ \A q \in Requests :
          op[q] \notin Ask("archive", None) \cup Ask("deleteEnv", t) \cup Ask("deleteRepo", t))
      => t \in snapshot[answer[r]].envs \cup snapshot[answer[r]].repos

\* When nothing is in progress, the services hold nothing that is not in the
\* database, and all of it when nobody tried to archive the project, if the
\* executions never overlapped, failed or threw, and no request stopped
\* between its writes and its hook (hook-wrapper.ts:31-69 under proxy.ts).
\* (An archive may leave rows behind: those inserted between the moment it
\* empties the project and the moment its hook reads it.)
CleanRunsConverge ==
  (/\ AtRest /\ clean
   /\ \A r \in Requests : pc[r] # "refused"
   /\ \A r \in Requests : op[r] \in Ask("archive", None) => result[r] = "ok")
    => /\ services.envs \subseteq envs
       /\ services.repos \subseteq RepoNames
       /\ (\A r \in Requests : op[r] \notin Ask("archive", None))
            => services = [envs |-> envs, repos |-> RepoNames]

\* Between executions, a cluster where the project has a namespace is in the
\* history of the project, so that the next execution looks for namespaces
\* to remove there (hook-wrapper.ts:81-83, cluster/queries.ts:4-63), as long
\* as executions do not overlap, fail or throw.
NamespacesTracked ==
  (clean /\ \A x \in Requests : ~Running(x))
    => ClustersOf(services.envs) \subseteq history

\* A project becomes archived only once nothing is left of it on the
\* services, under the same condition (business.ts:189-213).
ArchiveMeansGone ==
  [][(status' = "archived" /\ status # "archived" /\ clean')
       => services = [envs |-> {}, repos |-> {}]]_vars

\* When nothing is in progress and the project is left failed, there is an
\* execution that failed or threw, and whoever asked for it was told so
\* (business.ts:156, 183, 211 and the same test in environment/business.ts and
\* repository/business.ts), unless it was asked in bulk: that is accepted
\* before it runs, and nobody learns its results (business.ts:242, 266-270).
FailureIsReported ==
  (AtRest /\ status = "failed") =>
    \E r \in Requests :
      /\ exec[r] = "rejected" \/ outcome[r] = "failed"
      /\ op[r].bulk \/ Told(r) \in {"failed", "threw"}

\* A request gets its answer, unless it waits for an execution that was
\* rejected.
EveryRequestEnds ==
  \A r \in Requests :
    rpc[r] # "idle" ~> \/ rpc[r] = "done"
                       \/ /\ pc[r] = "waiting"
                          /\ exec[waitOn[r]] = "rejected"

-----------------------------------------------------------------------------
(* What the code, its comments and its documents say of it, and is not so. *)

\* A locked project is not archived: the request that will be refused, as the
\* row it read is locked, removes none of its resources itself
\* (business.ts:199, project/business.spec.ts:329).
RefusalLeavesResources ==
  [][\A r \in Requests :
       (rpc[r] = "empty" /\ seen[r].locked /\ todo'[r] # todo[r])
         => envs \subseteq envs' /\ RepoNames \subseteq RepoNames']_vars

=============================================================================
