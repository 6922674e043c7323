------------------------------ MODULE Topology ------------------------------
(***************************************************************************)
(* Where environments run: zones, clusters, stages (kinds of environments) *)
(* and quotas, as administrators create, link and delete them while        *)
(* projects create and delete environments (resources/zone, cluster,       *)
(* stage, quota and environment of the server).                            *)
(*                                                                         *)
(* A request goes through steps; each is what its handler does between two *)
(* awaits, the queries of one Promise.all being one step.  The hook of the *)
(* project, which follows a change of its environments, is not here: see   *)
(* ProjectLifecycle.                                                       *)
(***************************************************************************)
EXTENDS Naturals, Sequences, FiniteSets

CONSTANTS
  Requests,   \* identities of the requests
  Asks,       \* what a request may ask for
  Projects, Clusters, Zones, Stages, Quotas,   \* identifiers, all distinct
  Names,      \* names of stages
  FirstRows,  \* the database at the beginning
  Absent      \* a field the body does not have

VARIABLES
  db,        \* the rows, and links, the pairs of the many-to-many relations
  services,  \* what the hooks left: <<cluster, zone>> and <<zone, clusters>>
  requests   \* the requests in progress and ended

vars == <<db, services, requests>>

-----------------------------------------------------------------------------
(* Requests                                                                *)

When(b, steps) == IF b THEN steps ELSE <<>>

Given(a, field) == a[field] # Absent

Filled(a, field) == Given(a, field) /\ a[field] # {}

BadUpdateClusterSteps(a) ==   \* the hook is called before the zone is written
  <<"findCluster", "writeCluster", "hook", "executing">>
    \o When(Given(a, "zone"), <<"moveCluster">>)
    \o <<"readProjects", "linkProjects", "unlinkProjects">>
    \o When(Given(a, "stages"), <<"linkStages", "readStages", "unlinkStages">>)
    \o <<"details">>

UpdateClusterSteps(a) ==
  <<"findCluster", "writeCluster">>
    \o When(Given(a, "zone"), <<"moveCluster">>)
    \o <<"readProjects", "linkProjects", "unlinkProjects">>
    \o When(Given(a, "stages"), <<"linkStages", "readStages", "unlinkStages">>)
    \o <<"hook", "executing", "details">>

\* The awaits of a handler, in their order.
Steps(a) ==
  CASE a.kind = "createZone" ->
         <<"findZone", "insertZone">>
           \o When(Given(a, "clusters"), <<"linkZone">>) \o <<"hook", "executing">>
    [] a.kind = "updateZone" -> <<"writeZone", "hook", "executing">>
    [] a.kind = "deleteZone" ->
         <<"findAttached", "hook", "executing", "deleteZone">>
    [] a.kind = "createCluster" ->
         <<"findLabel", "insertCluster">>
           \o When(a.privacy = "dedicated" /\ Filled(a, "projects"), <<"linkProjects">>)
           \o When(Filled(a, "stages"), <<"linkStages">>)
           \o <<"hook", "executing", "details">>
    [] a.kind = "updateCluster" ->
         UpdateClusterSteps(a)
    [] a.kind = "deleteCluster" ->
         (IF a.force THEN <<"deleteEnvironments">> ELSE <<"findEnvironment">>)
           \o <<"hook", "executing", "deleteCluster">>
    [] a.kind = "createStage" ->
         <<"findName", "insertStage">>
           \o When(Filled(a, "quotas"), <<"linkQuotas">>)
           \o When(Filled(a, "clusters"), <<"linkClusters">>)
    [] a.kind = "updateStage" ->
         <<"findStage">> \o When(Given(a, "name"), <<"rename">>)
           \o When(Given(a, "clusters"), <<"unlinkClusters", "linkClusters">>)
           \o When(Given(a, "quotas"), <<"unlinkQuotas", "linkQuotas">>)
    [] a.kind \in {"deleteStage", "deleteQuota"} -> <<"findUse", "deleteRow">>
    [] a.kind = "createQuota" ->
         <<"findQuotaName", "insertQuota">>
           \o When(Filled(a, "stages"), <<"linkStages">>)
    [] a.kind = "updateQuota" ->
         <<"findQuota">> \o When(a.private = TRUE \/ a.more, <<"writeQuota">>)
           \o When(Given(a, "stages"), <<"unlinkStages", "linkStages">>)
    [] a.kind = "createEnvironment" -> <<"checkEnvironment", "insertEnvironment">>
    [] a.kind = "updateEnvironment" -> <<"checkQuota", "writeEnvironment">>
    [] a.kind = "deleteEnvironment" -> <<"deleteEnvironment">>

\* A request not received yet.
Unborn == [ask |-> Absent, at |-> 0, read |-> Absent, met |-> {}, answer |-> "none"]

Ask(r) == requests[r].ask

At(r, step) ==
  /\ requests[r].at # 0
  /\ Steps(Ask(r))[requests[r].at] = step

Kind(r) == Ask(r).kind

Busy == {r \in Requests : requests[r].at # 0}

\* A request comes; met is who has been in progress at the same time.
Receive(r) ==
  /\ requests[r] = Unborn
  /\ \E a \in Asks :
       requests' = [q \in Requests |->
         IF q = r THEN [Unborn EXCEPT !.ask = a, !.at = 1, !.met = Busy]
         ELSE IF q \in Busy THEN [requests[q] EXCEPT !.met = @ \cup {r}]
         ELSE requests[q]]
  /\ UNCHANGED <<db, services>>

\* The request ends with an answer, or an error the handler does not catch.
End(r, answer) ==
  requests' = [requests EXCEPT ![r].at = 0, ![r].answer = answer]

\* The next await, with what was read.
Go(r, read) ==
  IF requests[r].at = Len(Steps(Ask(r)))
    THEN End(r, "ok")
    ELSE requests' = [requests EXCEPT ![r].at = @ + 1, ![r].read = read]

Read(r) == requests[r].read

\* A test whose failure is an answer.
Check(r, test, read) ==
  /\ IF test THEN Go(r, read) ELSE End(r, "refused")
  /\ UNCHANGED <<db, services>>

\* A write that throws when a row it needs is missing, or a name is in use.
Write(r, possible, rows) ==
  /\ IF possible THEN db' = rows /\ Go(r, Read(r))
                 ELSE db' = db /\ End(r, "threw")
  /\ UNCHANGED services

-----------------------------------------------------------------------------
(* Rows                                                                    *)

Assign(f, k, v) == [x \in DOMAIN f \cup {k} |-> IF x = k THEN v ELSE f[x]]

Without(f, ks) == [x \in DOMAIN f \ ks |-> f[x]]

\* The rows that have links.
Linkable(rows) ==
  DOMAIN rows.clusters \cup DOMAIN rows.stages \cup DOMAIN rows.quotas \cup Projects

Existing == Linkable(db) \cup db.zones

Pairs(x, ys) == {{x, y} : y \in ys}

\* What a row is linked to, among the rows of a kind.
Linked(x, kind) == {y \in kind : {x, y} \in db.links}

\* Deleting a row deletes its links.
Unlinked(x) == {l \in db.links : x \notin l}

EnvironmentsOf(column, x) == {e \in DOMAIN db.envs : db.envs[e][column] = x}

OnCluster(c) == EnvironmentsOf("cluster", c)

InUse(x) == \E e \in DOMAIN db.envs : x \in {db.envs[e].stage, db.envs[e].quota}

\* connect: all the rows must exist.
Connect(r, ys) ==
  Write(r, {Ask(r).id} \cup ys \subseteq Existing,
        [db EXCEPT !.links = @ \cup Pairs(Ask(r).id, ys)])

\* The links of a quota and a stage, one query each: those that can are
\* written even when another throws.
ConnectEach(r, ys) ==
  LET both == IF Ask(r).id \in Existing THEN ys \cap Existing ELSE {}
  IN /\ db' = [db EXCEPT !.links = @ \cup Pairs(Ask(r).id, both)]
     /\ IF both = ys THEN Go(r, Read(r)) ELSE End(r, "threw")
     /\ UNCHANGED services

\* disconnect: what is not linked, or does not exist, is no error.
Disconnect(r, ys) ==
  Write(r, Ask(r).id \in Existing,
        [db EXCEPT !.links = @ \ Pairs(Ask(r).id, ys)])

\* A loop that awaits the disconnection of each row read before it.
DisconnectEach(r, ys) ==
  IF ys = {} THEN Go(r, Absent) /\ UNCHANGED <<db, services>>
  ELSE \E y \in ys :
         IF Ask(r).id \in Existing
           THEN /\ db' = [db EXCEPT !.links = @ \ {{Ask(r).id, y}}]
                /\ requests' = [requests EXCEPT ![r].read = ys \ {y}]
                /\ UNCHANGED services
           ELSE End(r, "threw") /\ UNCHANGED <<db, services>>

-----------------------------------------------------------------------------
(* Hooks on a zone or a cluster, through genericProxy.                     *)

Deletes(r) == Kind(r) \in {"deleteZone", "deleteCluster"}

Executing(x) == {q \in Requests : At(q, "executing") /\ Ask(q).id = x}

\* delete refuses upsert and upsert delete; cluster.delete refuses delete.
Excluded(r) ==
  \E q \in Executing(Ask(r).id) :
    Deletes(q) # Deletes(r) \/ Kind(r) = "deleteCluster"

\* The hook reads the row when its execution begins.
Payload(x) ==
  IF x \in Clusters THEN db.clusters[x].zone
  ELSE {c \in DOMAIN db.clusters : db.clusters[c].zone = x}

\* A call during an execution of the same method waits for its end.
CallHook(r) ==
  /\ At(r, "hook")
  /\ IF Excluded(r) THEN End(r, "threw")
     ELSE /\ Executing(Ask(r).id) = {}
          /\ IF Ask(r).id \in Existing THEN Go(r, Payload(Ask(r).id))
                                       ELSE End(r, "threw")
  /\ UNCHANGED <<db, services>>

\* A zone has one file of values; a cluster has a secret in Vault, in the
\* engine of its zone.
Done(r) ==
  LET x == Ask(r).id
      same == {v \in services : v[1] = x /\ (x \in Zones \/ v[2] = Read(r))}
  IN (services \ same) \cup IF Deletes(r) THEN {} ELSE {<<x, Read(r)>>}

\* The hook succeeds, or fails with or without having done its work.
RunHook(r) ==
  /\ At(r, "executing")
  /\ \/ services' = Done(r) /\ Go(r, Absent)
     \/ services' \in {services, Done(r)} /\ End(r, "failed")
  /\ UNCHANGED db

-----------------------------------------------------------------------------
(* Zones                                                                   *)

InZone(z, cs) ==
  [c \in DOMAIN db.clusters |->
     IF c \in cs THEN [db.clusters[c] EXCEPT !.zone = z] ELSE db.clusters[c]]

ZoneStep(r) ==
  LET z == Ask(r).id IN
  \/ At(r, "findZone") /\ Check(r, z \notin db.zones, Absent)
  \/ At(r, "insertZone") /\ Write(r, z \notin db.zones, [db EXCEPT !.zones = @ \cup {z}])
  \/ At(r, "linkZone") /\
       Write(r, {z} \cup Ask(r).clusters \subseteq Existing,
             [db EXCEPT !.clusters = InZone(z, Ask(r).clusters)])
  \/ At(r, "writeZone") /\ Write(r, z \in db.zones, db)
  \/ At(r, "findAttached") /\
       Check(r, \A c \in DOMAIN db.clusters : db.clusters[c].zone # z, Absent)
  \/ At(r, "deleteZone") /\
       Write(r, z \in db.zones /\ \A c \in DOMAIN db.clusters : db.clusters[c].zone # z,
             [db EXCEPT !.zones = @ \ {z}])

-----------------------------------------------------------------------------
(* Clusters                                                                *)

CreateCluster(r) ==
  LET a == Ask(r) IN
  \/ At(r, "findLabel") /\ Check(r, a.id \notin DOMAIN db.clusters, Absent)
  \/ At(r, "insertCluster") /\
       Write(r, a.id \notin DOMAIN db.clusters /\ a.zone \in db.zones,
             [db EXCEPT !.clusters =
                Assign(@, a.id, [zone |-> a.zone, privacy |-> a.privacy])])

\* The body loses projectIds when it makes the cluster public.
ProjectsAsked(a) == IF a.privacy = "public" THEN Absent ELSE a.projects

WritePrivacy(r) ==
  LET a == Ask(r)
      row == [db.clusters[a.id] EXCEPT
                !.privacy = IF Given(a, "privacy") THEN a.privacy ELSE @]
  IN IF a.id \in DOMAIN db.clusters
       THEN /\ db' = [db EXCEPT !.clusters = Assign(@, a.id, row)]
            /\ Go(r, row.privacy) /\ UNCHANGED services
       ELSE End(r, "threw") /\ UNCHANGED <<db, services>>

\* The links of a cluster made public are forgotten.
BadProjectsToRemove(r) ==
  LET asked == ProjectsAsked(Ask(r))
  IN IF asked # Absent /\ Read(r) = "dedicated"
       THEN Linked(Ask(r).id, Projects) \ asked ELSE {}

\* projectsToRemove, from the links read after the row was written.
ProjectsToRemove(r) ==
  LET asked == ProjectsAsked(Ask(r))
      linked == Linked(Ask(r).id, Projects)
  IN CASE asked # Absent /\ Read(r) = "dedicated" -> linked \ asked
       [] Read(r) = "public"                      -> linked
       [] OTHER                                   -> {}

ProjectsToLink(r) ==
  LET asked == ProjectsAsked(Ask(r))
  IN IF Kind(r) = "createCluster" \/ (asked # Absent /\ Read(r)[1] = "dedicated")
       THEN asked ELSE {}

UpdateCluster(r) ==
  LET a == Ask(r) IN
  \/ At(r, "findCluster") /\ Check(r, a.id \in DOMAIN db.clusters, Absent)
  \/ At(r, "writeCluster") /\ WritePrivacy(r)
  \/ At(r, "moveCluster") /\
       Write(r, {a.zone, a.id} \subseteq Existing,
             [db EXCEPT !.clusters = InZone(a.zone, {a.id})])
  \/ At(r, "readProjects") /\
       IF a.id \in DOMAIN db.clusters
         THEN Check(r, TRUE, <<Read(r), ProjectsToRemove(r)>>)
         ELSE End(r, "threw") /\ UNCHANGED <<db, services>>
  \/ At(r, "readStages") /\
       IF a.id \in DOMAIN db.clusters
         THEN Check(r, TRUE, Linked(a.id, Stages) \ a.stages)
         ELSE End(r, "threw") /\ UNCHANGED <<db, services>>
  \/ At(r, "unlinkProjects") /\ DisconnectEach(r, Read(r))
  \/ At(r, "details") /\
       IF a.id \in DOMAIN db.clusters THEN Check(r, TRUE, Absent)
       ELSE End(r, "threw") /\ UNCHANGED <<db, services>>

LinkProjects(r) ==
  /\ At(r, "linkProjects")
  /\ LET ps == ProjectsToLink(r)
         next == IF Kind(r) = "createCluster" THEN Absent ELSE Read(r)[2]
     IN IF Ask(r).id \in Existing \/ ps = {}
          THEN /\ db' = [db EXCEPT !.links = @ \cup Pairs(Ask(r).id, ps)]
               /\ Go(r, next)
          ELSE db' = db /\ End(r, "threw")
  /\ UNCHANGED services

\* The environments are looked for, and the answer ignored.
BadDeleteCluster(r) ==
  LET c == Ask(r).id IN
  \/ At(r, "deleteEnvironments") /\
       Write(r, TRUE, [db EXCEPT !.envs = Without(@, OnCluster(c))])
  \/ At(r, "findEnvironment") /\ Check(r, TRUE, Absent)
  \/ At(r, "deleteCluster") /\
       Write(r, c \in DOMAIN db.clusters /\ OnCluster(c) = {},
             [db EXCEPT !.clusters = Without(@, {c}), !.links = Unlinked(c)])

DeleteCluster(r) ==
  LET c == Ask(r).id IN
  \/ At(r, "deleteEnvironments") /\
       Write(r, TRUE, [db EXCEPT !.envs = Without(@, OnCluster(c))])
  \/ At(r, "findEnvironment") /\ Check(r, OnCluster(c) = {}, Absent)
  \/ At(r, "deleteCluster") /\
       Write(r, c \in DOMAIN db.clusters /\ OnCluster(c) = {},
             [db EXCEPT !.clusters = Without(@, {c}), !.links = Unlinked(c)])

-----------------------------------------------------------------------------
(* Stages and quotas                                                       *)

NameTaken(n) == \E s \in DOMAIN db.stages : db.stages[s] = n

\* The name is written when it is the one the stage has.
StageStep(r) ==
  LET a == Ask(r) IN
  \/ At(r, "findName") /\ Check(r, ~NameTaken(a.name), Absent)
  \/ At(r, "insertStage") /\
       Write(r, ~NameTaken(a.name) /\ a.id \notin DOMAIN db.stages,
             [db EXCEPT !.stages = Assign(@, a.id, a.name)])
  \/ At(r, "findStage") /\
       Check(r, a.id \in DOMAIN db.stages,
             IF a.id \notin DOMAIN db.stages THEN Absent
             ELSE [name |-> db.stages[a.id], clusters |-> Linked(a.id, Clusters),
                   quotas |-> Linked(a.id, Quotas)])
  \/ At(r, "rename") /\
       IF a.name = Read(r).name
         THEN Write(r, /\ a.id \in DOMAIN db.stages
                       /\ \A s \in DOMAIN db.stages \ {a.id} : db.stages[s] # a.name,
                    [db EXCEPT !.stages = Assign(@, a.id, a.name)])
         ELSE Check(r, TRUE, Read(r))
  \/ At(r, "unlinkQuotas") /\ Disconnect(r, Read(r).quotas \ a.quotas)
  \/ At(r, "linkQuotas") /\
       ConnectEach(r, IF Kind(r) = "createStage" THEN a.quotas
                                                 ELSE a.quotas \ Read(r).quotas)
  \/ At(r, "linkClusters") /\ Connect(r, a.clusters)

\* A loop over the clusters read at the beginning.
UnlinkClusters(r) ==
  /\ At(r, "unlinkClusters")
  /\ LET left == Read(r).clusters \ Ask(r).clusters
     IN IF left = {} THEN Check(r, TRUE, Read(r))
        ELSE \E c \in left :
               IF c \in Existing
                 THEN /\ db' = [db EXCEPT !.links = @ \ {{Ask(r).id, c}}]
                      /\ requests' = [requests EXCEPT ![r].read.clusters = @ \ {c}]
                      /\ UNCHANGED services
                 ELSE End(r, "threw") /\ UNCHANGED <<db, services>>

QuotaStep(r) ==
  LET a == Ask(r) IN
  \/ At(r, "findQuotaName") /\ Check(r, a.id \notin DOMAIN db.quotas, Absent)
  \/ At(r, "insertQuota") /\
       Write(r, a.id \notin DOMAIN db.quotas,
             [db EXCEPT !.quotas = Assign(@, a.id, a.private)])
  \/ At(r, "findQuota") /\ Check(r, a.id \in DOMAIN db.quotas, Linked(a.id, Stages))
  \/ At(r, "writeQuota") /\
       Write(r, a.id \in DOMAIN db.quotas,
             [db EXCEPT !.quotas =
                Assign(@, a.id, IF Given(a, "private") THEN a.private ELSE @[a.id])])
  \/ At(r, "linkStages") /\
       IF a.id \in Clusters THEN Connect(r, a.stages) ELSE ConnectEach(r, a.stages)
  \/ At(r, "unlinkStages") /\
       IF Kind(r) = "updateQuota" THEN Disconnect(r, Read(r) \ a.stages)
                                  ELSE DisconnectEach(r, Read(r))

DeleteRow(r) ==
  LET x == Ask(r).id IN
  \/ At(r, "findUse") /\ Check(r, ~InUse(x), Absent)
  \/ At(r, "deleteRow") /\
       Write(r, x \in Existing /\ ~InUse(x),
             [db EXCEPT !.stages = Without(@, {x}), !.quotas = Without(@, {x}),
                        !.links = Unlinked(x)])

-----------------------------------------------------------------------------
(* Environments                                                            *)

\* The clusters of checkEnvironmentInput.  The last alternative filters the
\* environments by an identifier the creation does not have: Prisma ignores an
\* undefined filter, and any environment of the cluster satisfies it.
Reachable(p, c) ==
  /\ c \in DOMAIN db.clusters
  /\ \/ db.clusters[c].privacy = "public"
     \/ db.clusters[c].privacy = "dedicated" /\ {c, p} \in db.links
     \/ OnCluster(c) # {}

QuotaAllowed(a) ==
  a.quota \in DOMAIN db.quotas /\ (db.quotas[a.quota] => a.admin)

Suits(a) == a.admin \/ {a.quota, a.stage} \in db.links

EnvironmentStep(r) ==
  LET a == Ask(r) IN
  \/ At(r, "checkEnvironment") /\
       Check(r, /\ QuotaAllowed(a)
                /\ a.id \notin DOMAIN db.envs
                /\ Reachable(a.id[1], a.cluster)
                /\ a.stage \in DOMAIN db.stages
                /\ Suits(a), Absent)
  \/ At(r, "insertEnvironment") /\
       Write(r, a.id \notin DOMAIN db.envs /\ {a.cluster, a.stage, a.quota} \subseteq Existing,
             [db EXCEPT !.envs = Assign(@, a.id,
                [cluster |-> a.cluster, stage |-> a.stage, quota |-> a.quota])])
  \/ At(r, "checkQuota") /\
       Check(r, /\ a.quota \in DOMAIN db.quotas
                /\ \/ QuotaAllowed(a)
                   \/ a.id \in DOMAIN db.envs /\ db.envs[a.id].quota = a.quota, Absent)
  \/ At(r, "writeEnvironment") /\
       IF a.id \in DOMAIN db.envs /\ a.quota \in DOMAIN db.quotas
         THEN Write(r, TRUE, [db EXCEPT !.envs[a.id].quota = a.quota])
         ELSE Write(r, FALSE, db)
  \/ At(r, "deleteEnvironment") /\
       Write(r, a.id \in DOMAIN db.envs, [db EXCEPT !.envs = Without(@, {a.id})])

-----------------------------------------------------------------------------

\* What the schema of the database says of the rows.
Intact(rows) ==
  /\ DOMAIN rows = {"zones", "clusters", "stages", "quotas", "envs", "links"}
  /\ rows.zones \subseteq Zones
  /\ DOMAIN rows.clusters \subseteq Clusters
  /\ rows.clusters \in
       [DOMAIN rows.clusters -> [zone : rows.zones, privacy : {"public", "dedicated"}]]
  /\ DOMAIN rows.stages \subseteq Stages
  /\ rows.stages \in [DOMAIN rows.stages -> Names]
  /\ \A s, t \in DOMAIN rows.stages : rows.stages[s] = rows.stages[t] => s = t
  /\ DOMAIN rows.quotas \subseteq Quotas
  /\ rows.quotas \in [DOMAIN rows.quotas -> BOOLEAN]
  /\ rows.envs \in
       [DOMAIN rows.envs -> [cluster : DOMAIN rows.clusters, stage : DOMAIN rows.stages,
                             quota : DOMAIN rows.quotas]]
  /\ \A l \in rows.links : l \subseteq Linkable(rows)

\* What the contracts of the routes let in.
Accepted(a) ==
  /\ \/ a.kind \in {"createZone", "updateZone", "deleteZone"} /\ a.id \in Zones
     \/ a.kind \in {"createCluster", "updateCluster", "deleteCluster"} /\ a.id \in Clusters
     \/ a.kind \in {"createStage", "updateStage", "deleteStage"} /\ a.id \in Stages
     \/ a.kind \in {"createQuota", "updateQuota", "deleteQuota"} /\ a.id \in Quotas
     \/ a.kind \in {"createEnvironment", "updateEnvironment", "deleteEnvironment"}
  /\ a.clusters \in (SUBSET Clusters) \cup {Absent}
  /\ a.stages \in (SUBSET Stages) \cup {Absent}
  /\ a.quotas \in (SUBSET Quotas) \cup {Absent}
  /\ a.projects \in (SUBSET Projects) \cup {Absent}
  /\ a.zone \in Zones \cup {Absent} /\ a.name \in Names \cup {Absent}
  /\ a.privacy \in {"public", "dedicated", Absent} /\ a.private \in BOOLEAN \cup {Absent}
  /\ IF a.kind \in {"createCluster", "updateCluster"} THEN a.clusters = Absent /\ a.quotas = Absent
                                                    ELSE a.projects = Absent /\ a.privacy = Absent
  /\ a.kind \in {"createStage", "updateStage"} => a.stages = Absent
  /\ a.kind \in {"createQuota", "updateQuota"} => a.clusters = Absent /\ a.quotas = Absent
  /\ a.kind = "createCluster" => a.zone # Absent /\ a.privacy # Absent
  /\ a.kind = "createStage" => a.name # Absent
  /\ a.kind = "createQuota" => a.private # Absent
  /\ a.kind = "createEnvironment" =>
       a.cluster \in Clusters /\ a.stage \in Stages /\ a.quota \in Quotas
  /\ a.kind = "updateEnvironment" => a.quota \in Quotas

ASSUME TopologyAssumption ==
  /\ Intact(FirstRows)
  /\ \A a \in Asks : Accepted(a)
  /\ Absent \notin {"public", "dedicated"}
  /\ Projects \cap (Clusters \cup Zones \cup Stages \cup Quotas) = {}
  /\ Clusters \cap (Zones \cup Stages \cup Quotas) = {}
  /\ Zones \cap (Stages \cup Quotas) = {}
  /\ Stages \cap Quotas = {}

Init ==
  /\ db = FirstRows
  /\ services = {<<c, db.clusters[c].zone>> : c \in DOMAIN db.clusters}
                  \cup {<<z, {c \in DOMAIN db.clusters : db.clusters[c].zone = z}>> :
                          z \in db.zones}
  /\ requests = [r \in Requests |-> Unborn]

Handle(r) ==
  \/ CallHook(r) \/ RunHook(r) \/ ZoneStep(r)
  \/ CreateCluster(r) \/ UpdateCluster(r) \/ LinkProjects(r) \/ DeleteCluster(r)
  \/ StageStep(r) \/ UnlinkClusters(r) \/ QuotaStep(r) \/ DeleteRow(r)
  \/ EnvironmentStep(r)

Next == \E r \in Requests : Receive(r) \/ Handle(r)

Spec == Init /\ [][Next]_vars

-----------------------------------------------------------------------------
(* Properties                                                              *)

\* Every row refers to rows that exist (Intact): the constraints of the
\* database hold whatever requests overlap, and no handler counts on more.
TypeOK ==
  /\ Intact(db)
  /\ \A r \in Requests : requests[r].answer \in {"none", "ok", "refused", "failed", "threw"}

Met(r) == {Ask(q) : q \in requests[r].met}

Answers(r, answer) == requests[r].at # 0 /\ requests'[r].at = 0
                        /\ requests'[r].answer = answer

FieldOf(y) ==
  CASE y \in Projects -> "projects" [] y \in Clusters -> "clusters"
    [] y \in Stages -> "stages"     [] y \in Quotas -> "quotas"

Shapes == {"createCluster", "updateCluster", "createStage", "updateStage",
           "createQuota", "updateQuota"}

\* The body may write the link of its row with y: the projects of a cluster
\* that it does not make public.
Adds(a, y) ==
  /\ a.kind \in Shapes /\ Given(a, FieldOf(y)) /\ y \in a[FieldOf(y)]
  /\ y \in Projects => a.privacy # "public"

\* The body may remove it: what it does not list, the projects of a cluster
\* that it finds or makes public, all the links of what it deletes.
Removes(a, y) ==
  \/ a.kind \in Shapes /\ Given(a, FieldOf(y)) /\ y \notin a[FieldOf(y)]
  \/ a.kind = "updateCluster" /\ y \in Projects /\ a.privacy # "dedicated"
  \/ a.kind \in {"deleteCluster", "deleteStage", "deleteQuota"}

\* The body asks for the link, or that there be none, whatever the row is.
Wants(a, y) == Adds(a, y) /\ (y \in Projects => a.privacy = "dedicated")

Rejects(a, y) ==
  /\ a.kind \in Shapes
  /\ IF y \in Projects /\ a.privacy # "dedicated"
       THEN a.privacy = "public"
       ELSE Given(a, FieldOf(y)) /\ y \notin a[FieldOf(y)]

Other(a, l) == CHOOSE y \in l : y # a.id

\* A request answered with success leaves the links its body asked for, and
\* none of those it left out, unless a request it has met may have done the
\* opposite.  The same links are written from both their ends, by loops over
\* lists read several awaits earlier (updateCluster, updateStage, updateQuota).
LinksAreAsked ==
  [][\A r \in Requests : Answers(r, "ok") =>
       \A x \in (Projects \cup Clusters \cup Stages \cup Quotas) \ {Ask(r).id} :
         LET l == {Ask(r).id, x} IN
           /\ Wants(Ask(r), x) =>
                \/ l \in db'.links
                \/ \E b \in Met(r) : b.id \in l /\ Removes(b, Other(b, l))
           /\ Rejects(Ask(r), x) =>
                \/ l \notin db'.links
                \/ \E b \in Met(r) : b.id \in l /\ Adds(b, Other(b, l))]_vars

\* A cluster keeps its secret in Vault as long as an environment is on it,
\* unless the environment comes while the cluster is being deleted: the
\* environments are looked for, or deleted, before the hook, the row deleted
\* after it (deleteCluster).
DeletionSparesUse ==
  [][\A s \in services \ services' :
       s[1] \in Clusters /\ OnCluster(s[1]) # {} =>
         \E r \in Requests :
           /\ At(r, "executing") /\ Kind(r) = "deleteCluster" /\ Ask(r).id = s[1]
           /\ \E b \in Met(r) : b.kind = "createEnvironment" /\ b.cluster = s[1]]_vars

\* The request may change the zone of the cluster, or delete it.
Moves(a, c) ==
  \/ a.id = c
  \/ a.kind = "createZone" /\ Given(a, "clusters") /\ c \in a.clusters

\* A success leaves in the services what the rows say: the secret of the
\* cluster is in the zone the cluster is in, the values of a new zone list its
\* clusters, what was deleted has neither row nor values.  Requests it has met
\* are the only excuse, and the hook must come after all the writes it reads.
ServicesFollowRows ==
  [][\A r \in Requests : Answers(r, "ok") =>
       LET x == Ask(r).id
           inside == {c \in DOMAIN db'.clusters : db'.clusters[c].zone = x}
       IN CASE Kind(r) \in {"createCluster", "updateCluster"} ->
                 \/ x \in DOMAIN db'.clusters /\ <<x, db'.clusters[x].zone>> \in services'
                 \/ \E b \in Met(r) : Moves(b, x)
            [] Kind(r) = "createZone" ->
                 \/ <<x, inside>> \in services'
                 \/ \E b \in Met(r) : b.id = x \/ b.kind \in {"createCluster", "updateCluster",
                                                           "deleteCluster", "createZone"}
            [] Kind(r) = "deleteZone" ->
                 \/ x \notin db'.zones /\ \A s \in services' : s[1] # x
                 \/ \E b \in Met(r) : b.id = x
            [] OTHER -> TRUE]_vars
=============================================================================
