---------------------------- MODULE ArgoCDPlugin ----------------------------
(***************************************************************************)
(* The argocd plugin (plugins/argocd/src): for each environment a file of  *)
(* values in the infrastructure repository of its zone, an AppProject and, *)
(* for each infrastructure repository of the project, an Application; the  *)
(* configuration of a zone; the secret of a cluster.                       *)
(*                                                                         *)
(* Facts: appProject (environment), application (environment and           *)
(* repository), with their labels as detail, and clusterSecret.  The       *)
(* memory holds the objects listed at the beginning.                       *)
(***************************************************************************)
EXTENDS Services

Kube == INSTANCE KubernetesPlugin

GitLab == INSTANCE GitLabPlugin

Vault == INSTANCE VaultPlugin

Ac(o, n, d) == <<"argocd", o, n, d>>

InfraRepositories(w) == IF "infraRepos" \in w.opts THEN w.repos ELSE {}

\* The zones of the clusters of the payload: all of them, the history of the
\* project keeps its former clusters.
DistinctZones == Zones

Phases(h, step) ==
  IF step # "main" THEN <<>>
  ELSE CASE h = "upsertProject" -> <<"list", "environments", "oldValues",
                                     "oldApplications", "oldAppProjects">>
         [] h = "deleteProject" -> <<"list", "unlabelled", "allValues">>
         [] h = "upsertZone"    -> <<"zoneCredentials">>
         [] h = "upsertCluster" -> <<"clusterSecret">>
         [] h = "deleteCluster" -> <<"deleteClusterSecret">>
         [] OTHER               -> <<>>

Listed(m, k) == {f[3] : f \in {g \in m : g[1] = "argocd" /\ g[2] = k}}

Opening(phase, w, s, m) ==
  CASE phase = "list"            -> {Ac("list", "", "")}
    [] phase = "environments"    -> {Ac("infraGroup", ZoneOf[e], e) : e \in w.envs}
    [] phase = "oldValues"       -> {Ac("infraGroup", z, "old") : z \in Zones}
    [] phase = "allValues"       -> {Ac("infraGroup", z, "all") : z \in Zones}
    [] phase = "oldApplications" ->
         OneByOne("argocd", "deleteApplication",
                  Listed(m, "application") \ (w.envs \X InfraRepositories(w)))
    [] phase = "oldAppProjects"  ->
         OneByOne("argocd", "deleteAppProject", Listed(m, "appProject") \ w.envs)
    [] phase = "unlabelled"      ->
         OneByOne("argocd", "deleteApplication",
                  {n \in Listed(m, "application") :
                     Detail(s, "argocd", "application", n) = "dso/projet"})
    [] phase = "zoneCredentials" -> {Ac("zoneRole", GitLab!AZone, "zone")}
    [] phase = "clusterSecret"   ->
         {Ac(IF "inCluster" \in w.opts THEN "deleteSecret" ELSE "readSecret", "", "")}
    [] phase = "deleteClusterSecret" -> {Ac("deleteSecret", "", "cluster")}

\* What follows the infra project: the files of the deleted environments, of
\* the deleted project, of the zone, or of one environment.
WithInfra(c) ==
  CASE c[4] \in {"old", "all"} -> {Ac("listFiles", c[3], c[4])}
    [] c[4] = "zone"           -> {Ac("zoneValues", c[3], "")}
    [] OTHER                   -> {Ac("credentials", c[4], "")}

\* ensureInfraEnvValues, then the AppProject, then the Applications: the
\* cluster of an external environment is left to its files.
Environment(c, w, s, m) ==
  CASE c[2] = "credentials" -> {Ac("sources", c[3], "")}
    [] c[2] = "sources"     -> {Ac("values", c[3], "")}
    [] c[2] = "values"      ->
         IF c[3] \in ExternalEnvs THEN {}
         ELSE {Ac(IF c[3] \in Listed(m, "appProject")
                    THEN "patchAppProject" ELSE "createAppProject", c[3], "")}
    [] c[2] \in {"patchAppProject", "createAppProject"} ->
         {Ac(IF <<c[3], r>> \in Listed(m, "application")
               THEN "patchApplication" ELSE "createApplication", c[3], r) :
            r \in InfraRepositories(w)}
    [] OTHER -> {}

\* upsertCluster and deleteCluster: the secret in Kubernetes, then in Vault.
ClusterSecret(c, w, s) ==
  CASE c[2] = "readSecret" ->
         {Ac(IF Has(s, "argocd", "clusterSecret", "")
               THEN "replaceSecret" ELSE "createSecret", "", "")}
    [] c[2] = "deleteSecret" ->
         {Ac(IF c[4] = "cluster" THEN "destroySecret" ELSE "writeSecret", "", "")}
    [] c[2] \in {"replaceSecret", "createSecret"} -> {Ac("writeSecret", "", "")}
    [] OTHER -> {}

Then(c, w, s, m) ==
  GitLab!InfraProject(c, s) \cup Environment(c, w, s, m)
    \cup ClusterSecret(c, w, s)
    \cup (IF GitLab!InfraReady(c, s) THEN WithInfra(c) ELSE {})
    \cup (IF c[2] \in {"deleteApplication", "deleteAppProject"}
            THEN OneByOne("argocd", c[2], c[4]) ELSE {})
    \cup (IF c[2] = "zoneRole" THEN {Ac("infraGroup", c[3], c[4])} ELSE {})

Effect(c, w, s, m) ==
  CASE c[2] \in {"createInfraGroup", "createInfra", "infraCommit"} ->
         GitLab!InfraEffect(c, s)
    [] c[2] = "credentials" -> Put(s, "vault", "secretId", "latest", "")
    [] c[2] \in {"patchAppProject", "createAppProject"} ->
         Put(s, "argocd", "appProject", c[3], "dso/project")
    [] c[2] \in {"patchApplication", "createApplication"} ->
         Put(s, "argocd", "application", <<c[3], c[4]>>, "dso/project")
    [] c[2] = "deleteApplication" -> Drop(s, "argocd", "application", c[3])
    [] c[2] = "deleteAppProject"  -> Drop(s, "argocd", "appProject", c[3])
    [] c[2] \in {"createSecret", "replaceSecret"} ->
         Put(s, "argocd", "clusterSecret", "", "")
    [] c[2] = "deleteSecret"  -> Drop(s, "argocd", "clusterSecret", "")
    [] c[2] = "writeSecret"   -> Vault!WriteInZone(s, "argocd-cluster-secret")
    [] c[2] = "destroySecret" -> Vault!DestroyInZone(s, "argocd-cluster-secret")
    [] OTHER -> s

\* The objects listed, and the files that gitlab will commit in its step.
Learn(c, w, s, m) ==
  CASE c[2] = "list" ->
         m \cup {f \in s : f[1] = "argocd" /\ f[2] \in {"appProject", "application"}}
    [] c[2] = "values" ->
         GitLab!CreateOrUpdate(s, m, ZoneOf[c[3]], c[3], Kube!QuotaOf(w))
    [] c[2] = "zoneValues" ->
         GitLab!CreateOrUpdate(s, m, c[3], "argocd-values", "zone")
    [] c[2] = "listFiles" ->
         GitLab!CommitDelete(m, c[3],
           {e \in GitLab!FilesOf(s, c[3]) \ {"argocd-values"} :
              c[4] = "all" \/ ~(e \in w.envs /\ ZoneOf[e] = c[3])})
    [] OTHER -> m

\* The role that issues the credentials, the repositories the values name,
\* and the objects patched or deleted must exist.
Refused(c, w, s, m) ==
  \/ c[2] = "credentials" /\ ~Has(s, "vault", "project", "role")
  \/ c[2] = "zoneRole" /\ ~Has(s, "vault", "zone", "role")
  \/ c[2] = "sources" /\
       \E r \in InfraRepositories(w) \cup {"infra-apps"} :
         ~GitLab!HasRepository(s, r)
  \/ c[2] = "createInfra" /\ Has(s, "gitlab", "infra", c[3])
  \/ c[2] = "createInfraGroup" /\ Has(s, "gitlab", "group", "infra")
  \/ c[2] \in {"patchAppProject", "deleteAppProject"}
       /\ ~Has(s, "argocd", "appProject", c[3])
  \/ c[2] = "createAppProject" /\ Has(s, "argocd", "appProject", c[3])
  \/ c[2] = "patchApplication" /\ ~Has(s, "argocd", "application", <<c[3], c[4]>>)
  \/ c[2] = "createApplication" /\ Has(s, "argocd", "application", <<c[3], c[4]>>)
  \/ c[2] = "deleteApplication" /\ ~Has(s, "argocd", "application", c[3])
  \/ c[2] \in {"writeSecret", "destroySecret"} /\ ~Vault!HasZoneEngine(s)

OnError(c) == "KO"

Rescue(c) == {}

-----------------------------------------------------------------------------

\* The applications of the environments and the values of the environments,
\* external ones included.
Provided(w, s) ==
  /\ w.envs \ ExternalEnvs \subseteq Names(s, "argocd", "appProject")
  /\ (w.envs \ ExternalEnvs) \X InfraRepositories(w)
       \subseteq Names(s, "argocd", "application")
  /\ \A e \in w.envs :
       <<"gitlab", "file", <<ZoneOf[e], e>>, Kube!QuotaOf(w)>> \in s

Synced(w, s) ==
  /\ Provided(w, s)
  /\ Names(s, "argocd", "appProject") \subseteq w.envs
  /\ Names(s, "argocd", "application") \subseteq w.envs \X InfraRepositories(w)
  /\ \A z \in Zones : GitLab!FilesOf(s, z) \subseteq
                        {"argocd-values"} \cup {e \in w.envs : ZoneOf[e] = z}

\* AppProjects and Applications stay: see Leftovers.
Gone(w, s) == \A z \in Zones : GitLab!FilesOf(s, z) \subseteq {"argocd-values"}

\* What deleteProject looks for carries a label (dso/projet) that no object
\* created by upsertProject has.
Leftovers(s) ==
  Names(s, "argocd", "appProject") # {} \/ Names(s, "argocd", "application") # {}

ZoneProvided(s) ==
  Has(s, "gitlab", "file", <<GitLab!AZone, "argocd-values">>)

ClusterProvided(w, s) ==
  /\ Vault!WrittenInZone(s, "argocd-cluster-secret")
  /\ Has(s, "argocd", "clusterSecret", "") = ("inCluster" \notin w.opts)

ClusterGone(s) ==
  ~Has(s, "argocd", "clusterSecret", "")
    /\ ~Vault!WrittenInZone(s, "argocd-cluster-secret")
=============================================================================
