--------------------------- MODULE MCProvisioning ---------------------------
(***************************************************************************)
(* Instances of Provisioning: for a few plugins at a time, requests that   *)
(* make a project grow, shrink and disappear.                              *)
(***************************************************************************)
EXTENDS Provisioning, TLC

OneZone == [e \in Envs |-> "z1"]

Project(envs, repos, mirrored, users, opts) ==
  [envs |-> envs, repos |-> repos, mirrored |-> mirrored, users |-> users,
   opts |-> opts]

Upsert(w) == <<"upsertProject", w>>

Delete(w) == <<"deleteProject", w>>

Small == Project({"e1"}, {"r1"}, {"r1"}, {"u1"}, {"infraRepos"})

Large == Project({"e1", "e2", "x"}, {"r1"}, {}, {"u1", "u2"}, {"large", "crds"})

Npm == [Small EXCEPT !.opts = {"npm"}]

On(plugins, n, l, s, requests) ==
  [plugins |-> plugins, mishaps |-> n, late |-> l, facts |-> s,
   requests |-> requests]

\* Facts that the plugins out of a scenario provide for those in it.
Namespace(e) == <<"kubernetes", "namespace", e, "current">>

VaultRole == <<"vault", "project", "role", "">>

ZoneEngine == <<"vault", "zone", "kv", "">>

ZoneRole == <<"vault", "zone", "role", "">>

\* A secret that outlives a deletion: one that failed after the part of a
\* plugin and before that of Vault.
Secret(path, n) == <<"vault", "secret", path, n>>

Repository(r) == <<"gitlab", "repository", r, "ready">>

KubernetesVault ==
  On({"kubernetes", "vault"}, 2, 1,
     {<<"kubernetes", "namespace", "e1", "old">>, <<"vault", "secret", "NEXUS", 1>>},
     <<Upsert(Small), Upsert(Large), Upsert([Large EXCEPT !.opts = {"crds", "connection"}]),
       Upsert(Small), Delete(Small)>>)

KeycloakAlone ==
  On({"keycloak"}, 2, 1, {},
     <<Upsert([Small EXCEPT !.users = {"u1", "u2"}, !.opts = {"writers"}]),
       Upsert([Small EXCEPT !.envs = {"e2"}]), Delete(Small)>>)

HarborNew ==
  On({"harbor"}, 1, 1, {Namespace("e1")}, <<Upsert(Small), Delete(Small)>>)

\* The robot of the project, its secret in Vault, numbered n.
RobotOf(robot, n) ==
  {<<"harbor", "robot", robot, n>>, Secret("REGISTRY/" \o robot, n)}

HarborChanged ==
  On({"harbor"}, 1, 1,
     {Namespace("e1"), Namespace("e2"), <<"harbor", "project", "", "none">>,
      <<"harbor", "member", "", "">>, <<"harbor", "lastRobot", "", 3>>}
       \cup RobotOf("ro-robot", 1) \cup RobotOf("rw-robot", 2)
       \cup RobotOf("project-robot", 3),
     <<Upsert([Small EXCEPT !.envs = {"e2"}, !.opts = {"large"}]),
       Upsert([Small EXCEPT !.opts = {"robot"}])>>)

HarborAgain ==
  On({"harbor"}, 1, 1,
     {Namespace("e1"), Namespace("e2"), <<"harbor", "lastRobot", "", 2>>,
      Secret("REGISTRY/ro-robot", 1), Secret("REGISTRY/rw-robot", 2)},
     <<Upsert(Small), Upsert([Small EXCEPT !.opts = {"large"}])>>)

NexusAlone ==
  On({"nexus"}, 1, 1, {},
     <<Upsert([Small EXCEPT !.opts = {"maven"}]), Upsert(Npm)>>)

NexusDeleted ==
  On({"nexus"}, 1, 0, {}, <<Upsert(Npm), Delete(Small)>>)

NexusAgain ==
  On({"nexus"}, 1, 0, {Secret("NEXUS", 1), <<"nexus", "lastPassword", "", 1>>},
     <<Upsert(Npm), Upsert(Npm)>>)

NexusNamesake ==
  [NexusAgain EXCEPT !.facts = @ \cup {<<"nexus", "otherUser", "", "">>}]

SonarQubeAlone ==
  On({"sonarqube"}, 1, 1, {Repository("r1")},
     <<Upsert(Small), Upsert([Small EXCEPT !.repos = {"r2"}]), Delete(Small)>>)

SonarQubeAgain ==
  On({"sonarqube"}, 1, 1,
     {Repository("r1"), Secret("SONAR", 1), <<"sonarqube", "lastToken", "", 1>>},
     <<Upsert(Small), Upsert(Small)>>)

GitLabAlone ==
  On({"gitlab"}, 2, 1, {},
     <<Upsert(Small), Upsert([Small EXCEPT !.users = {"u2"}, !.mirrored = {}]),
       <<"syncRepository", Small>>, Delete(Small)>>)

GitLabAgain ==
  On({"gitlab"}, 1, 1,
     {Secret("tech/GITLAB_MIRROR", 1), <<"gitlab", "lastToken", "", 1>>},
     <<Upsert(Small), Upsert(Small)>>)

GitLabArgoCD ==
  On({"gitlab", "argocd"}, 1, 0, {VaultRole},
     <<Upsert(Small), Upsert([Small EXCEPT !.envs = {"x"}, !.opts = {"large"}]),
       Delete(Small)>>)

ZoneOfAll ==
  On({"gitlab", "vault", "argocd", "keycloak"}, 2, 1, {},
     <<<<"upsertZone", Small>>, <<"upsertZone", Small>>, <<"deleteZone", Small>>>>)

ClusterOfArgoCD ==
  On({"argocd"}, 2, 1, {ZoneEngine},
     <<<<"upsertCluster", Small>>, <<"upsertCluster", [Small EXCEPT !.opts = {"inCluster"}]>>,
       <<"deleteCluster", Small>>>>)

Every ==
  {KubernetesVault, KeycloakAlone, HarborNew, HarborChanged, HarborAgain,
   NexusAlone, NexusDeleted, NexusAgain, NexusNamesake, SonarQubeAlone,
   SonarQubeAgain, GitLabAlone, GitLabAgain, GitLabArgoCD, ZoneOfAll,
   ClusterOfArgoCD}
=============================================================================
