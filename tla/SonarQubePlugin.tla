--------------------------- MODULE SonarQubePlugin ---------------------------
(***************************************************************************)
(* The sonarqube plugin (plugins/sonarqube/src): a user whose token is     *)
(* kept in Vault, a group, a project for each repository with the          *)
(* permissions of both, and the variables of the pipelines in GitLab.      *)
(*                                                                         *)
(* Facts: user, token (its number), group, project (its permissions,       *)
(* "none" or "set").  The memory holds the projects found.                 *)
(***************************************************************************)
EXTENDS Services

GitLab == INSTANCE GitLabPlugin

Vault == INSTANCE VaultPlugin

Sq(o, n, d) == <<"sonarqube", o, n, d>>

HasProject(s, r) == Has(s, "sonarqube", "project", r)

Projects(s) == Names(s, "sonarqube", "project")

\* The variables of a repository, in their order.
RepositoryKeys == <<"PROJECT_KEY", "PROJECT_NAME", "SONAR_PROJECT_PROPERTIES">>

Phases(h, step) ==
  CASE h = "upsertProject" /\ step = "main" -> <<"find", "reconcile">>
    [] h = "upsertProject" /\ step = "post" -> <<"readSecret", "variables">>
    [] h = "deleteProject" /\ step = "main" ->
         <<"findAll", "deleteProjects", "user">>
    [] OTHER                                -> <<>>

Found(m) == {f[3] : f \in {g \in m : g[1] = "sonarProject"}}

Opening(phase, w, s, m) ==
  CASE phase = "find"      -> {Sq("find", "", "")}
    [] phase = "findAll"   -> {Sq("findAll", "", "")}
    [] phase = "reconcile" ->
         {Sq("readToken", "", ""), Sq("findGroup", "", "")}
           \cup {Sq("removeProject", r, "") : r \in Found(m) \ w.repos}
           \cup {Sq("createProject", r, "") : r \in w.repos \ Found(m)}
           \cup {Sq("addUser", r, "") : r \in w.repos \cap Found(m)}
    [] phase = "readSecret" -> {Sq("readSecret", "", "")}
    [] phase = "variables"  ->
         GitLab!SetVariable("sonarqube", <<"group", "SONAR_TOKEN">>,
                            Vault!Read(s, "SONAR"), "")
           \cup UNION {GitLab!SetVariable("sonarqube", <<r, RepositoryKeys[1]>>,
                                          0, "repository") : r \in w.repos}
    [] phase = "deleteProjects" -> Together("sonarqube", "deleteProject", Found(m))
    [] phase = "user"       -> {Sq("findLogin", "", "")}

\* ensureUserAndVault: a user without a secret gets a new token; one with a
\* secret is left as it is.
UserCalls(c, s) ==
  CASE c[2] = "readToken" ->
         {Sq("findUser", "", IF Vault!Written(s, "SONAR") THEN "kept" ELSE "none")}
    [] c[2] = "findUser"  ->
         IF ~Has(s, "sonarqube", "user", "") THEN {Sq("createUser", "", "")}
         ELSE IF c[4] = "none" THEN {Sq("revokeToken", "", "")} ELSE {}
    [] c[2] = "createUser"    -> {Sq("revokeToken", "", "")}
    [] c[2] = "revokeToken"   -> {Sq("generateToken", "", "")}
    [] c[2] = "generateToken" ->
         {Sq("writeToken", "", Detail(s, "sonarqube", "token", ""))}
    [] OTHER -> {}

\* ensureRepositoryConfiguration: the permissions of the user, then those of
\* the group.
Configure(c) ==
  CASE c[2] = "createProject" -> {Sq("addUser", c[3], "")}
    [] c[2] = "addUser"       -> {Sq("addGroup", c[3], "")}
    [] OTHER                  -> {}

\* A repository's variables one at a time.
NextVariable(c, s) ==
  IF GitLab!VariableDone(c, s) /\ c[4][2] = "repository"
    THEN UNION {GitLab!SetVariable("sonarqube", <<c[3][1], k>>, 0, "repository") :
                  k \in Following(RepositoryKeys, c[3][2])}
    ELSE {}

Then(c, w, s, m) ==
  UserCalls(c, s) \cup Configure(c) \cup GitLab!VariableCalls(c, s)
    \cup NextVariable(c, s)
    \cup (IF c[2] = "findGroup" /\ ~Has(s, "sonarqube", "group", "")
            THEN {Sq("createGroup", "", "")} ELSE {})
    \cup (IF c[2] = "findLogin" /\ Has(s, "sonarqube", "user", "")
            THEN {Sq("deactivate", "", "")} ELSE {})

Effect(c, w, s, m) ==
  CASE c[2] = "createUser"    -> Put(s, "sonarqube", "user", "", "")
    [] c[2] = "revokeToken"   -> Drop(s, "sonarqube", "token", "")
    [] c[2] = "generateToken" ->
         Put(Issue(s, "sonarqube", "lastToken"), "sonarqube", "token", "",
             Latest(s, "sonarqube", "lastToken") + 1)
    [] c[2] = "writeToken"    -> Vault!Write(s, "SONAR", c[4])
    [] c[2] = "createGroup"   -> Put(s, "sonarqube", "group", "", "")
    [] c[2] = "createProject" -> Put(s, "sonarqube", "project", c[3], "none")
    [] c[2] = "addGroup"      -> Put(s, "sonarqube", "project", c[3], "set")
    [] c[2] \in {"removeProject", "deleteProject"} ->
         Drop(s, "sonarqube", "project", c[3])
    [] c[2] = "deactivate"    ->
         Drop(Drop(s, "sonarqube", "user", ""), "sonarqube", "token", "")
    [] c[2] \in {"listVariables", "editVariable", "createVariable"} ->
         GitLab!VariableEffect(c, s)
    [] OTHER -> s

TokenIsSecret(s) ==
  /\ Has(s, "sonarqube", "token", "") /\ Vault!Written(s, "SONAR")
  /\ Detail(s, "sonarqube", "token", "") = Vault!Read(s, "SONAR")

Learn(c, w, s, m) ==
  CASE c[2] \in {"find", "findAll"} ->
         m \cup {<<"sonarProject", "", r, "">> : r \in Projects(s)}
    [] c[2] = "findUser" /\ c[4] = "kept" /\ Has(s, "sonarqube", "user", "")
         /\ ~TokenIsSecret(s) -> m \cup {Trusts("sonarqube", "")}
    [] OTHER -> m

\* Permissions are for users and groups that exist, on projects that do.
Refused(c, w, s, m) ==
  \/ c[2] = "createUser" /\ Has(s, "sonarqube", "user", "")
  \/ c[2] \in {"revokeToken", "generateToken", "deactivate", "addUser"}
       /\ ~Has(s, "sonarqube", "user", "")
  \/ c[2] = "addGroup" /\ ~Has(s, "sonarqube", "group", "")
  \/ c[2] = "createProject" /\ HasProject(s, c[3])
  \/ c[2] \in {"addUser", "addGroup", "removeProject", "deleteProject"}
       /\ ~HasProject(s, c[3])
  \/ c[2] = "readSecret" /\ ~Vault!Written(s, "SONAR")
  \/ GitLab!VariableRefused(c, s)

Rescue(c) == {}

\* Whatever fails while provisioning is a warning.
OnError(c) ==
  IF c[2] \in {"findAll", "deleteProject", "findLogin", "deactivate"}
    THEN "KO" ELSE "warn"

-----------------------------------------------------------------------------

Provided(w, s) ==
  /\ Has(s, "sonarqube", "user", "") /\ Has(s, "sonarqube", "group", "")
  /\ Vault!Written(s, "SONAR")
  /\ \A r \in w.repos :
       /\ <<"sonarqube", "project", r, "set">> \in s
       /\ GitLab!HasRepository(s, r) =>
            \A i \in 1..Len(RepositoryKeys) :
              GitLab!HasVariable(s, <<r, RepositoryKeys[i]>>)
  /\ <<"gitlab", "variable", <<"group", "SONAR_TOKEN">>, Vault!Read(s, "SONAR")>> \in s

\* All that the payload asks, but for the token of a secret it has trusted.
SyncedBut(w, s, m) ==
  /\ Provided(w, s) /\ Projects(s) = w.repos
  /\ TokenIsSecret(s) \/ Trusts("sonarqube", "") \in m

Synced(w, s) == SyncedBut(w, s, {})

\* The group stays: deleteProject has no call for it.
Gone(w, s) == Projects(s) = {} /\ ~Has(s, "sonarqube", "user", "")
=============================================================================
