---------------------------- MODULE GitLabPlugin ----------------------------
(***************************************************************************)
(* The gitlab plugin (plugins/gitlab/src): the group of the project with   *)
(* its members, its repositories, the token and the trigger of its         *)
(* mirroring, and the infrastructure repository of each zone, to which     *)
(* other plugins of the same hook have files committed.                    *)
(*                                                                         *)
(* Facts: group, user, member, repository (empty, or with its first        *)
(* commits), topic, token and trigger (numbers), pipeline, infra (the      *)
(* repository of a zone) and file (zone and path).  The memory holds the   *)
(* commits to make, the users that could not be created and the            *)
(* credentials read for mirroring.                                         *)
(***************************************************************************)
EXTENDS Services

Vault == INSTANCE VaultPlugin

Gl(o, n, d) == <<"gitlab", o, n, d>>

HasRepository(s, r) == Has(s, "gitlab", "repository", r)

Special == {"infra-apps", "mirror"}

Phases(h, step) ==
  CASE h = "upsertProject" /\ step = "main" ->
         <<"group", "users", "members", "mirrorCreds", "topics",
           "repositories", "oldSecrets", "topics", "trigger">>
    [] h = "deleteProject" /\ step = "main"   -> <<"deleteGroup">>
    [] h = "syncRepository" /\ step = "main"  -> <<"topics", "triggerMirror">>
    [] h = "upsertZone" /\ step = "pre"       -> <<"infra">>
    [] h = "deleteZone" /\ step = "main"      -> <<"infra", "deleteRepository">>
    [] h \in {"upsertProject", "deleteProject", "syncRepository", "upsertZone"}
         /\ step = "post" -> <<"commitFiles">>
    [] OTHER -> <<>>

\* ensureMembers: a user is a member when its upsert did not fail, whoever is
\* a member already.
Fulfilled(w, m) == {u \in w.users : <<"rejected", "", u, "">> \notin m}

Membership(w, s, m) ==
  LET members == Names(s, "gitlab", "member")
  IN Together("gitlab", "addMember", Fulfilled(w, m) \ members)
       \cup Together("gitlab", "removeMember", members \ Fulfilled(w, m))

\* Excess when the repositories of the console are not set apart.
BadExcess(w, s) == Names(s, "gitlab", "repository") \ w.repos

\* ensureRepositories, from the list of repositories it begins with.
Excess(w, s) ==
  {r \in Names(s, "gitlab", "repository") \ (w.repos \cup Special) :
     ~Has(s, "gitlab", "topic", r)}

EnsureRepositories(w, s) ==
  Together("gitlab", "removeRepository", Excess(w, s))
    \cup {Gl("readCreds", r, IF HasRepository(s, r) THEN "present" ELSE "absent") :
            r \in w.repos}
    \cup {Gl("createRepository", r, "special") :
            r \in {x \in Special : ~HasRepository(s, x)}}

\* The zones with actions to commit.
Pending(m) == {<<f[2], f[3], f[4]>> : f \in {g \in m : g[1] = "pending"}}

PendingZones(m) == {a[1] : a \in Pending(m)}

AZone == CHOOSE z \in Zones : TRUE

Opening(phase, w, s, m) ==
  CASE phase = "group"        -> {Gl("findOrganization", "project", "")}
    [] phase = "deleteGroup"  -> {Gl("findOrganization", "deleted", "")}
    [] phase = "users"        -> Together("gitlab", "findUser", w.users)
    [] phase = "members"      -> Membership(w, s, m)
    [] phase = "mirrorCreds"  -> {Gl("listTokens", "", "")}
    [] phase = "topics"       ->
         Together("gitlab", "tag",
                  {r \in Special : HasRepository(s, r)
                                     /\ ~Has(s, "gitlab", "topic", r)})
    [] phase = "repositories" -> EnsureRepositories(w, s)
    [] phase = "oldSecrets"   ->
         Together("gitlab", "destroyCreds", Names(s, "vault", "mirror") \ w.repos)
    [] phase = "trigger"      -> {Gl("listTriggers", "", "")}
    [] phase = "triggerMirror" ->
         {Gl("createPipeline", CHOOSE r \in w.repos : TRUE, "")}
    [] phase = "infra"        -> {Gl("infraGroup", AZone, "")}
    [] phase = "deleteRepository" -> {Gl("deleteInfra", AZone, "")}
    [] phase = "commitFiles"  -> OneByOne("gitlab", "commit", PendingZones(m))

\* getProjectGroup, createProjectGroup and deleteDsoProject; the group of the
\* organization is created whenever it is missing.
ProjectGroup(c, s) ==
  CASE c[2] = "findOrganization" ->
         {Gl(IF Has(s, "gitlab", "group", "organization")
               THEN "findGroup" ELSE "createOrganization", c[3], "")}
    [] c[2] = "createOrganization" -> {Gl("findGroup", c[3], "")}
    [] c[2] = "findGroup" ->
         IF Has(s, "gitlab", "group", "project")
           THEN IF c[3] = "deleted" THEN {Gl("deleteGroup", "", "")} ELSE {}
           ELSE IF c[3] = "deleted" THEN {} ELSE {Gl("createGroup", "", "")}
    [] OTHER -> {}

UpsertUser(c, s) ==
  IF c[2] = "findUser" /\ ~Has(s, "gitlab", "user", c[3])
    THEN {Gl("createUser", c[3], "")} ELSE {}

\* A token whose secret is lost is revoked; a new token is kept in Vault.
MirrorCreds(c, s) ==
  CASE c[2] = "listTokens" ->
         {Gl(IF Has(s, "gitlab", "token", "bot") THEN "readMirror"
                                                 ELSE "createToken", "", "")}
    [] c[2] = "readMirror" ->
         IF Vault!Written(s, "tech/GITLAB_MIRROR") THEN {}
         ELSE {Gl("revokeToken", "", "")}
    [] c[2] = "revokeToken" -> {Gl("createToken", "", "")}
    [] c[2] = "createToken" -> {Gl("writeMirror", "", Detail(s, "gitlab", "token", "bot"))}
    [] OTHER -> {}

\* ensureRepositoryExists: the secret of a mirrored repository is written
\* each time, that of another one destroyed.
Credentials(r, w, s) ==
  IF r \in w.mirrored THEN {Gl("writeCreds", r, "")}
  ELSE IF Has(s, "vault", "mirror", r) THEN {Gl("destroyCreds", r, "")} ELSE {}

\* createEmptyRepository: a repository cloned from elsewhere has no first
\* commit; that of mirroring gets its pipeline as well.
EnsureRepository(c, w, s) ==
  CASE c[2] = "readCreds" -> IF c[4] = "absent"
                               THEN {Gl("createRepository", c[3], "project")}
                               ELSE Credentials(c[3], w, s)
    [] c[2] = "createRepository" ->
         IF c[3] \in w.mirrored THEN Credentials(c[3], w, s)
                                ELSE {Gl("firstCommit", c[3], c[4])}
    [] c[2] = "firstCommit" ->
         IF c[3] = "mirror" THEN {Gl("provisionMirror", c[3], "")}
         ELSE IF c[4] = "project" THEN Credentials(c[3], w, s) ELSE {}
    [] OTHER -> {}

Triggers(s) == Names(s, "gitlab", "trigger")

\* getMirrorProjectTriggerToken creates a trigger at each run.
MirrorTrigger(c, s) ==
  CASE c[2] = "listTriggers" ->
         {Gl(IF Triggers(s) # {} /\ ~Vault!Written(s, "GITLAB")
               THEN "removeTrigger" ELSE "createTrigger", "", "")}
    [] c[2] = "removeTrigger" -> {Gl("createTrigger", "", "")}
    [] c[2] = "createTrigger" -> {Gl("writeTrigger", "",
                                     Latest(s, "gitlab", "lastTrigger"))}
    [] OTHER -> {}

\* getOrCreateInfraProject, for this plugin and for argocd, which goes on
\* with what its own module says.
InfraProject(c, s) ==
  CASE c[2] = "infraGroup" ->
         {<<c[1], IF Has(s, "gitlab", "group", "infra") THEN "infraProjects"
                                                        ELSE "createInfraGroup",
            c[3], c[4]>>}
    [] c[2] = "createInfraGroup" -> {<<c[1], "infraProjects", c[3], c[4]>>}
    [] c[2] = "infraProjects" ->
         IF Has(s, "gitlab", "infra", c[3]) THEN {}
         ELSE {<<c[1], "createInfra", c[3], c[4]>>}
    [] c[2] = "createInfra" -> {<<c[1], "infraCommit", c[3], c[4]>>}
    [] OTHER -> {}

\* The infra project is there, found or created.
InfraReady(c, s) ==
  \/ c[2] = "infraProjects" /\ Has(s, "gitlab", "infra", c[3])
  \/ c[2] = "infraCommit"

Then(c, w, s, m) ==
  ProjectGroup(c, s) \cup UpsertUser(c, s) \cup MirrorCreds(c, s)
    \cup EnsureRepository(c, w, s) \cup MirrorTrigger(c, s)
    \cup InfraProject(c, s)
    \cup IF c[2] = "commit" THEN OneByOne("gitlab", "commit", c[4]) ELSE {}

-----------------------------------------------------------------------------
(* Effects                                                                 *)

\* What belongs to the group of the project is deleted with it.
WithoutGroup(s) ==
  Drop({f \in s : ~(f[1] = "gitlab" /\ f[2] \in
          {"member", "repository", "topic", "token", "trigger", "variable"})},
       "gitlab", "group", "project")

InfraEffect(c, s) ==
  CASE c[2] = "createInfraGroup" -> Put(s, "gitlab", "group", "infra", "")
    [] c[2] = "createInfra"      -> Put(s, "gitlab", "infra", c[3], "empty")
    [] c[2] = "infraCommit"      -> Put(s, "gitlab", "infra", c[3], "ready")

\* Commits.create, with all the actions pending for one repository.
Committed(s, zone, m) ==
  LET actions == {a \in Pending(m) : a[1] = zone}
      Touched(f) == /\ f[1] = "gitlab" /\ f[2] = "file"
                    /\ \E a \in actions : f[3] = <<zone, a[2]>>
      written == {<<"gitlab", "file", <<zone, a[2]>>, a[3][2]>> :
                    a \in {b \in actions : b[3][1] # "delete"}}
  IN {f \in s : ~Touched(f)} \cup written

Effect(c, w, s, m) ==
  CASE c[2] = "createOrganization" -> Put(s, "gitlab", "group", "organization", "")
    [] c[2] = "createGroup"    -> Put(s, "gitlab", "group", "project", "")
    [] c[2] = "deleteGroup"    -> WithoutGroup(s)
    [] c[2] = "createUser"     -> Put(s, "gitlab", "user", c[3], "")
    [] c[2] = "addMember"      -> Put(s, "gitlab", "member", c[3], "")
    [] c[2] = "removeMember"   -> Drop(s, "gitlab", "member", c[3])
    [] c[2] = "createToken"    ->
         Put(Issue(s, "gitlab", "lastToken"), "gitlab", "token", "bot",
             Latest(s, "gitlab", "lastToken") + 1)
    [] c[2] = "revokeToken"    -> Drop(s, "gitlab", "token", "bot")
    [] c[2] = "writeMirror"    -> Vault!Write(s, "tech/GITLAB_MIRROR", c[4])
    [] c[2] = "tag"            -> Put(s, "gitlab", "topic", c[3], "")
    [] c[2] = "removeRepository" -> Drop(s, "gitlab", "repository", c[3])
    [] c[2] = "createRepository" ->
         Put(s, "gitlab", "repository", c[3],
             IF c[3] \in w.mirrored THEN "ready" ELSE "empty")
    [] c[2] = "firstCommit"    ->
         Put(s, "gitlab", "repository", c[3],
             IF c[3] = "mirror" THEN "bare" ELSE "ready")
    [] c[2] = "provisionMirror" -> Put(s, "gitlab", "repository", "mirror", "ready")
    [] c[2] = "writeCreds"     ->
         Put(s, "vault", "mirror", c[3],
             (CHOOSE f \in m : f[1] = "creds")[4])
    [] c[2] = "destroyCreds"   -> Drop(s, "vault", "mirror", c[3])
    [] c[2] = "removeTrigger"  ->
         Drop(s, "gitlab", "trigger", CHOOSE n \in Triggers(s) : TRUE)
    [] c[2] = "createTrigger"  ->
         Put(Issue(s, "gitlab", "lastTrigger"), "gitlab", "trigger",
             Latest(s, "gitlab", "lastTrigger") + 1, "")
    [] c[2] = "writeTrigger"   -> Vault!Write(s, "GITLAB", c[4])
    [] c[2] = "createPipeline" -> Put(s, "gitlab", "pipeline", c[3], "")
    [] c[2] = "deleteInfra"    ->
         {f \in Drop(s, "gitlab", "infra", c[3]) :
            ~(f[1] = "gitlab" /\ f[2] = "file" /\ f[3][1] = c[3])}
    [] c[2] = "commit"         -> Committed(s, c[3], m)
    [] c[2] \in {"createInfraGroup", "createInfra", "infraCommit"} ->
         InfraEffect(c, s)
    [] OTHER -> s

TokenIsSecret(s) ==
  /\ Has(s, "gitlab", "token", "bot") /\ Vault!Written(s, "tech/GITLAB_MIRROR")
  /\ Detail(s, "gitlab", "token", "bot") = Vault!Read(s, "tech/GITLAB_MIRROR")

\* The credentials used for the repositories are the new ones, or those read.
Learn(c, w, s, m) ==
  CASE c[2] = "readMirror" /\ Vault!Written(s, "tech/GITLAB_MIRROR") ->
         m \cup {<<"creds", "", "", Vault!Read(s, "tech/GITLAB_MIRROR")>>}
           \cup IF TokenIsSecret(s) THEN {} ELSE {Trusts("gitlab", "")}
    [] c[2] = "writeMirror" -> m \cup {<<"creds", "", "", c[4]>>}
    [] OTHER -> m

\* GitLab refuses a name in use, a second removal, a pipeline without its
\* repositories, and a commit that creates a file that exists or changes one
\* that does not.
Refused(c, w, s, m) ==
  \/ c[2] = "createRepository" /\ HasRepository(s, c[3])
  \/ c[2] = "createInfra" /\ Has(s, "gitlab", "infra", c[3])
  \/ c[2] = "createInfraGroup" /\ Has(s, "gitlab", "group", "infra")
  \/ c[2] = "removeRepository" /\ ~HasRepository(s, c[3])
  \/ c[2] = "listTokens" /\ ~Has(s, "gitlab", "group", "project")
  \/ c[2] \in {"listTriggers", "createPipeline"} /\ ~HasRepository(s, "mirror")
  \/ c[2] = "createPipeline" /\ ~HasRepository(s, c[3])
  \/ c[2] = "commit" /\
       \E a \in Pending(m) :
         /\ a[1] = c[3]
         /\ (a[3][1] = "create") = Has(s, "gitlab", "file", <<a[1], a[2]>>)

\* A user that cannot be created is left out, with a warning.
OnError(c) == IF c[2] \in {"findUser", "createUser"} THEN "settled" ELSE "KO"

Rescue(c) == {}

-----------------------------------------------------------------------------
(* commitCreateOrUpdate and commitDelete: what becomes pending.            *)

FilesOf(s, zone) ==
  {f[3][2] : f \in {g \in s : g[1] = "gitlab" /\ g[2] = "file" /\ g[3][1] = zone}}

CreateOrUpdate(s, m, zone, path, content) ==
  LET has == Has(s, "gitlab", "file", <<zone, path>>)
  IN IF has /\ Detail(s, "gitlab", "file", <<zone, path>>) = content
       THEN m
       ELSE m \cup {<<"pending", zone, path,
                      <<IF has THEN "update" ELSE "create", content>>>>}

CommitDelete(m, zone, paths) ==
  m \cup {<<"pending", zone, path, <<"delete", "">>>> : path \in paths}

-----------------------------------------------------------------------------
(* setGitlabGroupVariable and setGitlabRepoVariable, which other plugins   *)
(* call: n is <<"group" or a repository, key>>, next what the caller does  *)
(* after.  A repository that is not found is no error.                     *)

SetVariable(p, n, value, next) == {<<p, "listVariables", n, <<value, next>>>>}

HasVariable(s, n) == Has(s, "gitlab", "variable", n)

NoRepository(c, s) == c[3][1] # "group" /\ ~HasRepository(s, c[3][1])

VariableCalls(c, s) ==
  IF c[2] # "listVariables" \/ NoRepository(c, s) THEN {}
  ELSE IF HasVariable(s, c[3])
    THEN IF Detail(s, "gitlab", "variable", c[3]) = c[4][1] THEN {}
         ELSE {<<c[1], "editVariable", c[3], c[4]>>}
    ELSE {<<c[1], "createVariable", c[3], c[4]>>}

VariableDone(c, s) ==
  \/ c[2] \in {"editVariable", "createVariable"}
  \/ c[2] = "listVariables" /\ VariableCalls(c, s) = {}

\* The group of the project is created when it is missing.
VariableEffect(c, s) ==
  IF c[2] = "listVariables"
    THEN Put(s, "gitlab", "group", "project", "")
    ELSE Put(s, "gitlab", "variable", c[3], c[4][1])

VariableRefused(c, s) ==
  \/ c[2] = "createVariable" /\ (HasVariable(s, c[3]) \/ NoRepository(c, s))
  \/ c[2] = "editVariable" /\ ~HasVariable(s, c[3])

-----------------------------------------------------------------------------

Provided(w, s) ==
  /\ Has(s, "gitlab", "group", "project")
  /\ w.repos \cup Special \subseteq Names(s, "gitlab", "repository")
  /\ w.mirrored \subseteq Names(s, "vault", "mirror")
  /\ Has(s, "gitlab", "token", "bot") /\ Vault!Written(s, "tech/GITLAB_MIRROR")
  /\ Vault!Written(s, "GITLAB")

\* All that the payload asks, but for the token of a secret it has trusted.
SyncedBut(w, s, m) ==
  /\ Provided(w, s)
  /\ TokenIsSecret(s) \/ Trusts("gitlab", "") \in m
  /\ Names(s, "gitlab", "member") = w.users
  /\ Names(s, "gitlab", "repository") = w.repos \cup Special
  /\ Names(s, "vault", "mirror") = w.mirrored

Synced(w, s) == SyncedBut(w, s, {})

Gone(w, s) == Names(s, "gitlab", "group") \subseteq {"organization", "infra"}

ZoneProvided(s) == Has(s, "gitlab", "infra", AZone)

ZoneGone(s) == ~Has(s, "gitlab", "infra", AZone)
=============================================================================
