---------------------------- MODULE HarborPlugin ----------------------------
(***************************************************************************)
(* The harbor plugin (plugins/harbor/src): the project in the registry,    *)
(* its robots with their secrets in Vault, the group of the project among  *)
(* its members, and in each namespace the secret to pull images.           *)
(*                                                                         *)
(* Facts: project (its quota), robot (name and number of its secret, which *)
(* stands for its id), and member.  The memory holds the credentials of    *)
(* the read-only robot; also, unknown to the code, the secrets it trusts   *)
(* and whether an error of Harbor passed for the absence of the project.   *)
(***************************************************************************)
EXTENDS Services

Kube == INSTANCE KubernetesPlugin

Vault == INSTANCE VaultPlugin

Hb(o, n, d) == <<"harbor", o, n, d>>

Robots == {"ro-robot", "rw-robot", "project-robot"}

\* The robot of the project is published or not.
Wanted(w) == {"ro-robot", "rw-robot"}
               \cup IF "robot" \in w.opts THEN {"project-robot"} ELSE {}

QuotaOf(w) == IF "large" \in w.opts THEN "large" ELSE "none"

Path(robot) == "REGISTRY/" \o robot

Phases(h, step) ==
  CASE h = "upsertProject" /\ step = "post" -> <<"project", "robots", "pullSecrets">>
    [] h = "deleteProject" /\ step = "main" -> <<"delete">>
    [] OTHER                                -> <<>>

RoSecret(m) == (CHOOSE f \in m : f[1] = "roCreds")[4]

Opening(phase, w, s, m) ==
  CASE phase = "project" -> {Hb("getProject", "", "")}
    [] phase = "robots"  ->
         Together("harbor", "findRobot", Wanted(w))
           \cup Together("harbor", "findOldRobot", Robots \ Wanted(w))
           \cup {Hb("listMembers", "", "")}
    [] phase = "pullSecrets" ->
         UNION {Kube!CreateOrPatch("harbor", <<e, "pull-secret">>, RoSecret(m)) :
                  e \in w.envs \ ExternalEnvs}
    [] phase = "delete"  -> {Hb("findProject", "", "")}

-----------------------------------------------------------------------------
(* The requests of the client (harbor/src/api/Api.ts): what Harbor does.   *)

ProjectExists(s) == Has(s, "harbor", "project", "")

GetProject(s) == Detail(s, "harbor", "project", "")

CreateProject(s, quota) == Put(s, "harbor", "project", "", quota)

UpdateQuota(s, quota) == Put(s, "harbor", "project", "", quota)

DeleteProject(s) == {f \in s : ~(f[1] = "harbor" /\ f[2] # "lastRobot")}

HasRobot(s, robot) == Has(s, "harbor", "robot", robot)

Robot(s, robot) == Detail(s, "harbor", "robot", robot)

SecretOpens(s, robot) ==
  /\ HasRobot(s, robot) /\ Vault!Written(s, Path(robot))
  /\ Robot(s, robot) = Vault!Read(s, Path(robot))

CreateRobot(s, robot) ==
  Put(Issue(s, "harbor", "lastRobot"), "harbor", "robot", robot,
      Latest(s, "harbor", "lastRobot") + 1)

\* A robot is deleted by its id, which no later robot of its name has.
DeleteRobot(s, robot, id) == s \ {Hb("robot", robot, id)}

HasMember(s) == Has(s, "harbor", "member", "")

CreateMember(s) == Put(s, "harbor", "member", "", "")

-----------------------------------------------------------------------------

\* createProject: a project that is there gets its quota; one that the answer
\* does not show is created.
ProjectCalls(c, w, s) ==
  CASE c[2] = "getProject" ->
         IF ProjectExists(s) THEN {Hb("listQuotas", "", "")}
                             ELSE {Hb("createProject", "", "")}
    [] c[2] = "listQuotas" -> IF GetProject(s) = QuotaOf(w) THEN {}
                              ELSE {Hb("updateQuota", "", "")}
    [] c[2] = "createProject" -> {Hb("rereadProject", "", "")}
    [] OTHER -> {}

\* EnsureRobot when a robot is not looked for before it is created.
BadEnsureRobot(c, s) ==
  CASE c[2] = "findRobot" ->
         {IF Vault!Written(s, Path(c[3]))
            THEN Hb("writeSecret", c[3], Vault!Read(s, Path(c[3])))
            ELSE Hb("createRobot", c[3], "")}
    [] c[2] = "createRobot" ->
         {Hb("writeSecret", c[3], Detail(s, "harbor", "robot", c[3]))}
    [] OTHER -> {}

\* ensureRobot: a secret kept in Vault is kept; else the robot is created,
\* again if it exists.  The secret is written in all cases.  (The reads of
\* the robot and of the secret, that nothing separates, are one request.)
EnsureRobot(c, s) ==
  CASE c[2] = "findRobot" ->
         {IF Vault!Written(s, Path(c[3]))
            THEN Hb("writeSecret", c[3], Vault!Read(s, Path(c[3])))
          ELSE IF HasRobot(s, c[3]) THEN Hb("deleteRobot", c[3], Robot(s, c[3]))
          ELSE Hb("createRobot", c[3], "")}
    [] c[2] = "deleteRobot" -> {Hb("createRobot", c[3], "")}
    [] c[2] = "createRobot" ->
         {Hb("writeSecret", c[3], Robot(s, c[3]))}
    [] OTHER -> {}

\* deleteRobot: the deletion of the robot is sent and not awaited.
RemoveRobot(c, s) ==
  IF c[2] # "findOldRobot" THEN {}
  ELSE (IF HasRobot(s, c[3])
          THEN {Hb("deleteOldRobot", c[3], Robot(s, c[3]))} ELSE {})
         \cup (IF Vault!Written(s, Path(c[3]))
                 THEN {Hb("destroySecret", c[3], "")} ELSE {})

Unawaited == {"deleteOldRobot"}

GroupMember(c, s) ==
  IF c[2] = "listMembers" /\ ~HasMember(s) THEN {Hb("createMember", "", "")} ELSE {}

Deletion(c, s) ==
  CASE c[2] = "findProject" -> IF ProjectExists(s)
                                 THEN {Hb("removeRepositories", "", "")} ELSE {}
    [] c[2] = "removeRepositories" -> {Hb("deleteProject", "", "")}
    [] OTHER -> {}

Then(c, w, s, m) ==
  ProjectCalls(c, w, s) \cup EnsureRobot(c, s) \cup RemoveRobot(c, s)
    \cup GroupMember(c, s) \cup Deletion(c, s) \cup Kube!ResourceCalls(c, s)

Effect(c, w, s, m) ==
  CASE c[2] = "createProject"  -> CreateProject(s, QuotaOf(w))
    [] c[2] = "updateQuota"    -> UpdateQuota(s, QuotaOf(w))
    [] c[2] = "deleteProject"  -> DeleteProject(s)
    [] c[2] = "createRobot"    -> CreateRobot(s, c[3])
    [] c[2] \in {"deleteRobot", "deleteOldRobot"} -> DeleteRobot(s, c[3], c[4])
    [] c[2] = "createMember"   -> CreateMember(s)
    [] c[2] = "writeSecret"    -> Vault!Write(s, Path(c[3]), c[4])
    [] c[2] = "destroySecret"  -> Vault!Destroy(s, Path(c[3]))
    [] c[2] = "createResource" -> Kube!CreateObject(s, c[3], c[4])
    [] c[2] = "patchResource"  -> Kube!PatchObject(s, c[3], c[4])
    [] OTHER -> s

Learn(c, w, s, m) ==
  CASE c[2] = "writeSecret" /\ c[3] = "ro-robot" -> m \cup {<<"roCreds", "", "", c[4]>>}
    [] c[2] = "findRobot" /\ Vault!Written(s, Path(c[3])) /\ ~SecretOpens(s, c[3]) ->
         m \cup {Trusts("harbor", c[3])}
    [] OTHER -> m

\* A robot exists once, in a project that exists.
Refused(c, w, s, m) ==
  \/ c[2] = "createProject" /\ ProjectExists(s)
  \/ c[2] = "rereadProject" /\ ~ProjectExists(s)
  \/ c[2] = "createRobot" /\ (HasRobot(s, c[3]) \/ ~ProjectExists(s))
  \/ c[2] \in {"deleteRobot", "deleteOldRobot"} /\ Hb("robot", c[3], c[4]) \notin s
  \/ c[2] = "createMember" /\ (HasMember(s) \/ ~ProjectExists(s))
  \/ c[2] = "deleteProject" /\ ~ProjectExists(s)
  \/ Kube!ResourceRefused(c, s)

\* validateStatus: any answer to these will do (no answer at all will not).
AnyStatus == {"getProject", "createProject"}

\* An error that answers the first passes for the absence of the project; one
\* that answers its creation, it being there or not, is not looked at.
Rescue(c) ==
  Kube!ResourceRescue(c) \cup
    (CASE c[2] = "getProject"    -> {Hb("createProject", "", "")}
       [] c[2] = "createProject" -> {Hb("rereadProject", "", "")}
       [] OTHER                  -> {})

\* What an error handled where it occurs leaves.
Unread(c) == IF c[2] = "getProject" THEN {<<"unreadProject", "", "", "">>} ELSE {}

OnError(c) ==
  CASE Rescue(c) # {} -> "caught"
    [] c[2] \in {"createResource", "patchResource"} -> "settled"
    [] OTHER -> "KO"

-----------------------------------------------------------------------------

Provided(w, s) ==
  /\ ProjectExists(s) /\ HasMember(s)
  /\ \A r \in Wanted(w) : Vault!Written(s, Path(r))
  /\ \A e \in w.envs \ ExternalEnvs :
       /\ Kube!HasResource(s, <<e, "pull-secret">>)
       /\ Detail(s, "kubernetes", "resource", <<e, "pull-secret">>)
            = Vault!Read(s, Path("ro-robot"))

\* All that the payload asks, but for what the function has not looked at: the
\* quota of a project it could not read, the robot of a secret Vault had.
SyncedBut(w, s, m) ==
  /\ Provided(w, s)
  /\ GetProject(s) = QuotaOf(w) \/ <<"unreadProject", "", "", "">> \in m
  /\ \A r \in Robots :
       IF r \in Wanted(w) THEN SecretOpens(s, r) \/ Trusts("harbor", r) \in m
                          ELSE ~Vault!Written(s, Path(r))

Synced(w, s) == SyncedBut(w, s, {})

Gone(w, s) == ~ProjectExists(s)
=============================================================================
