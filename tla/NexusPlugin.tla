----------------------------- MODULE NexusPlugin -----------------------------
(***************************************************************************)
(* The nexus plugin (plugins/nexus/src): the Maven and npm repositories of *)
(* a project with their privileges, a role that has these privileges, and  *)
(* a user that has this role, whose password is kept in Vault.             *)
(*                                                                         *)
(* Facts: repository and privilege (of a format and a name, the format     *)
(* and "group" being the group repository), role (its privileges), and     *)
(* user (the number of its password).  The memory holds the privileges     *)
(* gathered for the role; also, unknown to the code, that it trusts a      *)
(* secret which is no longer the password.                                 *)
(***************************************************************************)
EXTENDS Services

Vault == INSTANCE VaultPlugin

Nx(o, n, d) == <<"nexus", o, n, d>>

Hosted(tech) ==
  IF tech = "maven" THEN {<<"maven", "release">>, <<"maven", "snapshot">>}
                    ELSE {<<"npm", "hosted">>}

Group(tech) == <<tech, "group">>

OfTech(tech) == Hosted(tech) \cup {Group(tech)}

\* getTechUsed: what the project asked for, else the default of the console;
\* npm follows the default of Maven.
TechUsed(w) == {t \in {"maven", "npm"} : t \in w.opts \/ "byDefault" \in w.opts}

Active(w) == "nexusDisabled" \notin w.opts

Phases(h, step) ==
  CASE h = "upsertProject" /\ step = "main" ->
         <<"options", "maven", "npm", "role", "user">>
    [] h = "deleteProject" /\ step = "main" -> <<"delete">>
    [] OTHER                                -> <<>>

\* deleteIfExists on each privilege and each repository of the format: read,
\* then deleted if it is there.
DeleteTech(op, tech) ==
  {Nx(op, n, k) : n \in OfTech(tech), k \in {"privilege", "repository"}}

EnsureTech(tech, w) ==
  IF tech \in TechUsed(w) THEN {Nx("getHosted", n, "") : n \in Hosted(tech)}
                          ELSE DeleteTech("deleteUnwanted", tech)

Opening(phase, w, s, m) ==
  CASE phase = "delete"  -> DeleteTech("delete", "maven") \cup DeleteTech("delete", "npm")
                              \cup {Nx("deleteRole", "", ""), Nx("deleteUser", "", "")}
    [] ~Active(w)        -> {}
    [] phase = "options" -> IF "badPolicy" \in w.opts
                              THEN {Nx("invalidOptions", "", "")} ELSE {}
    [] phase \in {"maven", "npm"} -> EnsureTech(phase, w)
    [] phase = "role"    -> {Nx("findRole", "", "")}
    [] phase = "user"    -> {Nx("readSecret", "", "")}

HasRepository(s, n) == Has(s, "nexus", "repository", n)

\* Another project, whose name begins with that of this one, has a user.
HasNamesake(s) == Has(s, "nexus", "otherUser", "")

\* The hosted repositories, together for Maven; then the group; then the
\* privileges, one at a time.  A format is done with one before the next.
Chain(n) ==
  IF n[1] = "maven"
    THEN <<<<"maven", "release">>, <<"maven", "snapshot">>, Group("maven")>>
    ELSE <<<<"npm", "hosted">>, Group("npm")>>

\* Maven's group and privileges are posted whether they exist or not (code
\* 400 is accepted); npm's are looked for first.
FirstPrivilege(tech) ==
  IF tech = "maven" THEN {Nx("postPrivilege", Chain(Group(tech))[1], "")}
                    ELSE {Nx("getPrivilege", Chain(Group(tech))[1], "")}

Repositories(c, s) ==
  CASE c[2] = "getHosted" ->
         {Nx(IF HasRepository(s, c[3]) THEN "putHosted" ELSE "postHosted", c[3], "")}
    [] c[2] = "getGroup"  ->
         {Nx(IF HasRepository(s, c[3]) THEN "putGroup" ELSE "postGroup", c[3], "")}
    [] c[2] \in {"postGroup", "putGroup"} -> FirstPrivilege(c[3][1])
    [] c[2] = "getPrivilege" ->
         {Nx(IF Has(s, "nexus", "privilege", c[3])
               THEN "putPrivilege" ELSE "createPrivilege", c[3], "")}
    [] c[2] = "postPrivilege" ->
         {Nx("postPrivilege", n, "") : n \in Following(Chain(c[3]), c[3])}
    [] c[2] \in {"putPrivilege", "createPrivilege"} ->
         {Nx("getPrivilege", n, "") : n \in Following(Chain(c[3]), c[3])}
    [] OTHER -> {}

\* Maven's two hosted repositories are awaited together.  When the second
\* one is done (both exist), its continuation posts the group; npm has one.
HostedDone(c, s, m) ==
  IF c[2] \in {"postHosted", "putHosted"}
       /\ {n \in Hosted(c[3][1]) : <<"hosted", "", n, "">> \in m}
            \cup {c[3]} = Hosted(c[3][1])
    THEN {Nx(IF c[3][1] = "maven" THEN "postGroup" ELSE "getGroup",
             Group(c[3][1]), "")}
    ELSE {}

Role(c, s) ==
  IF c[2] = "findRole"
    THEN {Nx(IF Has(s, "nexus", "role", "") THEN "putRole" ELSE "postRole", "", "")}
    ELSE {}

\* User when a user that exists always gets a new password.
BadUser(c, s) ==
  CASE c[2] = "readSecret" -> {Nx("findUser", "", "")}
    [] c[2] = "findUser" ->
         {IF Has(s, "nexus", "user", "") THEN Nx("changePassword", "", "")
                                         ELSE Nx("createUser", "", "written")}
    [] c[2] \in {"changePassword", "createUser"} ->
         {Nx("writeSecret", "", Detail(s, "nexus", "user", ""))}
    [] OTHER -> {}

\* A user whose password is lost gets a new one; a password is kept in Vault
\* when it is new, provided the search returned no user (its criterion is a
\* prefix) or Vault had none.
User(c, s) ==
  CASE c[2] = "readSecret" ->
         {Nx("findUser", "", IF Vault!Written(s, "NEXUS") THEN "kept" ELSE "none")}
    [] c[2] = "findUser" ->
         IF Has(s, "nexus", "user", "")
           THEN IF c[4] = "none" THEN {Nx("changePassword", "", "")} ELSE {}
           ELSE {Nx("createUser", "",
                    IF HasNamesake(s) /\ c[4] = "kept"
                      THEN "notWritten" ELSE "written")}
    [] c[2] = "changePassword" \/ (c[2] = "createUser" /\ c[4] = "written") ->
         {Nx("writeSecret", "", Detail(s, "nexus", "user", ""))}
    [] OTHER -> {}

PasswordIsSecret(s) ==
  /\ Has(s, "nexus", "user", "") /\ Vault!Written(s, "NEXUS")
  /\ Detail(s, "nexus", "user", "") = Vault!Read(s, "NEXUS")

\* The secret Vault has stays, though it does not open the account of a user:
\* of the one found, or of the one about to be created.
TrustsSecret(c, s) ==
  c[4] = "kept" /\ IF Has(s, "nexus", "user", "") THEN ~PasswordIsSecret(s)
                                                  ELSE HasNamesake(s)

Then(c, w, s, m) ==
  Repositories(c, s) \cup HostedDone(c, s, m) \cup Role(c, s) \cup User(c, s)

\* A new password.
Password(s) ==
  Put(Issue(s, "nexus", "lastPassword"), "nexus", "user", "",
      Latest(s, "nexus", "lastPassword") + 1)

Privileges(m) == {f[3] : f \in {g \in m : g[1] = "privilege"}}

Effect(c, w, s, m) ==
  CASE c[2] \in {"postHosted", "putHosted", "postGroup", "putGroup"} ->
         Put(s, "nexus", "repository", c[3], "")
    [] c[2] \in {"postPrivilege", "putPrivilege", "createPrivilege"} ->
         Put(s, "nexus", "privilege", c[3], "")
    [] c[2] \in {"delete", "deleteUnwanted"} -> Drop(s, "nexus", c[4], c[3])
    [] c[2] \in {"postRole", "putRole"} ->
         Put(s, "nexus", "role", "", Privileges(m))
    [] c[2] = "deleteRole"  -> Drop(s, "nexus", "role", "")
    [] c[2] \in {"createUser", "changePassword"} -> Password(s)
    [] c[2] = "deleteUser"  -> Drop(s, "nexus", "user", "")
    [] c[2] = "writeSecret" -> Vault!Write(s, "NEXUS", c[4])
    [] OTHER -> s

\* The privileges of a format are gathered once all are there.
Learn(c, w, s, m) ==
  CASE c[2] \in {"postHosted", "putHosted"} -> m \cup {<<"hosted", "", c[3], "">>}
    [] c[2] \in {"postPrivilege", "putPrivilege", "createPrivilege"}
         /\ c[3][2] = "group" ->
         m \cup {<<"privilege", "", n, "">> : n \in OfTech(c[3][1])}
    [] c[2] = "findUser" /\ TrustsSecret(c, s) -> m \cup {Trusts("nexus", "")}
    [] OTHER -> m

\* Names are unique, and what is changed must exist.
Refused(c, w, s, m) ==
  \/ c[2] = "invalidOptions"
  \/ c[2] = "postHosted" /\ HasRepository(s, c[3])
  \/ c[2] = "postGroup" /\ c[3][1] = "npm" /\ HasRepository(s, c[3])
  \/ c[2] \in {"putHosted", "putGroup"} /\ ~HasRepository(s, c[3])
  \/ c[2] = "createPrivilege" /\ Has(s, "nexus", "privilege", c[3])
  \/ c[2] = "putPrivilege" /\ ~Has(s, "nexus", "privilege", c[3])
  \/ c[2] = "postRole" /\ Has(s, "nexus", "role", "")
  \/ c[2] = "putRole" /\ ~Has(s, "nexus", "role", "")
  \/ c[2] = "createUser" /\ Has(s, "nexus", "user", "")
  \/ c[2] = "changePassword" /\ ~Has(s, "nexus", "user", "")

Rescue(c) == {}

\* A format that fails is left and the rest of the function goes on.
OfFormat == {"getHosted", "putHosted", "postHosted", "getGroup", "putGroup",
             "postGroup", "getPrivilege", "putPrivilege", "createPrivilege",
             "postPrivilege", "deleteUnwanted"}

OnError(c) ==
  CASE c[2] = "invalidOptions" -> "warn"
    [] c[2] \in OfFormat       -> "phase"
    [] OTHER                   -> "KO"

-----------------------------------------------------------------------------

Wanted(w) == UNION {OfTech(t) : t \in TechUsed(w)}

Provided(w, s) ==
  Active(w) =>
    /\ Wanted(w) \subseteq Names(s, "nexus", "repository")
    /\ Wanted(w) \subseteq Names(s, "nexus", "privilege")
    /\ <<"nexus", "role", "", Wanted(w)>> \in s
    /\ Has(s, "nexus", "user", "") /\ Vault!Written(s, "NEXUS")

\* All that the payload asks, but for the password of a user whose secret the
\* function has trusted.
SyncedBut(w, s, m) ==
  /\ Provided(w, s)
  /\ Active(w) => /\ Names(s, "nexus", "repository") = Wanted(w)
                  /\ Names(s, "nexus", "privilege") = Wanted(w)
                  /\ PasswordIsSecret(s) \/ Trusts("nexus", "") \in m

Synced(w, s) == SyncedBut(w, s, {})

Gone(w, s) == {f \in s : f[1] = "nexus" /\ f[2] \notin {"otherUser", "lastPassword"}} = {}
=============================================================================
