--------------------------- MODULE KeycloakPlugin ---------------------------
(***************************************************************************)
(* The keycloak plugin (plugins/keycloak/src): the group of the project    *)
(* with its members, under it the group console, under that one a group    *)
(* for each environment with the groups RO and RW, and the client of the   *)
(* Argo CD of a zone.                                                      *)
(*                                                                         *)
(* Facts: group (project and console), env (environment), rights           *)
(* (environment and RO or RW), member, granted (environment, right and     *)
(* user), client.                                                          *)
(***************************************************************************)
EXTENDS Services

Vault == INSTANCE VaultPlugin

Kk(o, n, d) == <<"keycloak", o, n, d>>

Rights == {"RO", "RW"}

\* environment.permissions has an entry for each member of the project; the
\* owner has both rights, the others those of their roles.
Granted(w, right) ==
  IF right = "RO" \/ "writers" \in w.opts THEN w.users ELSE w.users \cap {Owner}

Phases(h, step) ==
  CASE h = "upsertProject" /\ step = "main" ->
         <<"group", "members", "console", "environments", "oldEnvs">>
    [] h = "deleteProject" /\ step = "post" -> <<"delete">>
    [] h = "upsertZone" /\ step = "main"    -> <<"client">>
    [] h = "deleteZone" /\ step = "post"    -> <<"deleteClient">>
    [] OTHER                                -> <<>>

EnvGroups(s) == Names(s, "keycloak", "env")

Members(s) == Names(s, "keycloak", "member")

Environments(w, s) ==
  IF w.envs = {} THEN {}
  ELSE LET e == CHOOSE x \in w.envs : TRUE
       IN {Kk(IF e \in EnvGroups(s) THEN "listRights" ELSE "createEnv", e,
              w.envs \ {e})}

\* The groups to remove are those listed before the loop.
Opening(phase, w, s, m) ==
  CASE phase = "group"   -> {Kk("findGroup", "project", "")}
    [] phase = "members" -> Together("keycloak", "addMember", w.users \ Members(s))
                              \cup Together("keycloak", "removeMember",
                                            Members(s) \ w.users)
    [] phase = "console" -> {Kk("findGroup", "console", "")}
    [] phase = "environments" -> Environments(w, s)
    [] phase = "oldEnvs" -> Together("keycloak", "removeEnv", EnvGroups(s) \ w.envs)
    [] phase = "delete"  -> {Kk("findGroup", "deleted", "")}
    [] phase \in {"client", "deleteClient"} -> {Kk("findClient", "", phase)}

GroupOf(c, s) ==
  IF c[2] # "findGroup" THEN {}
  ELSE IF c[3] = "deleted"
    THEN IF Has(s, "keycloak", "group", "project")
           THEN {Kk("deleteGroup", "", "")} ELSE {}
    ELSE IF Has(s, "keycloak", "group", c[3])
           THEN {} ELSE {Kk("createGroup", c[3], "")}

\* An environment at a time: its group, the two groups of rights (together),
\* then its permissions, sent without being awaited until the loop is over.
Permission(e, r, u, w) ==
  Kk(IF u \in Granted(w, r) THEN "grant" ELSE "revoke", <<e, r, u>>, "")

PermissionCalls(e, w) == {Permission(e, r, u, w) : r \in Rights, u \in w.users}

EnvironmentGroups(c, w, s) ==
  CASE c[2] = "createEnv"  -> {Kk("listRights", c[3], c[4])}
    [] c[2] = "listRights" -> {Kk("createRights", c[3], c[4])}
    [] c[2] = "createRights" ->
         PermissionCalls(c[3], w) \cup
           IF c[4] = {} THEN {} ELSE Environments([w EXCEPT !.envs = c[4]], s)
    [] OTHER -> {}

\* The secret of a client is written in Vault, then given to Keycloak; a
\* client that exists keeps its own.
Client(c, s) ==
  CASE c[2] = "findClient" ->
         IF c[4] = "client"
           THEN {Kk(IF Has(s, "keycloak", "client", "")
                      THEN "updateClient" ELSE "writeSecret", "", "")}
           ELSE IF Has(s, "keycloak", "client", "")
                  THEN {Kk("deleteClient", "", "")} ELSE {}
    [] c[2] = "writeSecret" -> {Kk("createClient", "", "")}
    [] OTHER -> {}

Then(c, w, s, m) ==
  GroupOf(c, s) \cup EnvironmentGroups(c, w, s) \cup Client(c, s)

WithoutEnv(s, e) ==
  {f \in s : ~(/\ f[1] = "keycloak"
               /\ \/ f[2] \in {"env", "rights"} /\ f[3] = e
                  \/ f[2] = "granted" /\ f[3][1] = e)}

ProjectFacts == {"group", "env", "rights", "member", "granted"}

Effect(c, w, s, m) ==
  CASE c[2] = "createGroup"  -> Put(s, "keycloak", "group", c[3], "")
    [] c[2] = "addMember"    -> Put(s, "keycloak", "member", c[3], "")
    [] c[2] = "removeMember" -> Drop(s, "keycloak", "member", c[3])
    [] c[2] = "createEnv"    -> Put(s, "keycloak", "env", c[3], "")
    [] c[2] = "createRights" -> Put(s, "keycloak", "rights", c[3], "")
    [] c[2] = "grant"        -> Put(s, "keycloak", "granted", c[3], "")
    [] c[2] = "revoke"       -> Drop(s, "keycloak", "granted", c[3])
    [] c[2] = "removeEnv"    -> WithoutEnv(s, c[3])
    [] c[2] = "deleteGroup"  ->
         {f \in s : ~(f[1] = "keycloak" /\ f[2] \in ProjectFacts)}
    [] c[2] = "writeSecret"  -> Vault!WriteInZone(s, "keycloak")
    [] c[2] = "createClient" -> Put(s, "keycloak", "client", "", "")
    [] c[2] = "deleteClient" -> Drop(s, "keycloak", "client", "")
    [] OTHER -> s

\* Groups have unique names under their parent; a permission needs its group,
\* the secret of a zone the secret engine of the zone.
Refused(c, w, s, m) ==
  \/ c[2] = "createGroup" /\ Has(s, "keycloak", "group", c[3])
  \/ c[2] = "createEnv" /\ c[3] \in EnvGroups(s)
  \/ c[2] = "removeEnv" /\ c[3] \notin EnvGroups(s)
  \/ c[2] \in {"grant", "revoke"} /\ ~Has(s, "keycloak", "rights", c[3][1])
  \/ c[2] = "createRights" /\ c[3] \notin EnvGroups(s)
  \/ c[2] = "writeSecret" /\ ~Vault!HasZoneEngine(s)

OnError(c) == "KO"

Rescue(c) == {}

-----------------------------------------------------------------------------

GrantedIn(s, e, right) ==
  {u \in Users : Has(s, "keycloak", "granted", <<e, right, u>>)}

Provided(w, s) ==
  /\ {"project", "console"} \subseteq Names(s, "keycloak", "group")
  /\ Members(s) = w.users
  /\ \A e \in w.envs, r \in Rights :
       /\ Has(s, "keycloak", "rights", e)
       /\ GrantedIn(s, e, r) \cap w.users = Granted(w, r)

\* A user who left the project keeps the rights it had on the environments:
\* their permissions have no entry for it any more.
Synced(w, s) == Provided(w, s) /\ EnvGroups(s) = w.envs

Gone(w, s) ==
  Names(s, "keycloak", "group") \cup EnvGroups(s) \cup Members(s) = {}

ZoneProvided(s) == Has(s, "keycloak", "client", "")

ZoneGone(s) == ~Has(s, "keycloak", "client", "")
=============================================================================
