----------------------------- MODULE VaultPlugin -----------------------------
(***************************************************************************)
(* The vault plugin (plugins/vault/src): the secret engine, the policies,  *)
(* the group and the role of a project or a zone, the secrets the other    *)
(* plugins keep for it, and the resources that let the namespaces of the   *)
(* environments read them.                                                 *)
(*                                                                         *)
(* Facts: project and zone (the pieces of each), secret and mirror (the    *)
(* secrets of the project, by path and by repository), zoneSecret (those   *)
(* of the zone), and secretId, the credentials issued for the role.        *)
(***************************************************************************)
EXTENDS Services

Kube == INSTANCE KubernetesPlugin

Vt(o, n, d) == <<"vault", o, n, d>>

\* The order in which Project.upsert, VaultZoneApi.upsert and the two delete
\* functions go through the pieces.
UpsertProjectOrder == <<"kv", "appFull", "techRO", "group", "alias", "role">>

DeleteProjectOrder == <<"kv", "appFull", "techRO", "group", "role">>

ZoneOrder == <<"kv", "policy", "role">>

Phases(h, step) ==
  CASE h = "upsertProject" /\ step = "main" -> <<"Project.upsert">>
    [] h = "upsertProject" /\ step = "post" -> <<"getCredentials", "deployAuth">>
    [] h = "deleteProject" /\ step = "post" ->
         <<"Project.delete", "list", "destroy">>
    [] h = "upsertZone" /\ step = "pre"     -> <<"Zone.upsert">>
    [] h = "deleteZone" /\ step = "main"    -> <<"Zone.delete">>
    [] OTHER                                -> <<>>

\* What Project.delete does not empty: what the plugins keep under the path
\* of the project in the engine forge-dso.
Secrets(s) == {f \in s : f[1] = "vault" /\ f[2] \in {"secret", "mirror"}}

\* The environments deployAuth goes through: those whose cluster has the
\* resource definitions of Vault.
WithCrds(w) ==
  IF "crds" \in w.opts /\ "noVaultSecrets" \notin w.opts
    THEN w.envs \ ExternalEnvs ELSE {}

\* ConnectEnvironment when the loop does not go on to the next environment.
BadConnectEnvironment(w, todo) ==
  IF todo = {} THEN {}
  ELSE LET e == CHOOSE x \in todo : TRUE
       IN Kube!CreateOrPatch("vault", <<e, "connection">>, todo)

\* An environment after the other: the connection, wanted or not, the secret
\* of the role, then the VaultAuth that refers to both.
ConnectEnvironment(w, todo) ==
  IF todo = {} THEN {}
  ELSE LET e == CHOOSE x \in todo : TRUE
       IN IF "connection" \in w.opts
            THEN Kube!CreateOrPatch("vault", <<e, "connection">>, todo \ {e})
            ELSE Kube!DeleteResource("vault", <<e, "connection">>, todo \ {e})

Opening(phase, w, s, m) ==
  CASE phase = "Project.upsert"  -> {Vt("upsert", "kv", UpsertProjectOrder)}
    [] phase = "Project.delete"  -> {Vt("delete", "kv", DeleteProjectOrder)}
    [] phase = "Zone.upsert"     -> {Vt("upsertZone", "kv", ZoneOrder)}
    [] phase = "Zone.delete"     -> {Vt("deleteZone", "kv", ZoneOrder)}
    [] phase = "getCredentials"  -> {Vt("roleId", "", "")}
    [] phase = "deployAuth"      -> ConnectEnvironment(w, WithCrds(w))
    [] phase = "list"            -> {Vt("list", "", "")}
    [] phase = "destroy"         -> {Vt("destroy", f[3], f[2]) : f \in Secrets(s)}

\* A piece at a time; the alias of the group is asked for only when the group
\* has not got it.
Pieces(c, s) ==
  IF c[2] \in {"upsert", "delete", "upsertZone", "deleteZone"}
    THEN {Vt(c[2], n, c[4]) : n \in Following(c[4], c[3])}
    ELSE {}

AfterResource(c, w) ==
  CASE c[3][2] = "connection" ->
         Kube!CreateOrPatch("vault", <<c[3][1], "approle">>, c[4])
    [] c[3][2] = "approle" ->
         Kube!CreateOrPatch("vault", <<c[3][1], "auth">>, c[4])
    [] c[3][2] = "auth" -> ConnectEnvironment(w, c[4])

DeployAuth(c, w, s) ==
  Kube!ResourceCalls(c, s)
    \cup (IF c[2] = "roleId" THEN {Vt("secretId", "", "")} ELSE {})
    \cup (IF Kube!ResourceDone(c, s) THEN AfterResource(c, w) ELSE {})

Then(c, w, s, m) == Pieces(c, s) \cup DeployAuth(c, w, s)

Issued(s) == {f \in s : f[1] = "vault" /\ f[2] = "secretId"}

\* Deleting the group deletes its alias, deleting the role its credentials,
\* deleting the engine of a zone the secrets in it.
Delete(s, kind, n) ==
  LET rest == Drop(s, "vault", kind, n)
  IN CASE n = "group"                      -> Drop(rest, "vault", kind, "alias")
       [] n = "role" /\ kind = "project"   -> rest \ Issued(s)
       [] n = "kv" /\ kind = "zone"        ->
            {f \in rest : ~(f[1] = "vault" /\ f[2] = "zoneSecret")}
       [] OTHER                            -> rest

Effect(c, w, s, m) ==
  CASE c[2] = "upsert"     -> Put(s, "vault", "project", c[3], "")
    [] c[2] = "upsertZone" -> Put(s, "vault", "zone", c[3], "")
    [] c[2] = "delete"     -> Delete(s, "project", c[3])
    [] c[2] = "deleteZone" -> Delete(s, "zone", c[3])
    [] c[2] = "secretId"   -> Put(s, "vault", "secretId", "latest", "")
    [] c[2] = "destroy"    -> Drop(s, "vault", c[4], c[3])
    [] c[2] = "createResource" -> Kube!CreateObject(s, c[3], "")
    [] c[2] = "patchResource"  -> Kube!PatchObject(s, c[3], "")
    [] c[2] = "deleteResource" -> Kube!DeleteObject(s, c[3])
    [] OTHER -> s

\* The role must exist to issue credentials; an alias needs its group.
Refused(c, w, s, m) ==
  \/ c[2] \in {"roleId", "secretId"} /\ ~Has(s, "vault", "project", "role")
  \/ c[2] = "upsert" /\ c[3] = "alias" /\ ~Has(s, "vault", "project", "group")
  \/ Kube!ResourceRefused(c, s)

\* deleteResource goes on when it cannot find the resource.
Rescue(c) ==
  Kube!ResourceRescue(c) \cup
    IF c[2] = "findUnwanted"
      THEN Kube!CreateOrPatch("vault", <<c[3][1], "approle">>, c[4]) ELSE {}

OnError(c) == IF Rescue(c) # {} THEN "caught" ELSE "KO"

-----------------------------------------------------------------------------
(* KV secrets of a project, as the other plugins use them                  *)
(* (VaultProjectApi.read, write and destroy).                              *)

Written(s, path) == Has(s, "vault", "secret", path)

Read(s, path) == Detail(s, "vault", "secret", path)

Write(s, path, n) == Put(s, "vault", "secret", path, n)

Destroy(s, path) == Drop(s, "vault", "secret", path)

\* VaultZoneApi.write and destroy.
WriteInZone(s, path) == Put(s, "vault", "zoneSecret", path, "")

DestroyInZone(s, path) == Drop(s, "vault", "zoneSecret", path)

WrittenInZone(s, path) == Has(s, "vault", "zoneSecret", path)

HasZoneEngine(s) == Has(s, "vault", "zone", "kv")

-----------------------------------------------------------------------------

Elements(chain) == {chain[i] : i \in 1..Len(chain)}

Connected(w) ==
  {"approle", "auth"} \cup IF "connection" \in w.opts THEN {"connection"} ELSE {}

Provided(w, s) ==
  /\ Elements(UpsertProjectOrder) \subseteq Names(s, "vault", "project")
  /\ \A e \in WithCrds(w), r \in Connected(w) : Kube!HasResource(s, <<e, r>>)

Synced(w, s) == Provided(w, s)

Gone(w, s) == Names(s, "vault", "project") = {} /\ Secrets(s) = {}

ZoneProvided(s) == Elements(ZoneOrder) \subseteq Names(s, "vault", "zone")

ZoneGone(s) == Names(s, "vault", "zone") = {}
=============================================================================
