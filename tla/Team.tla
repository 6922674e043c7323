-------------------------------- MODULE Team --------------------------------
(***************************************************************************)
(* The team of one project: its owner, its members, the roles they have,   *)
(* and the requests of the API that change them                            *)
(* (apps/server/src/resources/{project-member,project-role}, the owner in  *)
(* project/business.ts), each admitted by authUser (utils/controller.ts)   *)
(* and then a sequence of database accesses separated by awaits.           *)
(*                                                                         *)
(* The hook updateProject ends with, and archived projects, belong to      *)
(* ProjectLifecycle.                                                       *)
(***************************************************************************)
EXTENDS Naturals, FiniteSets

CONSTANTS
  Requests,   \* the requests, each one operation
  Users,      \* the users of the console and of the identity provider
  Bots,       \* those of type bot
  Admins,     \* those with the global administration permission
  Founder,    \* who owns the project at first
  Roles,      \* identifiers of roles (uuids)
  FirstRoles, \* the roles the project has at first
  FirstTeam,  \* FirstTeam[u]: the roles of each member at first
  Asks,       \* the operations considered
  None        \* a key the body of a request leaves out

Perms == {"GUEST", "MANAGE", "MANAGE_MEMBERS", "MANAGE_ROLES"}

-----------------------------------------------------------------------------
(* Operations: the requests' bodies.                                       *)

AddAsk(b, u, email) ==
  [kind |-> "add", by |-> b, user |-> u, email |-> email]

\* grants[u]: the roles the body gives to u, None when it does not name u.
GrantAsk(b, grants) == [kind |-> "grant", by |-> b, grants |-> grants]

RemoveAsk(b, u) == [kind |-> "remove", by |-> b, user |-> u]

CreateAsk(b, i, p) ==
  [kind |-> "create", by |-> b, role |-> i, permissions |-> p]

\* edits[i]: the keys the body has for the role i, None when it has none.
EditAsk(b, edits) == [kind |-> "edit", by |-> b, edits |-> edits]

\* What the entries of a body are about.
Named(entries) == {x \in DOMAIN entries : entries[x] # None}

DropAsk(b, i) == [kind |-> "drop", by |-> b, role |-> i]

UpdateAsk(b, o, e, l) ==
  [kind |-> "update", by |-> b, owner |-> o, everyone |-> e, locked |-> l]

Edit ==
  [position : Nat \cup {None}, permissions : (SUBSET Perms) \cup {None}]

Operation ==
  [kind : {"add"}, by : Users \ Bots, user : Users, email : BOOLEAN] \cup
  [kind : {"grant"}, by : Users \ Bots,
   grants : [Users -> (SUBSET Roles) \cup {None}]] \cup
  [kind : {"remove"}, by : Users \ Bots, user : Users] \cup
  [kind : {"create"}, by : Users \ Bots, role : Roles \ DOMAIN FirstRoles,
   permissions : SUBSET Perms] \cup
  [kind : {"edit"}, by : Users \ Bots,
   edits : [Roles -> Edit \cup {None}]] \cup
  [kind : {"drop"}, by : Users \ Bots, role : Roles] \cup
  [kind : {"update"}, by : Users \ Bots, owner : Users \cup {None},
   everyone : (SUBSET Perms) \cup {None}, locked : BOOLEAN \cup {None}]

ASSUME TeamAssumption ==
  /\ Bots \subseteq Users
  /\ Admins \subseteq Users
  /\ Founder \in Users \ Bots
  /\ DOMAIN FirstRoles \subseteq Roles
  /\ \A i \in DOMAIN FirstRoles :
       FirstRoles[i] \in [position : Nat, permissions : SUBSET Perms]
  /\ IsFiniteSet(DOMAIN FirstRoles)
  /\ \A i, j \in DOMAIN FirstRoles :
       FirstRoles[i].position = FirstRoles[j].position => i = j
  /\ DOMAIN FirstTeam \subseteq Users \ {Founder}
  /\ \A u \in DOMAIN FirstTeam : FirstTeam[u] \in SUBSET DOMAIN FirstRoles
  /\ \A a \in Asks : a \in Operation
  /\ None \notin Users

VARIABLES
  known,                        \* users with a row
  owner, everyone, locked,      \* columns of the project
  members, assigned,            \* rows of ProjectMembers, with their roleIds
  roles, position, permissions, \* rows of ProjectRole
  op,                           \* the operation of each request
  rpc,                          \* where its handler is, or how it ended
  todo,                         \* the rows its loop has still to write
  seen,                         \* what it read
  undisturbed                   \* history variable, see Note

projectVars == <<owner, everyone, locked>>
memberVars == <<members, assigned>>
roleVars == <<roles, position, permissions>>
requestVars == <<op, rpc, todo, seen>>
vars == <<known, projectVars, memberVars, roleVars, requestVars, undisturbed>>

Ended == {"ok", "refused", "threw"}

Place ==
  {"idle", "find", "lookup", "register", "upsert", "patch", "delete",
   "max", "insert", "list", "write", "drop", "attached", "detach",
   "read", "keep", "handover", "row"} \cup Ended

Reading ==
  [owner : Users, members : SUBSET Users, assigned : [Users -> SUBSET Roles],
   top : Nat, position : [Roles -> Nat], permissions : [Roles -> SUBSET Perms]]

TypeOK ==
  /\ known \subseteq Users
  /\ owner \in Users
  /\ everyone \subseteq Perms
  /\ locked \in BOOLEAN
  /\ members \subseteq Users
  /\ assigned \in [Users -> SUBSET Roles]
  /\ roles \subseteq Roles
  /\ position \in [Roles -> Nat]
  /\ permissions \in [Roles -> SUBSET Perms]
  /\ op \in [Requests -> Operation \cup {None}]
  /\ rpc \in [Requests -> Place]
  /\ todo \in [Requests -> SUBSET (Users \cup Roles)]
  /\ seen \in [Requests -> Reading]
  /\ undisturbed \in [Requests -> BOOLEAN]

Init ==
  /\ known = {Founder} \cup Bots \cup DOMAIN FirstTeam \cup Admins
  /\ owner = Founder /\ everyone = {} /\ locked = FALSE
  /\ members = DOMAIN FirstTeam
  /\ assigned = [u \in Users |->
                   IF u \in DOMAIN FirstTeam THEN FirstTeam[u] ELSE {}]
  /\ roles = DOMAIN FirstRoles
  /\ position = [i \in Roles |->
                   IF i \in roles THEN FirstRoles[i].position ELSE 0]
  /\ permissions = [i \in Roles |->
                      IF i \in roles THEN FirstRoles[i].permissions ELSE {}]
  /\ op = [r \in Requests |-> None]
  /\ rpc = [r \in Requests |-> "idle"]
  /\ todo = [r \in Requests |-> {}]
  /\ seen = [r \in Requests |->
               [owner |-> Founder, members |-> {},
                assigned |-> [u \in Users |-> {}], top |-> 0,
                position |-> [i \in Roles |-> 0],
                permissions |-> [i \in Roles |-> {}]]]
  /\ undisturbed = [r \in Requests |-> TRUE]

-----------------------------------------------------------------------------
(* Admission                                                               *)

\* getProjectPermissions; {} stands for undefined.  A role id that no longer
\* resolves gives nothing.
PermissionsOf(u) ==
  IF u = owner THEN {"MANAGE"}
  ELSE IF u \notin members THEN {}
  ELSE {"GUEST"} \cup everyone
         \cup UNION {permissions[i] : i \in assigned[u] \cap roles}

IsAdmin(u) == u \in Admins

Allowed(u, perm) ==
  IsAdmin(u) \/ PermissionsOf(u) \cap {perm, "MANAGE"} # {}

Visible(u) == PermissionsOf(u) # {}

AdmittedMembers(o) ==
  CASE o.kind = "add" ->
         /\ Visible(o.by) \/ IsAdmin(o.by)
         /\ Allowed(o.by, "MANAGE_MEMBERS") /\ ~locked
    [] o.kind = "grant" ->
         Visible(o.by) /\ Allowed(o.by, "MANAGE_MEMBERS") /\ ~locked
    [] o.kind = "remove" ->
         /\ ~locked
         /\ Visible(o.by) \/ IsAdmin(o.by)
         /\ Allowed(o.by, "MANAGE_MEMBERS") \/ o.user = o.by

AdmittedRoles(o) ==
  /\ Visible(o.by) \/ (IsAdmin(o.by) /\ o.kind = "create")
  /\ Allowed(o.by, "MANAGE_ROLES")
  /\ ~locked

\* A locked project is updated only by an administrator who unlocks it.
AdmittedUpdate(o) ==
  /\ Visible(o.by) \/ IsAdmin(o.by)
  /\ locked => IsAdmin(o.by) /\ o.locked = FALSE
  /\ Allowed(o.by, "MANAGE")

\* The router drops the keys the caller has no right to.
FilteredKeys(o) ==
  [o EXCEPT !.locked = IF IsAdmin(o.by) THEN @ ELSE None,
            !.owner = IF IsAdmin(o.by) \/ o.by = owner THEN @ ELSE None]

At(r, l) == rpc[r] = l

Goto(r, l) == rpc' = [rpc EXCEPT ![r] = l]

\* After the last row of its loop a handler ends.
LoopOrEnd(r, l, rest) ==
  /\ todo' = [todo EXCEPT ![r] = rest]
  /\ Goto(r, IF rest = {} THEN "ok" ELSE l)

Admit(r, o, l) ==
  /\ op' = [op EXCEPT ![r] = o]
  /\ Goto(r, l)

\* authUser: the session of the caller gives him a row if he had none, and
\* the project is read with its roles and members.
Receive(r, o) ==
  /\ At(r, "idle")
  /\ o.kind = "create" => \A q \in Requests :
       op[q] # None /\ op[q].kind = "create" => op[q].role # o.role
  /\ known' = known \cup {o.by}
  /\ seen' = [seen EXCEPT ![r].owner = owner]
  /\ \/ /\ o.kind \in {"add", "grant", "remove"}
        /\ Admit(r, o, IF AdmittedMembers(o)
                         THEN CASE o.kind = "add" -> "find"
                                [] o.kind = "remove" -> "delete"
                                [] o.kind = "grant" ->
                                     IF Named(o.grants) = {} THEN "ok"
                                                             ELSE "patch"
                         ELSE "refused")
        /\ todo' = [todo EXCEPT ![r] = IF o.kind = "grant"
                                         THEN Named(o.grants) ELSE {}]
     \/ /\ o.kind \in {"create", "edit", "drop"}
        /\ Admit(r, o, IF AdmittedRoles(o)
                         THEN CASE o.kind = "create" -> "max"
                                [] o.kind = "edit" -> "list"
                                [] OTHER -> "drop"
                         ELSE "refused")
        /\ UNCHANGED todo
     \/ /\ o.kind = "update"
        /\ Admit(r, FilteredKeys(o),
                 IF AdmittedUpdate(o) THEN "read" ELSE "refused")
        /\ UNCHANGED todo
  /\ UNCHANGED <<projectVars, memberVars, roleVars>>

-----------------------------------------------------------------------------
(* Members                                                                 *)

\* addMember: among the users with a row; the owner it refuses is the one
\* authUser read.  An unknown address is looked for by the plugins.
FindUser(r) ==
  /\ At(r, "find")
  /\ LET u == op[r].user IN
       Goto(r, IF u \in known \ Bots
                 THEN IF u = seen[r].owner THEN "refused" ELSE "upsert"
                 ELSE IF op[r].email THEN "lookup" ELSE "refused")
  /\ UNCHANGED <<known, projectVars, memberVars, roleVars, op, todo, seen>>

\* hook.user.retrieveUserByEmail fails, finds nobody, or finds the user; the
\* identity provider does not have the bots of the console.
LookUp(r) ==
  /\ At(r, "lookup")
  /\ \/ Goto(r, "refused")
     \/ op[r].user \notin Bots /\ Goto(r, "register")
  /\ UNCHANGED <<known, projectVars, memberVars, roleVars, op, todo, seen>>

\* logViaSession for the user found.
Register(r) ==
  /\ At(r, "register")
  /\ known' = known \cup {op[r].user}
  /\ Goto(r, "upsert")
  /\ UNCHANGED <<projectVars, memberVars, roleVars, op, todo, seen>>

\* It reads the row, then creates it: a row created in between makes it throw.
RegisterClash(r) ==
  /\ At(r, "register")
  /\ op[r].user \in known
  /\ Goto(r, "threw")
  /\ UNCHANGED <<known, projectVars, memberVars, roleVars, op, todo, seen>>

\* upsertMember: a member already there loses his roles.
UpsertMember(r) ==
  /\ At(r, "upsert")
  /\ members' = members \cup {op[r].user}
  /\ assigned' = [assigned EXCEPT ![op[r].user] = {}]
  /\ Goto(r, "ok")
  /\ UNCHANGED <<known, projectVars, roleVars, op, todo, seen>>

\* patchMembers: one upsert for each entry of the body, whoever it names,
\* member or not; a user without a row makes it throw.
PatchMember(r) ==
  /\ At(r, "patch")
  /\ \E u \in todo[r] :
       IF u \in known
         THEN /\ members' = members \cup {u}
              /\ assigned' = [assigned EXCEPT ![u] = op[r].grants[u]]
              /\ LoopOrEnd(r, "patch", todo[r] \ {u})
         ELSE Goto(r, "threw") /\ UNCHANGED <<memberVars, todo>>
  /\ UNCHANGED <<known, projectVars, roleVars, op, seen>>

\* removeMember; deleting a row that is not there throws.
DeleteMember(r) ==
  /\ At(r, "delete")
  /\ IF op[r].user \in members
       THEN /\ members' = members \ {op[r].user}
            /\ assigned' = [assigned EXCEPT ![op[r].user] = {}]
            /\ Goto(r, "ok")
       ELSE Goto(r, "threw") /\ UNCHANGED memberVars
  /\ UNCHANGED <<known, projectVars, roleVars, op, todo, seen>>

-----------------------------------------------------------------------------
(* Roles                                                                   *)

\* createRole: the position after that of the last role, 0 without roles.
ReadTop(r) ==
  /\ At(r, "max")
  /\ \/ /\ roles = {}
        /\ seen' = [seen EXCEPT ![r].top = 0]
     \/ \E i \in roles :
          /\ \A j \in roles : position[j] <= position[i]
          /\ seen' = [seen EXCEPT ![r].top = position[i] + 1]
  /\ Goto(r, "insert")
  /\ UNCHANGED <<known, projectVars, memberVars, roleVars, op, todo>>

InsertRole(r) ==
  /\ At(r, "insert")
  /\ roles' = roles \cup {op[r].role}
  /\ position' = [position EXCEPT ![op[r].role] = seen[r].top]
  /\ permissions' = [permissions EXCEPT ![op[r].role] = op[r].permissions]
  /\ Goto(r, "ok")
  /\ UNCHANGED <<known, projectVars, memberVars, op, todo, seen>>

Edits(r) == op[r].edits

\* The roles of the project among those the body has.
Concerned(r) == Named(Edits(r)) \cap roles

PositionsGiven(r) ==
  {Edits(r)[i].position : i \in Concerned(r)} \ {None}

BadCoherent(r) ==
  Cardinality(PositionsGiven(r)) \in {0, Cardinality(Concerned(r))}

\* When the body moves roles it gives each role a position of its own.
Coherent(r) ==
  Cardinality(PositionsGiven(r)) \in {0, Cardinality(roles)}

\* patchRoles: the roles are read once.
ListRoles(r) ==
  /\ At(r, "list")
  /\ IF Coherent(r)
       THEN /\ LoopOrEnd(r, "write", Concerned(r))
            /\ seen' = [seen EXCEPT ![r].position = position,
                                    ![r].permissions = permissions]
       ELSE Goto(r, "refused") /\ UNCHANGED <<todo, seen>>
  /\ UNCHANGED <<known, projectVars, memberVars, roleVars, op>>

KeyOr(key, default) == IF key = None THEN default ELSE key

\* Then each of them is written, all its columns, those the body does not
\* have as they were read, in the order of the positions read; a role that
\* was deleted since makes it throw.
WriteRole(r) ==
  /\ At(r, "write")
  /\ \E i \in todo[r] :
       /\ \A j \in todo[r] : seen[r].position[i] <= seen[r].position[j]
       /\ IF i \in roles
            THEN /\ position' = [position EXCEPT ![i] =
                      KeyOr(Edits(r)[i].position, seen[r].position[i])]
                 /\ permissions' = [permissions EXCEPT ![i] =
                      KeyOr(Edits(r)[i].permissions, seen[r].permissions[i])]
                 /\ LoopOrEnd(r, "write", todo[r] \ {i})
            ELSE Goto(r, "threw") /\ UNCHANGED <<position, permissions, todo>>
  /\ UNCHANGED <<known, projectVars, memberVars, roles, op, seen>>

\* deleteRole: first the row of the role.
DropRole(r) ==
  /\ At(r, "drop")
  /\ LET i == op[r].role IN
       IF i \in roles
         THEN /\ roles' = roles \ {i}
              /\ position' = [position EXCEPT ![i] = 0]
              /\ permissions' = [permissions EXCEPT ![i] = {}]
              /\ Goto(r, "attached")
         ELSE Goto(r, "threw") /\ UNCHANGED roleVars
  /\ UNCHANGED <<known, projectVars, memberVars, op, todo, seen>>

\* Then the members that have it.
ReadAttached(r) ==
  /\ At(r, "attached")
  /\ LoopOrEnd(r, "detach", {u \in members : op[r].role \in assigned[u]})
  /\ seen' = [seen EXCEPT ![r].assigned = assigned]
  /\ UNCHANGED <<known, projectVars, memberVars, roleVars, op>>

BadDetachMember(r) ==
  /\ At(r, "detach")
  /\ \E u \in todo[r] :
       IF u \in members
         THEN /\ assigned' = [assigned EXCEPT ![u] =
                                seen[r].assigned[u] \ {op[r].role}]
              /\ LoopOrEnd(r, "detach", {})
         ELSE Goto(r, "threw") /\ UNCHANGED <<assigned, todo>>
  /\ UNCHANGED <<known, projectVars, members, roleVars, op, seen>>

\* Then each of their rows, with the other roles as they were read; a member
\* removed since makes it throw.
DetachMember(r) ==
  /\ At(r, "detach")
  /\ \E u \in todo[r] :
       IF u \in members
         THEN /\ assigned' = [assigned EXCEPT ![u] =
                                seen[r].assigned[u] \ {op[r].role}]
              /\ LoopOrEnd(r, "detach", todo[r] \ {u})
         ELSE Goto(r, "threw") /\ UNCHANGED <<assigned, todo>>
  /\ UNCHANGED <<known, projectVars, members, roleVars, op, seen>>

-----------------------------------------------------------------------------
(* Owner                                                                   *)

HasRow(r) == op[r].everyone # None \/ op[r].locked # None

\* After the owner, the columns the body has.
AfterOwner(r) == IF HasRow(r) THEN "row" ELSE "ok"

BadReadTeam(r) ==
  /\ At(r, "read")
  /\ seen' = [seen EXCEPT ![r].owner = owner, ![r].members = members]
  /\ LET candidate == op[r].owner IN
       Goto(r, IF candidate \in {None, owner}   THEN AfterOwner(r)
               ELSE IF candidate \notin members THEN "refused"
               ELSE IF owner \notin members     THEN "keep"
               ELSE "handover")
  /\ UNCHANGED <<known, projectVars, memberVars, roleVars, op, todo>>

\* updateProject: the project and its members are read; the new owner must
\* be one of them, and a person.
ReadTeam(r) ==
  /\ At(r, "read")
  /\ seen' = [seen EXCEPT ![r].owner = owner, ![r].members = members]
  /\ LET candidate == op[r].owner IN
       Goto(r, IF candidate \in {None, owner}          THEN AfterOwner(r)
               ELSE IF candidate \notin members \ Bots THEN "refused"
               ELSE IF owner \notin members            THEN "keep"
               ELSE "handover")
  /\ UNCHANGED <<known, projectVars, memberVars, roleVars, op, todo>>

BadKeepOwner(r) ==
  /\ At(r, "keep")
  /\ Goto(r, "handover")
  /\ UNCHANGED <<known, projectVars, memberVars, roleVars, op, todo, seen>>

\* The owner it read becomes a member, without roles; the unique constraint
\* makes it throw if he was added since.
KeepOwner(r) ==
  /\ At(r, "keep")
  /\ IF seen[r].owner \in members
       THEN Goto(r, "threw") /\ UNCHANGED memberVars
       ELSE /\ members' = members \cup {seen[r].owner}
            /\ assigned' = [assigned EXCEPT ![seen[r].owner] = {}]
            /\ Goto(r, "handover")
  /\ UNCHANGED <<known, projectVars, roleVars, op, todo, seen>>

BadHandOver(r) ==
  /\ At(r, "handover")
  /\ members' = members \ {op[r].owner}
  /\ assigned' = [assigned EXCEPT ![op[r].owner] = {}]
  /\ owner' = op[r].owner
  /\ Goto(r, AfterOwner(r))
  /\ UNCHANGED <<known, everyone, locked, roleVars, op, todo, seen>>

\* The transaction: the new owner leaves the members, which throws if he is
\* not there any more, and owns the project.
HandOver(r) ==
  /\ At(r, "handover")
  /\ IF op[r].owner \in members
       THEN /\ members' = members \ {op[r].owner}
            /\ assigned' = [assigned EXCEPT ![op[r].owner] = {}]
            /\ owner' = op[r].owner
            /\ Goto(r, AfterOwner(r))
       ELSE Goto(r, "threw") /\ UNCHANGED <<memberVars, owner>>
  /\ UNCHANGED <<known, everyone, locked, roleVars, op, todo, seen>>

\* updateProjectQuery: prisma leaves alone the columns given as undefined.
WriteColumns(r) ==
  /\ At(r, "row")
  /\ everyone' = KeyOr(op[r].everyone, everyone)
  /\ locked' = KeyOr(op[r].locked, locked)
  /\ Goto(r, "ok")
  /\ UNCHANGED <<known, owner, memberVars, roleVars, op, todo, seen>>

-----------------------------------------------------------------------------

HandleMembers(r) ==
  \/ FindUser(r) \/ LookUp(r) \/ Register(r) \/ RegisterClash(r)
  \/ UpsertMember(r) \/ PatchMember(r) \/ DeleteMember(r)

HandleRoles(r) ==
  \/ ReadTop(r) \/ InsertRole(r) \/ ListRoles(r) \/ WriteRole(r)
  \/ DropRole(r) \/ ReadAttached(r) \/ DetachMember(r)

HandleOwner(r) ==
  \/ ReadTeam(r) \/ KeepOwner(r) \/ HandOver(r) \/ WriteColumns(r)

\* What the answer of q depends on stayed as it was.
Spared(q) ==
  IF op[q].kind \in {"create", "edit"} THEN UNCHANGED roleVars
                                       ELSE UNCHANGED <<owner, memberVars>>

\* undisturbed[q]: since q was admitted, and until it ended, no other request
\* changed the rows it is about.
Note(r) ==
  undisturbed' =
    [q \in Requests |->
       IF q = r \/ rpc[q] \in {"idle"} \cup Ended
         THEN undisturbed[q]
         ELSE undisturbed[q] /\ Spared(q)]

Next ==
  \E r \in Requests :
    /\ \/ \E o \in Asks : Receive(r, o)
       \/ HandleMembers(r)
       \/ HandleRoles(r)
       \/ HandleOwner(r)
    /\ Note(r)

Spec == Init /\ [][Next]_vars

-----------------------------------------------------------------------------
(* Properties                                                              *)

\* Whatever requests overlap, the project is owned by a person the database
\* knows, never by a bot (project/business.ts:132, although patchMembers
\* lets a bot in the team).
OwnerIsHuman == owner \in known \ Bots

\* The project is handed over to someone who is a member at that very moment,
\* not only when the request read the team, and who leaves the members in
\* the same step (project/business.ts:128-143).
HandoverToMember ==
  [][owner' # owner =>
       owner' \in members /\ owner' \notin members']_vars

\* A handover that no other request disturbed keeps the former owner in the
\* team (project/business.ts:133-137), and was asked by an administrator or
\* by the owner himself (project/router.ts:110-115).
OrderlyHandover ==
  [][\A r \in Requests :
       (owner' # owner /\ At(r, "handover") /\ ~At(r, "handover")'
                       /\ undisturbed[r])
         => /\ owner \in members'
            /\ op[r].by \in Admins \cup {owner}]_vars

\* The roles of the project have distinct positions, if no request about them
\* was disturbed by another one (project-role/business.ts:25-38, 44-54).
DistinctPositions ==
  (\A r \in Requests : undisturbed[r] /\ ~At(r, "write"))
    => \A i, j \in roles : position[i] = position[j] => i = j

\* Deleting a role takes this role and no other from the members, and when
\* it is done no member refers to it, unless somebody changed the members
\* meanwhile (project-role/queries.ts:30-54).
DeletionIsExact ==
  [][\A r \in Requests :
       (/\ rpc[r] \in {"drop", "attached", "detach"}
        /\ <<rpc[r], todo[r]>>' # <<rpc[r], todo[r]>>
        /\ undisturbed[r])
         => /\ \A u \in members : /\ assigned'[u] \subseteq assigned[u]
                                  /\ assigned[u] \ assigned'[u] \subseteq {op[r].role}
            /\ At(r, "ok")' => \A u \in members' : op[r].role \notin assigned'[u]
    ]_vars
=============================================================================
