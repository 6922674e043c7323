------------------------------- MODULE Access -------------------------------
(***************************************************************************)
(* Who may administer the console: administration roles, the users that    *)
(* hold them, and the tokens that stand for a user (resources/admin-role,  *)
(* user, admin-token and authUser of utils/controller.ts).                 *)
(*                                                                         *)
(* Every request first authenticates, by a session or by a token, and a    *)
(* session rewrites the roles of its user from what it has just read: two  *)
(* requests of one user, or a session and an administrator who changes the *)
(* roles of its user, interleave at each await.  What a request creates is *)
(* named after the request.  The only permission tested is MANAGE.         *)
(***************************************************************************)
EXTENDS Integers, FiniteSets

CONSTANTS
  Requests,     \* identities of the requests, and of what they create
  Asks,         \* what a request may ask for, and on whose behalf
  FirstRoles, FirstUsers, FirstTokens,   \* the database at the beginning
  Absent        \* a field the body does not have, a row that is not found

VARIABLES
  roles,     \* AdminRole: position, manage, group (its oidcGroup, or "")
  users,     \* User: the roles stored, and whether it is human
  tokens,    \* AdminToken and PersonalAccessToken, told apart by personal
  requests   \* the requests in progress and ended

vars == <<roles, users, tokens, requests>>

db == <<roles, users, tokens>>

-----------------------------------------------------------------------------
(* Requests                                                                *)

Unborn == [ask |-> Absent, at |-> "unborn", read |-> Absent, user |-> Absent,
           met |-> {}, answer |-> "none"]

Ask(r) == requests[r].ask

Kind(r) == Ask(r).kind

Who(r) == Ask(r).who

Read(r) == requests[r].read

At(r, step) == requests[r].at = step

Busy == {r \in Requests : requests[r].at \notin {"unborn", "ended"}}

\* A request comes; met is who has been in progress at the same time.
Receive(r) ==
  /\ requests[r] = Unborn
  /\ \E a \in Asks :
       requests' = [q \in Requests |->
         IF q = r THEN [Unborn EXCEPT
                          !.ask = a, !.met = Busy,
                          !.at = IF a.who.session THEN "findUser" ELSE "findToken"]
         ELSE IF q \in Busy THEN [requests[q] EXCEPT !.met = @ \cup {r}]
         ELSE requests[q]]
  /\ UNCHANGED db

To(r, step, read) ==
  requests' = [requests EXCEPT ![r].at = step, ![r].read = read]

End(r, answer) ==
  requests' = [requests EXCEPT ![r].at = "ended", ![r].read = Absent,
                               ![r].answer = answer]

-----------------------------------------------------------------------------
(* Authentication                                                          *)

AdminKinds == {"patchUsers", "patchRoles", "createRole", "deleteRole",
               "createAdminToken", "deleteAdminToken"}

FirstStep ==
  [patchUsers |-> "writeGrants", patchRoles |-> "readRoles",
   createRole |-> "findLast", deleteRole |-> "findHolders",
   createAdminToken |-> "insertBot", deleteAdminToken |-> "revoke",
   createPersonalToken |-> "insertToken", deletePersonalToken |-> "findOwn"]

Tomorrow(a) == a.kind \in {"createAdminToken", "createPersonalToken"} => ~a.short

\* The router's tests, and those a handler makes before its first await.
Authenticated(r, u, human, manage) ==
  CASE Kind(r) = "auth" -> End(r, "ok")
    [] Kind(r) \in AdminKinds /\ ~manage -> End(r, "refused")
    [] Kind(r) \notin AdminKinds /\ Kind(r) # "auth" /\ ~human -> End(r, "refused")
    [] OTHER ->
         IF Tomorrow(Ask(r))
           THEN requests' = [requests EXCEPT
                  ![r].at = FirstStep[Kind(r)], ![r].user = u,
                  ![r].read = IF Kind(r) = "patchUsers" THEN DOMAIN Ask(r).grants
                                                        ELSE Absent]
           ELSE End(r, "refused")

Manage(rs) == \E x \in rs \cap DOMAIN roles : roles[x].manage

FindUser(r) ==
  /\ At(r, "findUser")
  /\ To(r, "findRoles",
        IF Who(r).id \in DOMAIN users THEN users[Who(r).id].roles ELSE Absent)
  /\ UNCHANGED db

FromGroups(gs) == {x \in DOMAIN roles : roles[x].group \in gs}

\* matchingAdminRoles.  The list of a user not stored yet is undefined: whether
\* the filter then selects no role or every role is left to the library.
FindRoles(r) ==
  /\ At(r, "findRoles")
  /\ \E matching \in
       IF Read(r) = Absent THEN {FromGroups(Who(r).groups), DOMAIN roles}
       ELSE {FromGroups(Who(r).groups) \cup (Read(r) \cap DOMAIN roles)} :
       To(r, "writeUser",
          [stored |-> Read(r), manage |-> Manage(matching),
           kept |-> IF Read(r) = Absent THEN {}
                    ELSE {x \in matching \cap Read(r) : roles[x].group = ""}])
  /\ UNCHANGED db

\* The first request of a user creates the user; the others store again the
\* roles that do not come from Keycloak.
WriteUser(r) ==
  LET u == Who(r).id IN
  /\ At(r, "writeUser")
  /\ IF Read(r).stored = Absent /\ u \in DOMAIN users
       THEN users' = users /\ End(r, "threw")
       ELSE /\ users' = [v \in DOMAIN users \cup {u} |->
                           IF v = u THEN [roles |-> Read(r).kept, human |-> TRUE]
                                    ELSE users[v]]
            /\ Authenticated(r, u, TRUE, Read(r).manage)
  /\ UNCHANGED <<roles, tokens>>

\* The status is not tested.
BadFindToken(r) ==
  LET t == Who(r).id IN
  /\ At(r, "findToken")
  /\ IF t \in DOMAIN tokens
       THEN To(r, "useToken", [owner |-> tokens[t].owner, manage |-> tokens[t].manage,
                               roles |-> users[tokens[t].owner].roles])
       ELSE End(r, "refused")
  /\ UNCHANGED db

\* findPersonalAccessToken, then findAdminToken, and isTokenInvalid.
FindToken(r) ==
  LET t == Who(r).id IN
  /\ At(r, "findToken")
  /\ IF t \in DOMAIN tokens /\ tokens[t].usable
       THEN To(r, "useToken", [owner |-> tokens[t].owner, manage |-> tokens[t].manage,
                               roles |-> users[tokens[t].owner].roles])
       ELSE End(r, "refused")
  /\ UNCHANGED db

\* lastUse and lastLogin: the row of the token must still be there.
UseToken(r) ==
  LET t == Who(r).id IN
  /\ At(r, "useToken")
  /\ IF t \notin DOMAIN tokens THEN End(r, "threw")
     ELSE IF tokens[t].personal THEN To(r, "sumRoles", Read(r))
     ELSE Authenticated(r, Read(r).owner, FALSE, Read(r).manage)
  /\ UNCHANGED db

SumRoles(r) ==
  /\ At(r, "sumRoles")
  /\ Authenticated(r, Read(r).owner, TRUE, Manage(Read(r).roles))
  /\ UNCHANGED db

-----------------------------------------------------------------------------
(* Users and roles                                                         *)

\* One element of a list after the other, the request ending after the last.
Each(r, xs, x, then) ==
  IF xs = {x} THEN then ELSE To(r, requests[r].at, xs \ {x})

PatchUsers(r) ==
  /\ At(r, "writeGrants")
  /\ \E u \in Read(r) :
       IF u \in DOMAIN users
         THEN users' = [users EXCEPT ![u].roles = Ask(r).grants[u]]
              /\ Each(r, Read(r), u, End(r, "ok"))
         ELSE users' = users /\ End(r, "threw")
  /\ UNCHANGED <<roles, tokens>>

\* The fields the body gives, over those of the row read.
Patched(row, patch) ==
  [f \in DOMAIN row |-> IF patch[f] = Absent THEN row[f] ELSE patch[f]]

Coherent(positions) ==
  positions # {} => Cardinality(positions) = Cardinality(DOMAIN roles)

ReadRoles(r) ==
  LET patches == Ask(r).patches
      concerned == DOMAIN roles \cap DOMAIN patches
      positions == {patches[x].position : x \in concerned} \ {Absent}
  IN /\ At(r, "readRoles")
     /\ IF ~Coherent(positions) THEN End(r, "refused")
        ELSE IF concerned = {} THEN End(r, "ok")
        ELSE To(r, "writeRoles", [x \in concerned |-> Patched(roles[x], patches[x])])
     /\ UNCHANGED db

Without(f, x) == [y \in DOMAIN f \ {x} |-> f[y]]

WriteRoles(r) ==
  /\ At(r, "writeRoles")
  /\ \E x \in DOMAIN Read(r) :
       IF x \in DOMAIN roles
         THEN /\ roles' = [roles EXCEPT ![x] = Read(r)[x]]
              /\ IF DOMAIN Read(r) = {x} THEN End(r, "ok")
                                         ELSE To(r, "writeRoles", Without(Read(r), x))
         ELSE roles' = roles /\ End(r, "threw")
  /\ UNCHANGED <<users, tokens>>

CreateRole(r) ==
  \/ /\ At(r, "findLast")
     /\ IF DOMAIN roles = {}
          THEN To(r, "insertRole", 0)
          ELSE \E x \in DOMAIN roles :
                 /\ \A y \in DOMAIN roles : roles[y].position <= roles[x].position
                 /\ To(r, "insertRole", roles[x].position + 1)
     /\ UNCHANGED db
  \/ /\ At(r, "insertRole")
     /\ roles' = [x \in DOMAIN roles \cup {r} |->
                    IF x = r THEN [position |-> Read(r), manage |-> FALSE, group |-> ""]
                             ELSE roles[x]]
     /\ End(r, "ok")
     /\ UNCHANGED <<users, tokens>>

\* The row goes and its holders keep the identifier.
BadFindHolders(r) ==
  /\ At(r, "findHolders")
  /\ To(r, "deleteRole", Absent)
  /\ UNCHANGED db

FindHolders(r) ==
  LET x == Ask(r).role
      holders == {u \in DOMAIN users : x \in users[u].roles}
  IN /\ At(r, "findHolders")
     /\ IF holders = {} THEN To(r, "deleteRole", Absent)
        ELSE To(r, "writeHolders", [u \in holders |-> users[u].roles \ {x}])
     /\ UNCHANGED db

\* Each holder is written with the roles read before the loop.
WriteHolders(r) ==
  /\ At(r, "writeHolders")
  /\ \E u \in DOMAIN Read(r) :
       /\ users' = [users EXCEPT ![u].roles = Read(r)[u]]
       /\ IF DOMAIN Read(r) = {u} THEN To(r, "deleteRole", Absent)
                                  ELSE To(r, "writeHolders", Without(Read(r), u))
  /\ UNCHANGED <<roles, tokens>>

DeleteRole(r) ==
  /\ At(r, "deleteRole")
  /\ IF Ask(r).role \in DOMAIN roles
       THEN roles' = Without(roles, Ask(r).role) /\ End(r, "ok")
       ELSE roles' = roles /\ End(r, "threw")
  /\ UNCHANGED <<users, tokens>>

-----------------------------------------------------------------------------
(* Tokens                                                                  *)

\* The token of an administrator belongs to a user made for it.
InsertBot(r) ==
  /\ At(r, "insertBot")
  /\ users' = [u \in DOMAIN users \cup {r} |->
                 IF u = r THEN [roles |-> {}, human |-> FALSE] ELSE users[u]]
  /\ To(r, "insertToken", Absent)
  /\ UNCHANGED <<roles, tokens>>

\* A personal token belongs to who asks for it.
InsertToken(r) ==
  LET personal == Kind(r) = "createPersonalToken"
      token == [owner |-> IF personal THEN requests[r].user ELSE r,
                personal |-> personal, usable |-> TRUE,
                manage |-> ~personal /\ Ask(r).manage]
  IN /\ At(r, "insertToken")
     /\ tokens' = [t \in DOMAIN tokens \cup {r} |-> IF t = r THEN token ELSE tokens[t]]
     /\ End(r, "ok")
     /\ UNCHANGED <<roles, users>>

\* updateMany: a token that is not there is no error.
Revoke(r) ==
  /\ At(r, "revoke")
  /\ tokens' = [t \in DOMAIN tokens |->
                  IF t = Ask(r).token /\ ~tokens[t].personal
                    THEN [tokens[t] EXCEPT !.usable = FALSE] ELSE tokens[t]]
  /\ End(r, "ok")
  /\ UNCHANGED <<roles, users>>

DeleteOwn(r) ==
  LET t == Ask(r).token IN
  /\ \/ /\ At(r, "findOwn")
        /\ IF t \in DOMAIN tokens /\ tokens[t].personal /\ tokens[t].owner = requests[r].user
             THEN To(r, "deleteOwn", Absent) ELSE End(r, "ok")
        /\ tokens' = tokens
     \/ /\ At(r, "deleteOwn")
        /\ tokens' = Without(tokens, t)
        /\ End(r, IF t \in DOMAIN tokens THEN "ok" ELSE "threw")
  /\ UNCHANGED <<roles, users>>

-----------------------------------------------------------------------------

\* Every token has an owner, and one of its kind: a bot of its own for the
\* token of an administrator, a human for a personal one.
Sound(rs, us, ts) ==
  /\ \A x \in DOMAIN rs : /\ DOMAIN rs[x] = {"position", "manage", "group"}
                         /\ rs[x].position \in Int /\ rs[x].manage \in BOOLEAN
  /\ \A u \in DOMAIN us : DOMAIN us[u] = {"roles", "human"} /\ us[u].human \in BOOLEAN
  /\ \A t \in DOMAIN ts :
       /\ DOMAIN ts[t] = {"owner", "personal", "usable", "manage"}
       /\ ts[t].personal \in BOOLEAN /\ ts[t].owner \in DOMAIN us
       /\ us[ts[t].owner].human <=> ts[t].personal
       /\ \A s \in DOMAIN ts : s # t /\ ~ts[s].personal => ts[s].owner # ts[t].owner

\* Only humans have a session: Keycloak does not know the bots.
Accepted(a) ==
  /\ a.kind \in AdminKinds \cup {"auth", "createPersonalToken", "deletePersonalToken"}
  /\ a.who.session \in BOOLEAN
  /\ a.who.session =>
       /\ a.who.id \notin Requests
       /\ a.who.id \in DOMAIN FirstUsers => FirstUsers[a.who.id].human
  /\ a.kind = "patchRoles" =>
       \A x \in DOMAIN a.patches : /\ a.patches[x].position \in Int \cup {Absent}
                                  /\ a.patches[x].manage \in BOOLEAN \cup {Absent}

\* The identifiers made for what a request creates are new.
ASSUME AccessAssumption ==
  /\ Sound(FirstRoles, FirstUsers, FirstTokens)
  /\ \A a \in Asks : Accepted(a)
  /\ Requests \cap (DOMAIN FirstRoles \cup DOMAIN FirstUsers \cup DOMAIN FirstTokens) = {}

Init ==
  /\ roles = FirstRoles
  /\ users = FirstUsers
  /\ tokens = FirstTokens
  /\ requests = [r \in Requests |-> Unborn]

Next ==
  \E r \in Requests :
    \/ Receive(r)
    \/ FindUser(r) \/ FindRoles(r) \/ WriteUser(r)
    \/ FindToken(r) \/ UseToken(r) \/ SumRoles(r)
    \/ PatchUsers(r) \/ ReadRoles(r) \/ WriteRoles(r)
    \/ CreateRole(r) \/ FindHolders(r) \/ WriteHolders(r) \/ DeleteRole(r)
    \/ InsertBot(r) \/ InsertToken(r) \/ Revoke(r) \/ DeleteOwn(r)

Spec == Init /\ [][Next]_vars

-----------------------------------------------------------------------------
(* Properties                                                              *)

\* The rows are sound, whatever requests overlap.
TypeOK ==
  /\ Sound(roles, users, tokens)
  /\ \A r \in Requests : requests[r].answer \in {"none", "ok", "refused", "threw"}

Met(r) == {Ask(q) : q \in requests[r].met}

Succeeds(r, kind) ==
  /\ requests[r].at # "ended" /\ requests'[r].at = "ended"
  /\ requests'[r].answer = "ok" /\ Kind(r) = kind

SessionOf(a, u) == a.who.session /\ a.who.id = u

\* When an administrator is answered that roles were given, or that a role is
\* gone, the users have these roles, and none has the one deleted.  The only
\* excuse is a request met that writes the roles of that user: the session of
\* the user itself, which stores again what it read, or another administrator.
RolesAsGranted ==
  [][\A r \in Requests :
       /\ Succeeds(r, "patchUsers") =>
            \A u \in DOMAIN Ask(r).grants :
              \/ users'[u].roles = Ask(r).grants[u]
              \/ \E b \in Met(r) : \/ SessionOf(b, u)
                                   \/ b.kind = "patchUsers" /\ u \in DOMAIN b.grants
                                   \/ b.kind = "deleteRole"
       /\ Succeeds(r, "deleteRole") =>
            \A u \in DOMAIN users' :
              \/ Ask(r).role \notin users'[u].roles
              \/ \E b \in Met(r) : \/ SessionOf(b, u)
                                   \/ /\ b.kind = "patchUsers" /\ u \in DOMAIN b.grants
                                      /\ Ask(r).role \in b.grants[u]
                                   \/ b.kind = "deleteRole"]_vars

\* What the database lets someone do now.
Holds(who) ==
  IF who.session
    THEN Manage(FromGroups(who.groups)) \/ Manage(users[who.id].roles)
    ELSE /\ who.id \in DOMAIN tokens /\ tokens[who.id].usable
         /\ \/ tokens[who.id].manage
            \/ tokens[who.id].personal /\ Manage(users[tokens[who.id].owner].roles)

\* The request may change the rights of who while he authenticates: it says
\* so, or it is of the same user, whose roles its session stores again.
Takes(a, who) ==
  \/ a.kind \in {"patchUsers", "patchRoles", "deleteRole", "deleteAdminToken",
                 "deletePersonalToken"}
  \/ a.who.session /\ IF who.session THEN a.who.id = who.id
                      ELSE who.id \in DOMAIN tokens /\ a.who.id = tokens[who.id].owner

\* A handler of an administrator begins only for who is one at that moment,
\* or was when the request came and has met a request that changes it: what was
\* revoked before the request came no longer counts, by a session or a token.
\* The first request of a user not stored yet is set apart (see FindRoles).
RightsAreHeld ==
  [][\A r \in Requests :
       (/\ requests[r].at \in {"writeUser", "useToken", "sumRoles"}
        /\ Kind(r) \in AdminKinds /\ requests'[r].at = FirstStep[Kind(r)]
        /\ Who(r).session => Who(r).id \in DOMAIN users) =>
         Holds(Who(r)) \/ \E b \in Met(r) : Takes(b, Who(r))]_vars
=============================================================================
