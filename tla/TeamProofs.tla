----------------------------- MODULE TeamProofs -----------------------------
(***************************************************************************)
(* Proofs about the team of a project (Team), for any number of requests,  *)
(* users and roles: its type, and what handing over the project keeps true *)
(* however the requests overlap.                                           *)
(***************************************************************************)
EXTENDS Team, FiniteSetTheorems, TLAPS

\* The handler a request is in is that of the operation it asked for.
InItsHandler ==
  \A r \in Requests :
    /\ rpc[r] # "idle" => op[r] \in Operation
    /\ rpc[r] \in {"find", "lookup", "register", "upsert"} => op[r].kind = "add"
    /\ rpc[r] = "patch" => op[r].kind = "grant"
    /\ rpc[r] = "delete" => op[r].kind = "remove"
    /\ rpc[r] \in {"max", "insert"} => op[r].kind = "create"
    /\ rpc[r] \in {"list", "write"} => op[r].kind = "edit"
    /\ rpc[r] \in {"drop", "attached", "detach"} => op[r].kind = "drop"
    /\ rpc[r] \in {"read", "keep", "handover", "row"} => op[r].kind = "update"

\* The loops go over entries of the body, or over members.
LoopsOverEntries ==
  \A r \in Requests :
    /\ rpc[r] = "patch" => todo[r] \subseteq Named(op[r].grants)
    /\ rpc[r] = "write" => todo[r] \subseteq Named(op[r].edits)
    /\ rpc[r] = "detach" => todo[r] \subseteq Users

TInv == TypeOK /\ InItsHandler /\ LoopsOverEntries

\* The team is made of users with a row, and so is whoever is about to join
\* it.
TeamIsKnown ==
  /\ members \subseteq known
  /\ \A r \in Requests :
       /\ rpc[r] = "upsert" => op[r].user \in known
       /\ rpc[r] = "keep" => seen[r].owner \in known

\* A request that got past the checks of updateProject gives the project to
\* a person.
CandidateIsHuman ==
  \A r \in Requests :
    rpc[r] \in {"keep", "handover"} => op[r].owner \in Users \ Bots

OInv == TeamIsKnown /\ CandidateIsHuman /\ OwnerIsHuman

-----------------------------------------------------------------------------
(* What the body of a request holds, by kind.                              *)

LEMMA BodyFields ==
  ASSUME NEW o \in Operation
  PROVE  /\ o.by \in Users \ Bots
         /\ o.kind \in {"add", "remove"} => o.user \in Users
         /\ o.kind = "grant" => o.grants \in [Users -> (SUBSET Roles) \cup {None}]
         /\ o.kind = "create" => /\ o.role \in Roles
                                 /\ o.permissions \subseteq Perms
         /\ o.kind = "edit" => o.edits \in [Roles -> Edit \cup {None}]
         /\ o.kind = "drop" => o.role \in Roles
         /\ o.kind = "update" => /\ o.owner \in Users \cup {None}
                                 /\ o.everyone \in (SUBSET Perms) \cup {None}
                                 /\ o.locked \in BOOLEAN \cup {None}
         /\ o.kind \in {"add", "grant", "remove", "create", "edit", "drop",
                        "update"}
BY DEF Operation

\* Filtering keys leaves the body of an update.
LEMMA FilteredBody ==
  ASSUME NEW o \in Operation, o.kind = "update"
  PROVE  /\ FilteredKeys(o) \in Operation
         /\ FilteredKeys(o).kind = "update"
<1> DEFINE Updates ==
      [kind : {"update"}, by : Users \ Bots, owner : Users \cup {None},
       everyone : (SUBSET Perms) \cup {None}, locked : BOOLEAN \cup {None}]
<1>1. o \in Updates
  BY DEF Operation
<1>2. FilteredKeys(o) \in Updates
  BY <1>1 DEF FilteredKeys
<1>3. QED BY <1>2 DEF Operation

LEMMA NoteType ==
  ASSUME TypeOK, NEW r \in Requests, Note(r)
  PROVE  undisturbed' \in [Requests -> BOOLEAN]
BY DEF TypeOK, Note

\* What a handler reads has the type of the rows.
LEMMA ReadingType ==
  ASSUME TypeOK, NEW r \in Requests
  PROVE  /\ [seen EXCEPT ![r].owner = owner] \in [Requests -> Reading]
         /\ [seen EXCEPT ![r].owner = owner, ![r].members = members]
              \in [Requests -> Reading]
         /\ \A n \in Nat : [seen EXCEPT ![r].top = n] \in [Requests -> Reading]
         /\ [seen EXCEPT ![r].position = position,
                         ![r].permissions = permissions]
              \in [Requests -> Reading]
         /\ [seen EXCEPT ![r].assigned = assigned] \in [Requests -> Reading]
<1>1. seen \in [Requests -> Reading] /\ seen[r] \in Reading
  BY DEF TypeOK
<1> USE <1>1
<1>2. [seen[r] EXCEPT !.owner = owner] \in Reading
  BY DEF TypeOK, Reading
<1>3. [seen[r] EXCEPT !.owner = owner, !.members = members] \in Reading
  BY DEF TypeOK, Reading
<1>4. \A n \in Nat : [seen[r] EXCEPT !.top = n] \in Reading
  BY DEF TypeOK, Reading
<1>5. [seen[r] EXCEPT !.position = position, !.permissions = permissions]
        \in Reading
  BY DEF TypeOK, Reading
<1>6. [seen[r] EXCEPT !.assigned = assigned] \in Reading
  BY DEF TypeOK, Reading
<1>7. QED BY <1>2, <1>3, <1>4, <1>5, <1>6

LEMMA InitT == Init => TInv
<1> SUFFICES ASSUME Init PROVE TInv
  OBVIOUS
<1>1. TypeOK
  BY TeamAssumption DEF Init, TypeOK, Place, Reading
<1>2. InItsHandler /\ LoopsOverEntries
  BY DEF Init, InItsHandler, LoopsOverEntries
<1>3. QED BY <1>1, <1>2 DEF TInv

LEMMA ReceiveT ==
  ASSUME TInv, NEW r \in Requests, NEW o \in Operation, Receive(r, o),
         undisturbed' \in [Requests -> BOOLEAN]
  PROVE  TInv'
<1> USE BodyFields, FilteredBody DEF TInv, Receive, Admit, Goto, At
<1>1. PICK p \in Operation :
        /\ op' = [op EXCEPT ![r] = p]
        /\ p.kind = o.kind
        /\ o.kind # "update" => p = o
  OBVIOUS
<1>2. TypeOK'
  <2> USE DEF TypeOK
  <2>1. known' \subseteq Users /\ op' \in [Requests -> Operation \cup {None}]
    BY <1>1
  <2>2. UNCHANGED <<owner, everyone, locked, members, assigned, roles, position,
                    permissions>>
    BY DEF projectVars, memberVars, roleVars
  <2>3. todo' \in [Requests -> SUBSET (Users \cup Roles)]
    BY DEF Named
  <2>4. seen' \in [Requests -> Reading]
    BY ReadingType
  <2>5. rpc' \in [Requests -> Place]
    BY DEF Place, Ended
  <2>6. QED BY <2>1, <2>2, <2>3, <2>4, <2>5
<1>3. InItsHandler'
  BY <1>1 DEF TypeOK, InItsHandler
<1>4. LoopsOverEntries'
  BY <1>1 DEF TypeOK, LoopsOverEntries
<1>5. QED BY <1>2, <1>3, <1>4

-----------------------------------------------------------------------------
(* The handlers keep the type.                                             *)

\* The part that concerns the requests: they end up somewhere, in the handler
\* of their operation.
LEMMA RequestT ==
  ASSUME TInv, NEW r \in Requests, NEW l \in Place, Goto(r, l),
         op' = op, rpc[r] # "idle",
         l \in Ended \/ <<rpc[r], l>> \in
           {<<"find", "lookup">>, <<"find", "upsert">>, <<"lookup", "register">>,
            <<"register", "upsert">>, <<"patch", "patch">>, <<"max", "insert">>,
            <<"list", "write">>, <<"write", "write">>, <<"drop", "attached">>,
            <<"attached", "detach">>, <<"detach", "detach">>, <<"read", "row">>,
            <<"read", "keep">>, <<"read", "handover">>, <<"keep", "handover">>,
            <<"handover", "row">>},
         \A q \in Requests \ {r} : todo'[q] = todo[q],
         l \in {"patch", "write"} =>
           todo'[r] \subseteq
             Named(IF l = "patch" THEN op[r].grants ELSE op[r].edits),
         l = "detach" => todo'[r] \subseteq Users
  PROVE  rpc' \in [Requests -> Place] /\ InItsHandler' /\ LoopsOverEntries'
<1> USE DEF TInv, TypeOK, Goto
<1>1. rpc' \in [Requests -> Place]
  OBVIOUS
<1>2. InItsHandler'
  BY DEF InItsHandler, Ended
<1>3. LoopsOverEntries'
  BY DEF LoopsOverEntries, Ended
<1>4. QED BY <1>1, <1>2, <1>3

LEMMA MembersT ==
  ASSUME TInv, NEW r \in Requests, HandleMembers(r),
         undisturbed' \in [Requests -> BOOLEAN]
  PROVE  TInv'
<1> USE RequestT, BodyFields
    DEF TInv, At, Place, Ended, projectVars, memberVars, roleVars
<1>0. /\ op[r] \in Operation
      /\ rpc[r] # "idle"
      /\ rpc[r] \in {"find", "lookup", "register", "upsert"} => op[r].kind = "add"
      /\ rpc[r] = "patch" => op[r].kind = "grant"
      /\ rpc[r] = "delete" => op[r].kind = "remove"
  BY DEF InItsHandler, HandleMembers, FindUser, LookUp, Register, RegisterClash,
         UpsertMember, PatchMember, DeleteMember
<1> USE <1>0
<1>1. CASE FindUser(r)
  BY <1>1 DEF FindUser, TypeOK
<1>2. CASE LookUp(r)
  BY <1>2 DEF LookUp, TypeOK
<1>3. CASE Register(r)
  BY <1>3 DEF Register, TypeOK
<1>4. CASE RegisterClash(r)
  BY <1>4 DEF RegisterClash, TypeOK
<1>5. CASE UpsertMember(r)
  BY <1>5 DEF UpsertMember, TypeOK
<1>6. CASE PatchMember(r)
  <2>1. todo[r] \subseteq Named(op[r].grants)
    BY <1>6 DEF PatchMember, LoopsOverEntries
  <2>2. \A u \in todo[r] : u \in Users /\ op[r].grants[u] \in SUBSET Roles
    <3>1. op[r].grants \in [Users -> (SUBSET Roles) \cup {None}]
      BY <1>6 DEF PatchMember
    <3> DEFINE grants == op[r].grants
    <3>2. \A u \in todo[r] : u \in DOMAIN grants /\ grants[u] # None
      BY <2>1 DEF Named
    <3> HIDE DEF grants
    <3>3. grants \in [Users -> (SUBSET Roles) \cup {None}]
      BY <3>1 DEF grants
    <3>4. \A u \in todo[r] : u \in Users /\ grants[u] \in SUBSET Roles
      BY ONLY <3>2, <3>3
    <3>5. QED BY <3>4 DEF grants
  <2>3. todo' \in [Requests -> SUBSET (Users \cup Roles)]
    BY <1>6 DEF PatchMember, LoopOrEnd, TypeOK
  <2>4. PICK u \in todo[r] :
          \/ /\ u \in known
             /\ members' = members \cup {u}
             /\ assigned' = [assigned EXCEPT ![u] = op[r].grants[u]]
             /\ LoopOrEnd(r, "patch", todo[r] \ {u})
          \/ Goto(r, "threw") /\ UNCHANGED <<members, assigned, todo>>
    BY <1>6 DEF PatchMember
  <2>5. members' \subseteq Users /\ assigned' \in [Users -> SUBSET Roles]
    BY <2>2, <2>4 DEF TypeOK
  <2>6. rpc' \in [Requests -> Place] /\ InItsHandler' /\ LoopsOverEntries'
    <3>1. CASE Goto(r, "threw") /\ UNCHANGED todo
      BY <1>6, <3>1 DEF PatchMember
    <3>2. CASE LoopOrEnd(r, "patch", todo[r] \ {u})
      BY <1>6, <2>1, <3>2 DEF PatchMember, LoopOrEnd, TypeOK
    <3>3. QED BY <2>4, <3>1, <3>2
  <2>7. QED BY <1>6, <2>3, <2>5, <2>6 DEF PatchMember, TypeOK
<1>7. CASE DeleteMember(r)
  BY <1>7 DEF DeleteMember, TypeOK
<1>8. QED
  BY <1>1, <1>2, <1>3, <1>4, <1>5, <1>6, <1>7 DEF HandleMembers

LEMMA RolesT ==
  ASSUME TInv, NEW r \in Requests, HandleRoles(r),
         undisturbed' \in [Requests -> BOOLEAN]
  PROVE  TInv'
<1> USE RequestT, BodyFields
    DEF TInv, At, Place, Ended, projectVars, memberVars, roleVars
<1>0. /\ op[r] \in Operation
      /\ rpc[r] # "idle"
      /\ rpc[r] \in {"max", "insert"} => op[r].kind = "create"
      /\ rpc[r] \in {"list", "write"} => op[r].kind = "edit"
      /\ rpc[r] \in {"drop", "attached", "detach"} => op[r].kind = "drop"
  BY DEF InItsHandler, HandleRoles, ReadTop, InsertRole, ListRoles, WriteRole,
         DropRole, ReadAttached, DetachMember
<1> USE <1>0
<1>1. CASE ReadTop(r)
  <2>1. \A i \in roles : position[i] + 1 \in Nat
    BY DEF TypeOK
  <2>2. seen' \in [Requests -> Reading]
    <3>1. \A n \in Nat : [seen EXCEPT ![r].top = n] \in [Requests -> Reading]
      BY ReadingType
    <3>2. PICK n \in Nat : seen' = [seen EXCEPT ![r].top = n]
      BY <1>1, <2>1 DEF ReadTop
    <3>3. QED BY <3>1, <3>2
  <2>3. rpc' \in [Requests -> Place] /\ InItsHandler' /\ LoopsOverEntries'
    BY <1>1 DEF ReadTop
  <2>4. QED BY <1>1, <2>2, <2>3 DEF ReadTop, TypeOK
<1>2. CASE InsertRole(r)
  <2>1. seen[r].top \in Nat
    BY DEF TypeOK, Reading
  <2>2. rpc' \in [Requests -> Place] /\ InItsHandler' /\ LoopsOverEntries'
    BY <1>2 DEF InsertRole
  <2>3. QED BY <1>2, <2>1, <2>2 DEF InsertRole, TypeOK
<1>3. CASE ListRoles(r)
  <2>1. CASE Coherent(r)
    <3>1. seen' \in [Requests -> Reading]
      <4>1. seen' = [seen EXCEPT ![r].position = position,
                                 ![r].permissions = permissions]
        BY <1>3, <2>1 DEF ListRoles
      <4>2. QED BY ONLY TInv, r \in Requests, <4>1, ReadingType DEF TInv
    <3>2. todo' \in [Requests -> SUBSET (Users \cup Roles)]
      BY <1>3, <2>1 DEF ListRoles, LoopOrEnd, Concerned, TypeOK
    <3>3. rpc' \in [Requests -> Place] /\ InItsHandler' /\ LoopsOverEntries'
      BY <1>3, <2>1 DEF ListRoles, LoopOrEnd, Concerned, Edits, TypeOK
    <3>4. QED BY <1>3, <3>1, <3>2, <3>3 DEF ListRoles, TypeOK
  <2>2. CASE ~Coherent(r)
    BY <1>3, <2>2 DEF ListRoles, TypeOK
  <2>3. QED BY <2>1, <2>2
<1>4. CASE WriteRole(r)
  <2>1. todo[r] \subseteq Named(op[r].edits)
    BY <1>4 DEF WriteRole, LoopsOverEntries
  <2>2. \A i \in todo[r] :
          /\ i \in Roles
          /\ KeyOr(op[r].edits[i].position, seen[r].position[i]) \in Nat
          /\ KeyOr(op[r].edits[i].permissions, seen[r].permissions[i])
               \in SUBSET Perms
    <3>1. op[r].edits \in [Roles -> Edit \cup {None}]
      BY <1>4 DEF WriteRole
    <3> DEFINE edits == op[r].edits
    <3>2. \A i \in todo[r] : i \in DOMAIN edits /\ edits[i] # None
      BY <2>1 DEF Named
    <3> HIDE DEF edits
    <3>3. edits \in [Roles -> Edit \cup {None}]
      BY <3>1 DEF edits
    <3>4. \A i \in todo[r] : i \in Roles /\ edits[i] \in Edit
      BY ONLY <3>2, <3>3
    <3>5. seen[r] \in Reading
      BY DEF TypeOK
    <3>6. \A i \in Roles : /\ seen[r].position[i] \in Nat
                           /\ seen[r].permissions[i] \in SUBSET Perms
      BY ONLY <3>5 DEF Reading
    <3>7. \A i \in todo[r] : /\ edits[i].position \in Nat \cup {None}
                             /\ edits[i].permissions \in (SUBSET Perms) \cup {None}
      BY <3>4 DEF Edit
    <3>8. QED BY <3>4, <3>6, <3>7 DEF KeyOr, edits
  <2>3. PICK i \in todo[r] :
          \/ /\ i \in roles
             /\ position' = [position EXCEPT ![i] =
                  KeyOr(op[r].edits[i].position, seen[r].position[i])]
             /\ permissions' = [permissions EXCEPT ![i] =
                  KeyOr(op[r].edits[i].permissions, seen[r].permissions[i])]
             /\ LoopOrEnd(r, "write", todo[r] \ {i})
          \/ Goto(r, "threw") /\ UNCHANGED <<position, permissions, todo>>
    BY <1>4 DEF WriteRole, Edits
  <2>4. todo' \in [Requests -> SUBSET (Users \cup Roles)]
    BY <2>3 DEF LoopOrEnd, TypeOK
  <2>5. position' \in [Roles -> Nat] /\ permissions' \in [Roles -> SUBSET Perms]
    BY <2>2, <2>3 DEF TypeOK
  <2>6. rpc' \in [Requests -> Place] /\ InItsHandler' /\ LoopsOverEntries'
    <3>1. CASE Goto(r, "threw") /\ UNCHANGED todo
      BY <1>4, <3>1 DEF WriteRole
    <3>2. CASE LoopOrEnd(r, "write", todo[r] \ {i})
      BY <1>4, <2>1, <3>2 DEF WriteRole, LoopOrEnd, TypeOK
    <3>3. QED BY <2>3, <3>1, <3>2
  <2>7. QED BY <1>4, <2>4, <2>5, <2>6 DEF WriteRole, TypeOK
<1>5. CASE DropRole(r)
  BY <1>5 DEF DropRole, TypeOK
<1>6. CASE ReadAttached(r)
  <2>1. seen' \in [Requests -> Reading]
    BY <1>6, ReadingType DEF ReadAttached
  <2>2. todo' \in [Requests -> SUBSET (Users \cup Roles)]
    BY <1>6 DEF ReadAttached, LoopOrEnd, TypeOK
  <2>3. rpc' \in [Requests -> Place] /\ InItsHandler' /\ LoopsOverEntries'
    BY <1>6 DEF ReadAttached, LoopOrEnd, TypeOK
  <2>4. QED BY <1>6, <2>1, <2>2, <2>3 DEF ReadAttached, TypeOK
<1>7. CASE DetachMember(r)
  <2>1. todo[r] \subseteq Users
    BY <1>7 DEF DetachMember, LoopsOverEntries
  <2>2. \A u \in todo[r] : seen[r].assigned[u] \ {op[r].role} \in SUBSET Roles
    BY <2>1 DEF TypeOK, Reading
  <2>3. PICK u \in todo[r] :
          \/ /\ assigned' = [assigned EXCEPT ![u] =
                               seen[r].assigned[u] \ {op[r].role}]
             /\ LoopOrEnd(r, "detach", todo[r] \ {u})
          \/ Goto(r, "threw") /\ UNCHANGED <<assigned, todo>>
    BY <1>7 DEF DetachMember
  <2>4. todo' \in [Requests -> SUBSET (Users \cup Roles)]
    BY <2>3 DEF LoopOrEnd, TypeOK
  <2>5. assigned' \in [Users -> SUBSET Roles]
    BY <2>1, <2>2, <2>3 DEF TypeOK
  <2>6. rpc' \in [Requests -> Place] /\ InItsHandler' /\ LoopsOverEntries'
    <3>1. CASE Goto(r, "threw") /\ UNCHANGED todo
      BY <1>7, <3>1 DEF DetachMember
    <3>2. CASE LoopOrEnd(r, "detach", todo[r] \ {u})
      BY <1>7, <2>1, <3>2 DEF DetachMember, LoopOrEnd, TypeOK
    <3>3. QED BY <2>3, <3>1, <3>2
  <2>7. QED BY <1>7, <2>4, <2>5, <2>6 DEF DetachMember, TypeOK
<1>8. QED
  BY <1>1, <1>2, <1>3, <1>4, <1>5, <1>6, <1>7 DEF HandleRoles

LEMMA OwnerT ==
  ASSUME TInv, NEW r \in Requests, HandleOwner(r),
         undisturbed' \in [Requests -> BOOLEAN]
  PROVE  TInv'
<1> USE RequestT, BodyFields
    DEF TInv, At, Place, Ended, projectVars, memberVars, roleVars
<1>0. /\ op[r] \in Operation
      /\ rpc[r] # "idle"
      /\ op[r].kind = "update"
  BY DEF InItsHandler, HandleOwner, ReadTeam, KeepOwner, HandOver, WriteColumns
<1> USE <1>0
<1>1. CASE ReadTeam(r)
  <2>1. seen' \in [Requests -> Reading]
    BY <1>1, ReadingType DEF ReadTeam
  <2>2. rpc' \in [Requests -> Place] /\ InItsHandler' /\ LoopsOverEntries'
    BY <1>1 DEF ReadTeam, AfterOwner
  <2>3. QED BY <1>1, <2>1, <2>2 DEF ReadTeam, TypeOK
<1>2. CASE KeepOwner(r)
  <2>1. seen[r].owner \in Users
    BY DEF TypeOK, Reading
  <2>2. rpc' \in [Requests -> Place] /\ InItsHandler' /\ LoopsOverEntries'
    BY <1>2 DEF KeepOwner
  <2>3. QED BY <1>2, <2>1, <2>2 DEF KeepOwner, TypeOK
<1>3. CASE HandOver(r)
  <2>1. rpc' \in [Requests -> Place] /\ InItsHandler' /\ LoopsOverEntries'
    BY <1>3 DEF HandOver, AfterOwner
  <2>2. QED BY <1>3, <2>1 DEF HandOver, TypeOK
<1>4. CASE WriteColumns(r)
  <2>1. KeyOr(op[r].everyone, everyone) \in SUBSET Perms
    BY DEF KeyOr, TypeOK
  <2>2. KeyOr(op[r].locked, locked) \in BOOLEAN
    BY Zenon DEF KeyOr, TypeOK
  <2>3. rpc' \in [Requests -> Place] /\ InItsHandler' /\ LoopsOverEntries'
    BY <1>4 DEF WriteColumns
  <2>4. QED BY <1>4, <2>1, <2>2, <2>3 DEF WriteColumns, TypeOK
<1>5. QED
  BY <1>1, <1>2, <1>3, <1>4 DEF HandleOwner

LEMMA NextT == TInv /\ [Next]_vars => TInv'
<1> SUFFICES ASSUME TInv, [Next]_vars PROVE TInv'
  OBVIOUS
<1>1. CASE UNCHANGED vars
  BY <1>1 DEF vars, projectVars, memberVars, roleVars, requestVars, TInv,
              TypeOK, InItsHandler, LoopsOverEntries
<1>2. ASSUME NEW r \in Requests, Note(r),
             \/ \E o \in Asks : Receive(r, o)
             \/ HandleMembers(r) \/ HandleRoles(r) \/ HandleOwner(r)
      PROVE  TInv'
  <2>1. undisturbed' \in [Requests -> BOOLEAN]
    BY <1>2, NoteType DEF TInv
  <2>2. ASSUME NEW o \in Asks, Receive(r, o) PROVE TInv'
    <3>1. o \in Operation
      BY TeamAssumption
    <3>2. QED BY <2>1, <2>2, <3>1, ReceiveT
  <2>3. QED BY <1>2, <2>1, <2>2, MembersT, RolesT, OwnerT
<1>3. QED BY <1>1, <1>2 DEF Next

LEMMA TInductive == Spec => []TInv
BY InitT, NextT, PTL DEF Spec

\* Every variable keeps its type, whatever the requests and the way their
\* steps interleave (Team!TypeOK).
THEOREM TeamTypeCorrect == Spec => []TypeOK
<1>1. TInv => TypeOK
  BY DEF TInv
<1>2. QED BY TInductive, <1>1, PTL

-----------------------------------------------------------------------------
(* Ownership.  Only KeepOwner, UpsertMember and PatchMember let somebody in *)
(* the team, and only HandOver changes the owner; rows of users are never   *)
(* deleted.                                                                 *)

LEMMA InitO == Init => OInv
BY TeamAssumption
   DEF Init, OInv, TeamIsKnown, CandidateIsHuman, OwnerIsHuman

LEMMA ReceiveO ==
  ASSUME TInv, OInv, NEW r \in Requests, NEW o \in Operation, Receive(r, o)
  PROVE  OInv'
<1> USE DEF TInv, TypeOK, OInv, Receive, Admit, Goto, At, projectVars,
            memberVars, roleVars
<1>1. TeamIsKnown'
  BY DEF TeamIsKnown
<1>2. CandidateIsHuman'
  BY DEF CandidateIsHuman
<1>3. OwnerIsHuman'
  BY DEF OwnerIsHuman
<1>4. QED BY <1>1, <1>2, <1>3

LEMMA MembersO ==
  ASSUME TInv, OInv, NEW r \in Requests, HandleMembers(r)
  PROVE  OInv'
<1> USE DEF TInv, TypeOK, OInv, At, Goto, LoopOrEnd, projectVars, memberVars,
            roleVars
<1>0. /\ owner' = owner
      /\ op' = op
      /\ seen' = seen
      /\ known \subseteq known'
  BY DEF HandleMembers, FindUser, LookUp, Register, RegisterClash,
         UpsertMember, PatchMember, DeleteMember
<1>1. \/ /\ members' \subseteq members
         /\ rpc'[r] = "upsert" => op[r].user \in known'
      \/ /\ rpc[r] = "upsert"
         /\ members' = members \cup {op[r].user}
         /\ rpc'[r] = "ok"
      \/ \E u \in known : /\ members' = members \cup {u}
                          /\ rpc'[r] \in {"patch", "ok"}
  BY DEF HandleMembers, FindUser, LookUp, Register, RegisterClash,
         UpsertMember, PatchMember, DeleteMember
<1>2. /\ \A q \in Requests \ {r} : rpc'[q] = rpc[q]
      /\ rpc'[r] \notin {"keep", "handover"}
  BY DEF HandleMembers, FindUser, LookUp, Register, RegisterClash,
         UpsertMember, PatchMember, DeleteMember
<1>3. TeamIsKnown'
  BY <1>0, <1>1, <1>2 DEF TeamIsKnown
<1>4. CandidateIsHuman'
  BY <1>0, <1>2 DEF CandidateIsHuman
<1>5. OwnerIsHuman'
  BY <1>0 DEF OwnerIsHuman
<1>6. QED BY <1>3, <1>4, <1>5

LEMMA RolesO ==
  ASSUME TInv, OInv, NEW r \in Requests, HandleRoles(r)
  PROVE  OInv'
<1> USE DEF TInv, TypeOK, OInv, At, Goto, LoopOrEnd, projectVars, memberVars,
            roleVars
<1>1. /\ UNCHANGED <<owner, op, known, members>>
      /\ \A q \in Requests \ {r} : rpc'[q] = rpc[q]
      /\ rpc'[r] \notin {"upsert", "keep", "handover"}
  BY DEF HandleRoles, ReadTop, InsertRole, ListRoles, WriteRole, DropRole,
         ReadAttached, DetachMember
<1>2. \A q \in Requests \ {r} : seen'[q] = seen[q]
  BY DEF HandleRoles, ReadTop, InsertRole, ListRoles, WriteRole, DropRole,
         ReadAttached, DetachMember
<1>3. TeamIsKnown'
  BY <1>1, <1>2 DEF TeamIsKnown
<1>4. CandidateIsHuman'
  BY <1>1 DEF CandidateIsHuman
<1>5. OwnerIsHuman'
  BY <1>1 DEF OwnerIsHuman
<1>6. QED BY <1>3, <1>4, <1>5

LEMMA OwnerO ==
  ASSUME TInv, OInv, NEW r \in Requests, HandleOwner(r)
  PROVE  OInv'
<1> USE DEF TInv, OInv, At, Goto, projectVars, memberVars, roleVars,
            TeamIsKnown, CandidateIsHuman, OwnerIsHuman
<1>1. CASE ReadTeam(r)
  <2>0. seen'[r].owner = owner
    <3>1. seen[r] \in Reading
      BY DEF TypeOK
    <3>2. seen'[r] = [seen[r] EXCEPT !.owner = owner, !.members = members]
      BY <1>1 DEF ReadTeam, TypeOK
    <3>3. QED BY <3>1, <3>2 DEF Reading
  <2>1. /\ \A q \in Requests \ {r} : seen'[q] = seen[q] /\ rpc'[q] = rpc[q]
        /\ UNCHANGED <<known, members, owner, op>>
    BY <1>1 DEF ReadTeam, TypeOK
  <2>2. /\ rpc'[r] # "upsert"
        /\ rpc'[r] \in {"keep", "handover"} => op[r].owner \in members \ Bots
    BY <1>1 DEF ReadTeam, AfterOwner, TypeOK
  <2>3. members \subseteq Users
    BY DEF TypeOK
  <2>4. TeamIsKnown'
    BY <2>0, <2>1, <2>2
  <2>5. CandidateIsHuman'
    BY <2>1, <2>2, <2>3
  <2>6. QED BY <2>1, <2>4, <2>5
<1>2. CASE KeepOwner(r)
  BY <1>2 DEF KeepOwner, TypeOK
<1>3. CASE HandOver(r)
  BY <1>3 DEF HandOver, AfterOwner, TypeOK
<1>4. CASE WriteColumns(r)
  BY <1>4 DEF WriteColumns, TypeOK
<1>5. QED BY <1>1, <1>2, <1>3, <1>4 DEF HandleOwner

LEMMA NextO == TInv /\ OInv /\ [Next]_vars => OInv'
<1> SUFFICES ASSUME TInv, OInv, [Next]_vars PROVE OInv'
  OBVIOUS
<1>1. CASE UNCHANGED vars
  BY <1>1 DEF vars, projectVars, memberVars, requestVars, OInv, TeamIsKnown,
              CandidateIsHuman, OwnerIsHuman
<1>2. ASSUME NEW r \in Requests, NEW o \in Asks, Receive(r, o) PROVE OInv'
  <2>1. o \in Operation
    BY TeamAssumption
  <2>2. QED BY <1>2, <2>1, ReceiveO
<1>3. ASSUME NEW r \in Requests,
             HandleMembers(r) \/ HandleRoles(r) \/ HandleOwner(r)
      PROVE  OInv'
  BY <1>3, MembersO, RolesO, OwnerO
<1>4. QED BY <1>1, <1>2, <1>3 DEF Next

\* However the requests overlap, the project is owned by a person who has an
\* account (Team!OwnerIsHuman): updateProject checks the type of the candidate
\* on rows it read earlier, and patchMembers lets bots become members.
THEOREM Ownership == Spec => []OwnerIsHuman
<1>1. OInv => OwnerIsHuman
  BY DEF OInv
<1>2. QED BY TInductive, InitO, NextO, <1>1, PTL DEF Spec

\* However the requests overlap, the project is handed over only to someone
\* who is a member when it happens and stops being one (Team!HandoverToMember).
THEOREM Handover == Spec => HandoverToMember
<1>1. [Next]_vars => [owner' # owner =>
                        owner' \in members /\ owner' \notin members']_vars
  <2> SUFFICES ASSUME Next, owner' # owner
               PROVE  owner' \in members /\ owner' \notin members'
    OBVIOUS
  <2>1. PICK r \in Requests :
          \/ \E o \in Asks : Receive(r, o)
          \/ HandleMembers(r) \/ HandleRoles(r) \/ HandleOwner(r)
    BY DEF Next
  <2>2. HandOver(r)
    BY <2>1 DEF Receive, HandleMembers, HandleRoles, HandleOwner, FindUser,
         LookUp, Register, RegisterClash, UpsertMember, PatchMember,
         DeleteMember, ReadTop, InsertRole, ListRoles, WriteRole, DropRole,
         ReadAttached, DetachMember, ReadTeam, KeepOwner, WriteColumns,
         projectVars
  <2>3. QED BY <2>2 DEF HandOver, memberVars
<1>2. QED BY <1>1, PTL DEF Spec, HandoverToMember

-----------------------------------------------------------------------------
(* Requests that nobody disturbs.  What such a request read is still true,  *)
(* which is what the three properties below need.                           *)

\* A step of a request.
StepOf(r) ==
  \/ \E o \in Asks : Receive(r, o)
  \/ HandleMembers(r) \/ HandleRoles(r) \/ HandleOwner(r)

InFlight(r) == rpc[r] \notin {"idle"} \cup Ended

\* A step moves the request it is of, and no other.
LEMMA OnlyOwnRequest ==
  ASSUME TInv, NEW r \in Requests, NEW q \in Requests, q # r, StepOf(r)
  PROVE  /\ rpc'[q] = rpc[q] /\ op'[q] = op[q] /\ todo'[q] = todo[q]
         /\ seen'[q] = seen[q]
<1> USE DEF TInv, TypeOK, Goto, LoopOrEnd
<1>1. CASE \E o \in Asks : Receive(r, o)
  BY <1>1 DEF Receive, Admit
<1>2. CASE HandleMembers(r)
  BY <1>2 DEF HandleMembers, FindUser, LookUp, Register, RegisterClash,
     UpsertMember, PatchMember, DeleteMember
<1>3. CASE HandleRoles(r)
  BY <1>3 DEF HandleRoles, ReadTop, InsertRole, ListRoles, WriteRole, DropRole,
     ReadAttached, DetachMember
<1>4. CASE HandleOwner(r)
  BY <1>4 DEF HandleOwner, ReadTeam, KeepOwner, HandOver, WriteColumns
<1>5. QED BY <1>1, <1>2, <1>3, <1>4 DEF StepOf

\* A request that is not disturbed now was not before, and the rows it is
\* about are as they were.
LEMMA Undisturbed ==
  ASSUME TInv, NEW r \in Requests, Note(r), NEW q \in Requests, undisturbed'[q]
  PROVE  /\ undisturbed[q]
         /\ q # r /\ InFlight(q) => Spared(q)
BY DEF Note, InFlight, TInv, TypeOK

\* Who may give the project away, and the team such a request has read.
CalmHandover(r) ==
  /\ rpc[r] \in {"read", "keep", "handover"} /\ op[r].owner # None
       => op[r].by \in Admins \cup {owner}
  /\ rpc[r] = "keep" => seen[r].owner = owner /\ op[r].owner # owner
  /\ rpc[r] = "handover" => owner \in members /\ op[r].owner # owner

\* The members whose row is still to write, and those who have it no more.
CalmDeletion(r) ==
  rpc[r] = "detach" =>
    /\ \A u \in todo[r] : seen[r].assigned[u] = assigned[u]
    /\ \A u \in members \ todo[r] : op[r].role \notin assigned[u]

\* The position a role has when the request has written all its rows.
Target(r, i) ==
  IF i \in todo[r] THEN KeyOr(Edits(r)[i].position, seen[r].position[i])
                   ELSE position[i]

\* The request moves the roles to positions of their own, or moves none.
Sorts(r) == \A i, j \in roles : Target(r, i) = Target(r, j) => i = j

MovesNone(r) == \A i \in todo[r] : Target(r, i) = position[i]

CalmRoles(r) ==
  /\ rpc[r] = "insert" => \A i \in roles : position[i] < seen[r].top
  /\ rpc[r] = "write" => /\ todo[r] \subseteq roles
                         /\ Sorts(r) \/ MovesNone(r)

CalmInv ==
  /\ IsFiniteSet(roles)
  /\ \A r \in Requests :
       undisturbed[r] => CalmHandover(r) /\ CalmDeletion(r) /\ CalmRoles(r)

\* The requests that are not at work on their rows.
LEMMA IdleCalm ==
  ASSUME NEW r \in Requests,
         rpc'[r] \notin {"read", "keep", "handover", "detach", "insert", "write"}
  PROVE  (CalmHandover(r) /\ CalmDeletion(r) /\ CalmRoles(r))'
BY DEF CalmHandover, CalmDeletion, CalmRoles

\* The other requests keep their part of the invariant.
LEMMA OthersCalm ==
  ASSUME TInv, CalmInv, NEW r \in Requests, StepOf(r), Note(r),
         NEW q \in Requests, q # r, undisturbed'[q]
  PROVE  (CalmHandover(q) /\ CalmDeletion(q) /\ CalmRoles(q))'
<1>1. /\ rpc'[q] = rpc[q] /\ op'[q] = op[q] /\ todo'[q] = todo[q]
      /\ seen'[q] = seen[q]
  BY OnlyOwnRequest
<1>2. undisturbed[q] /\ (InFlight(q) => Spared(q))
  BY Undisturbed
<1>3. CalmHandover(q) /\ CalmDeletion(q) /\ CalmRoles(q)
  BY <1>2 DEF CalmInv
<1>4. CASE rpc[q] \in {"read", "keep", "handover"}
  <2>1. UNCHANGED <<owner, members>>
    BY <1>2, <1>4 DEF InFlight, Ended, Spared, TInv, InItsHandler, memberVars
  <2>2. QED BY <1>1, <1>3, <1>4, <2>1 DEF CalmHandover, CalmDeletion, CalmRoles
<1>5. CASE rpc[q] = "detach"
  <2>1. UNCHANGED <<members, assigned>>
    BY <1>2, <1>5 DEF InFlight, Ended, Spared, TInv, InItsHandler, memberVars
  <2>2. QED BY <1>1, <1>3, <1>5, <2>1 DEF CalmHandover, CalmDeletion, CalmRoles
<1>6. CASE rpc[q] \in {"insert", "write"}
  <2>1. UNCHANGED <<roles, position>>
    BY <1>2, <1>6 DEF InFlight, Ended, Spared, TInv, InItsHandler, roleVars
  <2>2. Edits(q)' = Edits(q)
    BY <1>1 DEF Edits
  <2>3. \A i : Target(q, i)' = Target(q, i)
    BY <1>1, <2>1, <2>2 DEF Target
  <2>4. QED BY <1>1, <1>3, <1>6, <2>1, <2>3 DEF CalmHandover, CalmDeletion,
            CalmRoles, Sorts, MovesNone
<1>7. CASE rpc[q] \notin {"read", "keep", "handover", "detach", "insert", "write"}
  BY <1>1, <1>7, IdleCalm
<1>8. QED BY <1>4, <1>5, <1>6, <1>7

LEMMA ReceiveCalm ==
  ASSUME TInv, NEW r \in Requests, NEW o \in Operation, Receive(r, o)
  PROVE  (CalmHandover(r) /\ CalmDeletion(r) /\ CalmRoles(r))'
<1> USE DEF TInv, TypeOK, Receive, Admit, Goto, At
<1>1. CASE o.kind = "update"
  <2>1. /\ op'[r] = FilteredKeys(o) /\ rpc'[r] \in {"read", "refused"}
        /\ owner' = owner
    BY <1>1 DEF projectVars
  <2>2. FilteredKeys(o).owner # None => FilteredKeys(o).by \in Admins \cup {owner}
    BY <1>1 DEF FilteredKeys, Operation, IsAdmin
  <2>3. QED BY <2>1, <2>2 DEF CalmHandover, CalmDeletion, CalmRoles
<1>2. CASE o.kind # "update"
  <2>1. rpc'[r] \notin {"read", "keep", "handover", "detach", "insert", "write"}
    BY <1>2
  <2>2. QED BY <2>1, IdleCalm
<1>3. QED BY <1>1, <1>2

LEMMA MembersCalm ==
  ASSUME TInv, NEW r \in Requests, HandleMembers(r)
  PROVE  (CalmHandover(r) /\ CalmDeletion(r) /\ CalmRoles(r))'
<1>1. rpc'[r] \notin {"read", "keep", "handover", "detach", "insert", "write"}
  BY DEF TInv, TypeOK, Goto, LoopOrEnd, HandleMembers, FindUser, LookUp, Register,
     RegisterClash, UpsertMember, PatchMember, DeleteMember
<1>2. QED BY <1>1, IdleCalm

LEMMA OwnerCalm ==
  ASSUME TInv, CalmInv, NEW r \in Requests, HandleOwner(r), undisturbed[r]
  PROVE  (CalmHandover(r) /\ CalmDeletion(r) /\ CalmRoles(r))'
<1> USE DEF TInv, TypeOK, Goto, At, AfterOwner
<1>1. CalmHandover(r)
  BY DEF CalmInv
<1>2. CASE ReadTeam(r)
  <2>1. /\ seen'[r].owner = owner
        /\ UNCHANGED <<owner, members, op>>
    <3>1. seen[r] \in Reading
      OBVIOUS
    <3>2. seen'[r] = [seen[r] EXCEPT !.owner = owner, !.members = members]
      BY <1>2 DEF ReadTeam
    <3>3. QED BY <1>2, <3>1, <3>2 DEF ReadTeam, Reading, projectVars, memberVars
  <2>2. /\ rpc[r] = "read"
        /\ rpc'[r] \in {"refused", "row", "ok", "keep", "handover"}
        /\ rpc'[r] \in {"keep", "handover"} => op[r].owner \notin {None, owner}
        /\ rpc'[r] = "handover" => owner \in members
    BY <1>2 DEF ReadTeam
  <2>3. CalmHandover(r)'
    BY <1>1, <2>1, <2>2 DEF CalmHandover
  <2>4. QED BY <2>2, <2>3 DEF CalmDeletion, CalmRoles
<1>3. CASE KeepOwner(r)
  <2>1. /\ rpc[r] = "keep" /\ UNCHANGED <<owner, op>>
        /\ rpc'[r] \in {"threw", "handover"}
        /\ rpc'[r] = "handover" => members' = members \cup {seen[r].owner}
    BY <1>3 DEF KeepOwner, projectVars
  <2>2. CalmHandover(r)'
    BY <1>1, <2>1 DEF CalmHandover
  <2>3. QED BY <2>1, <2>2 DEF CalmDeletion, CalmRoles
<1>4. CASE HandOver(r) \/ WriteColumns(r)
  <2>1. rpc'[r] \in {"row", "ok", "threw"}
    BY <1>4 DEF HandOver, WriteColumns
  <2>2. QED BY <2>1, IdleCalm
<1>5. QED BY <1>2, <1>3, <1>4 DEF HandleOwner

\* What Coherent, which compares cardinalities, means: the entries of the
\* body move no role, or move each to a position of its own.
LEMMA CoherentMeans ==
  ASSUME TInv, IsFiniteSet(roles), NEW r \in Requests, rpc[r] = "list", Coherent(r)
  PROVE  \/ \A i \in Concerned(r) : Edits(r)[i].position = None
         \/ /\ Concerned(r) = roles
            /\ \A i \in roles : Edits(r)[i].position # None
            /\ \A i, j \in roles :
                 Edits(r)[i].position = Edits(r)[j].position => i = j
<1> DEFINE P(i) == Edits(r)[i].position
           Moved == {i \in Concerned(r) : P(i) # None}
           Given == PositionsGiven(r)
           f == [i \in Moved |-> P(i)]
<1>1. Moved \in SUBSET roles /\ Concerned(r) \subseteq roles
  BY DEF Concerned
<1>2. Given = {P(i) : i \in Moved}
  BY DEF PositionsGiven
<1> HIDE DEF P, Given
<1>3. f \in Surjection(Moved, Given)
  BY <1>2 DEF Surjection
<1>4. /\ IsFiniteSet(Moved) /\ Cardinality(Moved) <= Cardinality(roles)
      /\ Cardinality(roles) = Cardinality(Moved) => roles = Moved
  BY <1>1, FS_Subset
<1> HIDE DEF Moved, f
<1>5. /\ IsFiniteSet(Given) /\ Cardinality(Given) <= Cardinality(Moved)
      /\ Cardinality(Given) = Cardinality(Moved) => f \in Injection(Moved, Given)
  BY <1>3, <1>4, FS_Surjection
<1>6. Cardinality(Given) \in {0, Cardinality(roles)}
  BY DEF Coherent, Given
<1>7. CASE Cardinality(Given) = 0
  <2>1. Given = {}
    BY <1>5, <1>7, FS_EmptySet
  <2>2. \A i \in Concerned(r) : P(i) = None
    BY <1>2, <2>1 DEF Moved
  <2>3. QED BY <2>2 DEF P
<1>8. CASE Cardinality(Given) = Cardinality(roles)
  <2>1. /\ Cardinality(Given) \in Nat /\ Cardinality(Moved) \in Nat
        /\ Cardinality(roles) \in Nat
    BY <1>4, <1>5, FS_CardinalityType
  <2>2. roles = Moved /\ f \in Injection(Moved, Given)
    BY <1>4, <1>5, <1>8, <2>1
  <2>3. \A i, j \in roles : P(i) = P(j) => i = j
    BY <2>2 DEF Injection, IsInjective, f
  <2>4. /\ Concerned(r) = roles
        /\ \A i \in roles : P(i) # None
    BY <1>1, <2>2 DEF Moved
  <2>5. QED BY <2>3, <2>4 DEF P
<1>9. QED BY <1>6, <1>7, <1>8

LEMMA ListRolesCalm ==
  ASSUME TInv, CalmInv, NEW r \in Requests, ListRoles(r)
  PROVE  (CalmHandover(r) /\ CalmDeletion(r) /\ CalmRoles(r))'
<1> USE DEF TInv, TypeOK, Goto, At, LoopOrEnd
<1>1. CASE ~Coherent(r)
  <2>1. rpc'[r] = "refused"
    BY <1>1 DEF ListRoles
  <2>2. QED BY <2>1, IdleCalm
<1>2. CASE Coherent(r)
  <2>1. /\ UNCHANGED <<roles, position, op>>
        /\ rpc[r] = "list" /\ rpc'[r] \in {"write", "ok"}
        /\ todo'[r] = Concerned(r)
    BY <1>2 DEF ListRoles, roleVars
  <2>2. seen'[r].position = position
    <3>1. seen[r] \in Reading
      OBVIOUS
    <3>2. seen'[r] = [seen[r] EXCEPT !.position = position, !.permissions = permissions]
      BY <1>2 DEF ListRoles
    <3>3. QED BY <3>1, <3>2 DEF Reading
  <2>3. Edits(r)' = Edits(r)
    BY <2>1 DEF Edits
  <2>4. \A i : Target(r, i)' = IF i \in Concerned(r) THEN KeyOr(Edits(r)[i].position, position[i])
                               ELSE position[i]
    BY <2>1, <2>2, <2>3 DEF Target
  <2>5. Concerned(r) \subseteq roles
    BY DEF Concerned
  <2>6. CASE \A i \in Concerned(r) : Edits(r)[i].position = None
    <3>1. MovesNone(r)'
      BY <2>1, <2>4, <2>6 DEF MovesNone, KeyOr
    <3>2. QED BY <2>1, <2>5, <3>1 DEF CalmHandover, CalmDeletion, CalmRoles
  <2>7. CASE /\ Concerned(r) = roles
             /\ \A i \in roles : Edits(r)[i].position # None
             /\ \A i, j \in roles :
                  Edits(r)[i].position = Edits(r)[j].position => i = j
    <3>1. \A i \in roles : Target(r, i)' = Edits(r)[i].position
      BY <2>4, <2>7 DEF KeyOr
    <3>2. Sorts(r)'
      BY <2>1, <2>7, <3>1 DEF Sorts
    <3>3. QED BY <2>1, <2>5, <3>2 DEF CalmHandover, CalmDeletion, CalmRoles
  <2>8. QED BY <1>2, <2>1, <2>6, <2>7, CoherentMeans DEF CalmInv
<1>3. QED BY <1>1, <1>2

\* A write puts a role where it was to be.
LEMMA WriteTargets ==
  ASSUME TInv, CalmInv, NEW r \in Requests, WriteRole(r), undisturbed[r]
  PROVE  /\ roles' = roles
         /\ todo'[r] \subseteq todo[r]
         /\ rpc'[r] \in {"write", "ok"}
         /\ rpc'[r] = "ok" => todo'[r] = {}
         /\ \A i \in Roles : Target(r, i)' = Target(r, i)
         /\ MovesNone(r) => position' = position
<1> USE DEF TInv, TypeOK, Goto, At, LoopOrEnd
<1>1. todo[r] \subseteq roles
  BY DEF CalmInv, CalmRoles, WriteRole
<1>2. PICK i \in todo[r] :
        /\ position' = [position EXCEPT ![i] = Target(r, i)]
        /\ todo' = [todo EXCEPT ![r] = todo[r] \ {i}]
        /\ rpc' = [rpc EXCEPT ![r] = IF todo[r] \ {i} = {} THEN "ok" ELSE "write"]
  BY <1>1 DEF WriteRole, Target
<1>3. UNCHANGED <<roles, op, seen>>
  BY DEF WriteRole
<1>4. Edits(r)' = Edits(r)
  BY <1>3 DEF Edits
<1>5. todo'[r] = todo[r] \ {i}
  BY <1>2
<1>6. i \in Roles /\ position'[i] = Target(r, i)
  BY <1>1, <1>2
<1>7. \A j \in Roles \ {i} : position'[j] = position[j]
  BY <1>2
<1>8. \A j \in Roles : Target(r, j)' = Target(r, j)
  BY <1>3, <1>4, <1>5, <1>6, <1>7 DEF Target
<1>9. MovesNone(r) => position' = position
  BY <1>2, <1>6 DEF MovesNone
<1>10. QED BY <1>2, <1>3, <1>5, <1>8, <1>9

LEMMA RolesCalm ==
  ASSUME TInv, CalmInv, NEW r \in Requests, HandleRoles(r), undisturbed[r]
  PROVE  (CalmHandover(r) /\ CalmDeletion(r) /\ CalmRoles(r))'
<1> USE DEF TInv, TypeOK, Goto, At, LoopOrEnd
<1>1. CASE ReadTop(r)
  <2>1. rpc'[r] = "insert" /\ UNCHANGED <<roles, position>>
    BY <1>1 DEF ReadTop, roleVars
  <2>2. \A i \in roles : position[i] < seen'[r].top
    <3>1. CASE roles = {}
      BY <3>1
    <3>2. ASSUME NEW i \in roles, \A j \in roles : position[j] <= position[i],
                 seen' = [seen EXCEPT ![r].top = position[i] + 1]
          PROVE  \A j \in roles : position[j] < seen'[r].top
      <4>1. seen[r] \in Reading
        OBVIOUS
      <4>2. seen'[r].top = position[i] + 1
        BY <3>2, <4>1 DEF Reading
      <4>3. \A j \in roles : position[j] \in Nat
        OBVIOUS
      <4>4. QED BY <3>2, <4>2, <4>3
    <3>3. QED BY <1>1, <3>1, <3>2 DEF ReadTop
  <2>3. CalmRoles(r)'
    BY <2>1, <2>2 DEF CalmRoles
  <2>4. QED BY <2>1, <2>3 DEF CalmHandover, CalmDeletion
<1>2. CASE InsertRole(r) \/ DropRole(r)
  <2>1. rpc'[r] \in {"ok", "attached", "threw"}
    BY <1>2 DEF InsertRole, DropRole
  <2>2. QED BY <2>1, IdleCalm
<1>3. CASE ListRoles(r)
  BY <1>3, ListRolesCalm
<1>4. CASE WriteRole(r)
  <2>1. /\ roles' = roles /\ todo'[r] \subseteq todo[r]
        /\ rpc'[r] \in {"write", "ok"}
        /\ \A i \in Roles : Target(r, i)' = Target(r, i)
        /\ MovesNone(r) => position' = position
    BY <1>4, WriteTargets
  <2>2. todo[r] \subseteq roles /\ (Sorts(r) \/ MovesNone(r))
    BY <1>4 DEF CalmInv, CalmRoles, WriteRole
  <2>3. Sorts(r) => Sorts(r)'
    BY <2>1 DEF Sorts
  <2>4. MovesNone(r) => MovesNone(r)'
    BY <2>1, <2>2 DEF MovesNone
  <2>5. CalmRoles(r)'
    BY <2>1, <2>2, <2>3, <2>4 DEF CalmRoles
  <2>6. QED BY <2>1, <2>5 DEF CalmHandover, CalmDeletion
<1>5. CASE ReadAttached(r)
  <2>1. /\ UNCHANGED <<members, assigned, op>>
        /\ rpc'[r] \in {"detach", "ok"}
        /\ todo'[r] = {u \in members : op[r].role \in assigned[u]}
    BY <1>5 DEF ReadAttached, memberVars
  <2>2. seen'[r].assigned = assigned
    <3>1. seen[r] \in Reading
      OBVIOUS
    <3>2. seen'[r] = [seen[r] EXCEPT !.assigned = assigned]
      BY <1>5 DEF ReadAttached
    <3>3. QED BY <3>1, <3>2 DEF Reading
  <2>3. CalmDeletion(r)'
    BY <2>1, <2>2 DEF CalmDeletion
  <2>4. QED BY <2>1, <2>3 DEF CalmHandover, CalmRoles
<1>6. CASE DetachMember(r)
  <2>1. /\ rpc[r] = "detach" /\ UNCHANGED <<members, op, seen>>
        /\ rpc'[r] \in {"detach", "ok", "threw"}
    BY <1>6 DEF DetachMember
  <2>2. PICK u \in todo[r] :
          \/ /\ assigned' = [assigned EXCEPT ![u] = seen[r].assigned[u] \ {op[r].role}]
             /\ todo'[r] = todo[r] \ {u}
          \/ rpc'[r] = "threw"
    BY <1>6 DEF DetachMember
  <2>3. CalmDeletion(r)
    BY DEF CalmInv
  <2>4. CalmDeletion(r)'
    <3>1. CASE rpc'[r] = "threw"
      BY <3>1 DEF CalmDeletion
    <3>2. CASE /\ assigned' = [assigned EXCEPT ![u] = seen[r].assigned[u] \ {op[r].role}]
               /\ todo'[r] = todo[r] \ {u}
      <4>1. todo[r] \subseteq Users /\ members \subseteq Users
        BY <2>1 DEF LoopsOverEntries
      <4>2. /\ assigned'[u] = seen[r].assigned[u] \ {op[r].role}
            /\ \A v \in Users \ {u} : assigned'[v] = assigned[v]
        BY <3>2, <4>1
      <4>3. /\ \A v \in todo[r] : seen[r].assigned[v] = assigned[v]
            /\ \A v \in members \ todo[r] : op[r].role \notin assigned[v]
        BY <2>1, <2>3 DEF CalmDeletion
      <4>4. \A v \in todo'[r] : seen'[r].assigned[v] = assigned'[v]
        BY <2>1, <3>2, <4>1, <4>2, <4>3
      <4>5. \A v \in members' \ todo'[r] : op'[r].role \notin assigned'[v]
        BY <2>1, <3>2, <4>1, <4>2, <4>3
      <4>6. QED BY <4>4, <4>5 DEF CalmDeletion
    <3>3. QED BY <2>2, <3>1, <3>2
  <2>5. QED BY <2>1, <2>4 DEF CalmHandover, CalmRoles
<1>7. QED BY <1>1, <1>2, <1>3, <1>4, <1>5, <1>6 DEF HandleRoles

LEMMA RolesStayFinite ==
  ASSUME IsFiniteSet(roles), NEW r \in Requests, StepOf(r)
  PROVE  IsFiniteSet(roles')
<1>1. \/ roles' = roles
      \/ \E i : roles' \in {roles \cup {i}, roles \ {i}}
  BY DEF StepOf, Receive, HandleMembers, FindUser, LookUp, Register, RegisterClash,
     UpsertMember, PatchMember, DeleteMember, HandleRoles, ReadTop, InsertRole,
     ListRoles, WriteRole, DropRole, ReadAttached, DetachMember, HandleOwner, ReadTeam,
     KeepOwner, HandOver, WriteColumns, roleVars
<1>2. QED BY <1>1, FS_AddElement, FS_RemoveElement

LEMMA NextCalm == TInv /\ CalmInv /\ [Next]_vars => CalmInv'
<1> SUFFICES ASSUME TInv, CalmInv, [Next]_vars PROVE CalmInv'
  OBVIOUS
<1>1. CASE UNCHANGED vars
  BY <1>1 DEF vars, projectVars, memberVars, roleVars, requestVars, CalmInv, CalmHandover,
     CalmDeletion, CalmRoles, Sorts, MovesNone, Target, Edits
<1>2. ASSUME NEW r \in Requests, StepOf(r), Note(r) PROVE CalmInv'
  <2>1. IsFiniteSet(roles')
    BY <1>2, RolesStayFinite DEF CalmInv
  <2>2. ASSUME NEW q \in Requests, q # r, undisturbed'[q]
        PROVE  (CalmHandover(q) /\ CalmDeletion(q) /\ CalmRoles(q))'
    BY <1>2, <2>2, OthersCalm
  <2>3. ASSUME undisturbed'[r]
        PROVE  (CalmHandover(r) /\ CalmDeletion(r) /\ CalmRoles(r))'
    <3>1. undisturbed[r]
      BY <1>2, <2>3, Undisturbed
    <3>2. ASSUME NEW o \in Asks, Receive(r, o)
          PROVE  (CalmHandover(r) /\ CalmDeletion(r) /\ CalmRoles(r))'
      BY <3>2, TeamAssumption, ReceiveCalm
    <3>3. QED BY <1>2, <3>1, <3>2, MembersCalm, RolesCalm, OwnerCalm DEF StepOf
  <2>4. QED BY <2>1, <2>2, <2>3 DEF CalmInv
<1>3. QED BY <1>1, <1>2 DEF Next, StepOf

LEMMA CalmInductive == Spec => [](TInv /\ CalmInv)
<1>1. Init => CalmInv
  BY TeamAssumption DEF Init, CalmInv, CalmHandover, CalmDeletion, CalmRoles
<1>2. QED BY <1>1, TInductive, NextCalm, PTL DEF Spec

\* A handover that no other request disturbed keeps the former owner in the
\* team, and was asked for by an administrator or by the owner himself
\* (Team!OrderlyHandover).
THEOREM HandoverIsOrderly == Spec => OrderlyHandover
<1> DEFINE A == \A r \in Requests :
                  (owner' # owner /\ At(r, "handover") /\ ~At(r, "handover")'
                                  /\ undisturbed[r])
                    => /\ owner \in members'
                       /\ op[r].by \in Admins \cup {owner}
<1>1. ASSUME TInv, CalmInv, [Next]_vars PROVE [A]_vars
  <2> SUFFICES ASSUME Next, NEW r \in Requests, owner' # owner, At(r, "handover"),
                      ~At(r, "handover")', undisturbed[r]
               PROVE  owner \in members' /\ op[r].by \in Admins \cup {owner}
    BY <1>1
  <2>1. PICK q \in Requests : StepOf(q)
    BY DEF Next, StepOf
  <2>2. q = r
    BY <1>1, <2>1, OnlyOwnRequest DEF At
  <2>3. HandOver(r) /\ op[r].owner \in members
    BY <2>1, <2>2 DEF At, StepOf, Receive, HandleMembers, FindUser, LookUp, Register,
       RegisterClash, UpsertMember, PatchMember, DeleteMember, HandleRoles, ReadTop,
       InsertRole, ListRoles, WriteRole, DropRole, ReadAttached, DetachMember,
       HandleOwner, ReadTeam, KeepOwner, HandOver, WriteColumns
  <2>4. op[r].owner # None
    BY <1>1, <2>3, TeamAssumption DEF TInv, TypeOK
  <2>5. CalmHandover(r)
    BY <1>1 DEF CalmInv
  <2>6. members' = members \ {op[r].owner}
    BY <2>3 DEF HandOver
  <2>7. QED BY <2>4, <2>5, <2>6 DEF CalmHandover, At
<1>2. QED BY <1>1, CalmInductive, PTL DEF Spec, OrderlyHandover

\* A deletion takes the role it deletes, and no other, from the members, and
\* leaves no member with it, unless the members changed meanwhile
\* (Team!DeletionIsExact).
THEOREM DeletionsAreExact == Spec => DeletionIsExact
<1> DEFINE A == \A r \in Requests :
       (/\ rpc[r] \in {"drop", "attached", "detach"}
        /\ <<rpc[r], todo[r]>>' # <<rpc[r], todo[r]>>
        /\ undisturbed[r])
         => /\ \A u \in members : /\ assigned'[u] \subseteq assigned[u]
                                  /\ assigned[u] \ assigned'[u] \subseteq {op[r].role}
            /\ At(r, "ok")' => \A u \in members' : op[r].role \notin assigned'[u]
<1>1. ASSUME TInv, CalmInv, [Next]_vars PROVE [A]_vars
  <2> SUFFICES ASSUME Next, NEW r \in Requests, rpc[r] \in {"drop", "attached", "detach"},
                      <<rpc[r], todo[r]>>' # <<rpc[r], todo[r]>>, undisturbed[r]
               PROVE  /\ \A u \in members :
                           /\ assigned'[u] \subseteq assigned[u]
                           /\ assigned[u] \ assigned'[u] \subseteq {op[r].role}
                      /\ At(r, "ok")' => \A u \in members' : op[r].role \notin assigned'[u]
    BY <1>1
  <2> USE <1>1 DEF TInv, TypeOK, Goto, LoopOrEnd, At
  <2>1. PICK q \in Requests : StepOf(q)
    BY DEF Next, StepOf
  <2>2. q = r
    BY <2>1, OnlyOwnRequest
  <2>3. DropRole(r) \/ ReadAttached(r) \/ DetachMember(r)
    BY <2>1, <2>2 DEF StepOf, Receive, HandleMembers, FindUser, LookUp, Register,
       RegisterClash, UpsertMember, PatchMember, DeleteMember, HandleRoles, ReadTop,
       InsertRole, ListRoles, WriteRole, HandleOwner, ReadTeam, KeepOwner, HandOver,
       WriteColumns
  <2>4. CASE DropRole(r)
    BY <2>4 DEF DropRole, memberVars
  <2>5. CASE ReadAttached(r)
    BY <2>5 DEF ReadAttached, memberVars
  <2>6. CASE DetachMember(r)
    <3>1. todo[r] \subseteq Users /\ members \subseteq Users
      BY <2>6 DEF DetachMember, LoopsOverEntries
    <3>2. CalmDeletion(r)
      BY DEF CalmInv
    <3>3. /\ \A u \in todo[r] : seen[r].assigned[u] = assigned[u]
          /\ \A u \in members \ todo[r] : op[r].role \notin assigned[u]
      BY <2>6, <3>2 DEF DetachMember, CalmDeletion
    <3>4. PICK u \in todo[r] :
            \/ /\ assigned' = [assigned EXCEPT ![u] = seen[r].assigned[u] \ {op[r].role}]
               /\ todo'[r] = todo[r] \ {u}
               /\ rpc'[r] = "ok" => todo[r] \ {u} = {}
            \/ assigned' = assigned /\ rpc'[r] = "threw"
      BY <2>6 DEF DetachMember
    <3>5. members' = members
      BY <2>6 DEF DetachMember
    <3>6. CASE /\ assigned' = [assigned EXCEPT ![u] = seen[r].assigned[u] \ {op[r].role}]
               /\ todo'[r] = todo[r] \ {u}
               /\ rpc'[r] = "ok" => todo[r] \ {u} = {}
      <4>1. /\ assigned'[u] = assigned[u] \ {op[r].role}
            /\ \A v \in Users \ {u} : assigned'[v] = assigned[v]
        BY <3>1, <3>3, <3>6
      <4>2. QED BY <3>1, <3>3, <3>5, <3>6, <4>1
    <3>7. CASE assigned' = assigned /\ rpc'[r] = "threw"
      BY <3>7
    <3>8. QED BY <3>4, <3>6, <3>7
  <2>7. QED BY <2>3, <2>4, <2>5, <2>6
<1>2. QED BY <1>1, CalmInductive, PTL DEF Spec, DeletionIsExact

-----------------------------------------------------------------------------
(* Positions of the roles.  While a request writes its rows two roles may   *)
(* share a position; it is then the one that sorts them.                    *)

Distinct == \A i, j \in roles : position[i] = position[j] => i = j

PositionsSettle ==
  (\A r \in Requests : undisturbed[r])
    => Distinct \/ \E r \in Requests : rpc[r] = "write" /\ Sorts(r)

LEMMA StepSettles ==
  ASSUME TInv, CalmInv, PositionsSettle, NEW r \in Requests, StepOf(r), Note(r)
  PROVE  PositionsSettle'
<1> SUFFICES ASSUME \A q \in Requests : undisturbed'[q]
             PROVE  \/ Distinct'
                    \/ \E q \in Requests : rpc'[q] = "write" /\ Sorts(q)'
  BY DEF PositionsSettle
<1>1. \A q \in Requests : undisturbed[q] /\ (q # r /\ InFlight(q) => Spared(q))
  BY Undisturbed
<1>2. CASE \E q \in Requests \ {r} : rpc[q] = "write" /\ Sorts(q)
  <2>1. PICK q \in Requests \ {r} : rpc[q] = "write" /\ Sorts(q)
    BY <1>2
  <2>2. UNCHANGED <<roles, position>>
    BY <1>1, <2>1 DEF InFlight, Ended, Spared, TInv, InItsHandler, roleVars
  <2>3. /\ rpc'[q] = rpc[q] /\ op'[q] = op[q] /\ todo'[q] = todo[q]
        /\ seen'[q] = seen[q]
    BY <2>1, OnlyOwnRequest
  <2>4. \A i : Target(q, i)' = Target(q, i)
    BY <2>2, <2>3 DEF Target, Edits
  <2>5. Sorts(q)'
    BY <2>1, <2>2, <2>4 DEF Sorts
  <2>6. QED BY <2>1, <2>3, <2>5
<1>3. CASE WriteRole(r) /\ Sorts(r)
  <2>1. /\ roles' = roles
        /\ rpc'[r] \in {"write", "ok"}
        /\ rpc'[r] = "ok" => todo'[r] = {}
        /\ \A i \in Roles : Target(r, i)' = Target(r, i)
    BY <1>1, <1>3, WriteTargets
  <2>2. roles \subseteq Roles
    BY DEF TInv, TypeOK
  <2>3. Sorts(r)'
    BY <1>3, <2>1, <2>2 DEF Sorts
  <2>4. CASE rpc'[r] = "ok"
    BY <2>1, <2>3, <2>4 DEF Distinct, Sorts, Target
  <2>5. QED BY <2>1, <2>3, <2>4
<1>4. CASE WriteRole(r) /\ ~Sorts(r) /\ Distinct
  <2>1. MovesNone(r)
    BY <1>1, <1>4 DEF CalmInv, CalmRoles, WriteRole, At
  <2>2. roles' = roles /\ position' = position
    BY <1>1, <1>4, <2>1, WriteTargets
  <2>3. QED BY <1>4, <2>2 DEF Distinct
<1>5. CASE InsertRole(r) /\ Distinct
  <2>1. \A i \in roles : position[i] < seen[r].top
    BY <1>1, <1>5 DEF CalmInv, CalmRoles, InsertRole, At
  <2>2. /\ op[r].role \in Roles
        /\ roles' = roles \cup {op[r].role}
        /\ position' = [position EXCEPT ![op[r].role] = seen[r].top]
    BY <1>5, BodyFields DEF InsertRole, At, TInv, InItsHandler
  <2>3. /\ position \in [Roles -> Nat] /\ roles \subseteq Roles
        /\ seen[r].top \in Nat
    BY DEF TInv, TypeOK, Reading
  <2>4. Distinct'
    BY <1>5, <2>1, <2>2, <2>3 DEF Distinct
  <2>5. QED BY <2>4
<1>6. CASE DropRole(r) /\ Distinct
  <2>1. /\ roles' \subseteq roles
        /\ \A i \in roles' : position'[i] = position[i]
    BY <1>6 DEF DropRole, roleVars, TInv, TypeOK
  <2>2. QED BY <1>6, <2>1 DEF Distinct
<1>7. CASE ~WriteRole(r) /\ ~InsertRole(r) /\ ~DropRole(r) /\ Distinct
  <2>1. UNCHANGED <<roles, position>>
    BY <1>7 DEF StepOf, Receive, HandleMembers, FindUser, LookUp, Register, RegisterClash,
       UpsertMember, PatchMember, DeleteMember, HandleRoles, ReadTop, ListRoles,
       ReadAttached, DetachMember, HandleOwner, ReadTeam, KeepOwner, HandOver,
       WriteColumns, roleVars
  <2>2. QED BY <1>7, <2>1 DEF Distinct
<1>8. Distinct \/ (\E q \in Requests \ {r} : rpc[q] = "write" /\ Sorts(q))
        \/ (WriteRole(r) /\ Sorts(r))
  <2>1. ASSUME rpc[r] = "write" PROVE WriteRole(r)
    BY <2>1 DEF StepOf, Receive, At, HandleMembers, FindUser, LookUp, Register,
       RegisterClash, UpsertMember, PatchMember, DeleteMember, HandleRoles, ReadTop,
       InsertRole, ListRoles, DropRole, ReadAttached, DetachMember, HandleOwner,
       ReadTeam, KeepOwner, HandOver, WriteColumns
  <2>2. QED BY <1>1, <2>1 DEF PositionsSettle
<1>9. QED BY <1>2, <1>3, <1>4, <1>5, <1>6, <1>7, <1>8

LEMMA NextSettles == TInv /\ CalmInv /\ PositionsSettle /\ [Next]_vars => PositionsSettle'
<1> SUFFICES ASSUME TInv, CalmInv, PositionsSettle, [Next]_vars PROVE PositionsSettle'
  OBVIOUS
<1>1. CASE UNCHANGED vars
  BY <1>1 DEF vars, roleVars, requestVars, PositionsSettle, Distinct, Sorts, Target, Edits
<1>2. ASSUME NEW r \in Requests, StepOf(r), Note(r) PROVE PositionsSettle'
  BY <1>2, StepSettles
<1>3. QED BY <1>1, <1>2 DEF Next, StepOf

\* As long as no request about roles is disturbed by another one, the roles
\* have positions of their own whenever nobody is writing them
\* (Team!DistinctPositions).
THEOREM PositionsAreDistinct == Spec => []DistinctPositions
<1>1. Init => PositionsSettle
  BY TeamAssumption DEF Init, PositionsSettle, Distinct
<1>2. PositionsSettle => DistinctPositions
  BY DEF PositionsSettle, DistinctPositions, Distinct, At
<1>3. QED BY <1>1, <1>2, CalmInductive, NextSettles, PTL DEF Spec
=============================================================================
