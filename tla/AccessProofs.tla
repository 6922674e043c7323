----------------------------- MODULE AccessProofs -----------------------------
(***************************************************************************)
(* Proofs about the administration of the console (Access), for any number *)
(* of requests at a time, of roles, users and tokens, whatever the         *)
(* requests ask for and however their awaits interleave.                   *)
(***************************************************************************)
EXTENDS Access, TLAPS

-----------------------------------------------------------------------------
(* What holds of a request in progress.                                    *)

Answered == {"none", "ok", "refused", "threw"}

Fields == {"ask", "at", "read", "user", "met", "answer"}

RequestOK(r) ==
  /\ DOMAIN requests[r] = Fields
  /\ requests[r].met \subseteq Requests
  /\ requests[r].answer \in Answered
  /\ requests[r].at # "unborn" => requests[r].ask \in Asks

RequestsOK ==
  /\ DOMAIN requests = Requests
  /\ \A r \in Requests : RequestOK(r)

\* A request has met every request in progress while it is.
MetOK ==
  \A r \in Requests :
    /\ \A q \in requests[r].met : requests[q].at # "unborn"
    /\ \A q \in Requests \ {r} : r \in Busy /\ q \in Busy => q \in requests[r].met

\* What a request creates is not there before it has.
Fresh(r) ==
  /\ r \in DOMAIN tokens => requests[r].at = "ended"
  /\ r \in DOMAIN roles => requests[r].at = "ended"
  /\ r \in DOMAIN users => requests[r].at \in {"insertToken", "ended"}

SessionsAreHuman ==
  \A a \in Asks : a.who.session /\ a.who.id \in DOMAIN users => users[a.who.id].human

\* The steps of a request are those of what it asks.
RightStep(r) ==
  /\ requests[r].at = "writeGrants" => Kind(r) = "patchUsers"
  /\ requests[r].at \in {"readRoles", "writeRoles"} => Kind(r) = "patchRoles"
  /\ requests[r].at \in {"findLast", "insertRole"} => Kind(r) = "createRole"
  /\ requests[r].at \in {"findHolders", "writeHolders", "deleteRole"} => Kind(r) = "deleteRole"
  /\ requests[r].at = "insertBot" => Kind(r) = "createAdminToken"
  /\ requests[r].at = "insertToken" => Kind(r) \in {"createAdminToken", "createPersonalToken"}
  /\ requests[r].at = "revoke" => Kind(r) = "deleteAdminToken"
  /\ requests[r].at \in {"findOwn", "deleteOwn"} => Kind(r) = "deletePersonalToken"
  /\ requests[r].at \in {"findUser", "findRoles", "writeUser"} => Who(r).session
  /\ requests[r].at \in {"findToken", "useToken", "sumRoles"} => ~Who(r).session

Made(t) == t \in Requests => requests[t].at = "ended"

\* What it read, or what authenticated it, is what its next writes count on.
RightRead(r) ==
  /\ At(r, "writeRoles") =>
       \A x \in DOMAIN Read(r) : /\ DOMAIN Read(r)[x] = {"position", "manage", "group"}
                                 /\ Read(r)[x].position \in Int /\ Read(r)[x].manage \in BOOLEAN
  /\ At(r, "insertRole") => Read(r) \in Int
  /\ At(r, "writeGrants") => Read(r) \subseteq DOMAIN Ask(r).grants
  /\ At(r, "writeHolders") => DOMAIN Read(r) \subseteq DOMAIN users
  /\ requests[r].at \in {"useToken", "sumRoles"} =>
       /\ Made(Who(r).id) /\ Read(r).owner \in DOMAIN users
       /\ Who(r).id \in DOMAIN tokens => tokens[Who(r).id].owner = Read(r).owner
  /\ At(r, "useToken") /\ Who(r).id \in DOMAIN tokens =>
       (users[Read(r).owner].human <=> tokens[Who(r).id].personal)
  /\ At(r, "sumRoles") =>
       /\ users[Read(r).owner].human
       /\ Who(r).id \in DOMAIN tokens => tokens[Who(r).id].personal
  /\ At(r, "insertToken") /\ Kind(r) = "createPersonalToken" =>
       requests[r].user \in DOMAIN users /\ users[requests[r].user].human
  /\ At(r, "insertToken") /\ Kind(r) = "createAdminToken" =>
       /\ r \in DOMAIN users /\ ~users[r].human
       /\ \A t \in DOMAIN tokens : tokens[t].owner # r

BaseInv ==
  /\ Sound(roles, users, tokens)
  /\ RequestsOK /\ MetOK /\ SessionsAreHuman
  /\ \A r \in Requests : Fresh(r) /\ RightStep(r) /\ RightRead(r)

-----------------------------------------------------------------------------
(* What authentication counts on.                                          *)

Disturbed(r) == \E b \in Met(r) : Takes(b, Who(r))

\* The token the request came with is as the request read it.
TokenAsRead(r) ==
  LET t == Who(r).id IN
  /\ t \in DOMAIN tokens /\ tokens[t].usable
  /\ tokens[t].manage = Read(r).manage
  /\ users[tokens[t].owner].roles = Read(r).roles

RightsOK(r) ==
  /\ At(r, "findRoles") /\ Read(r) # Absent =>
       /\ Who(r).id \in DOMAIN users
       /\ users[Who(r).id].roles = Read(r) \/ Disturbed(r)
  /\ At(r, "writeUser") /\ Read(r).stored # Absent =>
       /\ Who(r).id \in DOMAIN users
       /\ Read(r).manage => Holds(Who(r)) \/ Disturbed(r)
  /\ requests[r].at \in {"useToken", "sumRoles"} => TokenAsRead(r) \/ Disturbed(r)

-----------------------------------------------------------------------------
(* What an administrator is told.                                          *)

Regranted(r, u) ==
  \E b \in Met(r) : \/ SessionOf(b, u)
                    \/ b.kind = "patchUsers" /\ u \in DOMAIN b.grants
                    \/ b.kind = "deleteRole"

Reassigned(r, u) ==
  \E b \in Met(r) : \/ SessionOf(b, u)
                    \/ /\ b.kind = "patchUsers" /\ u \in DOMAIN b.grants
                       /\ Ask(r).role \in b.grants[u]
                    \/ b.kind = "deleteRole"

RolesOK(r) ==
  /\ At(r, "writeGrants") =>
       \A u \in DOMAIN Ask(r).grants \ Read(r) :
         /\ u \in DOMAIN users
         /\ users[u].roles = Ask(r).grants[u] \/ Regranted(r, u)
  /\ At(r, "writeHolders") =>
       \A u \in DOMAIN users :
         \/ Ask(r).role \notin users[u].roles
         \/ u \in DOMAIN Read(r)
         \/ Reassigned(r, u)
  /\ At(r, "writeHolders") => \A u \in DOMAIN Read(r) : Ask(r).role \notin Read(r)[u]
  /\ At(r, "deleteRole") =>
       \A u \in DOMAIN users : Ask(r).role \notin users[u].roles \/ Reassigned(r, u)

AInv == BaseInv /\ \A r \in Requests : RightsOK(r) /\ RolesOK(r)

-----------------------------------------------------------------------------
(* How requests move.                                                      *)

\* What a step of a request leaves as it is.
Moved(r) ==
  /\ DOMAIN requests' = Requests
  /\ \A q \in Requests \ {r} : requests'[q] = requests[q]
  /\ DOMAIN requests'[r] = Fields
  /\ requests'[r].ask = requests[r].ask
  /\ requests'[r].met = requests[r].met
  /\ requests'[r].answer \in Answered
  /\ requests'[r].at # "unborn"

LEMMA EndMoves ==
  ASSUME RequestsOK, NEW r \in Requests, NEW answer \in Answered, End(r, answer)
  PROVE  /\ Moved(r) /\ requests'[r].at = "ended" /\ requests'[r].answer = answer
         /\ requests'[r].read = Absent
BY DEF RequestsOK, RequestOK, End, Moved, Fields

LEMMA ToMoves ==
  ASSUME RequestsOK, NEW r \in Requests, NEW step, step # "unborn", NEW read,
         To(r, step, read)
  PROVE  /\ Moved(r) /\ requests'[r].at = step /\ requests'[r].read = read
         /\ requests'[r].user = requests[r].user
         /\ requests'[r].answer = requests[r].answer
BY DEF RequestsOK, RequestOK, To, Moved, Fields

AllKinds == AdminKinds \cup {"createPersonalToken", "deletePersonalToken"}

LEMMA FirstSteps ==
  /\ FirstStep["patchUsers"] = "writeGrants" /\ FirstStep["patchRoles"] = "readRoles"
  /\ FirstStep["createRole"] = "findLast" /\ FirstStep["deleteRole"] = "findHolders"
  /\ FirstStep["createAdminToken"] = "insertBot" /\ FirstStep["deleteAdminToken"] = "revoke"
  /\ FirstStep["createPersonalToken"] = "insertToken"
  /\ FirstStep["deletePersonalToken"] = "findOwn"
BY DEF FirstStep

\* Whom authentication lets through, and to where.
LetThrough(r, u, human, manage) ==
  /\ requests'[r].at = FirstStep[Kind(r)] /\ requests'[r].user = u
  /\ requests'[r].read = IF Kind(r) = "patchUsers" THEN DOMAIN Ask(r).grants ELSE Absent
  /\ Kind(r) \in AllKinds
  /\ Kind(r) \in AdminKinds => manage
  /\ Kind(r) \notin AdminKinds => human

LEMMA AuthenticatedMoves ==
  ASSUME RequestsOK, NEW r \in Requests, Accepted(Ask(r)),
         NEW u, NEW human, NEW manage, Authenticated(r, u, human, manage)
  PROVE  /\ Moved(r)
         /\ \/ requests'[r].at = "ended" /\ (requests'[r].answer = "ok" => Kind(r) = "auth")
            \/ LetThrough(r, u, human, manage)
<1>1. {"ok", "refused"} \subseteq Answered
  BY DEF Answered
<1>2. CASE Kind(r) = "auth"
  <2>1. End(r, "ok")
    BY <1>2 DEF Authenticated, AdminKinds
  <2>2. QED BY <1>1, <1>2, <2>1, EndMoves
<1>3. CASE End(r, "refused")
  BY <1>1, <1>3, EndMoves
<1>4. CASE Kind(r) # "auth" /\ ~End(r, "refused")
  <2>1. /\ requests' = [requests EXCEPT
             ![r].at = FirstStep[Kind(r)], ![r].user = u,
             ![r].read = IF Kind(r) = "patchUsers" THEN DOMAIN Ask(r).grants ELSE Absent]
        /\ Kind(r) \in AdminKinds => manage
        /\ Kind(r) \notin AdminKinds => human
    BY <1>4 DEF Authenticated
  <2>2. Kind(r) \in AllKinds
    BY <1>4 DEF Accepted, AllKinds, Kind
  <2>3. FirstStep[Kind(r)] # "unborn"
    BY <2>2, FirstSteps DEF AllKinds, AdminKinds
  <2>4. QED BY <2>1, <2>2, <2>3 DEF RequestsOK, RequestOK, Moved, Fields, LetThrough
<1>5. QED BY <1>2, <1>3, <1>4

\* The steps of a request in progress.
Step(r) ==
  \/ FindUser(r) \/ FindRoles(r) \/ WriteUser(r)
  \/ FindToken(r) \/ UseToken(r) \/ SumRoles(r)
  \/ PatchUsers(r) \/ ReadRoles(r) \/ WriteRoles(r)
  \/ CreateRole(r) \/ FindHolders(r) \/ WriteHolders(r) \/ DeleteRole(r)
  \/ InsertBot(r) \/ InsertToken(r) \/ Revoke(r) \/ DeleteOwn(r)

LEMMA StepBusy ==
  ASSUME NEW r \in Requests, Step(r)
  PROVE  r \in Busy
BY DEF Step, FindUser, FindRoles, WriteUser, FindToken, UseToken, SumRoles, PatchUsers,
   ReadRoles, WriteRoles, CreateRole, FindHolders, WriteHolders, DeleteRole, InsertBot,
   InsertToken, Revoke, DeleteOwn, At, Busy

LEMMA Asked ==
  ASSUME RequestsOK, NEW r \in Requests, requests[r].at # "unborn"
  PROVE  Ask(r) \in Asks /\ Accepted(Ask(r))
BY AccessAssumption DEF RequestsOK, RequestOK, Ask

\* A step ends its request, takes it on, or authenticates it.
LEMMA StepForms ==
  ASSUME NEW r \in Requests, Step(r)
  PROVE  \/ \E answer \in Answered : End(r, answer)
         \/ \E step, read : step # "unborn" /\ To(r, step, read)
         \/ \E u, human, manage : Authenticated(r, u, human, manage)
<1>1. CASE FindUser(r) \/ FindRoles(r) \/ FindHolders(r) \/ InsertBot(r)
  BY <1>1 DEF FindUser, FindRoles, FindHolders, InsertBot
<1>2. CASE WriteUser(r) \/ FindToken(r) \/ UseToken(r) \/ SumRoles(r)
  BY <1>2 DEF WriteUser, FindToken, UseToken, SumRoles, Answered
<1>3. CASE PatchUsers(r)
  <2>1. requests[r].at = "writeGrants"
    BY <1>3 DEF PatchUsers, At
  <2>2. \/ End(r, "ok") \/ End(r, "threw")
        \/ \E read : To(r, requests[r].at, read)
    BY <1>3 DEF PatchUsers, Each
  <2>3. QED BY <2>1, <2>2 DEF Answered
<1>4. CASE ReadRoles(r) \/ WriteRoles(r) \/ CreateRole(r)
  BY <1>4 DEF ReadRoles, WriteRoles, CreateRole, Answered
<1>5. CASE WriteHolders(r) \/ DeleteRole(r) \/ InsertToken(r) \/ Revoke(r) \/ DeleteOwn(r)
  BY <1>5 DEF WriteHolders, DeleteRole, InsertToken, Revoke, DeleteOwn, Answered
<1>6. QED BY <1>1, <1>2, <1>3, <1>4, <1>5 DEF Step

LEMMA StepMoves ==
  ASSUME RequestsOK, NEW r \in Requests, Step(r)
  PROVE  Moved(r)
<1>1. requests[r].at # "unborn"
  BY StepBusy DEF Busy
<1>2. QED BY <1>1, StepForms, Asked, EndMoves, ToMoves, AuthenticatedMoves

\* A request comes and meets those in progress.
Arrived(r) ==
  /\ DOMAIN requests' = Requests /\ UNCHANGED db
  /\ requests[r].at = "unborn"
  /\ DOMAIN requests'[r] = Fields /\ requests'[r].met = Busy /\ requests'[r].answer = "none"
  /\ requests'[r].ask \in Asks
  /\ requests'[r].at = IF requests'[r].ask.who.session THEN "findUser" ELSE "findToken"
  /\ \A q \in Requests \ {r} :
       /\ DOMAIN requests'[q] = Fields
       /\ requests'[q].ask = requests[q].ask /\ requests'[q].at = requests[q].at
       /\ requests'[q].read = requests[q].read /\ requests'[q].user = requests[q].user
       /\ requests'[q].answer = requests[q].answer
       /\ requests'[q].met = IF q \in Busy THEN requests[q].met \cup {r} ELSE requests[q].met

LEMMA ReceiveArrives ==
  ASSUME RequestsOK, NEW r \in Requests, Receive(r)
  PROVE  Arrived(r)
<1>1. PICK a \in Asks :
        requests' = [q \in Requests |->
          IF q = r THEN [Unborn EXCEPT
                           !.ask = a, !.met = Busy,
                           !.at = IF a.who.session THEN "findUser" ELSE "findToken"]
          ELSE IF q \in Busy THEN [requests[q] EXCEPT !.met = @ \cup {r}]
          ELSE requests[q]]
  BY DEF Receive
<1>2. requests'[r] = [ask |-> a, at |-> IF a.who.session THEN "findUser" ELSE "findToken",
                      read |-> Absent, user |-> Absent, met |-> Busy, answer |-> "none"]
  BY <1>1 DEF Unborn
<1>3. requests[r].at = "unborn" /\ UNCHANGED db /\ DOMAIN requests' = Requests
  BY <1>1 DEF Receive, Unborn
<1>4. ASSUME NEW q \in Requests \ {r}
      PROVE  /\ DOMAIN requests'[q] = Fields
             /\ requests'[q].ask = requests[q].ask /\ requests'[q].at = requests[q].at
             /\ requests'[q].read = requests[q].read /\ requests'[q].user = requests[q].user
             /\ requests'[q].answer = requests[q].answer
             /\ requests'[q].met = IF q \in Busy THEN requests[q].met \cup {r}
                                                 ELSE requests[q].met
  <2>1. CASE q \in Busy
    <3>1. requests'[q] = [requests[q] EXCEPT !.met = @ \cup {r}]
      BY <1>1, <2>1
    <3>2. QED BY <2>1, <3>1 DEF RequestsOK, RequestOK, Fields
  <2>2. CASE q \notin Busy
    <3>1. requests'[q] = requests[q]
      BY <1>1, <2>2
    <3>2. QED BY <2>2, <3>1 DEF RequestsOK, RequestOK
  <2>3. QED BY <2>1, <2>2
<1>5. /\ DOMAIN requests'[r] = Fields /\ requests'[r].met = Busy
      /\ requests'[r].answer = "none" /\ requests'[r].ask = a
      /\ requests'[r].at = IF a.who.session THEN "findUser" ELSE "findToken"
  BY <1>2 DEF Fields
<1>6. QED BY <1>3, <1>4, <1>5 DEF Arrived

LEMMA NextForms ==
  ASSUME RequestsOK, Next
  PROVE  \E r \in Requests : Arrived(r) \/ (Step(r) /\ Moved(r) /\ r \in Busy)
BY ReceiveArrives, StepMoves, StepBusy DEF Next, Step

LEMMA NextRequests ==
  ASSUME RequestsOK, Next
  PROVE  RequestsOK'
<1>1. PICK r \in Requests : Arrived(r) \/ (Step(r) /\ Moved(r) /\ r \in Busy)
  BY NextForms
<1>2. CASE Arrived(r)
  <2>1. \A q \in Requests : RequestOK(q)
    BY DEF RequestsOK
  <2>2. Busy \subseteq Requests
    BY DEF Busy
  <2>3. RequestOK(r)'
    BY <1>2, <2>2 DEF Arrived, RequestOK, Answered
  <2>4. ASSUME NEW q \in Requests \ {r} PROVE RequestOK(q)'
    <3>1. requests'[q].met \subseteq requests[q].met \cup {r}
      BY <1>2 DEF Arrived
    <3>2. /\ requests[q].met \subseteq Requests /\ requests[q].answer \in Answered
          /\ requests[q].at # "unborn" => requests[q].ask \in Asks
      BY <2>1 DEF RequestOK
    <3>3. /\ DOMAIN requests'[q] = Fields /\ requests'[q].ask = requests[q].ask
          /\ requests'[q].at = requests[q].at /\ requests'[q].answer = requests[q].answer
      BY <1>2 DEF Arrived
    <3>4. QED BY <3>1, <3>2, <3>3 DEF RequestOK
  <2>5. QED BY <1>2, <2>3, <2>4 DEF RequestsOK, Arrived
<1>3. CASE Moved(r) /\ r \in Busy
  BY <1>3 DEF Moved, RequestsOK, RequestOK, Busy
<1>4. QED BY <1>1, <1>2, <1>3

LEMMA NextMet ==
  ASSUME RequestsOK, MetOK, Next
  PROVE  MetOK'
<1>1. PICK r \in Requests : Arrived(r) \/ (Step(r) /\ Moved(r) /\ r \in Busy)
  BY NextForms
<1>2. CASE Arrived(r)
  <2>1. \A q \in Requests : q \in Busy' <=> q \in Busy \/ q = r
    <3>1. \A q \in Requests : /\ q \in Busy <=> requests[q].at \notin {"unborn", "ended"}
                              /\ q \in Busy' <=> requests'[q].at \notin {"unborn", "ended"}
      BY DEF Busy
    <3>2. r \in Busy'
      BY <1>2, <3>1 DEF Arrived
    <3>3. \A q \in Requests \ {r} : q \in Busy' <=> q \in Busy
      BY <1>2, <3>1 DEF Arrived
    <3>4. QED BY <3>2, <3>3
  <2>2. \A q \in Requests : requests[q].at # "unborn" => requests'[q].at # "unborn" /\ q # r
    BY <1>2 DEF Arrived
  <2>3. requests'[r].at # "unborn"
    BY <1>2 DEF Arrived
  <2>4. ASSUME NEW q \in Requests
        PROVE  /\ \A p \in requests'[q].met : requests'[p].at # "unborn"
               /\ \A p \in Requests \ {q} : q \in Busy' /\ p \in Busy' => p \in requests'[q].met
    <3>1. CASE q = r
      <4>1. \A p \in Busy : p \in Requests /\ requests'[p].at # "unborn"
        BY <2>2 DEF Busy
      <4>2. QED BY <1>2, <2>1, <3>1, <4>1 DEF Arrived
    <3>2. CASE q # r
      <4>1. /\ requests'[q].met \subseteq requests[q].met \cup {r}
            /\ requests[q].met \subseteq requests'[q].met
            /\ q \in Busy => r \in requests'[q].met
        BY <1>2, <3>2 DEF Arrived
      <4>2. requests[q].met \subseteq Requests
        BY DEF RequestsOK, RequestOK
      <4>3. \A p \in requests'[q].met : requests'[p].at # "unborn"
        BY <2>2, <2>3, <4>1, <4>2 DEF MetOK
      <4>4. \A p \in Requests \ {q} : q \in Busy' /\ p \in Busy' => p \in requests'[q].met
        BY <2>1, <3>2, <4>1 DEF MetOK
      <4>5. QED BY <4>3, <4>4
    <3>3. QED BY <3>1, <3>2
  <2>5. QED BY <2>4 DEF MetOK
<1>3. CASE Moved(r) /\ r \in Busy
  <2>1. /\ \A q \in Requests : requests[q].at # "unborn" => requests'[q].at # "unborn"
        /\ \A q \in Requests : requests'[q].met = requests[q].met
        /\ Busy' \subseteq Busy
    BY <1>3 DEF Moved, Busy
  <2>2. \A q \in Requests : requests[q].met \subseteq Requests
    BY DEF RequestsOK, RequestOK
  <2>3. QED BY <2>1, <2>2 DEF MetOK
<1>4. QED BY <1>1, <1>2, <1>3

-----------------------------------------------------------------------------
(* What the steps write.                                                   *)

LEMMA StepKind ==
  ASSUME NEW r \in Requests, BaseInv, Step(r)
  PROVE  Ask(r) \in Asks /\ Accepted(Ask(r)) /\ RightStep(r) /\ RightRead(r) /\ Fresh(r)
BY StepBusy, Asked DEF BaseInv, Busy

\* Roles only change by an edit or a deletion, and grow by what is created.
LEMMA RolesWritten ==
  ASSUME NEW r \in Requests, BaseInv, Step(r)
  PROVE  /\ Kind(r) \notin {"patchRoles", "deleteRole"} =>
              \A x \in DOMAIN roles : x \in DOMAIN roles' /\ roles'[x] = roles[x]
         /\ DOMAIN roles' \subseteq DOMAIN roles \cup {r}
         /\ r \in DOMAIN roles' => requests'[r].at = "ended"
<1>1. RightStep(r) /\ Fresh(r) /\ RequestsOK
  BY StepKind DEF BaseInv
<1>2. CASE WriteRoles(r)
  BY <1>1, <1>2, StepBusy DEF WriteRoles, RightStep, At, Fresh, Busy
<1>3. CASE DeleteRole(r)
  BY <1>1, <1>3, StepBusy DEF DeleteRole, RightStep, At, Without, Fresh, Busy
<1>4. CASE CreateRole(r) /\ At(r, "insertRole")
  <2>1. /\ roles' = [x \in DOMAIN roles \cup {r} |->
                      IF x = r THEN [position |-> Read(r), manage |-> FALSE, group |-> ""]
                               ELSE roles[x]]
        /\ End(r, "ok") /\ r \notin DOMAIN roles
    BY <1>1, <1>4 DEF CreateRole, At, Fresh
  <2>2. requests'[r].at = "ended"
    BY <1>1, <2>1, EndMoves DEF Answered
  <2>3. QED BY <2>1, <2>2
<1>5. CASE ~WriteRoles(r) /\ ~DeleteRole(r) /\ ~(CreateRole(r) /\ At(r, "insertRole"))
  <2>1. UNCHANGED roles
    BY <1>5 DEF Step, FindUser, FindRoles, WriteUser, FindToken, UseToken, SumRoles,
       PatchUsers, ReadRoles, CreateRole, FindHolders, WriteHolders, InsertBot,
       InsertToken, Revoke, DeleteOwn, db
  <2>2. r \notin DOMAIN roles
    BY <1>1, StepBusy DEF Fresh, Busy
  <2>3. QED BY <2>1, <2>2
<1>6. QED BY <1>2, <1>3, <1>4, <1>5

\* Who may write the roles of a user, and create it.
LEMMA UsersWritten ==
  ASSUME NEW r \in Requests, BaseInv, Step(r)
  PROVE  /\ \A u \in DOMAIN users :
              /\ u \in DOMAIN users'
              /\ users'[u].human = users[u].human
              /\ \/ users'[u].roles = users[u].roles
                 \/ /\ Kind(r) = "patchUsers" /\ u \in DOMAIN Ask(r).grants
                    /\ users'[u].roles = Ask(r).grants[u]
                 \/ Kind(r) = "deleteRole"
                 \/ Who(r).session /\ Who(r).id = u
         /\ \A u \in DOMAIN users' : u \notin DOMAIN users =>
              \/ Who(r).session /\ Who(r).id = u /\ users'[u].human
              \/ /\ u = r /\ ~users'[u].human /\ users'[u].roles = {}
                 /\ requests'[r].at = "insertToken" /\ Kind(r) = "createAdminToken"
         /\ \A u \in DOMAIN users' : DOMAIN users'[u] = {"roles", "human"}
                                     /\ users'[u].human \in BOOLEAN
<1>1. RightStep(r) /\ RightRead(r) /\ Fresh(r) /\ RequestsOK /\ Ask(r) \in Asks
  BY StepKind DEF BaseInv
<1>2. \A u \in DOMAIN users : DOMAIN users[u] = {"roles", "human"} /\ users[u].human \in BOOLEAN
  BY DEF BaseInv, Sound
<1>3. CASE WriteUser(r)
  <2>1. Who(r).session /\ (Who(r).id \in DOMAIN users => users[Who(r).id].human)
    BY <1>1, <1>3 DEF WriteUser, At, RightStep, BaseInv, SessionsAreHuman, Who
  <2>2. PICK w, k : w = Who(r).id /\ k = [roles |-> Read(r).kept, human |-> TRUE]
    OBVIOUS
  <2>3. CASE users' = users
    BY <1>2, <2>3
  <2>4. CASE users' = [v \in DOMAIN users \cup {w} |-> IF v = w THEN k ELSE users[v]]
    <3>1. DOMAIN k = {"roles", "human"} /\ k.human = TRUE
      BY <2>2
    <3>2. DOMAIN users' = DOMAIN users \cup {w}
      BY <2>4
    <3>3. users'[w] = k /\ \A v \in DOMAIN users : v # w => users'[v] = users[v]
      BY <2>4
    <3>4. w = Who(r).id
      BY <2>2
    <3>5. QED BY <1>2, <2>1, <3>1, <3>2, <3>3, <3>4
  <2>5. QED BY <1>3, <2>2, <2>3, <2>4 DEF WriteUser
<1>4. CASE PatchUsers(r)
  <2>1. Kind(r) = "patchUsers"
    BY <1>1, <1>4 DEF PatchUsers, RightStep, At
  <2>2. PICK u \in Read(r) :
          \/ users' = users
          \/ u \in DOMAIN users /\ users' = [users EXCEPT ![u].roles = Ask(r).grants[u]]
    BY <1>4 DEF PatchUsers
  <2>3. u \in DOMAIN Ask(r).grants
    BY <1>1, <1>4 DEF PatchUsers, RightRead
  <2>4. QED BY <1>2, <2>1, <2>2, <2>3
<1>5. CASE WriteHolders(r)
  <2>1. Kind(r) = "deleteRole"
    BY <1>1, <1>5 DEF WriteHolders, RightStep, At
  <2>2. PICK u \in DOMAIN Read(r) : users' = [users EXCEPT ![u].roles = Read(r)[u]]
    BY <1>5 DEF WriteHolders
  <2>3. u \in DOMAIN users
    BY <1>1, <1>5 DEF WriteHolders, RightRead
  <2>4. QED BY <1>2, <2>1, <2>2, <2>3
<1>6. CASE InsertBot(r)
  <2>1. /\ users' = [u \in DOMAIN users \cup {r} |->
                      IF u = r THEN [roles |-> {}, human |-> FALSE] ELSE users[u]]
        /\ r \notin DOMAIN users /\ Kind(r) = "createAdminToken"
        /\ requests'[r].at = "insertToken"
    BY <1>1, <1>6, ToMoves DEF InsertBot, Fresh, RightStep, At
  <2>2. QED BY <1>2, <2>1
<1>7. CASE ~WriteUser(r) /\ ~PatchUsers(r) /\ ~WriteHolders(r) /\ ~InsertBot(r)
  <2>1. UNCHANGED users
    BY <1>7 DEF Step, FindUser, FindRoles, FindToken, UseToken, SumRoles, ReadRoles,
       WriteRoles, CreateRole, FindHolders, DeleteRole, InsertToken, Revoke, DeleteOwn, db
  <2>2. QED BY <1>2, <2>1
<1>8. QED BY <1>3, <1>4, <1>5, <1>6, <1>7

\* Tokens are created by the request they are named after, and keep their owner.
LEMMA TokensWritten ==
  ASSUME NEW r \in Requests, BaseInv, Step(r)
  PROVE  /\ \A t \in DOMAIN tokens :
              /\ Kind(r) \notin {"deleteAdminToken", "deletePersonalToken"} =>
                   t \in DOMAIN tokens' /\ tokens'[t] = tokens[t]
              /\ Kind(r) = "deleteAdminToken" => t \in DOMAIN tokens'
         /\ \A t \in DOMAIN tokens' : t # r =>
              /\ t \in DOMAIN tokens
              /\ tokens'[t].owner = tokens[t].owner
              /\ tokens'[t].personal = tokens[t].personal
              /\ DOMAIN tokens'[t] = DOMAIN tokens[t]
         /\ r \notin DOMAIN tokens
         /\ r \in DOMAIN tokens' =>
              /\ At(r, "insertToken") /\ requests'[r].at = "ended" /\ UNCHANGED users
              /\ DOMAIN tokens'[r] = {"owner", "personal", "usable", "manage"}
              /\ tokens'[r].personal = (Kind(r) = "createPersonalToken")
              /\ tokens'[r].owner = IF Kind(r) = "createPersonalToken"
                                      THEN requests[r].user ELSE r
<1>1. RightStep(r) /\ Fresh(r) /\ RequestsOK
  BY StepKind DEF BaseInv
<1>2. r \notin DOMAIN tokens
  BY <1>1, StepBusy DEF Fresh, Busy
<1>3. \A t \in DOMAIN tokens : DOMAIN tokens[t] = {"owner", "personal", "usable", "manage"}
  BY DEF BaseInv, Sound
<1>4. CASE InsertToken(r)
  <2>1. /\ Kind(r) \in {"createAdminToken", "createPersonalToken"}
        /\ End(r, "ok") /\ UNCHANGED users /\ At(r, "insertToken")
    BY <1>1, <1>4 DEF InsertToken, RightStep, At
  <2>2. requests'[r].at = "ended"
    BY <1>1, <2>1, EndMoves DEF Answered
  <2>3. PICK k : k = [owner |-> IF Kind(r) = "createPersonalToken" THEN requests[r].user ELSE r,
                      personal |-> (Kind(r) = "createPersonalToken"), usable |-> TRUE,
                      manage |-> ~(Kind(r) = "createPersonalToken") /\ Ask(r).manage]
    OBVIOUS
  <2>4. tokens' = [t \in DOMAIN tokens \cup {r} |-> IF t = r THEN k ELSE tokens[t]]
    BY <1>4, <2>3 DEF InsertToken
  <2>5. /\ DOMAIN k = {"owner", "personal", "usable", "manage"}
        /\ k.personal = (Kind(r) = "createPersonalToken")
        /\ k.owner = IF Kind(r) = "createPersonalToken" THEN requests[r].user ELSE r
    BY <2>3
  <2>6. QED BY <1>2, <2>1, <2>2, <2>4, <2>5
<1>5. CASE Revoke(r)
  <2>1. /\ Kind(r) = "deleteAdminToken"
        /\ tokens' = [t \in DOMAIN tokens |->
                        IF t = Ask(r).token /\ ~tokens[t].personal
                          THEN [tokens[t] EXCEPT !.usable = FALSE] ELSE tokens[t]]
    BY <1>1, <1>5 DEF Revoke, RightStep, At
  <2>2. QED BY <1>2, <1>3, <2>1
<1>6. CASE DeleteOwn(r)
  <2>1. /\ Kind(r) = "deletePersonalToken"
        /\ tokens' = tokens \/ tokens' = Without(tokens, Ask(r).token)
    BY <1>1, <1>6 DEF DeleteOwn, RightStep, At
  <2>2. QED BY <1>2, <1>3, <2>1 DEF Without
<1>7. CASE ~InsertToken(r) /\ ~Revoke(r) /\ ~DeleteOwn(r)
  <2>1. UNCHANGED tokens
    BY <1>7 DEF Step, FindUser, FindRoles, FindToken, UseToken, SumRoles, ReadRoles,
       WriteRoles, CreateRole, FindHolders, DeleteRole, WriteUser, PatchUsers,
       WriteHolders, InsertBot, db
  <2>2. QED BY <1>2, <2>1
<1>8. QED BY <1>4, <1>5, <1>6, <1>7

-----------------------------------------------------------------------------
(* Where a request in progress goes.                                       *)

Goes(r) ==
  \/ requests'[r].at = "ended"
  \/ /\ At(r, "findUser") /\ requests'[r].at = "findRoles" /\ UNCHANGED db
     /\ requests'[r].read = IF Who(r).id \in DOMAIN users THEN users[Who(r).id].roles
                                                          ELSE Absent
  \/ /\ At(r, "findRoles") /\ requests'[r].at = "writeUser" /\ UNCHANGED db
     /\ requests'[r].read.stored = Read(r)
     /\ Read(r) # Absent /\ requests'[r].read.manage =>
          Manage(FromGroups(Who(r).groups) \cup (Read(r) \cap DOMAIN roles))
  \/ /\ At(r, "findToken") /\ requests'[r].at = "useToken" /\ UNCHANGED db
     /\ Who(r).id \in DOMAIN tokens /\ tokens[Who(r).id].usable
     /\ requests'[r].read.owner = tokens[Who(r).id].owner
     /\ requests'[r].read.manage = tokens[Who(r).id].manage
     /\ requests'[r].read.roles = users[tokens[Who(r).id].owner].roles
  \/ /\ At(r, "useToken") /\ requests'[r].at = "sumRoles" /\ UNCHANGED db
     /\ Who(r).id \in DOMAIN tokens /\ tokens[Who(r).id].personal
     /\ requests'[r].read = Read(r)
  \/ /\ At(r, "readRoles") /\ requests'[r].at = "writeRoles" /\ UNCHANGED db
     /\ DOMAIN requests'[r].read \subseteq DOMAIN roles \cap DOMAIN Ask(r).patches
     /\ \A x \in DOMAIN requests'[r].read :
          requests'[r].read[x] = Patched(roles[x], Ask(r).patches[x])
  \/ /\ At(r, "writeRoles") /\ requests'[r].at = "writeRoles"
     /\ \E x \in DOMAIN Read(r) : requests'[r].read = Without(Read(r), x)
  \/ /\ At(r, "findLast") /\ requests'[r].at = "insertRole" /\ UNCHANGED db
     /\ requests'[r].read \in Int
  \/ At(r, "findOwn") /\ requests'[r].at = "deleteOwn" /\ UNCHANGED db

\* Authentication ends and the handler begins.
Enters(r) ==
  /\ requests'[r].at = FirstStep[Kind(r)] /\ Kind(r) \in AllKinds
  /\ requests'[r].read = IF Kind(r) = "patchUsers" THEN DOMAIN Ask(r).grants ELSE Absent
  /\ UNCHANGED <<roles, tokens>>
  /\ \/ /\ At(r, "writeUser") /\ requests'[r].user = Who(r).id
        /\ Who(r).id \in DOMAIN users' /\ users'[Who(r).id].human
        /\ Kind(r) \in AdminKinds => Read(r).manage
        /\ Who(r).id \in DOMAIN users => Read(r).stored # Absent
     \/ /\ At(r, "useToken") /\ UNCHANGED users
        /\ Kind(r) \in AdminKinds /\ Read(r).manage
        /\ Who(r).id \in DOMAIN tokens /\ ~tokens[Who(r).id].personal
     \/ /\ At(r, "sumRoles") /\ UNCHANGED users /\ requests'[r].user = Read(r).owner
        /\ Kind(r) \in AdminKinds => Manage(Read(r).roles)

\* The loops over the users, and what is made for an administrator's token.
Writes(r) ==
  \/ /\ At(r, "writeGrants") /\ requests'[r].at = "writeGrants"
     /\ \E u \in Read(r) \cap DOMAIN users :
          /\ users' = [users EXCEPT ![u].roles = Ask(r).grants[u]]
          /\ requests'[r].read = Read(r) \ {u}
  \/ /\ At(r, "findHolders") /\ requests'[r].at = "deleteRole" /\ UNCHANGED db
     /\ \A u \in DOMAIN users : Ask(r).role \notin users[u].roles
  \/ /\ At(r, "findHolders") /\ requests'[r].at = "writeHolders" /\ UNCHANGED db
     /\ requests'[r].read =
          [u \in {v \in DOMAIN users : Ask(r).role \in users[v].roles} |->
             users[u].roles \ {Ask(r).role}]
  \/ /\ At(r, "writeHolders")
     /\ \E u \in DOMAIN Read(r) :
          /\ users' = [users EXCEPT ![u].roles = Read(r)[u]]
          /\ \/ DOMAIN Read(r) = {u} /\ requests'[r].at = "deleteRole"
             \/ requests'[r].at = "writeHolders" /\ requests'[r].read = Without(Read(r), u)
  \/ /\ At(r, "insertBot") /\ requests'[r].at = "insertToken" /\ UNCHANGED tokens
     /\ users' = [u \in DOMAIN users \cup {r} |->
                    IF u = r THEN [roles |-> {}, human |-> FALSE] ELSE users[u]]

LEMMA StepGoes ==
  ASSUME NEW r \in Requests, BaseInv, Step(r)
  PROVE  Goes(r) \/ Enters(r) \/ Writes(r)
<1>1. RequestsOK /\ {"ok", "threw", "refused"} \subseteq Answered /\ Accepted(Ask(r))
  BY StepKind DEF BaseInv, Answered
<1>2. ASSUME NEW answer \in {"ok", "threw", "refused"}, End(r, answer)
      PROVE  Goes(r)
  BY <1>1, <1>2, EndMoves DEF Goes
<1>3. CASE FindUser(r)
  BY <1>1, <1>3, ToMoves DEF FindUser, Goes
<1>4. CASE FindRoles(r)
  <2>1. PICK matching :
          /\ Read(r) # Absent =>
               matching = FromGroups(Who(r).groups) \cup (Read(r) \cap DOMAIN roles)
          /\ To(r, "writeUser",
                [stored |-> Read(r), manage |-> Manage(matching),
                 kept |-> IF Read(r) = Absent THEN {}
                          ELSE {x \in matching \cap Read(r) : roles[x].group = ""}])
    BY <1>4 DEF FindRoles
  <2>2. PICK k : k = [stored |-> Read(r), manage |-> Manage(matching),
                      kept |-> IF Read(r) = Absent THEN {}
                               ELSE {x \in matching \cap Read(r) : roles[x].group = ""}]
    OBVIOUS
  <2>3. To(r, "writeUser", k)
    BY <2>1, <2>2
  <2>4. requests'[r].at = "writeUser" /\ requests'[r].read = k
    BY <1>1, <2>3, ToMoves
  <2>5. k.stored = Read(r) /\ k.manage = Manage(matching)
    BY <2>2
  <2>6. Read(r) # Absent /\ k.manage =>
          Manage(FromGroups(Who(r).groups) \cup (Read(r) \cap DOMAIN roles))
    BY <2>1, <2>5
  <2>7. At(r, "findRoles") /\ UNCHANGED db
    BY <1>4 DEF FindRoles
  <2>8. QED BY <2>4, <2>5, <2>6, <2>7 DEF Goes
<1>5. CASE WriteUser(r)
  <2>1. CASE End(r, "threw")
    BY <1>2, <2>1
  <2>2. CASE ~End(r, "threw")
    <3>1. PICK w, k : w = Who(r).id /\ k = [roles |-> Read(r).kept, human |-> TRUE]
      OBVIOUS
    <3>2. /\ users' = [v \in DOMAIN users \cup {w} |-> IF v = w THEN k ELSE users[v]]
          /\ Authenticated(r, w, TRUE, Read(r).manage)
          /\ At(r, "writeUser") /\ UNCHANGED <<roles, tokens>>
          /\ w \in DOMAIN users => Read(r).stored # Absent
      BY <1>5, <2>2, <3>1 DEF WriteUser
    <3>3. w \in DOMAIN users' /\ users'[w].human
      <4>1. users'[w] = k /\ w \in DOMAIN users'
        BY <3>2
      <4>2. QED BY <3>1, <4>1
    <3>4. requests'[r].at = "ended" \/ LetThrough(r, w, TRUE, Read(r).manage)
      BY <1>1, <3>2, AuthenticatedMoves
    <3>5. QED BY <3>1, <3>2, <3>3, <3>4 DEF Goes, Enters, LetThrough
  <2>3. QED BY <2>1, <2>2
<1>6. CASE FindToken(r)
  <2>1. CASE End(r, "refused")
    BY <1>2, <2>1
  <2>2. CASE ~End(r, "refused")
    <3>1. PICK k : k = [owner |-> tokens[Who(r).id].owner, manage |-> tokens[Who(r).id].manage,
                        roles |-> users[tokens[Who(r).id].owner].roles]
      OBVIOUS
    <3>2. /\ To(r, "useToken", k) /\ At(r, "findToken") /\ UNCHANGED db
          /\ Who(r).id \in DOMAIN tokens /\ tokens[Who(r).id].usable
      BY <1>6, <2>2, <3>1 DEF FindToken
    <3>3. requests'[r].at = "useToken" /\ requests'[r].read = k
      BY <1>1, <3>2, ToMoves
    <3>4. QED BY <3>1, <3>2, <3>3 DEF Goes
  <2>3. QED BY <2>1, <2>2
<1>7. CASE UseToken(r)
  <2>1. CASE End(r, "threw")
    BY <1>2, <2>1
  <2>2. CASE To(r, "sumRoles", Read(r)) /\ Who(r).id \in DOMAIN tokens /\ tokens[Who(r).id].personal
    <3>1. requests'[r].at = "sumRoles" /\ requests'[r].read = Read(r)
      BY <1>1, <2>2, ToMoves
    <3>2. QED BY <1>7, <2>2, <3>1 DEF Goes, UseToken
  <2>3. CASE /\ Authenticated(r, Read(r).owner, FALSE, Read(r).manage)
             /\ Who(r).id \in DOMAIN tokens /\ ~tokens[Who(r).id].personal
    <3>1. UNCHANGED db /\ At(r, "useToken")
      BY <1>7 DEF UseToken
    <3>2. requests'[r].at = "ended" \/ LetThrough(r, Read(r).owner, FALSE, Read(r).manage)
      BY <1>1, <2>3, AuthenticatedMoves
    <3>3. QED BY <2>3, <3>1, <3>2 DEF Goes, Enters, db, LetThrough
  <2>4. QED BY <1>7, <2>1, <2>2, <2>3 DEF UseToken
<1>8. CASE SumRoles(r)
  <2>1. /\ At(r, "sumRoles") /\ UNCHANGED db
        /\ Authenticated(r, Read(r).owner, TRUE, Manage(Read(r).roles))
    BY <1>8 DEF SumRoles
  <2>2. \/ requests'[r].at = "ended"
        \/ LetThrough(r, Read(r).owner, TRUE, Manage(Read(r).roles))
    BY <1>1, <2>1, AuthenticatedMoves
  <2>3. QED BY <2>1, <2>2 DEF Goes, Enters, db, LetThrough
<1>9. CASE PatchUsers(r)
  <2>1. PICK u \in Read(r) :
          \/ /\ u \in DOMAIN users /\ users' = [users EXCEPT ![u].roles = Ask(r).grants[u]]
             /\ \/ End(r, "ok")
                \/ To(r, requests[r].at, Read(r) \ {u})
          \/ End(r, "threw")
    BY <1>9 DEF PatchUsers, Each
  <2>2. requests[r].at = "writeGrants"
    BY <1>9 DEF PatchUsers, At
  <2>3. CASE End(r, "ok") \/ End(r, "threw")
    BY <1>2, <2>3
  <2>4. CASE To(r, "writeGrants", Read(r) \ {u}) /\ ~End(r, "threw")
    BY <1>1, <2>1, <2>2, <2>4, ToMoves DEF Writes, At
  <2>5. QED BY <2>1, <2>2, <2>3, <2>4
<1>10. CASE ReadRoles(r)
  <2>1. CASE End(r, "ok") \/ End(r, "refused")
    BY <1>2, <2>1
  <2>2. CASE ~End(r, "ok") /\ ~End(r, "refused")
    <3>1. PICK k : k = [x \in DOMAIN roles \cap DOMAIN Ask(r).patches |->
                          Patched(roles[x], Ask(r).patches[x])]
      OBVIOUS
    <3>2. To(r, "writeRoles", k) /\ At(r, "readRoles") /\ UNCHANGED db
      BY <1>10, <2>2, <3>1 DEF ReadRoles
    <3>3. requests'[r].at = "writeRoles" /\ requests'[r].read = k
      BY <1>1, <3>2, ToMoves
    <3>4. QED BY <3>1, <3>2, <3>3 DEF Goes
  <2>3. QED BY <2>1, <2>2
<1>11. CASE WriteRoles(r)
  <2>1. At(r, "writeRoles") /\ \E x \in DOMAIN Read(r) :
          \/ End(r, "ok") \/ End(r, "threw")
          \/ To(r, "writeRoles", Without(Read(r), x))
    BY <1>11 DEF WriteRoles
  <2>2. QED BY <1>1, <1>2, <2>1, ToMoves DEF Goes
<1>12. CASE CreateRole(r)
  <2>1. CASE End(r, "ok")
    BY <1>2, <2>1
  <2>2. CASE ~End(r, "ok")
    <3>1. \A x \in DOMAIN roles : roles[x].position \in Int
      BY DEF BaseInv, Sound
    <3>2. At(r, "findLast") /\ UNCHANGED db /\ \E p \in Int : To(r, "insertRole", p)
      <4>1. /\ At(r, "findLast") /\ UNCHANGED db
            /\ \/ To(r, "insertRole", 0)
               \/ \E x \in DOMAIN roles : To(r, "insertRole", roles[x].position + 1)
        BY <1>12, <2>2, Zenon DEF CreateRole
      <4>2. \A x \in DOMAIN roles : roles[x].position + 1 \in Int
        BY <3>1
      <4>3. QED BY <4>1, <4>2
    <3>3. QED BY <1>1, <3>2, ToMoves DEF Goes
  <2>3. QED BY <2>1, <2>2
<1>13. CASE FindHolders(r)
  <2>1. PICK hs : hs = {u \in DOMAIN users : Ask(r).role \in users[u].roles}
    OBVIOUS
  <2>2. PICK k : k = [u \in hs |-> users[u].roles \ {Ask(r).role}]
    OBVIOUS
  <2>3. At(r, "findHolders") /\ UNCHANGED db
        /\ \/ hs = {} /\ To(r, "deleteRole", Absent)
           \/ To(r, "writeHolders", k)
    BY <1>13, <2>1, <2>2 DEF FindHolders
  <2>4. CASE hs = {} /\ To(r, "deleteRole", Absent)
    <3>1. requests'[r].at = "deleteRole"
      BY <1>1, <2>4, ToMoves
    <3>2. \A u \in DOMAIN users : Ask(r).role \notin users[u].roles
      BY <2>1, <2>4
    <3>3. QED BY <2>3, <3>1, <3>2 DEF Writes
  <2>5. CASE To(r, "writeHolders", k)
    <3>1. requests'[r].at = "writeHolders" /\ requests'[r].read = k
      BY <1>1, <2>5, ToMoves
    <3>2. QED BY <2>1, <2>2, <2>3, <3>1 DEF Writes
  <2>6. QED BY <2>3, <2>4, <2>5
<1>14. CASE WriteHolders(r)
  <2>1. PICK u \in DOMAIN Read(r) :
          /\ users' = [users EXCEPT ![u].roles = Read(r)[u]]
          /\ \/ DOMAIN Read(r) = {u} /\ To(r, "deleteRole", Absent)
             \/ To(r, "writeHolders", Without(Read(r), u))
    BY <1>14 DEF WriteHolders
  <2>2. At(r, "writeHolders")
    BY <1>14 DEF WriteHolders
  <2>3. \/ DOMAIN Read(r) = {u} /\ requests'[r].at = "deleteRole"
        \/ requests'[r].at = "writeHolders" /\ requests'[r].read = Without(Read(r), u)
    BY <1>1, <2>1, ToMoves
  <2>4. QED BY <2>1, <2>2, <2>3 DEF Writes
<1>15. CASE DeleteRole(r) \/ InsertToken(r) \/ Revoke(r)
  BY <1>2, <1>15 DEF DeleteRole, InsertToken, Revoke
<1>16. CASE InsertBot(r)
  <2>1. requests'[r].at = "insertToken"
    BY <1>1, <1>16, ToMoves DEF InsertBot
  <2>2. QED BY <1>16, <2>1 DEF InsertBot, Writes
<1>17. CASE DeleteOwn(r)
  <2>1. CASE At(r, "findOwn")
    <3>1. To(r, "deleteOwn", Absent) \/ End(r, "ok")
      BY <1>17, <2>1 DEF DeleteOwn, At
    <3>2. UNCHANGED db
      BY <1>17, <2>1 DEF DeleteOwn, At, db
    <3>3. QED BY <1>1, <1>2, <2>1, <3>1, <3>2, ToMoves DEF Goes
  <2>2. CASE End(r, "ok") \/ End(r, "threw")
    BY <1>2, <2>2
  <2>3. QED BY <1>17, <2>1, <2>2 DEF DeleteOwn
<1>18. QED BY <1>3, <1>4, <1>5, <1>6, <1>7, <1>8, <1>9, <1>10, <1>11, <1>12, <1>13, <1>14,
          <1>15, <1>16, <1>17 DEF Step

-----------------------------------------------------------------------------
(* The rows stay sound.                                                    *)

LEMMA StepRows ==
  ASSUME NEW r \in Requests, BaseInv, Step(r)
  PROVE  Sound(roles, users, tokens)'
<1>1. RightStep(r) /\ RightRead(r) /\ RequestsOK /\ Accepted(Ask(r))
  BY StepKind DEF BaseInv
<1>2. Sound(roles, users, tokens)
  BY DEF BaseInv
<1>3. \A x \in DOMAIN roles' :
        /\ DOMAIN roles'[x] = {"position", "manage", "group"}
        /\ roles'[x].position \in Int /\ roles'[x].manage \in BOOLEAN
  <2>1. CASE WriteRoles(r)
    <3>1. \A x \in DOMAIN Read(r) :
            /\ DOMAIN Read(r)[x] = {"position", "manage", "group"}
            /\ Read(r)[x].position \in Int /\ Read(r)[x].manage \in BOOLEAN
      BY <1>1, <2>1 DEF WriteRoles, RightRead
    <3>2. PICK x \in DOMAIN Read(r) :
            roles' = roles \/ roles' = [roles EXCEPT ![x] = Read(r)[x]]
      BY <2>1 DEF WriteRoles
    <3>3. QED BY <1>2, <3>1, <3>2 DEF Sound
  <2>2. CASE DeleteRole(r)
    BY <1>2, <2>2 DEF DeleteRole, Without, Sound
  <2>3. CASE CreateRole(r)
    <3>1. CASE UNCHANGED roles
      BY <1>2, <3>1 DEF Sound
    <3>2. CASE ~UNCHANGED roles
      <4>1. PICK k : k = [position |-> Read(r), manage |-> FALSE, group |-> ""]
        OBVIOUS
      <4>2. /\ roles' = [x \in DOMAIN roles \cup {r} |-> IF x = r THEN k ELSE roles[x]]
            /\ At(r, "insertRole")
        BY <2>3, <3>2, <4>1 DEF CreateRole, db
      <4>3. /\ DOMAIN k = {"position", "manage", "group"}
            /\ k.position \in Int /\ k.manage \in BOOLEAN
        BY <1>1, <4>1, <4>2 DEF RightRead
      <4>4. QED BY <1>2, <4>2, <4>3 DEF Sound
    <3>3. QED BY <3>1, <3>2
  <2>4. CASE ~WriteRoles(r) /\ ~DeleteRole(r) /\ ~CreateRole(r)
    <3>1. UNCHANGED roles
      BY <2>4 DEF Step, FindUser, FindRoles, WriteUser, FindToken, UseToken, SumRoles,
         PatchUsers, ReadRoles, FindHolders, WriteHolders, InsertBot,
         InsertToken, Revoke, DeleteOwn, db
    <3>2. QED BY <1>2, <3>1 DEF Sound
  <2>5. QED BY <2>1, <2>2, <2>3, <2>4
<1>4. \A u \in DOMAIN users' : DOMAIN users'[u] = {"roles", "human"}
                               /\ users'[u].human \in BOOLEAN
  BY UsersWritten
<1>5. \A t \in DOMAIN tokens' :
        /\ DOMAIN tokens'[t] = {"owner", "personal", "usable", "manage"}
        /\ tokens'[t].personal \in BOOLEAN /\ tokens'[t].owner \in DOMAIN users'
        /\ users'[tokens'[t].owner].human <=> tokens'[t].personal
  <2>1. ASSUME NEW t \in DOMAIN tokens', t # r
        PROVE  /\ DOMAIN tokens'[t] = {"owner", "personal", "usable", "manage"}
               /\ tokens'[t].personal \in BOOLEAN /\ tokens'[t].owner \in DOMAIN users'
               /\ users'[tokens'[t].owner].human <=> tokens'[t].personal
    <3>1. /\ t \in DOMAIN tokens /\ tokens'[t].owner = tokens[t].owner
          /\ tokens'[t].personal = tokens[t].personal
          /\ DOMAIN tokens'[t] = DOMAIN tokens[t]
      BY <2>1, TokensWritten
    <3>2. /\ DOMAIN tokens[t] = {"owner", "personal", "usable", "manage"}
          /\ tokens[t].personal \in BOOLEAN /\ tokens[t].owner \in DOMAIN users
          /\ users[tokens[t].owner].human <=> tokens[t].personal
      BY <1>2, <3>1 DEF Sound
    <3>3. /\ tokens[t].owner \in DOMAIN users'
          /\ users'[tokens[t].owner].human = users[tokens[t].owner].human
      BY <3>2, UsersWritten
    <3>4. QED BY <3>1, <3>2, <3>3
  <2>2. ASSUME r \in DOMAIN tokens'
        PROVE  /\ DOMAIN tokens'[r] = {"owner", "personal", "usable", "manage"}
               /\ tokens'[r].personal \in BOOLEAN /\ tokens'[r].owner \in DOMAIN users'
               /\ users'[tokens'[r].owner].human <=> tokens'[r].personal
    <3>1. /\ At(r, "insertToken") /\ users' = users
          /\ DOMAIN tokens'[r] = {"owner", "personal", "usable", "manage"}
          /\ tokens'[r].personal = (Kind(r) = "createPersonalToken")
          /\ tokens'[r].owner = IF Kind(r) = "createPersonalToken"
                                   THEN requests[r].user ELSE r
      BY <2>2, TokensWritten
    <3>2. Kind(r) \in {"createAdminToken", "createPersonalToken"}
      BY <1>1, <3>1 DEF RightStep, At
    <3>3. CASE Kind(r) = "createPersonalToken"
      <4>1. requests[r].user \in DOMAIN users /\ users[requests[r].user].human
        BY <1>1, <3>1, <3>3 DEF RightRead
      <4>2. tokens'[r].personal = TRUE /\ tokens'[r].owner = requests[r].user
        BY <3>1, <3>3
      <4>3. QED BY <3>1, <4>1, <4>2
    <3>4. CASE Kind(r) = "createAdminToken"
      <4>1. r \in DOMAIN users /\ ~users[r].human
        BY <1>1, <3>1, <3>4 DEF RightRead
      <4>2. tokens'[r].personal = FALSE /\ tokens'[r].owner = r
        BY <3>1, <3>4
      <4>3. QED BY <3>1, <4>1, <4>2
    <3>5. QED BY <3>2, <3>3, <3>4
  <2>3. QED BY <2>1, <2>2
<1>6. \A t, s \in DOMAIN tokens' :
        s # t /\ ~tokens'[s].personal => tokens'[s].owner # tokens'[t].owner
  <2>1. \A t \in DOMAIN tokens' : t # r =>
          /\ t \in DOMAIN tokens /\ tokens'[t].owner = tokens[t].owner
          /\ tokens'[t].personal = tokens[t].personal
    BY TokensWritten
  <2>2. ASSUME NEW t \in DOMAIN tokens', NEW s \in DOMAIN tokens', s # t, t # r, s # r,
               ~tokens'[s].personal
        PROVE  tokens'[s].owner # tokens'[t].owner
    BY <1>2, <2>1, <2>2 DEF Sound
  <2>3. ASSUME NEW t \in DOMAIN tokens', t # r, r \in DOMAIN tokens',
               ~tokens'[r].personal \/ ~tokens'[t].personal
        PROVE  tokens'[r].owner # tokens'[t].owner
    <3>1. /\ At(r, "insertToken")
          /\ tokens'[r].owner = IF Kind(r) = "createPersonalToken"
                                   THEN requests[r].user ELSE r
          /\ tokens'[r].personal = (Kind(r) = "createPersonalToken")
      BY <2>3, TokensWritten
    <3>2. CASE Kind(r) = "createPersonalToken"
      <4>1. users[requests[r].user].human
        BY <1>1, <3>1, <3>2 DEF RightRead
      <4>2. ~tokens'[t].personal
        BY <2>3, <3>1, <3>2
      <4>3. ~users[tokens[t].owner].human
        BY <1>2, <2>1, <2>3, <4>2 DEF Sound
      <4>4. QED BY <2>1, <2>3, <3>1, <3>2, <4>1, <4>3
    <3>3. CASE Kind(r) # "createPersonalToken"
      <4>1. Kind(r) = "createAdminToken"
        BY <1>1, <3>1, <3>3 DEF RightStep, At
      <4>2. tokens[t].owner # r
        BY <1>1, <2>1, <2>3, <3>1, <4>1 DEF RightRead
      <4>3. QED BY <2>1, <2>3, <3>1, <3>3, <4>2
    <3>4. QED BY <3>2, <3>3
  <2>4. QED BY <2>2, <2>3
<1>7. QED BY <1>3, <1>4, <1>5, <1>6 DEF Sound

LEMMA StepSessions ==
  ASSUME NEW r \in Requests, BaseInv, Step(r)
  PROVE  SessionsAreHuman'
<1>1. ASSUME NEW a \in Asks, a.who.session, a.who.id \in DOMAIN users'
      PROVE  users'[a.who.id].human
  <2>1. a.who.id # r
    BY <1>1, AccessAssumption DEF Accepted
  <2>2. a.who.id \in DOMAIN users => users[a.who.id].human
    BY <1>1 DEF BaseInv, SessionsAreHuman
  <2>3. QED BY <1>1, <2>1, <2>2, UsersWritten
<1>2. QED BY <1>1 DEF SessionsAreHuman

-----------------------------------------------------------------------------
(* A request stays what it asks for.                                       *)

LEMMA StepFresh ==
  ASSUME NEW r \in Requests, BaseInv, Step(r), NEW q \in Requests
  PROVE  Fresh(q)'
<1>1. Fresh(q) /\ Fresh(r) /\ Moved(r) /\ r \in Busy
  BY StepMoves, StepBusy DEF BaseInv
<1>2. Who(r).session => Who(r).id \notin Requests
  BY StepKind DEF Accepted, Who
<1>3. CASE q # r
  <2>1. requests'[q] = requests[q]
    BY <1>1, <1>3 DEF Moved
  <2>2. /\ q \in DOMAIN tokens' => q \in DOMAIN tokens
        /\ q \in DOMAIN roles' => q \in DOMAIN roles
        /\ q \in DOMAIN users' => q \in DOMAIN users
    BY <1>2, <1>3, TokensWritten, RolesWritten, UsersWritten
  <2>3. QED BY <1>1, <2>1, <2>2 DEF Fresh
<1>4. CASE q = r
  <2>1. /\ r \in DOMAIN tokens' => requests'[r].at = "ended"
        /\ r \in DOMAIN roles' => requests'[r].at = "ended"
    BY TokensWritten, RolesWritten
  <2>2. CASE r \in DOMAIN users
    <3>1. At(r, "insertToken")
      BY <1>1, <2>2 DEF Fresh, Busy, At
    <3>2. requests'[r].at = "ended"
      BY <3>1, StepGoes DEF Goes, Enters, Writes, At
    <3>3. QED BY <1>4, <2>1, <3>2 DEF Fresh
  <2>3. CASE r \notin DOMAIN users
    <3>1. r \in DOMAIN users' => requests'[r].at = "insertToken"
      BY <1>2, <2>3, UsersWritten
    <3>2. QED BY <1>4, <2>1, <3>1 DEF Fresh
  <2>4. QED BY <2>2, <2>3
<1>5. QED BY <1>3, <1>4

LEMMA StepSteps ==
  ASSUME NEW r \in Requests, BaseInv, Step(r), NEW q \in Requests
  PROVE  RightStep(q)'
<1>1. RightStep(q) /\ RightStep(r) /\ Moved(r)
  BY StepMoves DEF BaseInv
<1>2. Kind(q)' = Kind(q) /\ Who(q)' = Who(q)
  BY <1>1 DEF Moved, Kind, Who, Ask
<1>3. CASE q # r
  BY <1>1, <1>2, <1>3 DEF Moved, RightStep
<1>4. CASE q = r
  <2>1. CASE Goes(r)
    BY <1>1, <1>2, <1>4, <2>1 DEF Goes, RightStep, At
  <2>2. CASE Enters(r)
    <3>1. requests'[r].at = FirstStep[Kind(r)] /\ Kind(r) \in AllKinds
      BY <2>2 DEF Enters
    <3>2. QED BY <1>2, <1>4, <3>1, FirstSteps DEF RightStep, AllKinds, AdminKinds
  <2>3. CASE Writes(r)
    BY <1>1, <1>2, <1>4, <2>3 DEF Writes, RightStep, At
  <2>4. QED BY <2>1, <2>2, <2>3, StepGoes
<1>5. QED BY <1>3, <1>4

\* What another request counts on is left alone.
LEMMA OthersReads ==
  ASSUME NEW r \in Requests, BaseInv, Step(r), NEW q \in Requests, q # r
  PROVE  RightRead(q)'
<1>1. RightRead(q) /\ RightRead(r) /\ RightStep(r) /\ Moved(r) /\ r \in Busy
  BY StepMoves, StepBusy DEF BaseInv
<1>2. requests'[q] = requests[q]
  BY <1>1 DEF Moved
<1>3. \A u \in DOMAIN users : u \in DOMAIN users' /\ users'[u].human = users[u].human
  BY UsersWritten
<1>4. \A t : Made(t) => Made(t)' /\ t # r
  BY <1>1 DEF Made, Moved, Busy
<1>5. \A t \in DOMAIN tokens' : t # r =>
        /\ t \in DOMAIN tokens /\ tokens'[t].owner = tokens[t].owner
        /\ tokens'[t].personal = tokens[t].personal
  BY TokensWritten
<1>6. /\ Read(q)' = Read(q) /\ Who(q)' = Who(q) /\ Ask(q)' = Ask(q) /\ Kind(q)' = Kind(q)
      /\ requests'[q].user = requests[q].user /\ requests'[q].at = requests[q].at
      /\ \A step : At(q, step)' <=> At(q, step)
  BY <1>2 DEF Read, Who, Ask, Kind, At
<1>7. requests[q].at \in {"useToken", "sumRoles"} =>
        /\ Made(Who(q).id)' /\ Read(q).owner \in DOMAIN users'
        /\ Who(q).id \in DOMAIN tokens' =>
              /\ tokens'[Who(q).id].owner = Read(q).owner
              /\ At(q, "useToken") =>
                   (users'[Read(q).owner].human <=> tokens'[Who(q).id].personal)
              /\ At(q, "sumRoles") => tokens'[Who(q).id].personal
        /\ At(q, "sumRoles") => users'[Read(q).owner].human
  BY <1>1, <1>3, <1>4, <1>5, <1>6 DEF RightRead, At
<1>8. At(q, "insertToken") /\ Kind(q) = "createAdminToken" =>
        /\ q \in DOMAIN users' /\ ~users'[q].human
        /\ \A t \in DOMAIN tokens' : tokens'[t].owner # q
  <2>1. SUFFICES ASSUME At(q, "insertToken") /\ Kind(q) = "createAdminToken"
                 PROVE  /\ q \in DOMAIN users' /\ ~users'[q].human
                        /\ \A t \in DOMAIN tokens' : tokens'[t].owner # q
    OBVIOUS
  <2>2. /\ q \in DOMAIN users /\ ~users[q].human
        /\ \A t \in DOMAIN tokens : tokens[t].owner # q
    BY <1>1, <2>1 DEF RightRead
  <2>3. r \in DOMAIN tokens' => tokens'[r].owner # q
    <3>1. SUFFICES ASSUME r \in DOMAIN tokens' PROVE tokens'[r].owner # q
      OBVIOUS
    <3>2. /\ At(r, "insertToken")
          /\ tokens'[r].owner = IF Kind(r) = "createPersonalToken"
                                   THEN requests[r].user ELSE r
      BY <3>1, TokensWritten
    <3>3. Kind(r) = "createPersonalToken" => users[requests[r].user].human
      BY <1>1, <3>2 DEF RightRead
    <3>4. QED BY <2>2, <3>2, <3>3
  <2>4. QED BY <1>3, <1>5, <2>2, <2>3
<1>9. /\ requests'[q].at \in {"useToken", "sumRoles"} =>
           /\ Made(Who(q).id)' /\ Read(q)'.owner \in DOMAIN users'
           /\ Who(q)'.id \in DOMAIN tokens' => tokens'[Who(q)'.id].owner = Read(q)'.owner
      /\ At(q, "useToken")' /\ Who(q)'.id \in DOMAIN tokens' =>
           (users'[Read(q)'.owner].human <=> tokens'[Who(q)'.id].personal)
      /\ At(q, "sumRoles")' =>
           /\ users'[Read(q)'.owner].human
           /\ Who(q)'.id \in DOMAIN tokens' => tokens'[Who(q)'.id].personal
  BY <1>6, <1>7 DEF At
<1>10. /\ At(q, "insertToken")' /\ Kind(q)' = "createPersonalToken" =>
            requests'[q].user \in DOMAIN users' /\ users'[requests'[q].user].human
       /\ At(q, "insertToken")' /\ Kind(q)' = "createAdminToken" =>
            /\ q \in DOMAIN users' /\ ~users'[q].human
            /\ \A t \in DOMAIN tokens' : tokens'[t].owner # q
  BY <1>1, <1>3, <1>6, <1>8 DEF RightRead
<1>11. /\ At(q, "writeRoles")' =>
            \A x \in DOMAIN Read(q)' : /\ DOMAIN Read(q)'[x] = {"position", "manage", "group"}
                                       /\ Read(q)'[x].position \in Int
                                       /\ Read(q)'[x].manage \in BOOLEAN
       /\ At(q, "insertRole")' => Read(q)' \in Int
       /\ At(q, "writeGrants")' => Read(q)' \subseteq DOMAIN Ask(q)'.grants
       /\ At(q, "writeHolders")' => DOMAIN Read(q)' \subseteq DOMAIN users'
  BY <1>1, <1>3, <1>6 DEF RightRead
<1>12. QED BY <1>9, <1>10, <1>11 DEF RightRead

LEMMA OwnReads ==
  ASSUME NEW r \in Requests, BaseInv, Step(r)
  PROVE  RightRead(r)'
<1>1. /\ RightRead(r) /\ RightStep(r) /\ Fresh(r) /\ Moved(r) /\ r \in Busy
      /\ Accepted(Ask(r)) /\ Sound(roles, users, tokens)
  BY StepMoves, StepKind, StepBusy DEF BaseInv
<1>2. Ask(r)' = Ask(r) /\ Kind(r)' = Kind(r) /\ Who(r)' = Who(r) /\ Read(r)' = requests'[r].read
  BY <1>1 DEF Moved, Ask, Kind, Who, Read
<1>3. \A step : At(r, step)' <=> requests'[r].at = step
  BY DEF At
<1>4. CASE Goes(r)
  <2>1. CASE requests'[r].at \in {"ended", "findRoles", "writeUser", "deleteOwn"}
    BY <2>1 DEF RightRead, At
  <2>2. CASE requests'[r].at = "useToken"
    <3>1. /\ UNCHANGED db /\ Who(r).id \in DOMAIN tokens
          /\ requests'[r].read.owner = tokens[Who(r).id].owner
      BY <1>4, <2>2 DEF Goes
    <3>2. /\ tokens[Who(r).id].owner \in DOMAIN users
          /\ users[tokens[Who(r).id].owner].human <=> tokens[Who(r).id].personal
      BY <1>1, <3>1 DEF Sound
    <3>3. Made(Who(r).id)'
      <4>1. Who(r).id \in Requests => requests[Who(r).id].at = "ended"
        BY <3>1 DEF BaseInv, Fresh
      <4>2. QED BY <1>1, <1>2, <4>1 DEF Made, Moved, Busy
    <3>4. QED BY <1>2, <2>2, <3>1, <3>2, <3>3 DEF RightRead, At, db
  <2>3. CASE requests'[r].at = "sumRoles"
    <3>1. /\ UNCHANGED db /\ Who(r).id \in DOMAIN tokens /\ tokens[Who(r).id].personal
          /\ requests'[r].read = Read(r) /\ At(r, "useToken")
      BY <1>4, <2>3 DEF Goes
    <3>2. /\ Made(Who(r).id) /\ Read(r).owner \in DOMAIN users
          /\ tokens[Who(r).id].owner = Read(r).owner /\ users[Read(r).owner].human
      BY <1>1, <3>1 DEF RightRead, At
    <3>3. Made(Who(r).id)'
      BY <1>1, <1>2, <3>2 DEF Made, Moved, Busy
    <3>4. QED BY <1>2, <2>3, <3>1, <3>2, <3>3 DEF RightRead, At, db
  <2>4. CASE requests'[r].at = "writeRoles" /\ At(r, "readRoles")
    <3>1. /\ DOMAIN requests'[r].read \subseteq DOMAIN roles \cap DOMAIN Ask(r).patches
          /\ \A x \in DOMAIN requests'[r].read :
               requests'[r].read[x] = Patched(roles[x], Ask(r).patches[x])
      BY <1>4, <2>4 DEF Goes, At
    <3>2. Ask(r).kind = "patchRoles"
      BY <1>1, <2>4 DEF RightStep, At, Kind
    <3>3. ASSUME NEW x \in DOMAIN requests'[r].read
          PROVE  /\ DOMAIN requests'[r].read[x] = {"position", "manage", "group"}
                 /\ requests'[r].read[x].position \in Int
                 /\ requests'[r].read[x].manage \in BOOLEAN
      <4>1. /\ Ask(r).patches[x].position \in Int \cup {Absent}
            /\ Ask(r).patches[x].manage \in BOOLEAN \cup {Absent}
        BY <1>1, <3>1, <3>2 DEF Accepted
      <4>2. /\ DOMAIN roles[x] = {"position", "manage", "group"}
            /\ roles[x].position \in Int /\ roles[x].manage \in BOOLEAN
        BY <1>1, <3>1 DEF Sound
      <4>3. PICK row, patch : row = roles[x] /\ patch = Ask(r).patches[x]
        OBVIOUS
      <4>4. requests'[r].read[x] =
              [f \in DOMAIN row |-> IF patch[f] = Absent THEN row[f] ELSE patch[f]]
        BY <3>1, <4>3 DEF Patched
      <4>5. QED BY <4>1, <4>2, <4>3, <4>4
    <3>4. QED BY <1>2, <2>4, <3>3 DEF RightRead, At
  <2>5. CASE requests'[r].at = "writeRoles" /\ At(r, "writeRoles")
    <3>1. PICK x \in DOMAIN Read(r) : requests'[r].read = Without(Read(r), x)
      BY <1>4, <2>5 DEF Goes, At
    <3>2. \A y \in DOMAIN Read(r) : /\ DOMAIN Read(r)[y] = {"position", "manage", "group"}
                                    /\ Read(r)[y].position \in Int
                                    /\ Read(r)[y].manage \in BOOLEAN
      BY <1>1, <2>5 DEF RightRead
    <3>3. \A y \in DOMAIN requests'[r].read :
            y \in DOMAIN Read(r) /\ requests'[r].read[y] = Read(r)[y]
      BY <3>1 DEF Without
    <3>4. QED BY <1>2, <2>5, <3>2, <3>3 DEF RightRead, At
  <2>6. CASE requests'[r].at = "insertRole"
    BY <1>2, <1>4, <2>6 DEF Goes, RightRead, At
  <2>7. QED BY <1>4, <2>1, <2>2, <2>3, <2>4, <2>5, <2>6 DEF Goes
<1>5. CASE Enters(r)
  <2>1. requests'[r].at = FirstStep[Kind(r)] /\ Kind(r) \in AllKinds
    BY <1>5 DEF Enters
  <2>2. CASE Kind(r) = "patchUsers"
    <3>1. requests'[r].at = "writeGrants" /\ requests'[r].read = DOMAIN Ask(r).grants
      BY <1>5, <2>2, FirstSteps DEF Enters
    <3>2. QED BY <1>2, <3>1 DEF RightRead, At
  <2>3. CASE Kind(r) = "createPersonalToken"
    <3>1. requests'[r].at = "insertToken"
      BY <2>1, <2>3, FirstSteps
    <3>2. requests'[r].user \in DOMAIN users' /\ users'[requests'[r].user].human
      <4>1. Kind(r) \notin AdminKinds
        BY <2>3 DEF AdminKinds
      <4>2. CASE At(r, "writeUser")
        BY <1>5, <4>1, <4>2 DEF Enters, At
      <4>3. CASE At(r, "sumRoles")
        <5>1. requests'[r].user = Read(r).owner /\ UNCHANGED users
          BY <1>5, <4>3 DEF Enters, At
        <5>2. Read(r).owner \in DOMAIN users /\ users[Read(r).owner].human
          BY <1>1, <4>3 DEF RightRead, At
        <5>3. QED BY <5>1, <5>2
      <4>4. QED BY <1>5, <4>1, <4>2, <4>3 DEF Enters
    <3>3. QED BY <1>2, <2>3, <3>1, <3>2 DEF RightRead, At
  <2>4. CASE Kind(r) \notin {"patchUsers", "createPersonalToken"}
    <3>1. requests'[r].at \in {"readRoles", "findLast", "findHolders", "insertBot", "revoke",
                              "findOwn"}
      BY <2>1, <2>4, FirstSteps DEF AllKinds, AdminKinds
    <3>2. QED BY <3>1 DEF RightRead, At
  <2>5. QED BY <2>2, <2>3, <2>4
<1>6. CASE Writes(r)
  <2>1. CASE requests'[r].at = "writeGrants"
    <3>1. requests'[r].read \subseteq Read(r) /\ At(r, "writeGrants")
      BY <1>6, <2>1 DEF Writes
    <3>2. Read(r) \subseteq DOMAIN Ask(r).grants
      BY <1>1, <3>1 DEF RightRead
    <3>3. QED BY <1>2, <2>1, <3>1, <3>2 DEF RightRead, At
  <2>2. CASE requests'[r].at = "deleteRole"
    BY <2>2 DEF RightRead, At
  <2>3. CASE requests'[r].at = "writeHolders"
    <3>1. DOMAIN requests'[r].read \subseteq DOMAIN users
      BY <1>1, <1>6, <2>3 DEF Writes, RightRead, Without
    <3>2. DOMAIN users \subseteq DOMAIN users'
      BY UsersWritten
    <3>3. QED BY <1>2, <2>3, <3>1, <3>2 DEF RightRead, At
  <2>4. CASE requests'[r].at = "insertToken"
    <3>1. /\ At(r, "insertBot") /\ UNCHANGED tokens
          /\ users' = [u \in DOMAIN users \cup {r} |->
                         IF u = r THEN [roles |-> {}, human |-> FALSE] ELSE users[u]]
      BY <1>6, <2>4 DEF Writes
    <3>2. Kind(r) = "createAdminToken" /\ r \notin DOMAIN users
      BY <1>1, <3>1 DEF RightStep, Fresh, At
    <3>3. \A t \in DOMAIN tokens : tokens[t].owner # r
      BY <1>1, <3>2 DEF Sound
    <3>4. r \in DOMAIN users' /\ ~users'[r].human
      BY <3>1
    <3>5. QED BY <1>2, <2>4, <3>1, <3>2, <3>3, <3>4 DEF RightRead, At
  <2>5. QED BY <1>6, <2>1, <2>2, <2>3, <2>4 DEF Writes
<1>7. QED BY <1>4, <1>5, <1>6, StepGoes

LEMMA ArrivalBase ==
  ASSUME BaseInv, NEW r \in Requests, Arrived(r)
  PROVE  /\ Sound(roles, users, tokens)' /\ SessionsAreHuman'
         /\ \A q \in Requests : Fresh(q)' /\ RightStep(q)' /\ RightRead(q)'
<1>1. UNCHANGED <<roles, users, tokens>>
  BY DEF Arrived, db
<1>2. Sound(roles, users, tokens)' /\ SessionsAreHuman'
  BY <1>1 DEF BaseInv, Sound, SessionsAreHuman
<1>3. Fresh(r)' /\ RightStep(r)' /\ RightRead(r)'
  <2>1. requests'[r].at \in {"findUser", "findToken"}
    BY DEF Arrived
  <2>2. requests'[r].at = IF Who(r)'.session THEN "findUser" ELSE "findToken"
    BY DEF Arrived, Who, Ask
  <2>3. r \notin DOMAIN roles \cup DOMAIN users \cup DOMAIN tokens
    BY DEF BaseInv, Fresh, Arrived
  <2>4. Fresh(r)'
    BY <1>1, <2>3 DEF Fresh
  <2>5. RightStep(r)' /\ RightRead(r)'
    BY <2>1, <2>2 DEF RightStep, RightRead, At
  <2>6. QED BY <2>4, <2>5
<1>4. ASSUME NEW q \in Requests, q # r
      PROVE  Fresh(q)' /\ RightStep(q)' /\ RightRead(q)'
  <2>1. /\ Read(q)' = Read(q) /\ Who(q)' = Who(q) /\ Ask(q)' = Ask(q) /\ Kind(q)' = Kind(q)
        /\ requests'[q].user = requests[q].user /\ requests'[q].at = requests[q].at
    BY <1>4 DEF Arrived, Read, Who, Ask, Kind
  <2>2. \A t : Made(t) => Made(t)'
    BY DEF Made, Arrived
  <2>3. Fresh(q) /\ RightStep(q) /\ RightRead(q)
    BY DEF BaseInv
  <2>4. Fresh(q)' /\ RightStep(q)'
    BY <1>1, <2>1, <2>3 DEF Fresh, RightStep
  <2>5. RightRead(q)'
    BY <1>1, <2>1, <2>2, <2>3 DEF RightRead, At
  <2>6. QED BY <2>4, <2>5
<1>5. QED BY <1>2, <1>3, <1>4

LEMMA BaseNext ==
  ASSUME BaseInv, Next
  PROVE  BaseInv'
<1>1. RequestsOK' /\ MetOK'
  BY NextRequests, NextMet DEF BaseInv
<1>2. PICK r \in Requests : Arrived(r) \/ Step(r)
  BY NextForms DEF BaseInv
<1>3. CASE Arrived(r)
  BY <1>1, <1>3, ArrivalBase DEF BaseInv
<1>4. CASE Step(r)
  <2>1. \A q \in Requests : RightRead(q)'
    BY <1>4, OthersReads, OwnReads
  <2>2. QED BY <1>1, <1>4, <2>1, StepRows, StepSessions, StepFresh, StepSteps DEF BaseInv
<1>5. QED BY <1>2, <1>3, <1>4

-----------------------------------------------------------------------------
(* Requests that disturb one another.                                      *)

\* The one who writes has met every other request in progress.
LEMMA WriterIsMet ==
  ASSUME NEW r \in Requests, BaseInv, Step(r), NEW q \in Busy, q # r
  PROVE  Ask(r) \in Met(q)
<1>1. r \in Busy /\ q \in Requests
  BY StepBusy DEF Busy
<1>2. r \in requests[q].met
  BY <1>1 DEF BaseInv, MetOK
<1>3. QED BY <1>2 DEF Met

\* Whom a request has met, it has met for good.
LEMMA MetStays ==
  ASSUME BaseInv, NEW r \in Requests, Arrived(r) \/ Step(r), NEW q \in Requests,
         requests[q].at # "unborn"
  PROVE  Met(q) \subseteq Met(q)'
<1>1. ASSUME NEW p \in requests[q].met
      PROVE  p \in requests'[q].met /\ requests'[p].ask = requests[p].ask
  <2>1. p \in Requests /\ requests[p].at # "unborn"
    BY <1>1 DEF BaseInv, RequestsOK, RequestOK, MetOK
  <2>2. CASE Arrived(r)
    BY <1>1, <2>1, <2>2 DEF Arrived
  <2>3. CASE Step(r)
    <3>1. Moved(r)
      BY <2>3, StepMoves DEF BaseInv
    <3>2. QED BY <1>1, <2>1, <3>1 DEF Moved
  <2>4. QED BY <2>2, <2>3
<1>2. QED BY <1>1 DEF Met, Ask

LEMMA DisturbedStays ==
  ASSUME BaseInv, NEW r \in Requests, Arrived(r) \/ Step(r), NEW q \in Busy,
         q # r \/ UNCHANGED tokens, Disturbed(q)
  PROVE  Disturbed(q)'
<1>1. q \in Requests /\ requests[q].at # "unborn"
  BY DEF Busy
<1>2. Who(q)' = Who(q)
  BY <1>1, StepMoves DEF BaseInv, Moved, Arrived, Who, Ask
<1>3. PICK b \in Met(q) : Takes(b, Who(q))
  BY DEF Disturbed
<1>4. b \in Met(q)'
  BY <1>1, <1>3, MetStays
<1>5. CASE UNCHANGED tokens
  <2>1. Takes(b, Who(q))'
    BY <1>2, <1>3, <1>5 DEF Takes
  <2>2. QED BY <1>4, <2>1 DEF Disturbed
<1>6. CASE Step(r) /\ q # r
  <2>1. Ask(r) \in Met(q)'
    BY <1>1, <1>6, WriterIsMet, MetStays
  <2>2. CASE Kind(r) = "deletePersonalToken"
    <3>1. Ask(r).kind = "deletePersonalToken"
      BY <2>2 DEF Kind
    <3>2. PICK c : c = Ask(r)
      OBVIOUS
    <3>3. Takes(c, Who(q))'
      BY <3>1, <3>2 DEF Takes
    <3>4. QED BY <2>1, <3>2, <3>3 DEF Disturbed
  <2>3. CASE Kind(r) # "deletePersonalToken"
    <3>1. \A t \in DOMAIN tokens : t \in DOMAIN tokens'
      BY <1>6, <2>3, TokensWritten
    <3>2. \A t \in DOMAIN tokens : tokens'[t].owner = tokens[t].owner
      <4>1. r \notin DOMAIN tokens
        BY <1>6, TokensWritten
      <4>2. QED BY <1>6, <3>1, <4>1, TokensWritten
    <3>3. Takes(b, Who(q))'
      BY <1>2, <1>3, <3>1, <3>2 DEF Takes
    <3>4. QED BY <1>4, <3>3 DEF Disturbed
  <2>4. QED BY <2>2, <2>3
<1>7. QED BY <1>5, <1>6 DEF Arrived, db

-----------------------------------------------------------------------------
(* The rights a request counts on.                                         *)

\* A write of an administrator, or of the session of the same user, disturbs.
LEMMA TakerDisturbs ==
  ASSUME NEW r \in Requests, BaseInv, Step(r), NEW q \in Busy, q # r,
         \/ Kind(r) \in {"patchUsers", "patchRoles", "deleteRole", "deleteAdminToken",
                         "deletePersonalToken"}
         \/ /\ Who(r).session /\ Who(q).session /\ Who(r).id = Who(q).id
         \/ /\ Who(r).session /\ ~Who(q).session /\ Who(q).id \in DOMAIN tokens'
            /\ Who(r).id = tokens'[Who(q).id].owner
  PROVE  Disturbed(q)'
<1>1. PICK c : c = Ask(r)
  OBVIOUS
<1>2. q \in Requests /\ requests[q].at # "unborn" /\ Who(q)' = Who(q)
  BY StepMoves DEF BaseInv, Busy, Moved, Who, Ask
<1>3. c \in Met(q)'
  BY <1>1, <1>2, WriterIsMet, MetStays
<1>4. Takes(c, Who(q))'
  BY <1>1, <1>2 DEF Takes, Kind, Who
<1>5. QED BY <1>3, <1>4 DEF Disturbed

LEMMA ManageStays ==
  ASSUME NEW rs, Manage(rs),
         \A x \in DOMAIN roles : x \in DOMAIN roles' /\ roles'[x] = roles[x]
  PROVE  Manage(rs)'
BY DEF Manage

LEMMA GroupsStay ==
  ASSUME NEW gs, Manage(FromGroups(gs)),
         \A x \in DOMAIN roles : x \in DOMAIN roles' /\ roles'[x] = roles[x]
  PROVE  Manage(FromGroups(gs))'
BY DEF Manage, FromGroups

LEMMA OthersRights ==
  ASSUME NEW r \in Requests, BaseInv, Step(r), NEW q \in Requests, q # r, RightsOK(q)
  PROVE  RightsOK(q)'
<1>1. Moved(r) /\ r \in Busy /\ RightStep(q) /\ RightRead(q)
  BY StepMoves, StepBusy DEF BaseInv
<1>2. /\ Read(q)' = Read(q) /\ Who(q)' = Who(q) /\ requests'[q].at = requests[q].at
      /\ requests'[q] = requests[q]
  BY <1>1 DEF Moved, Read, Who, Ask
<1>3. q \in Busy /\ Disturbed(q) => Disturbed(q)'
  BY DisturbedStays
<1>4. ASSUME At(q, "findRoles") \/ At(q, "writeUser"), Who(q).id \in DOMAIN users
      PROVE  /\ Who(q).id \in DOMAIN users'
             /\ users'[Who(q).id].roles = users[Who(q).id].roles \/ Disturbed(q)'
  <2>1. q \in Busy /\ Who(q).session
    BY <1>1, <1>4 DEF Busy, At, RightStep
  <2>2. \/ users'[Who(q).id].roles = users[Who(q).id].roles
        \/ Kind(r) \in {"patchUsers", "deleteRole"}
        \/ Who(r).session /\ Who(r).id = Who(q).id
    BY <1>4, UsersWritten
  <2>3. Who(q).id \in DOMAIN users'
    BY <1>4, UsersWritten
  <2>4. QED BY <2>1, <2>2, <2>3, TakerDisturbs
<1>5. CASE At(q, "findRoles")
  <2>1. SUFFICES ASSUME Read(q) # Absent
                 PROVE  /\ Who(q).id \in DOMAIN users'
                        /\ users'[Who(q).id].roles = Read(q) \/ Disturbed(q)'
    BY <1>2, <1>5 DEF RightsOK, At
  <2>2. /\ Who(q).id \in DOMAIN users
        /\ users[Who(q).id].roles = Read(q) \/ Disturbed(q)
    BY <1>5, <2>1 DEF RightsOK
  <2>3. q \in Busy
    BY <1>5 DEF Busy, At
  <2>4. QED BY <1>3, <1>4, <1>5, <2>2, <2>3
<1>6. CASE At(q, "writeUser")
  <2>1. SUFFICES ASSUME Read(q).stored # Absent
                 PROVE  /\ Who(q).id \in DOMAIN users'
                        /\ Read(q).manage => Holds(Who(q))' \/ Disturbed(q)'
    BY <1>2, <1>6 DEF RightsOK, At
  <2>2. /\ Who(q).id \in DOMAIN users
        /\ Read(q).manage => Holds(Who(q)) \/ Disturbed(q)
    BY <1>6, <2>1 DEF RightsOK
  <2>3. q \in Busy /\ Who(q).session
    BY <1>1, <1>6 DEF Busy, At, RightStep
  <2>4. Holds(Who(q)) => Holds(Who(q))' \/ Disturbed(q)'
    <3>1. SUFFICES ASSUME Holds(Who(q)), Kind(r) \notin {"patchRoles", "deleteRole"},
                          users'[Who(q).id].roles = users[Who(q).id].roles
                   PROVE  Holds(Who(q))'
      BY <1>4, <1>6, <2>2, <2>3, TakerDisturbs
    <3>2. \A x \in DOMAIN roles : x \in DOMAIN roles' /\ roles'[x] = roles[x]
      BY <3>1, RolesWritten
    <3>3. PICK gs, rs : gs = Who(q).groups /\ rs = users[Who(q).id].roles
      OBVIOUS
    <3>4. Manage(FromGroups(gs)) \/ Manage(rs)
      BY <2>3, <3>1, <3>3 DEF Holds
    <3>5. Manage(FromGroups(gs))' \/ Manage(rs)'
      BY <3>2, <3>4, ManageStays, GroupsStay
    <3>6. gs = Who(q)'.groups /\ rs = users'[Who(q)'.id].roles /\ Who(q)'.session
      BY <1>2, <2>3, <3>1, <3>3
    <3>7. QED BY <3>5, <3>6 DEF Holds
  <2>5. QED BY <1>3, <1>4, <1>6, <2>2, <2>3, <2>4
<1>7. CASE requests[q].at \in {"useToken", "sumRoles"}
  <2>1. q \in Busy /\ ~Who(q).session
    BY <1>1, <1>7 DEF Busy, RightStep
  <2>2. TokenAsRead(q) \/ Disturbed(q)
    BY <1>7 DEF RightsOK
  <2>3. TokenAsRead(q) => TokenAsRead(q)' \/ Disturbed(q)'
    <3>1. SUFFICES ASSUME TokenAsRead(q),
                          Kind(r) \notin {"patchUsers", "patchRoles", "deleteRole",
                                         "deleteAdminToken", "deletePersonalToken"}
                   PROVE  TokenAsRead(q)' \/ Disturbed(q)'
      BY <2>1, TakerDisturbs
    <3>2. PICK t : t = Who(q).id
      OBVIOUS
    <3>3. /\ t \in DOMAIN tokens /\ tokens[t].usable /\ tokens[t].manage = Read(q).manage
          /\ users[tokens[t].owner].roles = Read(q).roles
      BY <3>1, <3>2 DEF TokenAsRead
    <3>4. t \in DOMAIN tokens' /\ tokens'[t] = tokens[t] /\ tokens[t].owner \in DOMAIN users
      BY <3>1, <3>3, TokensWritten DEF BaseInv, Sound
    <3>5. \/ users'[tokens[t].owner].roles = users[tokens[t].owner].roles
          \/ Who(r).session /\ Who(r).id = tokens[t].owner
      BY <3>1, <3>4, UsersWritten
    <3>6. CASE users'[tokens[t].owner].roles = users[tokens[t].owner].roles
      BY <1>2, <3>2, <3>3, <3>4, <3>6 DEF TokenAsRead
    <3>7. CASE Who(r).session /\ Who(r).id = tokens[t].owner
      BY <2>1, <3>2, <3>4, <3>7, TakerDisturbs
    <3>8. QED BY <3>5, <3>6, <3>7
  <2>4. TokenAsRead(q)' \/ Disturbed(q)'
    BY <1>3, <2>1, <2>2, <2>3
  <2>5. QED BY <1>2, <1>7, <2>4 DEF RightsOK, At
<1>8. CASE requests[q].at \notin {"findRoles", "writeUser", "useToken", "sumRoles"}
  BY <1>2, <1>8 DEF RightsOK, At
<1>9. QED BY <1>5, <1>6, <1>7, <1>8 DEF At

LEMMA OwnRights ==
  ASSUME NEW r \in Requests, BaseInv, Step(r), RightsOK(r)
  PROVE  RightsOK(r)'
<1>1. /\ Moved(r) /\ r \in Busy /\ RightStep(r)
  BY StepMoves, StepBusy DEF BaseInv
<1>2. Who(r)' = Who(r) /\ Read(r)' = requests'[r].read
  BY <1>1 DEF Moved, Who, Ask, Read
<1>3. UNCHANGED db /\ Disturbed(r) => Disturbed(r)'
  BY <1>1, DisturbedStays DEF db
<1>4. CASE requests'[r].at = "findRoles"
  <2>1. /\ UNCHANGED db
        /\ requests'[r].read = IF Who(r).id \in DOMAIN users THEN users[Who(r).id].roles
                                                             ELSE Absent
    BY <1>4, StepGoes, FirstSteps DEF Goes, Enters, Writes, AllKinds, AdminKinds
  <2>2. QED BY <1>2, <1>4, <2>1 DEF RightsOK, At, db
<1>5. CASE requests'[r].at = "writeUser"
  <2>1. /\ At(r, "findRoles") /\ UNCHANGED db /\ requests'[r].read.stored = Read(r)
        /\ Read(r) # Absent /\ requests'[r].read.manage =>
             Manage(FromGroups(Who(r).groups) \cup (Read(r) \cap DOMAIN roles))
    BY <1>5, StepGoes, FirstSteps DEF Goes, Enters, Writes, AllKinds, AdminKinds
  <2>2. SUFFICES ASSUME Read(r) # Absent
                 PROVE  /\ Who(r).id \in DOMAIN users
                        /\ requests'[r].read.manage => Holds(Who(r))' \/ Disturbed(r)'
    BY <1>2, <1>5, <2>1 DEF RightsOK, At, db
  <2>3. /\ Who(r).id \in DOMAIN users
        /\ users[Who(r).id].roles = Read(r) \/ Disturbed(r)
    BY <2>1, <2>2 DEF RightsOK
  <2>4. ASSUME requests'[r].read.manage, users[Who(r).id].roles = Read(r)
        PROVE  Holds(Who(r))'
    <3>1. Manage(FromGroups(Who(r).groups)) \/ Manage(users[Who(r).id].roles)
      BY <2>1, <2>2, <2>4 DEF Manage
    <3>2. Who(r).session
      BY <1>1, <2>1 DEF RightStep, At
    <3>3. QED BY <1>2, <2>1, <3>1, <3>2 DEF Holds, db, Manage, FromGroups
  <2>5. QED BY <1>3, <2>1, <2>3, <2>4
<1>6. CASE requests'[r].at = "useToken"
  <2>1. /\ UNCHANGED db /\ Who(r).id \in DOMAIN tokens /\ tokens[Who(r).id].usable
        /\ requests'[r].read.manage = tokens[Who(r).id].manage
        /\ requests'[r].read.roles = users[tokens[Who(r).id].owner].roles
    BY <1>6, StepGoes, FirstSteps DEF Goes, Enters, Writes, AllKinds, AdminKinds
  <2>2. TokenAsRead(r)'
    BY <1>2, <2>1 DEF TokenAsRead, db
  <2>3. QED BY <1>6, <2>2 DEF RightsOK, At
<1>7. CASE requests'[r].at = "sumRoles"
  <2>1. At(r, "useToken") /\ UNCHANGED db /\ requests'[r].read = Read(r)
    BY <1>7, StepGoes, FirstSteps DEF Goes, Enters, Writes, AllKinds, AdminKinds
  <2>2. TokenAsRead(r) \/ Disturbed(r)
    BY <2>1 DEF RightsOK, At
  <2>3. TokenAsRead(r) => TokenAsRead(r)'
    BY <1>2, <2>1 DEF TokenAsRead, db
  <2>4. QED BY <1>3, <1>7, <2>1, <2>2, <2>3 DEF RightsOK, At
<1>8. CASE requests'[r].at \notin {"findRoles", "writeUser", "useToken", "sumRoles"}
  BY <1>8 DEF RightsOK, At
<1>9. QED BY <1>4, <1>5, <1>6, <1>7, <1>8

-----------------------------------------------------------------------------
(* The roles an administrator writes.                                      *)

\* What excuses a difference is not forgotten.
LEMMA ExcusesStay ==
  ASSUME BaseInv, NEW r \in Requests, Arrived(r) \/ Step(r), NEW q \in Requests,
         requests[q].at # "unborn", NEW u
  PROVE  /\ Regranted(q, u) => Regranted(q, u)'
         /\ Reassigned(q, u) => Reassigned(q, u)'
<1>1. Met(q) \subseteq Met(q)'
  BY MetStays
<1>2. Ask(q)' = Ask(q)
  BY StepMoves DEF BaseInv, Moved, Arrived, Ask
<1>3. QED BY <1>1, <1>2 DEF Regranted, Reassigned

\* A user whose roles another request writes, or creates, is excused.
LEMMA WritesAreExcused ==
  ASSUME NEW r \in Requests, BaseInv, Step(r), NEW q \in Busy, q # r,
         NEW u \in DOMAIN users'
  PROVE  /\ \/ u \in DOMAIN users /\ users'[u].roles = users[u].roles
            \/ u \notin DOMAIN users
            \/ Regranted(q, u)'
         /\ \/ u \in DOMAIN users /\ users'[u].roles = users[u].roles
            \/ Ask(q).role \notin users'[u].roles
            \/ Reassigned(q, u)'
<1>1. PICK c : c = Ask(r)
  OBVIOUS
<1>2. q \in Requests /\ requests[q].at # "unborn" /\ Ask(q)' = Ask(q)
  BY StepMoves DEF BaseInv, Busy, Moved, Ask
<1>3. c \in Met(q)'
  BY <1>1, <1>2, WriterIsMet, MetStays
<1>4. c.kind = "deleteRole" \/ SessionOf(c, u) => Regranted(q, u)' /\ Reassigned(q, u)'
  BY <1>3 DEF Regranted, Reassigned
<1>5. CASE u \in DOMAIN users
  <2>1. \/ users'[u].roles = users[u].roles
        \/ /\ c.kind = "patchUsers" /\ u \in DOMAIN c.grants
           /\ users'[u].roles = c.grants[u]
        \/ c.kind = "deleteRole"
        \/ SessionOf(c, u)
    BY <1>1, <1>5, UsersWritten DEF Kind, Who, SessionOf
  <2>2. CASE /\ c.kind = "patchUsers" /\ u \in DOMAIN c.grants
             /\ users'[u].roles = c.grants[u]
    <3>1. Regranted(q, u)'
      BY <1>3, <2>2 DEF Regranted
    <3>2. Ask(q).role \in users'[u].roles => Reassigned(q, u)'
      BY <1>2, <1>3, <2>2 DEF Reassigned
    <3>3. QED BY <3>1, <3>2
  <2>3. QED BY <1>4, <1>5, <2>1, <2>2
<1>6. CASE u \notin DOMAIN users
  <2>1. SessionOf(c, u) \/ users'[u].roles = {}
    BY <1>1, <1>6, UsersWritten DEF Who, SessionOf
  <2>2. QED BY <1>4, <1>6, <2>1
<1>7. QED BY <1>5, <1>6

LEMMA OthersRoles ==
  ASSUME NEW r \in Requests, BaseInv, Step(r), NEW q \in Requests, q # r, RolesOK(q)
  PROVE  RolesOK(q)'
<1>1. /\ Read(q)' = Read(q) /\ Ask(q)' = Ask(q) /\ requests'[q] = requests[q]
  BY StepMoves DEF BaseInv, Moved, Read, Ask
<1>2. DOMAIN users \subseteq DOMAIN users'
  BY UsersWritten
<1>3. CASE At(q, "writeGrants")
  <2>1. q \in Busy /\ requests[q].at # "unborn"
    BY <1>3 DEF Busy, At
  <2>2. ASSUME NEW u \in DOMAIN Ask(q).grants \ Read(q)
        PROVE  /\ u \in DOMAIN users'
               /\ users'[u].roles = Ask(q).grants[u] \/ Regranted(q, u)'
    <3>1. /\ u \in DOMAIN users
          /\ users[u].roles = Ask(q).grants[u] \/ Regranted(q, u)
      BY <1>3, <2>2 DEF RolesOK
    <3>2. u \in DOMAIN users'
      BY <1>2, <3>1
    <3>3. users'[u].roles = users[u].roles \/ Regranted(q, u)'
      BY <2>1, <3>1, <3>2, WritesAreExcused
    <3>4. QED BY <2>1, <3>1, <3>2, <3>3, ExcusesStay
  <2>3. QED BY <1>1, <1>3, <2>2 DEF RolesOK, At
<1>4. CASE At(q, "writeHolders") \/ At(q, "deleteRole")
  <2>1. q \in Busy /\ requests[q].at # "unborn"
    BY <1>4 DEF Busy, At
  <2>2. ASSUME NEW u \in DOMAIN users', At(q, "writeHolders") => u \notin DOMAIN Read(q)
        PROVE  Ask(q).role \notin users'[u].roles \/ Reassigned(q, u)'
    <3>1. CASE u \in DOMAIN users /\ users'[u].roles = users[u].roles
      <4>1. Ask(q).role \notin users[u].roles \/ Reassigned(q, u)
        BY <1>4, <2>2, <3>1 DEF RolesOK
      <4>2. QED BY <2>1, <3>1, <4>1, ExcusesStay
    <3>2. CASE ~(u \in DOMAIN users /\ users'[u].roles = users[u].roles)
      BY <2>1, <3>2, WritesAreExcused
    <3>3. QED BY <3>1, <3>2
  <2>3. QED BY <1>1, <1>4, <2>2 DEF RolesOK, At
<1>5. CASE requests[q].at \notin {"writeGrants", "writeHolders", "deleteRole"}
  BY <1>1, <1>5 DEF RolesOK, At
<1>6. QED BY <1>3, <1>4, <1>5 DEF At

LEMMA OwnRoles ==
  ASSUME NEW r \in Requests, BaseInv, Step(r), RolesOK(r)
  PROVE  RolesOK(r)'
<1>1. /\ RightRead(r) /\ RightStep(r) /\ requests[r].at # "unborn"
      /\ Ask(r)' = Ask(r) /\ Read(r)' = requests'[r].read
  BY StepMoves, StepBusy, StepKind DEF BaseInv, Busy, Moved, Ask, Read
<1>2. CASE requests'[r].at = "writeGrants"
  <2>1. CASE Enters(r)
    <3>1. requests'[r].read = DOMAIN Ask(r).grants
      BY <1>2, <2>1, FirstSteps DEF Enters, AllKinds, AdminKinds
    <3>2. QED BY <1>1, <1>2, <3>1 DEF RolesOK, At
  <2>2. CASE ~Enters(r)
    <3>1. PICK u \in Read(r) \cap DOMAIN users :
            /\ At(r, "writeGrants") /\ users' = [users EXCEPT ![u].roles = Ask(r).grants[u]]
            /\ requests'[r].read = Read(r) \ {u}
      BY <1>2, <2>2, StepGoes DEF Goes, Writes
    <3>2. DOMAIN users[u] = {"roles", "human"}
      BY DEF BaseInv, Sound
    <3>3. users'[u].roles = Ask(r).grants[u] /\ DOMAIN users' = DOMAIN users
      BY <3>1, <3>2
    <3>4. ASSUME NEW v \in DOMAIN Ask(r).grants \ requests'[r].read
          PROVE  /\ v \in DOMAIN users'
                 /\ users'[v].roles = Ask(r).grants[v] \/ Regranted(r, v)'
      <4>1. CASE v = u
        BY <3>3, <4>1
      <4>2. CASE v # u
        <5>1. v \in DOMAIN Ask(r).grants \ Read(r)
          BY <3>1, <3>4, <4>2
        <5>2. /\ v \in DOMAIN users
              /\ users[v].roles = Ask(r).grants[v] \/ Regranted(r, v)
          BY <3>1, <5>1 DEF RolesOK
        <5>3. users'[v] = users[v]
          BY <3>1, <4>2, <5>2
        <5>4. QED BY <1>1, <3>3, <5>2, <5>3, ExcusesStay
      <4>3. QED BY <4>1, <4>2
    <3>5. QED BY <1>1, <1>2, <3>4 DEF RolesOK, At
  <2>3. QED BY <2>1, <2>2
<1>3. CASE requests'[r].at \in {"writeHolders", "deleteRole"}
  <2>1. CASE UNCHANGED db /\ requests'[r].at = "deleteRole"
    <3>1. \A u \in DOMAIN users : Ask(r).role \notin users[u].roles \/ Reassigned(r, u)
      <4>1. CASE At(r, "writeHolders")
        <5>1. PICK u \in DOMAIN Read(r) :
                /\ users' = [users EXCEPT ![u].roles = Read(r)[u]]
                /\ DOMAIN Read(r) = {u}
          BY <2>1, <4>1, StepGoes, FirstSteps DEF Goes, Enters, Writes, AllKinds, AdminKinds, At
        <5>2. u \in DOMAIN users /\ DOMAIN users[u] = {"roles", "human"}
          BY <1>1, <4>1, <5>1 DEF RightRead, BaseInv, Sound
        <5>3. users'[u].roles = Read(r)[u]
          BY <5>1, <5>2
        <5>4. Ask(r).role \notin users[u].roles
          BY <2>1, <4>1, <5>1, <5>3 DEF RolesOK, db
        <5>5. QED BY <4>1, <5>1, <5>4 DEF RolesOK
      <4>2. CASE ~At(r, "writeHolders")
        BY <2>1, <4>2, StepGoes, FirstSteps DEF Goes, Enters, Writes, AllKinds, AdminKinds
      <4>3. QED BY <4>1, <4>2
    <3>2. ASSUME NEW u \in DOMAIN users
          PROVE  Ask(r).role \notin users[u].roles \/ Reassigned(r, u)'
      BY <1>1, <3>1, ExcusesStay
    <3>3. QED BY <1>1, <2>1, <3>2 DEF RolesOK, At, db
  <2>2. CASE /\ At(r, "findHolders") /\ UNCHANGED db /\ requests'[r].at = "writeHolders"
             /\ requests'[r].read =
                  [u \in {v \in DOMAIN users : Ask(r).role \in users[v].roles} |->
                     users[u].roles \ {Ask(r).role}]
    <3>1. /\ \A u \in DOMAIN users :
               Ask(r).role \notin users[u].roles \/ u \in DOMAIN requests'[r].read
          /\ \A u \in DOMAIN requests'[r].read : Ask(r).role \notin requests'[r].read[u]
      BY <2>2
    <3>2. QED BY <1>1, <2>2, <3>1 DEF RolesOK, At, db
  <2>3. CASE /\ At(r, "writeHolders")
             /\ \E u \in DOMAIN Read(r) :
                  /\ users' = [users EXCEPT ![u].roles = Read(r)[u]]
                  /\ \/ DOMAIN Read(r) = {u} /\ requests'[r].at = "deleteRole"
                     \/ requests'[r].at = "writeHolders" /\ requests'[r].read = Without(Read(r), u)
    <3>1. PICK u \in DOMAIN Read(r) :
            /\ users' = [users EXCEPT ![u].roles = Read(r)[u]]
            /\ \/ DOMAIN Read(r) = {u} /\ requests'[r].at = "deleteRole"
               \/ requests'[r].at = "writeHolders" /\ requests'[r].read = Without(Read(r), u)
      BY <2>3
    <3>2. u \in DOMAIN users /\ DOMAIN users[u] = {"roles", "human"}
      BY <1>1, <2>3 DEF RightRead, BaseInv, Sound
    <3>3. /\ \A v \in DOMAIN Read(r) : Ask(r).role \notin Read(r)[v]
          /\ \A v \in DOMAIN users :
               Ask(r).role \notin users[v].roles \/ v \in DOMAIN Read(r) \/ Reassigned(r, v)
      BY <2>3 DEF RolesOK
    <3>4. /\ users'[u].roles = Read(r)[u] /\ DOMAIN users' = DOMAIN users
          /\ \A v \in DOMAIN users : v # u => users'[v] = users[v]
      BY <3>1, <3>2
    <3>5. ASSUME NEW v \in DOMAIN users'
          PROVE  \/ Ask(r).role \notin users'[v].roles
                 \/ v \in DOMAIN Read(r) \ {u}
                 \/ Reassigned(r, v)'
      BY <1>1, <3>3, <3>4, ExcusesStay
    <3>6. CASE DOMAIN Read(r) = {u} /\ requests'[r].at = "deleteRole"
      BY <1>1, <3>5, <3>6 DEF RolesOK, At
    <3>7. CASE requests'[r].at = "writeHolders" /\ requests'[r].read = Without(Read(r), u)
      <4>1. /\ DOMAIN requests'[r].read = DOMAIN Read(r) \ {u}
            /\ \A v \in DOMAIN Read(r) \ {u} : requests'[r].read[v] = Read(r)[v]
        BY <3>7 DEF Without
      <4>2. QED BY <1>1, <3>3, <3>5, <3>7, <4>1 DEF RolesOK, At
    <3>8. QED BY <3>1, <3>6, <3>7
  <2>4. QED BY <1>3, <2>1, <2>2, <2>3, StepGoes, FirstSteps
            DEF Goes, Enters, Writes, AllKinds, AdminKinds
<1>4. CASE requests'[r].at \notin {"writeGrants", "writeHolders", "deleteRole"}
  BY <1>4 DEF RolesOK, At
<1>5. QED BY <1>2, <1>3, <1>4

LEMMA ArrivalRights ==
  ASSUME BaseInv, NEW r \in Requests, Arrived(r), NEW q \in Requests,
         RightsOK(q), RolesOK(q)
  PROVE  RightsOK(q)' /\ RolesOK(q)'
<1>1. CASE q = r
  <2>1. requests'[q].at \in {"findUser", "findToken"}
    BY <1>1 DEF Arrived
  <2>2. QED BY <2>1 DEF RightsOK, RolesOK, At
<1>2. CASE q # r
  <2>1. /\ UNCHANGED <<roles, users, tokens>>
        /\ Read(q)' = Read(q) /\ Who(q)' = Who(q) /\ Ask(q)' = Ask(q)
        /\ requests'[q].at = requests[q].at
    BY <1>2 DEF Arrived, db, Read, Who, Ask
  <2>2. q \in Busy /\ Disturbed(q) => Disturbed(q)'
    BY <1>2, DisturbedStays
  <2>3. Holds(Who(q)) => Holds(Who(q))'
    BY <2>1 DEF Holds, Manage, FromGroups
  <2>4. TokenAsRead(q) => TokenAsRead(q)'
    BY <2>1 DEF TokenAsRead
  <2>5. RightsOK(q)'
    BY <2>1, <2>2, <2>3, <2>4 DEF RightsOK, At, Busy
  <2>6. CASE requests[q].at \in {"writeGrants", "writeHolders", "deleteRole"}
    <3>1. Met(q) \subseteq Met(q)'
      BY <2>6, MetStays
    <3>2. QED BY <2>1, <2>5, <3>1 DEF RolesOK, At, Regranted, Reassigned
  <2>7. CASE requests[q].at \notin {"writeGrants", "writeHolders", "deleteRole"}
    BY <2>1, <2>5, <2>7 DEF RolesOK, At
  <2>8. QED BY <2>6, <2>7
<1>3. QED BY <1>1, <1>2

-----------------------------------------------------------------------------
(* The invariant, and the theorems.                                        *)

LEMMA FirstInv ==
  ASSUME Init
  PROVE  AInv
<1>1. /\ DOMAIN requests = Requests
      /\ \A r \in Requests : /\ requests[r] = Unborn /\ requests[r].at = "unborn"
                              /\ requests[r].met = {} /\ requests[r].answer = "none"
                              /\ DOMAIN requests[r] = Fields
  BY DEF Init, Unborn, Fields
<1>2. Sound(roles, users, tokens)
  BY AccessAssumption DEF Init
<1>3. RequestsOK /\ MetOK
  BY <1>1 DEF RequestsOK, RequestOK, MetOK, Busy, Answered
<1>4. SessionsAreHuman
  BY AccessAssumption DEF Init, SessionsAreHuman, Accepted
<1>5. ASSUME NEW r \in Requests
      PROVE  Fresh(r) /\ RightStep(r) /\ RightRead(r) /\ RightsOK(r) /\ RolesOK(r)
  <2>1. r \notin DOMAIN roles \cup DOMAIN users \cup DOMAIN tokens
    BY AccessAssumption DEF Init
  <2>2. QED BY <1>1, <2>1 DEF Fresh, RightStep, RightRead, RightsOK, RolesOK, At
<1>6. QED BY <1>2, <1>3, <1>4, <1>5 DEF AInv, BaseInv

LEMMA NextInv ==
  ASSUME AInv, Next
  PROVE  AInv'
<1>1. BaseInv /\ BaseInv'
  BY BaseNext DEF AInv
<1>2. PICK r \in Requests : Arrived(r) \/ Step(r)
  BY <1>1, NextForms DEF BaseInv
<1>3. ASSUME NEW q \in Requests
      PROVE  RightsOK(q)' /\ RolesOK(q)'
  <2>1. RightsOK(q) /\ RolesOK(q)
    BY DEF AInv
  <2>2. CASE Arrived(r)
    BY <1>1, <2>1, <2>2, ArrivalRights
  <2>3. CASE Step(r) /\ q # r
    BY <1>1, <2>1, <2>3, OthersRights, OthersRoles
  <2>4. CASE Step(r) /\ q = r
    BY <1>1, <2>1, <2>4, OwnRights, OwnRoles
  <2>5. QED BY <1>2, <2>2, <2>3, <2>4
<1>4. QED BY <1>1, <1>3 DEF AInv

LEMMA StutterInv ==
  ASSUME AInv, UNCHANGED vars
  PROVE  AInv'
<1>1. UNCHANGED <<roles, users, tokens, requests>>
  BY DEF vars
<1>2. Sound(roles, users, tokens)' /\ RequestsOK' /\ MetOK' /\ SessionsAreHuman'
  BY <1>1 DEF AInv, BaseInv, Sound, RequestsOK, RequestOK, MetOK, Busy, SessionsAreHuman
<1>3. ASSUME NEW r \in Requests
      PROVE  Fresh(r)' /\ RightStep(r)' /\ RightRead(r)' /\ RightsOK(r)' /\ RolesOK(r)'
  <2>1. Fresh(r)' /\ RightStep(r)' /\ RightRead(r)'
    BY <1>1 DEF AInv, BaseInv, Fresh, RightStep, RightRead, Made, At, Read, Who, Ask, Kind
  <2>2. /\ Met(r)' = Met(r) /\ Who(r)' = Who(r) /\ Read(r)' = Read(r) /\ Ask(r)' = Ask(r)
        /\ requests' = requests
    BY <1>1 DEF Met, Who, Read, Ask
  <2>3. /\ Disturbed(r) => Disturbed(r)'
        /\ TokenAsRead(r) => TokenAsRead(r)'
        /\ Holds(Who(r)) => Holds(Who(r))'
    <3>1. Disturbed(r) => Disturbed(r)'
      BY <1>1, <2>2 DEF Disturbed, Takes
    <3>2. TokenAsRead(r) => TokenAsRead(r)'
      BY <1>1, <2>2 DEF TokenAsRead
    <3>3. Holds(Who(r)) => Holds(Who(r))'
      BY <1>1, <2>2 DEF Holds, Manage, FromGroups
    <3>4. QED BY <3>1, <3>2, <3>3
  <2>4. RightsOK(r)'
    BY <1>1, <2>2, <2>3 DEF AInv, RightsOK, At
  <2>5. RolesOK(r)'
    BY <1>1, <2>2 DEF AInv, RolesOK, Regranted, Reassigned, At
  <2>6. QED BY <2>1, <2>4, <2>5
<1>4. QED BY <1>2, <1>3 DEF AInv, BaseInv

\* What holds between any two steps: the rows are sound, the steps of a request
\* are those of what it asks, and what it has read is still true or has been
\* changed by a request it has met.
THEOREM AccessInvariant == Spec => []AInv
BY FirstInv, NextInv, StutterInv, PTL DEF Spec

\* The rows stay sound whatever requests overlap: every token has an owner,
\* a human for a personal token and a bot of its own for that of an
\* administrator (admin-token/business.ts, user/tokens/business.ts).
THEOREM RowsAreSound == Spec => []TypeOK
<1>1. AInv => TypeOK
  BY DEF AInv, BaseInv, RequestsOK, RequestOK, Answered, TypeOK
<1>2. QED BY <1>1, AccessInvariant, PTL

LEMMA RightsStep ==
  ASSUME AInv, Next, NEW r \in Requests,
         requests[r].at \in {"writeUser", "useToken", "sumRoles"},
         Kind(r) \in AdminKinds, requests'[r].at = FirstStep[Kind(r)],
         Who(r).session => Who(r).id \in DOMAIN users
  PROVE  Holds(Who(r)) \/ Disturbed(r)
<1>1. BaseInv /\ RightsOK(r) /\ RightStep(r) /\ RightRead(r)
  BY DEF AInv, BaseInv
<1>2. requests'[r].at \notin {"writeUser", "useToken", "sumRoles", "ended"}
  BY FirstSteps DEF AdminKinds
<1>3. PICK p \in Requests : Arrived(p) \/ (Step(p) /\ Moved(p))
  BY <1>1, NextForms DEF BaseInv
<1>4. Step(r)
  BY <1>2, <1>3 DEF Arrived, Moved
<1>5. Enters(r)
  BY <1>1, <1>2, <1>4, StepGoes, FirstSteps DEF Goes, Writes, AdminKinds, At
<1>6. CASE At(r, "writeUser")
  <2>1. Who(r).session /\ Read(r).manage /\ Read(r).stored # Absent
    BY <1>1, <1>5, <1>6 DEF Enters, At, RightStep
  <2>2. QED BY <1>1, <1>6, <2>1 DEF RightsOK
<1>7. CASE At(r, "useToken")
  <2>1. Read(r).manage /\ ~Who(r).session
    BY <1>1, <1>5, <1>7 DEF Enters, At, RightStep
  <2>2. TokenAsRead(r) \/ Disturbed(r)
    BY <1>1, <1>7 DEF RightsOK, At
  <2>3. TokenAsRead(r) => Holds(Who(r))
    BY <2>1 DEF TokenAsRead, Holds
  <2>4. QED BY <2>2, <2>3
<1>8. CASE At(r, "sumRoles")
  <2>1. Manage(Read(r).roles) /\ ~Who(r).session
    BY <1>1, <1>5, <1>8 DEF Enters, At, RightStep
  <2>2. TokenAsRead(r) \/ Disturbed(r)
    BY <1>1, <1>8 DEF RightsOK, At
  <2>3. TokenAsRead(r) => Holds(Who(r))
    BY <1>1, <1>8, <2>1 DEF TokenAsRead, Holds, RightRead, At
  <2>4. QED BY <2>2, <2>3
<1>9. QED BY <1>6, <1>7, <1>8 DEF At

\* A handler of an administrator begins only for who is one at that moment, or
\* was and has met a request that changes it (authUser of utils/controller.ts).
THEOREM RightsAreChecked == Spec => RightsAreHeld
<1>1. AInv /\ [Next]_vars =>
        [\A r \in Requests :
           (/\ requests[r].at \in {"writeUser", "useToken", "sumRoles"}
            /\ Kind(r) \in AdminKinds /\ requests'[r].at = FirstStep[Kind(r)]
            /\ Who(r).session => Who(r).id \in DOMAIN users) =>
             Holds(Who(r)) \/ \E b \in Met(r) : Takes(b, Who(r))]_vars
  BY RightsStep DEF Disturbed
<1>2. QED BY <1>1, AccessInvariant, PTL DEF Spec, RightsAreHeld

\* How an edit of the roles of users, and a deletion of a role, end well.
LEMMA Successes ==
  ASSUME BaseInv, Next, NEW r \in Requests, NEW kind, Succeeds(r, kind)
  PROVE  /\ kind = "patchUsers" =>
              /\ At(r, "writeGrants")
              /\ \E u \in DOMAIN users :
                   Read(r) = {u} /\ users' = [users EXCEPT ![u].roles = Ask(r).grants[u]]
         /\ kind = "deleteRole" => At(r, "deleteRole") /\ UNCHANGED users
<1>1. /\ requests[r].at # "ended" /\ requests'[r].at = "ended"
      /\ requests'[r].answer = "ok" /\ Kind(r) = kind
  BY DEF Succeeds
<1>2. PICK p \in Requests : Arrived(p) \/ (Step(p) /\ Moved(p))
  BY NextForms DEF BaseInv
<1>3. Step(r)
  BY <1>1, <1>2 DEF Arrived, Moved
<1>4. RequestsOK /\ RightStep(r) /\ Accepted(Ask(r)) /\ {"ok", "threw", "refused"} \subseteq Answered
  BY <1>3, StepKind DEF BaseInv, Answered
<1>5. SUFFICES ASSUME kind \in {"patchUsers", "deleteRole"}
               PROVE  \/ PatchUsers(r) /\ ~End(r, "threw")
                      \/ DeleteRole(r)
  <2>1. CASE PatchUsers(r) /\ ~End(r, "threw")
    <3>1. PICK u \in Read(r) :
            /\ u \in DOMAIN users /\ users' = [users EXCEPT ![u].roles = Ask(r).grants[u]]
            /\ \/ Read(r) = {u}
               \/ To(r, "writeGrants", Read(r) \ {u})
      BY <2>1 DEF PatchUsers, Each, At
    <3>2. ~To(r, "writeGrants", Read(r) \ {u})
      BY <1>1, <1>4, ToMoves
    <3>3. At(r, "writeGrants") /\ Kind(r) = "patchUsers"
      BY <1>4, <2>1 DEF PatchUsers, RightStep, At
    <3>4. QED BY <1>1, <3>1, <3>2, <3>3
  <2>2. CASE DeleteRole(r)
    BY <1>1, <1>4, <2>2 DEF DeleteRole, RightStep, At
  <2>3. QED BY <1>5, <2>1, <2>2
<1>6. ~End(r, "threw") /\ ~End(r, "refused")
  BY <1>1, <1>4, EndMoves
<1>7. ASSUME NEW u, NEW human, NEW manage
      PROVE  ~Authenticated(r, u, human, manage)
  <2>1. Kind(r) # "auth"
    BY <1>1, <1>5
  <2>2. SUFFICES ASSUME Authenticated(r, u, human, manage) PROVE FALSE
    OBVIOUS
  <2>3. LetThrough(r, u, human, manage)
    BY <1>1, <1>4, <2>1, <2>2, AuthenticatedMoves
  <2>4. QED BY <1>1, <2>3, FirstSteps DEF LetThrough, AllKinds, AdminKinds
<1>8. ~(\E step, read : step \notin {"unborn", "ended"} /\ To(r, step, read))
  BY <1>1, <1>4, ToMoves
<1>9. CASE FindUser(r) \/ FindRoles(r) \/ FindHolders(r) \/ InsertBot(r)
  BY <1>8, <1>9 DEF FindUser, FindRoles, FindHolders, InsertBot
<1>10. CASE WriteUser(r) \/ FindToken(r) \/ UseToken(r) \/ SumRoles(r)
  BY <1>6, <1>7, <1>8, <1>10 DEF WriteUser, FindToken, UseToken, SumRoles
<1>11. CASE ReadRoles(r) \/ WriteRoles(r) \/ CreateRole(r) \/ InsertToken(r) \/ Revoke(r)
            \/ DeleteOwn(r)
  BY <1>1, <1>4, <1>5, <1>11 DEF ReadRoles, WriteRoles, CreateRole, InsertToken, Revoke,
     DeleteOwn, RightStep, At
<1>12. CASE WriteHolders(r)
  BY <1>8, <1>12 DEF WriteHolders
<1>13. QED BY <1>3, <1>6, <1>9, <1>10, <1>11, <1>12 DEF Step

\* When an administrator is answered that roles were given, or that a role is
\* gone, the users have these roles and none has the one deleted, but for the
\* writes of requests met (patchUsers of user/business.ts, deleteRole of
\* admin-role/business.ts).
THEOREM RolesAreWritten == Spec => RolesAsGranted
<1>1. ASSUME AInv, Next, NEW r \in Requests, Succeeds(r, "patchUsers"),
             NEW u \in DOMAIN Ask(r).grants
      PROVE  users'[u].roles = Ask(r).grants[u] \/ Regranted(r, u)
  <2>1. BaseInv /\ RolesOK(r)
    BY <1>1 DEF AInv
  <2>2. PICK v \in DOMAIN users :
          /\ At(r, "writeGrants") /\ Read(r) = {v}
          /\ users' = [users EXCEPT ![v].roles = Ask(r).grants[v]]
    BY <1>1, <2>1, Successes
  <2>3. DOMAIN users[v] = {"roles", "human"}
    BY <2>1 DEF BaseInv, Sound
  <2>4. CASE u = v
    BY <2>2, <2>3, <2>4
  <2>5. CASE u # v
    <3>1. u \in DOMAIN users /\ (users[u].roles = Ask(r).grants[u] \/ Regranted(r, u))
      BY <1>1, <2>1, <2>2, <2>5 DEF RolesOK
    <3>2. users'[u] = users[u]
      BY <2>2, <2>5, <3>1
    <3>3. QED BY <3>1, <3>2
  <2>6. QED BY <2>4, <2>5
<1>2. ASSUME AInv, Next, NEW r \in Requests, Succeeds(r, "deleteRole"),
             NEW u \in DOMAIN users'
      PROVE  Ask(r).role \notin users'[u].roles \/ Reassigned(r, u)
  BY <1>2, Successes DEF AInv, RolesOK
<1>3. AInv /\ [Next]_vars =>
        [\A r \in Requests :
           /\ Succeeds(r, "patchUsers") =>
                \A u \in DOMAIN Ask(r).grants :
                  \/ users'[u].roles = Ask(r).grants[u]
                  \/ \E b \in Met(r) : \/ SessionOf(b, u)
                                       \/ b.kind = "patchUsers" /\ u \in DOMAIN b.grants
                                       \/ b.kind = "deleteRole"
           /\ Succeeds(r, "deleteRole") =>
                \A u \in DOMAIN users' :
                  \/ Ask(r).role \notin users'[u].roles
                  \/ \E b \in Met(r) : \/ SessionOf(b, u)
                                       \/ /\ b.kind = "patchUsers" /\ u \in DOMAIN b.grants
                                          /\ Ask(r).role \in b.grants[u]
                                       \/ b.kind = "deleteRole"]_vars
  BY <1>1, <1>2 DEF Regranted, Reassigned
<1>4. QED BY <1>3, AccessInvariant, PTL DEF Spec, RolesAsGranted
=============================================================================
