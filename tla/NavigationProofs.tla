--------------------------- MODULE NavigationProofs ---------------------------
(***************************************************************************)
(* Proofs about the navigations of a session (Navigation), for any number  *)
(* of navigations at a time, of projects and of failures: what the guards  *)
(* of the router let through, however the navigations overlap.             *)
(***************************************************************************)
EXTENDS Navigation, TLAPS

Stages == {"start", "auth", "settings", "project", "view", "leave"}

Navs == [at : Stages, to : Routes, blind : BOOLEAN]

TypeOK ==
  /\ navs \in [Slots -> {Free} \cup Navs]
  /\ user \in [loggedIn : {"unset", "yes", "no"}, auth : BOOLEAN, quick : BOOLEAN]
  /\ admin \in BOOLEAN /\ mine \in Memberships /\ listed \in BOOLEAN
  /\ archived \subseteq Projects
  /\ latest \in Slots \cup {None}
  /\ current \in Routes
  /\ failures \in Nat

\* A navigation that has not reached its first guard is the latest.
StartIsLatest(s) == navs[s].at = "start" => latest = s

\* The latest navigation is past the guards of the session only when the
\* session was found.
PastGuard(s) ==
  latest = s /\ navs[s].at \in {"settings", "project", "view"} /\ Gated(navs[s].to)
    => user.loggedIn = "yes"

\* From the page of a project a navigation leads to projects of the store,
\* and no project is opened without the store.
ProjectOfStore(s) ==
  latest = s /\ navs[s].at # "free" /\ navs[s].to.name = "project"
      /\ ~navs[s].to.byId /\ navs[s].to.slug \notin known
    => current.name # "project" /\ navs[s].at # "view"

\* The page of a project in the administration is asked for from its other
\* pages, by who has rights, or is the first one.
AdminProjectIsOffered(s) ==
  latest = s /\ navs[s].at # "free" /\ navs[s].to.name = "adminProject"
    => current.name = "blank" \/ (current.name = "admin" /\ AdminPerms = "some")

\* As long as the rights are not known, pages for users are opened blindly.
PassesBlindly(s) ==
  AdminPerms = "unknown" /\ navs[s].at \in {"project", "view"} /\ Gated(navs[s].to)
    => navs[s].blind

OpenedBlindly == AdminPerms = "unknown" /\ Gated(current) => blind

\* Who has no right is past the maintenance only if it was off when last read.
PastMaintenance(s) ==
  latest = s /\ navs[s].at \in {"project", "view"} /\ Gated(navs[s].to)
      /\ AdminPerms = "none" /\ setting = "on"
    => navs[s].blind

\* The server is asked for the project of a page only.
ForProject(s) ==
  navs[s].at = "project" => navs[s].to.name \in {"project", "adminProject"}

NavInv(s) ==
  /\ StartIsLatest(s)
  /\ ForProject(s)
  /\ PastGuard(s)
  /\ ProjectOfStore(s)
  /\ AdminProjectIsOffered(s)
  /\ PassesBlindly(s)
  /\ PastMaintenance(s)

NInv ==
  /\ TypeOK
  /\ \A s \in Slots : NavInv(s)
  /\ ArchivedIsLeft
  /\ OpenedBlindly
  /\ MaintenanceGate
-----------------------------------------------------------------------------
(* The steps of a navigation.                                              *)

LEMMA KnownRoutes ==
  /\ \A n \in {"blank", "home", "login", "logout", "maintenance", "projects", "admin"} :
       Route(n) \in Routes /\ Route(n).name = n
  /\ \A p \in Projects : ProjectRoute(p) \in Routes /\ AdminProjectRoute(p) \in Routes
BY DEF Route, ProjectRoute, AdminProjectRoute, Addresses, Routes

\* The page of a project is the page of some project.
LEMMA KnownSlugs ==
  ASSUME NInv, current.name = "project"
  PROVE  current.slug \in Projects
BY DEF NInv, TypeOK, Routes, Route, Addresses

LEMMA NavFields ==
  ASSUME TypeOK, NEW s \in Slots
  PROVE  /\ navs[s].at # "free" => navs[s] \in Navs
         /\ navs[s].at \in Stages \cup {"free"}
         /\ navs[s] = Free <=> navs[s].at = "free"
BY DEF TypeOK, Navs, Free, Stages

\* Only the navigation that ends changes.
LEMMA EndNavs ==
  ASSUME TypeOK, NEW s \in Slots, End(s)
  PROVE  /\ navs' \in [Slots -> {Free} \cup Navs]
         /\ navs'[s].at = "free"
         /\ \A q \in Slots \ {s} : navs'[q] = navs[q]
BY DEF TypeOK, End, Free

\* A navigation that goes on keeps its destination.
LEMMA GoNavs ==
  ASSUME TypeOK, NEW s \in Slots, navs[s].at # "free", NEW at \in Stages, Go(s, at)
  PROVE  /\ navs' \in [Slots -> {Free} \cup Navs]
         /\ navs'[s].at = at /\ navs'[s].to = navs[s].to
         /\ navs'[s].blind = navs[s].blind
         /\ \A q \in Slots \ {s} : navs'[q] = navs[q]
<1>1. navs[s] \in Navs
  BY NavFields
<1>2. [navs[s] EXCEPT !.at = at] \in Navs
  BY <1>1 DEF Navs
<1>3. QED BY <1>1, <1>2 DEF TypeOK, Go, Navs

\* A redirected one starts over, and is the latest.
LEMMA RedirectNavs ==
  ASSUME TypeOK, NEW s \in Slots, NEW to \in Routes, Redirect(s, to)
  PROVE  /\ navs' \in [Slots -> {Free} \cup Navs]
         /\ navs'[s].at = "start" /\ navs'[s].to = to
         /\ latest' = s
         /\ \A q \in Slots \ {s} : navs'[q] = navs[q]
<1>1. [at |-> "start", to |-> to, blind |-> FALSE] \in Navs
  BY DEF Navs, Stages
<1>2. QED BY <1>1 DEF TypeOK, Redirect

\* What beforeEach does once the session is known.
LEMMA GuardedCases ==
  ASSUME TypeOK, NEW s \in Slots, navs[s].at # "free", NEW u, Guarded(s, u)
  PROVE  \/ \E to \in {Route("login"), Route("home")} : Redirect(s, to)
         \/ Go(s, "settings") /\ latest' = latest /\ u.loggedIn = "yes"
         \/ /\ latest' = latest /\ ~Gated(navs[s].to)
            /\ \E at \in {"view", "leave"} : Goes(s, at)
            /\ navs[s].to.name \notin {"project", "adminProject"}
<1>1. CASE navs[s].to.name \in ValidPath
  <2>1. navs[s].to.name \notin {"projects", "project", "admin", "adminProject"}
    BY <1>1 DEF ValidPath
  <2>2. Entering(navs[s].to) \in {"view", "leave"}
    BY <2>1 DEF Entering
  <2>3. CASE navs[s].to.name = "login" /\ u.loggedIn = "yes"
    BY <1>1, <2>3 DEF Guarded
  <2>4. CASE ~(navs[s].to.name = "login" /\ u.loggedIn = "yes")
    BY <1>1, <2>1, <2>2, <2>4 DEF Guarded, Gated
  <2>5. QED BY <2>3, <2>4
<1>2. CASE navs[s].to.name \notin ValidPath
  BY <1>2 DEF Guarded, ValidPath
<1>3. QED BY <1>1, <1>2

\* The rights, and what they depend on.
LEMMA PermsSteps ==
  ASSUME TypeOK, admin' = admin
  PROVE  /\ AdminPerms \in {"unknown", "none", "some"}
         /\ AdminPerms = "unknown" <=> ~user.auth
         /\ user'.auth = user.auth /\ listed' = listed => AdminPerms' = AdminPerms
         /\ (user.auth => user'.auth) /\ (listed => listed') =>
              /\ AdminPerms = "some" => AdminPerms' = "some"
              /\ AdminPerms' = "unknown" => AdminPerms = "unknown"
              /\ AdminPerms' = "none" => AdminPerms \in {"unknown", "none"}
BY DEF TypeOK, AdminPerms

-----------------------------------------------------------------------------
(* The actions of a navigation.                                            *)

\* A navigation that ends has nothing to keep.
LEMMA EndKeeps ==
  ASSUME NEW s \in Slots, navs'[s].at = "free"
  PROVE  NavInv(s)'
BY DEF NavInv, StartIsLatest, ForProject, PastGuard, ProjectOfStore, AdminProjectIsOffered,
   PassesBlindly, PastMaintenance

\* One that starts over, for a page that is not that of a project, neither.
LEMMA RedirectKeeps ==
  ASSUME NEW s \in Slots, navs'[s].at = "start", latest' = s,
         navs'[s].to.name \notin {"project", "adminProject"}
  PROVE  NavInv(s)'
BY DEF NavInv, StartIsLatest, ForProject, PastGuard, ProjectOfStore, AdminProjectIsOffered,
   PassesBlindly, PastMaintenance

\* The navigations that do not move keep the invariant when the rights grow,
\* the store fills but for those that are dropped, and a new maintenance or the end of the session is seen
\* by the navigation that becomes the latest.
LEMMA OthersKeep ==
  ASSUME NInv, NEW q \in Slots, navs'[q] = navs[q],
         latest' = q => latest = q /\ current' = current /\ user'.loggedIn = user.loggedIn,
         admin' = admin, user.auth => user'.auth, listed => listed',
         known \subseteq known' \/ latest' # q,
         setting' = setting \/ (latest' = q => AdminPerms' # "none" \/ setting' # "on"),
         navs[q].at = "start" => latest' = q
  PROVE  NavInv(q)'
<1> USE DEF NInv, session
<1>1. latest' = q => latest = q
  OBVIOUS
<1>2. NavInv(q)
  BY DEF NInv
<1>3. /\ AdminPerms = "some" => AdminPerms' = "some"
      /\ AdminPerms' = "unknown" => AdminPerms = "unknown"
      /\ AdminPerms' = "none" => AdminPerms \in {"unknown", "none"}
  BY PermsSteps
<1>4. StartIsLatest(q)' /\ ForProject(q)' /\ PastGuard(q)'
  BY <1>1, <1>2 DEF NavInv, StartIsLatest, ForProject, PastGuard
<1>5. ProjectOfStore(q)'
  BY <1>1, <1>2 DEF NavInv, ProjectOfStore
<1>6. AdminProjectIsOffered(q)'
  BY <1>1, <1>2, <1>3 DEF NavInv, AdminProjectIsOffered
<1>7. PassesBlindly(q)'
  BY <1>2, <1>3 DEF NavInv, PassesBlindly
<1>8. PastMaintenance(q)'
  BY <1>1, <1>2, <1>3 DEF NavInv, PastMaintenance, PassesBlindly
<1>9. QED BY <1>4, <1>5, <1>6, <1>7, <1>8 DEF NavInv

\* The page that is open keeps its part when it does not change, nobody loses
\* a right and a new maintenance sends somebody away from it.
LEMMA PageKeeps ==
  ASSUME NInv, current' = current, blind' = blind, admin' = admin,
         user.auth => user'.auth, listed => listed', known \subseteq known',
         failures \in Nat, failures' \in Nat, failures <= failures',
         setting' = setting \/ (latest' = None => AdminPerms' # "none" \/ setting' # "on"),
         latest' = None => \/ latest = None
                           \/ failures' # 0
                           \/ current.name = "blank"
                           \/ (current.name = "admin" /\ AdminPerms = "some")
  PROVE  ArchivedIsLeft' /\ OpenedBlindly' /\ MaintenanceGate'
<1> USE DEF NInv, session
<1>1. /\ AdminPerms = "some" => AdminPerms' = "some"
      /\ AdminPerms' = "unknown" => AdminPerms = "unknown"
      /\ AdminPerms' = "none" => AdminPerms \in {"unknown", "none"}
  BY PermsSteps
<1>2. ArchivedIsLeft'
  BY DEF ArchivedIsLeft
<1>3. OpenedBlindly'
  BY <1>1 DEF OpenedBlindly, Gated
<1>4. MaintenanceGate'
  <2>1. failures' = 0 => failures = 0
    OBVIOUS
  <2>2. Gated(current') => current.name # "blank"
    BY DEF Gated
  <2>3. QED BY <1>1, <2>1, <2>2 DEF MaintenanceGate, OpenedBlindly, Gated
<1>5. QED BY <1>2, <1>3, <1>4

\* A guard that is rejected.
LEMMA StopN ==
  ASSUME NInv, Settled, NEW s \in Slots, Stop(s), failures' = failures + 1,
         UNCHANGED <<user, session, archived, listed, setting, known, current, blind>>
  PROVE  NInv'
<1> USE DEF NInv, session
<1>1. /\ navs' \in [Slots -> {Free} \cup Navs]
      /\ navs'[s].at = "free"
      /\ \A q \in Slots \ {s} : navs'[q] = navs[q]
      /\ latest' \in {latest, None}
  BY EndNavs DEF Stop
<1>2. TypeOK'
  BY <1>1 DEF TypeOK
<1>3. NavInv(s)'
  BY <1>1, EndKeeps
<1>4. ASSUME NEW q \in Slots, q # s PROVE NavInv(q)'
  BY <1>1, <1>4, OthersKeep, NavigationAssumption DEF Settled
<1>5. ArchivedIsLeft' /\ OpenedBlindly' /\ MaintenanceGate'
  <2>1. failures \in Nat /\ failures' \in Nat /\ failures <= failures' /\ failures' # 0
    BY DEF TypeOK
  <2>2. QED BY <2>1, PageKeeps
<1>6. QED BY <1>2, <1>3, <1>4, <1>5

\* A navigation that goes through beforeEach keeps its part.
LEMMA GuardedKeeps ==
  ASSUME NInv, NEW s \in Slots, navs[s].at \in {"start", "auth"}, NEW u, Guarded(s, u),
         user'.loggedIn = u.loggedIn, current' = current, known' = known, admin' = admin,
         user.auth => user'.auth, listed' = listed
  PROVE  /\ navs' \in [Slots -> {Free} \cup Navs]
         /\ \A q \in Slots \ {s} : navs'[q] = navs[q]
         /\ latest' \in {latest, s}
         /\ NavInv(s)'
<1> USE DEF NInv, session
<1>1. AdminPerms = "some" => AdminPerms' = "some"
  BY PermsSteps
<1>2. ASSUME NEW to \in {Route("login"), Route("home")}, Redirect(s, to)
      PROVE  /\ navs' \in [Slots -> {Free} \cup Navs]
             /\ \A q \in Slots \ {s} : navs'[q] = navs[q]
             /\ latest' \in {latest, s}
             /\ NavInv(s)'
  <2>1. to \in Routes /\ to.name \notin {"project", "adminProject"}
    BY KnownRoutes
  <2>2. QED BY <1>2, <2>1, RedirectNavs, RedirectKeeps
<1>3. CASE Go(s, "settings") /\ latest' = latest /\ u.loggedIn = "yes"
  <2>1. "settings" \in Stages
    BY DEF Stages
  <2>2. /\ navs' \in [Slots -> {Free} \cup Navs]
        /\ navs'[s].at = "settings" /\ navs'[s].to = navs[s].to
        /\ \A q \in Slots \ {s} : navs'[q] = navs[q]
    BY <1>3, <2>1, GoNavs
  <2>3. NavInv(s)'
    BY <1>1, <1>3, <2>2 DEF NavInv, StartIsLatest, ForProject, PastGuard, ProjectOfStore,
       AdminProjectIsOffered, PassesBlindly, PastMaintenance
  <2>4. QED BY <1>3, <2>2, <2>3
<1>4. ASSUME latest' = latest, ~Gated(navs[s].to),
             navs[s].to.name \notin {"project", "adminProject"},
             NEW at \in {"view", "leave"}, Goes(s, at)
      PROVE  /\ navs' \in [Slots -> {Free} \cup Navs]
             /\ \A q \in Slots \ {s} : navs'[q] = navs[q]
             /\ latest' \in {latest, s}
             /\ NavInv(s)'
  <2>1. CASE latest # s
    BY <1>4, <2>1, EndNavs, EndKeeps DEF Goes
  <2>2. CASE latest = s
    <3>1. at \in Stages /\ Go(s, at)
      BY <1>4, <2>2 DEF Stages, Goes
    <3>2. /\ navs' \in [Slots -> {Free} \cup Navs]
          /\ navs'[s].at = at /\ navs'[s].to = navs[s].to
          /\ \A q \in Slots \ {s} : navs'[q] = navs[q]
      BY <3>1, GoNavs
    <3>3. NavInv(s)'
      BY <1>4, <3>2 DEF NavInv, StartIsLatest, ForProject, PastGuard, ProjectOfStore,
         AdminProjectIsOffered, PassesBlindly, PastMaintenance, Gated
    <3>4. QED BY <1>4, <3>2, <3>3
  <2>3. QED BY <2>1, <2>2
<1>5. QED BY <1>2, <1>3, <1>4, GuardedCases

LEMMA SetIsLoggedInN ==
  ASSUME NInv, NEW s \in Slots, SetIsLoggedIn(s)
  PROVE  NInv'
<1> USE DEF NInv, session
<1> DEFINE here == IF authenticated THEN "yes" ELSE "no"
           u == [user EXCEPT !.loggedIn = here]
<1>1. /\ navs[s].at = "start" /\ latest = s
      /\ user' = u
      /\ UNCHANGED <<session, archived, listed, setting, known, current, blind, failures>>
  BY DEF SetIsLoggedIn, Changed, NavInv, StartIsLatest, session, archive, bounds
<1>2. /\ u \in [loggedIn : {"unset", "yes", "no"}, auth : BOOLEAN, quick : BOOLEAN]
      /\ u.loggedIn = here /\ u.auth = user.auth
  BY DEF TypeOK
<1>3. \/ Go(s, "auth") /\ latest' = latest
      \/ Guarded(s, u)
  BY <1>2 DEF SetIsLoggedIn
<1>4. AdminPerms' = AdminPerms
  BY <1>1, <1>2, PermsSteps
<1>5. /\ navs' \in [Slots -> {Free} \cup Navs]
      /\ \A q \in Slots \ {s} : navs'[q] = navs[q]
      /\ latest' = s
      /\ NavInv(s)'
  <2>1. CASE Go(s, "auth") /\ latest' = latest
    <3>1. "auth" \in Stages
      BY DEF Stages
    <3>2. /\ navs' \in [Slots -> {Free} \cup Navs]
          /\ navs'[s].at = "auth" /\ navs'[s].to = navs[s].to
          /\ \A q \in Slots \ {s} : navs'[q] = navs[q]
      BY <1>1, <2>1, <3>1, GoNavs
    <3>3. NavInv(s)'
      BY <1>1, <1>4, <2>1, <3>2 DEF NavInv, StartIsLatest, ForProject, PastGuard, ProjectOfStore,
         AdminProjectIsOffered, PassesBlindly, PastMaintenance
    <3>4. QED BY <1>1, <2>1, <3>2, <3>3
  <2>2. CASE Guarded(s, u)
    BY <1>1, <1>2, <2>2, GuardedKeeps
  <2>3. QED BY <1>3, <2>1, <2>2
<1>6. TypeOK'
  BY <1>1, <1>2, <1>5 DEF TypeOK
<1>7. ASSUME NEW q \in Slots, q # s PROVE NavInv(q)'
  <2>1. navs[q].at # "start"
    BY <1>1, <1>7 DEF NavInv, StartIsLatest
  <2>2. QED BY <1>1, <1>2, <1>5, <1>7, <2>1, OthersKeep
<1>8. ArchivedIsLeft' /\ OpenedBlindly' /\ MaintenanceGate'
  <2>1. latest' # None
    BY <1>5, NavigationAssumption
  <2>2. QED BY <1>1, <1>2, <2>1, PageKeeps DEF TypeOK
<1>9. QED BY <1>5, <1>6, <1>7, <1>8

LEMMA AuthN ==
  ASSUME NInv, Settled, NEW s \in Slots, Auth(s)
  PROVE  NInv'
<1> USE DEF NInv, session
<1>1. /\ navs[s].at = "auth"
      /\ UNCHANGED <<session, archived, listed, setting, known, current, blind>>
      /\ \A q \in Slots : navs[q].at # "start"
  BY DEF Auth, session, archive, Settled
<1>2. CASE /\ Changed([user EXCEPT !.auth = TRUE])
           /\ Guarded(s, user) /\ failures' = failures
  <2>1. /\ user' \in [loggedIn : {"unset", "yes", "no"}, auth : BOOLEAN, quick : BOOLEAN]
        /\ user'.loggedIn = user.loggedIn /\ user'.auth
    BY <1>2 DEF TypeOK, Changed
  <2>2. /\ navs' \in [Slots -> {Free} \cup Navs]
        /\ \A q \in Slots \ {s} : navs'[q] = navs[q]
        /\ latest' \in {latest, s}
        /\ NavInv(s)'
    BY <1>1, <1>2, <2>1, GuardedKeeps
  <2>3. TypeOK'
    BY <1>1, <1>2, <2>1, <2>2 DEF TypeOK
  <2>4. ASSUME NEW q \in Slots, q # s PROVE NavInv(q)'
    BY <1>1, <2>1, <2>2, <2>4, OthersKeep
  <2>5. ArchivedIsLeft' /\ OpenedBlindly' /\ MaintenanceGate'
    BY <1>1, <1>2, <2>1, <2>2, PageKeeps, NavigationAssumption DEF TypeOK
  <2>6. QED BY <2>2, <2>3, <2>4, <2>5
<1>3. CASE Stop(s) /\ failures' = failures + 1 /\ user' = user
  BY <1>1, <1>3, StopN
<1>4. QED BY <1>2, <1>3 DEF Auth

LEMMA ListSystemSettingsN ==
  ASSUME NInv, Settled, NEW s \in Slots, ListSystemSettings(s)
  PROVE  NInv'
<1> USE DEF NInv, session
<1>1. /\ navs[s].at = "settings"
      /\ UNCHANGED <<user, session, archived, listed, known, current, blind>>
      /\ \A q \in Slots : navs[q].at # "start"
      /\ AdminPerms' = AdminPerms
  BY PermsSteps DEF ListSystemSettings, session, archive, Settled
<1>2. CASE Stop(s) /\ failures' = failures + 1 /\ setting' = setting
  BY <1>1, <1>2, StopN
<1>3. CASE /\ setting' = IF maintenance THEN "on" ELSE "off"
           /\ failures' = failures
           /\ IF Gate(maintenance) THEN Redirect(s, Route("maintenance"))
              ELSE Passes(s) /\ UNCHANGED latest
  <2>1. /\ navs' \in [Slots -> {Free} \cup Navs]
        /\ \A q \in Slots \ {s} : navs'[q] = navs[q]
        /\ latest' \in {latest, s}
        /\ latest' # s => AdminPerms' # "none" \/ setting' # "on"
        /\ NavInv(s)'
    <3>1. CASE Gate(maintenance)
      BY <1>3, <3>1, KnownRoutes, RedirectNavs, RedirectKeeps
    <3>2. CASE ~Gate(maintenance) /\ latest # s
      BY <1>1, <1>3, <3>2, EndNavs, EndKeeps DEF Passes, Gate
    <3>3. CASE ~Gate(maintenance) /\ latest = s
      <4>1. navs[s] \in Navs
        BY <1>1, NavFields
      <4> DEFINE to == navs[s].to
                 at == Entering(to)
                 nav == [navs[s] EXCEPT !.at = at, !.blind = (AdminPerms = "unknown")]
      <4>2. /\ navs' = [navs EXCEPT ![s] = nav]
            /\ latest' = latest
        BY <1>3, <3>3 DEF Passes
      <4>3. /\ at \in {"leave", "project", "view"}
            /\ at = "project" => to.name \in {"project", "adminProject"}
            /\ at = "view" /\ to.name = "project" /\ ~to.byId => to.slug \in known
        BY <1>1, <3>3 DEF Entering, InStore, NavInv, ProjectOfStore
      <4> HIDE DEF at
      <4>4. /\ nav \in Navs /\ nav.at = at /\ nav.to = to
            /\ nav.blind = (AdminPerms = "unknown")
        BY <4>1, <4>3 DEF Navs, Stages
      <4> HIDE DEF nav
      <4>5. /\ navs' \in [Slots -> {Free} \cup Navs]
            /\ navs'[s] = nav
            /\ \A q \in Slots \ {s} : navs'[q] = navs[q]
        BY <4>2, <4>4 DEF TypeOK
      <4>6. AdminPerms' = "none" => setting' = "off"
        BY <1>1, <1>3, <3>3 DEF Gate
      <4>7. NavInv(s)'
        BY <1>1, <3>3, <4>2, <4>3, <4>4, <4>5, <4>6 DEF NavInv, StartIsLatest, ForProject,
           PastGuard, ProjectOfStore, AdminProjectIsOffered, PassesBlindly, PastMaintenance
      <4>8. QED BY <4>2, <4>5, <4>6, <4>7, <3>3
    <3>4. QED BY <3>1, <3>2, <3>3
  <2>2. TypeOK'
    BY <1>1, <1>3, <2>1 DEF TypeOK
  <2>3. ASSUME NEW q \in Slots, q # s PROVE NavInv(q)'
    BY <1>1, <2>1, <2>3, OthersKeep
  <2>4. ArchivedIsLeft' /\ OpenedBlindly' /\ MaintenanceGate'
    BY <1>1, <1>3, <2>1, PageKeeps, NavigationAssumption DEF TypeOK
  <2>5. QED BY <2>1, <2>2, <2>3, <2>4
<1>4. QED BY <1>2, <1>3 DEF ListSystemSettings

LEMMA GetProjectN ==
  ASSUME NInv, Settled, NEW s \in Slots, GetProject(s)
  PROVE  NInv'
<1> USE DEF NInv, session
<1>1. /\ navs[s].at = "project"
      /\ UNCHANGED <<user, session, archived, listed, setting, current, blind>>
      /\ \A q \in Slots : navs[q].at # "start"
      /\ AdminPerms' = AdminPerms
      /\ navs[s].to.name \in {"project", "adminProject"}
  BY PermsSteps DEF GetProject, session, archive, Settled, NavInv, ForProject
<1>2. failures \in Nat /\ failures' \in Nat /\ failures <= failures' /\ known \subseteq known'
  BY DEF GetProject, TypeOK
<1>3. /\ navs' \in [Slots -> {Free} \cup Navs]
      /\ \A q \in Slots \ {s} : navs'[q] = navs[q]
      /\ latest' \in {latest, s, None}
      /\ latest' = None => \/ latest = None \/ current.name = "blank"
                           \/ current.name = "admin" /\ AdminPerms = "some"
      /\ NavInv(s)'
  <2>1. CASE /\ Goes(s, "view") /\ latest' = latest
             /\ known' = known \cup ({navs[s].to.slug} \ archived)
             /\ Answers(navs[s].to)
    <3>1. CASE latest # s
      BY <2>1, <3>1, EndNavs, EndKeeps DEF Goes
    <3>2. CASE latest = s
      <4>1. "view" \in Stages /\ Go(s, "view")
        BY <2>1, <3>2 DEF Stages, Goes
      <4>2. /\ navs' \in [Slots -> {Free} \cup Navs]
            /\ navs'[s].at = "view" /\ navs'[s].to = navs[s].to
            /\ navs'[s].blind = navs[s].blind
            /\ \A q \in Slots \ {s} : navs'[q] = navs[q]
        BY <1>1, <4>1, GoNavs
      <4>3. NavInv(s)'
        BY <1>1, <2>1, <4>2 DEF NavInv, StartIsLatest, ForProject, PastGuard, ProjectOfStore,
           AdminProjectIsOffered, PassesBlindly, PastMaintenance, Answers
      <4>4. QED BY <2>1, <4>2, <4>3
    <3>3. QED BY <3>1, <3>2
  <2>2. CASE NotFound(s) /\ navs[s].to.name = "project"
    BY <2>2, KnownRoutes, RedirectNavs, RedirectKeeps, NavigationAssumption DEF NotFound
  <2>3. CASE NotFound(s) /\ navs[s].to.name = "adminProject"
    <3>1. End(s) /\ latest' = IF latest = s THEN None ELSE latest
      BY <2>3 DEF NotFound, Stop
    <3>2. latest = s => current.name = "blank" \/ (current.name = "admin" /\ AdminPerms = "some")
      BY <1>1, <2>3 DEF NavInv, AdminProjectIsOffered
    <3>3. QED BY <3>1, <3>2, EndNavs, EndKeeps
  <2>4. QED BY <1>1, <2>1, <2>2, <2>3 DEF GetProject
<1>4. TypeOK'
  BY <1>1, <1>2, <1>3 DEF TypeOK
<1>5. ASSUME NEW q \in Slots, q # s PROVE NavInv(q)'
  BY <1>1, <1>2, <1>3, <1>5, OthersKeep, NavigationAssumption
<1>6. ArchivedIsLeft' /\ OpenedBlindly' /\ MaintenanceGate'
  BY <1>1, <1>2, <1>3, PageKeeps, NavigationAssumption
<1>7. QED BY <1>3, <1>4, <1>5, <1>6

LEMMA EnterN ==
  ASSUME NInv, Settled, NEW s \in Slots, Enter(s)
  PROVE  NInv'
<1> USE DEF NInv, session
<1>1. /\ navs[s].at = "view"
      /\ UNCHANGED <<user, session, archived, listed, setting, known, failures>>
      /\ \A q \in Slots : navs[q].at # "start"
      /\ AdminPerms' = AdminPerms
      /\ navs[s] \in Navs
  BY PermsSteps, NavFields DEF Enter, session, bounds, Settled
<1>2. CASE latest # s
  <2>1. /\ navs' \in [Slots -> {Free} \cup Navs]
        /\ \A q \in Slots \ {s} : navs'[q] = navs[q]
        /\ NavInv(s)'
        /\ UNCHANGED <<latest, current, blind>>
    BY <1>2, EndNavs, EndKeeps DEF Enter
  <2>2. TypeOK'
    BY <1>1, <2>1 DEF TypeOK
  <2>3. ASSUME NEW q \in Slots, q # s PROVE NavInv(q)'
    BY <1>1, <2>1, <2>3, OthersKeep
  <2>4. ArchivedIsLeft' /\ OpenedBlindly' /\ MaintenanceGate'
    BY <1>1, <2>1, PageKeeps DEF TypeOK
  <2>5. QED BY <2>1, <2>2, <2>3, <2>4
<1>3. CASE latest = s
  <2>1. current' = navs[s].to /\ blind' = navs[s].blind
    BY <1>3 DEF Enter
  <2>2. /\ navs' \in [Slots -> {Free} \cup Navs]
        /\ \A q \in Slots \ {s} : navs'[q] = navs[q]
        /\ latest' \in {s, None}
        /\ NavInv(s)'
    <3>1. CASE Redirect(s, Route("home"))
      BY <3>1, KnownRoutes, RedirectNavs, RedirectKeeps
    <3>2. CASE Stop(s)
      BY <1>3, <3>2, EndNavs, EndKeeps DEF Stop
    <3>3. QED BY <1>3, <3>1, <3>2 DEF Enter
  <2>3. TypeOK'
    BY <1>1, <2>1, <2>2 DEF TypeOK, Navs
  <2>4. ASSUME NEW q \in Slots, q # s PROVE NavInv(q)'
    BY <1>1, <2>2, <2>4, OthersKeep, NavigationAssumption
  <2>5. ArchivedIsLeft'
    BY <1>1, <1>3, <2>1 DEF ArchivedIsLeft, NavInv, ProjectOfStore
  <2>6. OpenedBlindly'
    BY <1>1, <2>1 DEF OpenedBlindly, NavInv, PassesBlindly, Gated
  <2>7. MaintenanceGate'
    <3>1. AdminPerms = "none" /\ Gated(navs[s].to) /\ setting = "on" => navs[s].blind
      BY <1>1, <1>3 DEF NavInv, PastMaintenance
    <3>2. QED BY <1>1, <2>1, <3>1 DEF MaintenanceGate, Gated
  <2>8. QED BY <2>2, <2>3, <2>4, <2>5, <2>6, <2>7
<1>4. QED BY <1>2, <1>3

\* The console as it is loaded.
Loaded ==
  /\ \E to \in Routes : navs = FirstAt(to)
  /\ \E quick \in BOOLEAN : user = NewUser(quick)
  /\ latest = FirstSlot /\ current = Route("blank")
  /\ listed = FALSE /\ admin \in BOOLEAN /\ mine \in Memberships /\ failures \in Nat
  /\ archived \subseteq Projects

LEMMA LoadedN == Loaded => NInv
<1> SUFFICES ASSUME Loaded,
                    NEW to \in Routes, navs = FirstAt(to),
                    NEW quick \in BOOLEAN, user = NewUser(quick)
             PROVE  NInv
  BY DEF Loaded
<1> USE DEF Loaded
<1>1. FirstSlot \in Slots
  BY NavigationAssumption DEF FirstSlot
<1> DEFINE first == [at |-> "start", to |-> to, blind |-> FALSE]
<1>2. first \in Navs /\ first.at = "start" /\ first.to = to
  BY DEF Navs, Stages
<1> HIDE DEF first
<1>3. /\ navs \in [Slots -> {Free} \cup Navs]
      /\ navs[FirstSlot] = first
      /\ \A q \in Slots \ {FirstSlot} : navs[q].at = "free"
  BY <1>1, <1>2 DEF FirstAt, Empty, Free, first
<1>4. Route("blank") \in Routes /\ Route("blank").name = "blank"
  BY KnownRoutes
<1>5. user \in [loggedIn : {"unset", "yes", "no"}, auth : BOOLEAN, quick : BOOLEAN]
  BY DEF NewUser
<1>6. TypeOK
  BY <1>1, <1>3, <1>4, <1>5 DEF TypeOK
<1>7. ASSUME NEW q \in Slots PROVE NavInv(q)
  BY <1>1, <1>2, <1>3, <1>4 DEF NavInv, StartIsLatest, ForProject, PastGuard, ProjectOfStore,
     AdminProjectIsOffered, PassesBlindly, PastMaintenance
<1>8. ArchivedIsLeft /\ OpenedBlindly /\ MaintenanceGate
  BY <1>4 DEF ArchivedIsLeft, OpenedBlindly, MaintenanceGate, Gated
<1>9. QED BY <1>6, <1>7, <1>8 DEF NInv

LEMMA LeaveN ==
  ASSUME NInv, NEW s \in Slots, Leave(s)
  PROVE  NInv'
<1>1. Route("home") \in Routes
  BY KnownRoutes
<1>2. authenticated' \in BOOLEAN
  BY DEF Leave
<1>3. Loaded'
  BY <1>1, <1>2 DEF Leave, Loaded, NInv, TypeOK, session, bounds
<1>4. QED BY <1>3, LoadedN, PTL

-----------------------------------------------------------------------------
(* The other actions.                                                      *)

\* A push to the page that is open drops what was the latest.
LEMMA DropN ==
  ASSUME NInv, Settled, latest' = None, blind' = (blind \/ latest # None),
         current.name # "project" \/ current.slug \in known',
         UNCHANGED <<user, session, archived, listed, setting, navs, current, failures>>
  PROVE  NInv'
<1> USE DEF NInv, session
<1>1. TypeOK'
  BY DEF TypeOK
<1>2. ASSUME NEW q \in Slots PROVE NavInv(q)'
  BY <1>2, OthersKeep, NavigationAssumption DEF Settled
<1>3. AdminPerms' = AdminPerms
  BY PermsSteps
<1>4. ArchivedIsLeft'
  BY DEF ArchivedIsLeft
<1>5. OpenedBlindly' /\ MaintenanceGate'
  <2>1. blind => blind'
    BY Zenon
  <2>2. CASE latest = None
    BY <1>3, <2>1, <2>2 DEF OpenedBlindly, MaintenanceGate, Gated
  <2>3. CASE latest # None
    <3>1. blind'
      BY <2>3, Zenon
    <3>2. QED BY <3>1 DEF OpenedBlindly, MaintenanceGate
  <2>4. QED BY <2>2, <2>3
<1>6. QED BY <1>1, <1>2, <1>4, <1>5

\* A push to another page starts a navigation.
LEMMA RedirectN ==
  ASSUME NInv, Settled, NEW s \in Slots, NEW to \in Routes, Redirect(s, to),
         to.name = "project" => to.slug \in known,
         to.name = "adminProject" => current.name = "admin" /\ AdminPerms = "some",
         known \subseteq known' \/ to.name # "project",
         UNCHANGED <<user, session, archived, listed, setting, current, blind, failures>>
  PROVE  NInv'
<1> USE DEF NInv, session
<1>1. /\ navs' \in [Slots -> {Free} \cup Navs]
      /\ navs'[s].at = "start" /\ navs'[s].to = to /\ latest' = s
      /\ \A q \in Slots \ {s} : navs'[q] = navs[q]
  BY RedirectNavs
<1>2. TypeOK'
  BY <1>1 DEF TypeOK
<1>3. AdminPerms' = AdminPerms
  BY PermsSteps
<1>4. NavInv(s)'
  BY <1>1, <1>3 DEF NavInv, StartIsLatest, ForProject, PastGuard, ProjectOfStore,
     AdminProjectIsOffered, PassesBlindly, PastMaintenance
<1>5. ASSUME NEW q \in Slots, q # s PROVE NavInv(q)'
  BY <1>1, <1>5, OthersKeep DEF Settled
<1>6. ArchivedIsLeft' /\ MaintenanceGate'
  <2>1. latest' # None
    BY <1>1, NavigationAssumption
  <2>2. QED BY <2>1 DEF ArchivedIsLeft, MaintenanceGate
<1>7. OpenedBlindly'
  BY <1>3 DEF OpenedBlindly, Gated
<1>8. QED BY <1>2, <1>4, <1>5, <1>6, <1>7

LEMMA ClickN ==
  ASSUME NInv, Settled, Click
  PROVE  NInv'
<1> USE DEF NInv, session
<1>1. UNCHANGED <<user, session, archived, listed, setting, known, current, failures>>
  BY DEF Click, archive
<1>2. PICK to \in Links : Push(to)
  BY DEF Click
<1>3. /\ to \in Routes
      /\ to.name = "project" => to.slug \in known
      /\ to.name = "adminProject" => current.name = "admin" /\ AdminPerms = "some"
  <2>1. CASE to \in {Route(n) : n \in {"home", "login", "logout", "projects", "admin"}}
    BY <2>1, KnownRoutes
  <2>2. CASE to \in {ProjectRoute(p) : p \in known \cap mine}
    BY <2>2, KnownRoutes, NavigationAssumption DEF TypeOK, ProjectRoute
  <2>3. CASE /\ AdminPerms = "some" /\ current.name = "admin"
             /\ to \in {AdminProjectRoute(p) : p \in Projects}
    BY <2>3, KnownRoutes DEF AdminProjectRoute
  <2>4. QED BY <1>2, <2>1, <2>2, <2>3 DEF Links
<1>4. CASE to = current
  BY <1>1, <1>2, <1>3, <1>4, DropN DEF Push
<1>5. CASE to # current
  BY <1>1, <1>2, <1>3, <1>5, RedirectN DEF Push
<1>6. QED BY <1>4, <1>5

\* An answer to a list, or something that happens elsewhere, moves nobody.
LEMMA ElsewhereN ==
  ASSUME NInv, UNCHANGED <<user, session, setting, navs, latest, current, blind>>,
         archived' \subseteq Projects, listed => listed', listed' \in BOOLEAN, known \subseteq known',
         failures' \in Nat, failures <= failures'
  PROVE  NInv'
<1> USE DEF NInv, session
<1>1. TypeOK'
  BY DEF TypeOK
<1>2. ASSUME NEW q \in Slots PROVE NavInv(q)'
  <2>1. navs[q].at = "start" => latest = q
    BY DEF NavInv, StartIsLatest
  <2>2. QED BY <2>1, OthersKeep
<1>3. ArchivedIsLeft' /\ OpenedBlindly' /\ MaintenanceGate'
  BY PageKeeps DEF TypeOK
<1>4. QED BY <1>1, <1>2, <1>3

\* The end of an archive: the page of the project is being left.
LEMMA ArchivedN ==
  ASSUME NInv, Settled, Archived
  PROVE  NInv'
<1> USE DEF NInv, session
<1>1. UNCHANGED <<user, session, archived, listed, setting, current>>
  BY DEF Archived
<1>2. CASE LeaveDashboard /\ failures' = failures
  <2> DEFINE to == Route("projects")
  <2>1. to \in Routes /\ to.name = "projects"
    BY KnownRoutes
  <2>2. Push(to)
    BY <1>2 DEF LeaveDashboard
  <2> HIDE DEF to
  <2>3. CASE to = current
    BY <1>1, <1>2, <2>1, <2>2, <2>3, DropN DEF Push
  <2>4. CASE to # current
    BY <1>1, <1>2, <2>1, <2>2, <2>4, RedirectN DEF Push
  <2>5. QED BY <2>3, <2>4
<1>3. CASE /\ failures' = failures + 1 /\ failures < MaxFailures
           /\ UNCHANGED <<known, navs, latest, blind>>
  <2>1. /\ failures' \in Nat /\ failures <= failures' /\ listed' \in BOOLEAN
        /\ (listed => listed') /\ archived' \subseteq Projects
    BY <1>1, <1>3 DEF TypeOK
  <2>2. QED BY <1>1, <1>3, <2>1, ElsewhereN
<1>4. QED BY <1>2, <1>3 DEF Archived

\* Every step keeps the invariant.
LEMMA StepN ==
  ASSUME NInv, [Next]_vars
  PROVE  NInv'
<1>1. failures \in Nat /\ listed \in BOOLEAN /\ archived \subseteq Projects
  BY DEF NInv, TypeOK
<1>2. ASSUME NEW s \in Slots, Progress(s) PROVE NInv'
  BY <1>2, SetIsLoggedInN, AuthN, ListSystemSettingsN, GetProjectN, LeaveN, EnterN DEF Progress
<1>3. CASE ListRoles
  <2>1. /\ UNCHANGED <<user, session, setting, navs, latest, current, blind>> /\ known' = known
        /\ archived' = archived
    BY <1>3 DEF ListRoles, session, archive
  <2>2. listed' \in BOOLEAN /\ (listed => listed')
    <3>1. listed' = TRUE \/ listed' = listed
      BY <1>3 DEF ListRoles
    <3>2. QED BY <1>1, <3>1, Zenon
  <2>3. failures' \in Nat /\ failures <= failures'
    BY <1>1, <1>3 DEF ListRoles
  <2>4. QED BY <1>1, <2>1, <2>2, <2>3, ElsewhereN
<1>4. CASE ListMyProjects
  BY <1>1, <1>4, ElsewhereN DEF ListMyProjects, session, archive
<1>5. CASE Settled /\ Click
  BY <1>5, ClickN
<1>6. CASE Archive
  <2>1. current.slug \in Projects
    BY <1>6, KnownSlugs DEF Archive
  <2>2. QED BY <1>1, <1>6, <2>1, ElsewhereN DEF Archive, session
<1>7. CASE Settled /\ Archived
  BY <1>7, ArchivedN
<1>8. CASE Expire
  BY <1>1, <1>8, ElsewhereN DEF Expire, session, archive, bounds
<1>9. CASE Switch
  BY <1>1, <1>9, ElsewhereN DEF Switch, session, archive
<1>10. CASE UNCHANGED vars
  BY <1>1, <1>10, ElsewhereN DEF vars, session, archive, bounds
<1>11. QED BY <1>2, <1>3, <1>4, <1>5, <1>6, <1>7, <1>8, <1>9, <1>10 DEF Next
-----------------------------------------------------------------------------
\* The invariant holds of every reachable state: it is what router.beforeEach,
\* the guards of the routes and the stores keep together.
THEOREM NavigationInvariant == Spec => []NInv
<1>1. Init => NInv
  <2>1. Init => Loaded
    BY DEF Init, Loaded
  <2>2. QED BY <2>1, LoadedN
<1>2. NInv /\ [Next]_vars => NInv'
  BY StepN
<1>3. QED BY <1>1, <1>2, PTL DEF Spec

\* The page of a project is opened, by the router, only when projectsBySlug has
\* the project, for any number of navigations that overlap with one another and
\* with archives that take projects out of it.
THEOREM ProjectsAreKnown == Spec => ProjectIsKnown
<1> DEFINE Opened == /\ current' # current /\ current'.name = "project" /\ ~current'.byId
<1>1. ASSUME NInv, [Next]_vars
      PROVE  [Opened => current'.slug \in known']_vars
  <2>1. ASSUME NEW s \in Slots, Enter(s), latest = s
        PROVE  Opened => current'.slug \in known'
    BY <1>1, <2>1 DEF Enter, NInv, NavInv, ProjectOfStore
  <2>2. ASSUME NEW s \in Slots, Enter(s), latest # s
        PROVE  current' = current
    BY <2>2 DEF Enter
  <2>3. ASSUME NEW s \in Slots, Leave(s)
        PROVE  current'.name # "project"
    BY <2>3, KnownRoutes DEF Leave
  <2>4. ASSUME NEW s \in Slots,
               SetIsLoggedIn(s) \/ Auth(s) \/ ListSystemSettings(s) \/ GetProject(s)
        PROVE  current' = current
    BY <2>4 DEF SetIsLoggedIn, Auth, ListSystemSettings, GetProject
  <2>5. CASE ListRoles \/ ListMyProjects \/ Click \/ Archive \/ Archived \/ Expire \/ Switch
    BY <2>5 DEF ListRoles, ListMyProjects, Click, Archive, Archived, Expire, Switch
  <2>6. CASE UNCHANGED vars
    BY <2>6
  <2>7. QED BY <1>1, <2>1, <2>2, <2>3, <2>4, <2>5, <2>6 DEF Next, Progress
<1>2. QED BY <1>1, NavigationInvariant, PTL DEF Spec, ProjectIsKnown

\* Where navigations end without a failure, the page of a project is open only
\* with the project in the store: the dashboard whose archive takes it out is
\* left, whatever the user does meanwhile.
THEOREM ArchivedAreLeft == Spec => []ArchivedIsLeft
<1>1. NInv => ArchivedIsLeft
  BY DEF NInv
<1>2. QED BY <1>1, NavigationInvariant, PTL

\* The maintenance keeps who has no right out of the pages for users, but
\* where the rights were not known when the guard looked at them.
THEOREM MaintenanceIsGated == Spec => []MaintenanceGate
<1>1. NInv => MaintenanceGate
  BY DEF NInv
<1>2. QED BY <1>1, NavigationInvariant, PTL

\* A page for users is opened only for a user whose session was found.
THEOREM GatedPagesNeedSession == Spec => GatedNeedsSession
<1>1. ASSUME NInv, [Next]_vars
      PROVE  [current' # current /\ Gated(current') => user.loggedIn = "yes"]_vars
  <2>1. ASSUME NEW s \in Slots, Enter(s), latest = s
        PROVE  Gated(current') => user.loggedIn = "yes"
    BY <1>1, <2>1 DEF Enter, NInv, NavInv, PastGuard, Gated
  <2>2. ASSUME NEW s \in Slots, Enter(s), latest # s
        PROVE  current' = current
    BY <2>2 DEF Enter
  <2>3. ASSUME NEW s \in Slots, Leave(s)
        PROVE  ~Gated(current')
    BY <2>3, KnownRoutes DEF Leave, Gated
  <2>4. ASSUME NEW s \in Slots,
               SetIsLoggedIn(s) \/ Auth(s) \/ ListSystemSettings(s) \/ GetProject(s)
        PROVE  current' = current
    BY <2>4 DEF SetIsLoggedIn, Auth, ListSystemSettings, GetProject
  <2>5. CASE ListRoles \/ ListMyProjects \/ Click \/ Archive \/ Archived \/ Expire \/ Switch
    BY <2>5 DEF ListRoles, ListMyProjects, Click, Archive, Archived, Expire, Switch
  <2>6. CASE UNCHANGED vars
    BY <2>6
  <2>7. QED BY <1>1, <2>1, <2>2, <2>3, <2>4, <2>5, <2>6 DEF Next, Progress
<1>2. QED BY <1>1, NavigationInvariant, PTL DEF Spec, GatedNeedsSession
=============================================================================
