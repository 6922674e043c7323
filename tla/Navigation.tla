----------------------------- MODULE Navigation -----------------------------
(***************************************************************************)
(* The session of a user in the console (apps/client): the guards of the   *)
(* router, the profile and the roles the rights are computed from, the     *)
(* maintenance mode, and the projects the pages are opened for.            *)
(*                                                                         *)
(* A navigation waits, in its guards, for answers of the server; another   *)
(* one may be started meanwhile, and vue-router drops the first at the end *)
(* of the guards it is in, unless they redirect it.                        *)
(***************************************************************************)
EXTENDS Integers, FiniteSets

CONSTANTS
  Projects,        \* slugs
  Memberships,     \* the sets of projects the user may be a member of
  Slots,           \* names of the navigations that may run at a time
  MaxClicks,       \* bound on the navigations the user starts
  MaxFailures,     \* bound on the requests that fail
  MaxSwitches,     \* bound on the changes of the maintenance mode
  None             \* no project, no navigation

ASSUME NavigationAssumption ==
  /\ Memberships \subseteq SUBSET Projects /\ None \notin Projects
  /\ Slots # {} /\ None \notin Slots
  /\ MaxClicks \in Nat /\ MaxFailures \in Nat /\ MaxSwitches \in Nat

VARIABLES
  authenticated,  \* keycloak.authenticated
  admin,          \* the server gives the user a role of administration
  mine,           \* the projects the server lists for the user
  maintenance,    \* the setting, on the server
  user,           \* userStore: isLoggedIn, whether apiAuthInfos is set; App.vue's
                  \* isLoggedIn, for its quick link
  listed,         \* adminRoleStore.roles is not empty
  setting,        \* systemSettingsByKey.maintenance, as last read
  known,          \* the keys of projectsBySlug
  asked,          \* the lists that are waited for (of several requests of a
                  \* list, any answer will do)
  archived,       \* the projects the server has archived, whose slug changed
  archiving,      \* the project of the dashboard that waits for an archive
  navs,           \* the navigations that run
  latest,         \* vue-router's pendingLocation
  current,        \* the route that is open
  blind,          \* its guard looked at the rights when they were not known, or
                  \* what would have left it was dropped for a push to it
  clicks, failures, switches

session == <<admin, mine>>
archive == <<archived, archiving>>
bounds == <<clicks, failures, switches>>
vars == <<authenticated, session, maintenance, user, listed, setting, known, asked,
          archive, navs, latest, current, blind, bounds>>

\* The pages of a project are opened by its slug; an address may also give its
\* id, that the server accepts (getProjectOrThrow).
Route(name) == [name |-> name, slug |-> None, byId |-> FALSE]

ProjectRoute(slug) == [name |-> "project", slug |-> slug, byId |-> FALSE]

AdminProjectRoute(slug) == [name |-> "adminProject", slug |-> slug, byId |-> FALSE]

Addresses ==
  [name : {"project", "adminProject"}, slug : Projects, byId : BOOLEAN]

Routes ==
  {Route(n) : n \in {"blank", "home", "login", "logout", "maintenance", "projects", "admin"}}
    \cup Addresses

Free == [at |-> "free"]

\* The pages that are for users who are logged in.
Gated(r) == r.name \in {"projects", "project", "admin", "adminProject"}

\* A variant where the page of the maintenance is guarded like the others.
BadValidPath == {"login", "logout", "home"}

ValidPath == {"login", "logout", "home", "maintenance"}

\* adminPerms: null, 0n, or something.
AdminPerms ==
  IF ~user.auth THEN "unknown" ELSE IF listed /\ admin THEN "some" ELSE "none"
-----------------------------------------------------------------------------
(* The watchers of App.vue, which lists the roles, then the projects, and   *)
(* of SelectProject.vue, which lists the projects, each time the user store *)
(* changes and they are not there.                                          *)

\* For App.vue any project will do, for SelectProject.vue one of the user's.
MissingProjects == IF known = {} THEN {"projects"} ELSE {}

MissingMyProjects == IF known \cap mine = {} THEN {"projects"} ELSE {}

Watched(u) ==
  IF u.loggedIn # "yes" THEN asked
  ELSE asked \cup MissingMyProjects
         \cup IF listed THEN MissingProjects ELSE {"roles"}

Changed(u) ==
  /\ user' = u
  /\ asked' = IF u = user THEN asked ELSE Watched(u)

ListRoles ==
  /\ "roles" \in asked
  /\ \/ /\ listed' = TRUE
        /\ asked' = (asked \ {"roles"}) \cup MissingProjects
        /\ UNCHANGED failures
     \/ /\ failures < MaxFailures /\ failures' = failures + 1
        /\ asked' = asked \ {"roles"}
        /\ UNCHANGED listed
  /\ UNCHANGED <<authenticated, session, maintenance, user, setting, known, archive, navs,
                 latest, current, blind, clicks, switches>>

ListMyProjects ==
  /\ "projects" \in asked
  /\ asked' = asked \ {"projects"}
  /\ \/ known' = known \cup (mine \ archived) /\ UNCHANGED failures
     \/ failures < MaxFailures /\ failures' = failures + 1 /\ UNCHANGED known
  /\ UNCHANGED <<authenticated, session, maintenance, user, listed, setting, archive, navs,
                 latest, current, blind, clicks, switches>>
-----------------------------------------------------------------------------
(* The steps of a navigation.                                              *)

Go(s, at) == navs' = [navs EXCEPT ![s].at = at]

End(s) == navs' = [navs EXCEPT ![s] = Free]

\* A navigation that is not the latest any more is dropped.
Goes(s, at) == IF latest = s THEN Go(s, at) ELSE End(s)

\* next(location): the navigation starts over, and is the latest.
Redirect(s, to) ==
  /\ navs' = [navs EXCEPT ![s] = [at |-> "start", to |-> to, blind |-> FALSE]]
  /\ latest' = s

\* A guard was rejected, or the route is open.
Stop(s) ==
  /\ End(s)
  /\ latest' = IF latest = s THEN None ELSE latest

\* The store has the project under the name the address gives.
InStore(r) == ~r.byId /\ r.slug \in known

\* beforeEnter is for a record that is entered: not from a project to
\* another one.  /admin is another record.
Entering(to) ==
  CASE to.name \in {"login", "logout"} -> "leave"
    [] to.name = "project" /\ current.name # "project" /\ ~InStore(to) -> "project"
    [] to.name = "adminProject" /\ current.name # "adminProject" -> "project"
    [] OTHER -> "view"

\* A variant that lets pass who is not logged in.
BadGuarded(s, u) ==
  LET to == navs[s].to IN
  CASE to.name = "login" /\ u.loggedIn = "yes" -> Redirect(s, Route("home"))
    [] to.name \notin ValidPath /\ u.loggedIn = "yes" -> Go(s, "settings") /\ UNCHANGED latest
    [] OTHER -> Goes(s, Entering(to)) /\ UNCHANGED latest

\* beforeEach, after setIsLoggedIn.
Guarded(s, u) ==
  LET to == navs[s].to IN
  CASE to.name \notin ValidPath /\ u.loggedIn # "yes" -> Redirect(s, Route("login"))
    [] to.name = "login" /\ u.loggedIn = "yes" -> Redirect(s, Route("home"))
    [] to.name \notin ValidPath /\ u.loggedIn = "yes" -> Go(s, "settings") /\ UNCHANGED latest
    [] OTHER -> Goes(s, Entering(to)) /\ UNCHANGED latest

\* setIsLoggedIn: isLoggedIn is set before the profile is awaited.
SetIsLoggedIn(s) ==
  /\ navs[s].at = "start"
  /\ LET here == IF authenticated THEN "yes" ELSE "no"
         u == [user EXCEPT !.loggedIn = here]
     IN /\ Changed(u)
        /\ IF user.loggedIn # here /\ authenticated
           THEN Go(s, "auth") /\ UNCHANGED latest
           ELSE Guarded(s, u)
  /\ UNCHANGED <<authenticated, session, maintenance, listed, setting, known, archive,
                 current, blind, bounds>>

\* The answer to setUserProfile; a failure rejects the guard, and isLoggedIn
\* stays.
Auth(s) ==
  /\ navs[s].at = "auth"
  /\ \/ /\ Changed([user EXCEPT !.auth = TRUE])
        /\ Guarded(s, user)
        /\ UNCHANGED failures
     \/ /\ failures < MaxFailures /\ failures' = failures + 1
        /\ Stop(s)
        /\ UNCHANGED <<user, asked>>
  /\ UNCHANGED <<authenticated, session, maintenance, listed, setting, known, archive,
                 current, blind, clicks, switches>>

\* A variant that looks at the setting as it was before the answer.
BadGate(on) == setting = "on" /\ AdminPerms = "none"

Gate(on) == on /\ AdminPerms = "none"

Passes(s) ==
  IF latest # s THEN End(s)
  ELSE navs' = [navs EXCEPT ![s].at = Entering(navs[s].to), ![s].blind = (AdminPerms = "unknown")]

\* The answer to listSystemSettings('maintenance').
ListSystemSettings(s) ==
  /\ navs[s].at = "settings"
  /\ \/ /\ setting' = IF maintenance THEN "on" ELSE "off"
        /\ IF Gate(maintenance) THEN Redirect(s, Route("maintenance"))
           ELSE Passes(s) /\ UNCHANGED latest
        /\ UNCHANGED failures
     \/ /\ failures < MaxFailures /\ failures' = failures + 1
        /\ Stop(s)
        /\ UNCHANGED setting
  /\ UNCHANGED <<authenticated, session, maintenance, user, listed, known, asked, archive,
                 current, blind, clicks, switches>>

\* A variant that opens the project whatever the answer is.
BadNotFound(s) ==
  Goes(s, "view") /\ UNCHANGED latest

\* A project that cannot be read: its page leads to the list, that of the
\* administration nowhere.
NotFound(s) ==
  IF navs[s].to.name = "project" THEN Redirect(s, Route("projects")) ELSE Stop(s)

\* The server finds the project, and lets the user read it: one that is
\* archived has another slug, and is for administrators who know its id.
Answers(to) ==
  IF to.slug \in archived THEN admin /\ to.byId ELSE to.slug \in mine \/ admin

\* The answer to getProject, in beforeEnter: the project is stored under the
\* slug that is answered.
GetProject(s) ==
  /\ navs[s].at = "project"
  /\ LET to == navs[s].to
     IN \/ /\ Answers(to)
           /\ known' = known \cup ({to.slug} \ archived)
           /\ Goes(s, "view")
           /\ UNCHANGED <<latest, failures>>
        \/ /\ Answers(to) => failures < MaxFailures
           /\ failures' = failures + IF Answers(to) THEN 1 ELSE 0
           /\ NotFound(s)
           /\ UNCHANGED known
  /\ UNCHANGED <<authenticated, session, maintenance, user, listed, setting, asked, archive,
                 current, blind, clicks, switches>>

\* DsoAdmin, when it is mounted, turns away who has no right.
TurnsAway(to) ==
  /\ to.name \in {"admin", "adminProject"} /\ current.name \notin {"admin", "adminProject"}
  /\ AdminPerms = "none"

\* A dashboard that waits for an archive is used again for the next project,
\* if that is opened on its dashboard; elsewhere it keeps its own.
Reused(to) ==
  IF archiving # None /\ current.name = "project" /\ to.name = "project"
    THEN archiving' \in {archiving, to.slug}
    ELSE UNCHANGED archiving

\* The component is loaded and the route becomes the current one; the list of
\* projects (DsoProjects) reads it again.
Enter(s) ==
  /\ navs[s].at = "view"
  /\ IF latest # s
     THEN End(s) /\ UNCHANGED <<latest, current, blind, asked, archiving>>
     ELSE LET to == navs[s].to
          IN /\ current' = to
             /\ blind' = navs[s].blind
             /\ asked' = asked \cup IF to.name = "projects" THEN {"projects"} ELSE {}
             /\ Reused(to)
             /\ IF TurnsAway(to) THEN Redirect(s, Route("home")) ELSE Stop(s)
  /\ UNCHANGED <<authenticated, session, maintenance, user, listed, setting, known, archived,
                 bounds>>
-----------------------------------------------------------------------------
\* A guard that nobody waits for runs before anything else.
Settled == \A s \in Slots : navs[s].at # "start"

Empty == [s \in Slots |-> Free]

FirstSlot == CHOOSE s \in Slots : TRUE

\* The console as it is loaded, before its first navigation.
NewUser(quick) == [loggedIn |-> "unset", auth |-> FALSE, quick |-> quick]

FirstAt(to) == [Empty EXCEPT ![FirstSlot] = [at |-> "start", to |-> to, blind |-> FALSE]]

Init ==
  /\ authenticated \in BOOLEAN /\ admin \in BOOLEAN
  /\ mine \in Memberships /\ maintenance \in BOOLEAN
  /\ user = NewUser(authenticated) /\ listed = FALSE /\ setting = "unknown" /\ known = {}
  /\ asked = {} /\ archived = {} /\ archiving = None
  /\ \E to \in Routes \ {Route("blank")} : navs = FirstAt(to)
  /\ latest = FirstSlot /\ current = Route("blank") /\ blind = FALSE
  /\ clicks = 0 /\ failures = 0 /\ switches = 0

\* login and logout leave for Keycloak, which loads the console anew.
Leave(s) ==
  /\ navs[s].at = "leave"
  /\ authenticated' = (navs[s].to.name = "login")
  /\ user' = NewUser(authenticated') /\ listed' = FALSE /\ setting' = "unknown" /\ known' = {}
  /\ asked' = {} /\ archiving' = None /\ navs' = FirstAt(Route("home"))
  /\ latest' = FirstSlot /\ current' = Route("blank") /\ blind' = FALSE
  /\ UNCHANGED <<session, maintenance, archived, bounds>>

\* The links of the menus and of the lists of projects, those of the user and
\* that of the administration.
Links ==
  {Route(n) : n \in {"home", "login", "logout", "projects", "admin"}} \cup {ProjectRoute(p) : p \in known \cap mine}
    \cup IF AdminPerms = "some" /\ current.name = "admin"
           THEN {AdminProjectRoute(p) : p \in Projects} ELSE {}

Offered(to) ==
  CASE to.name \in {"projects", "project"} -> user.loggedIn = "yes"
    [] to.name \in {"login", "logout"} -> user.quick = (to.name = "logout")
    [] to.name = "admin" -> AdminPerms = "some"
    [] OTHER -> TRUE

\* router.push: where the router is already, nothing is opened, but the
\* navigation that was the latest is dropped all the same.
Push(to) ==
  IF to = current
    THEN latest' = None /\ blind' = (blind \/ latest # None) /\ UNCHANGED navs
    ELSE UNCHANGED blind /\ \E s \in Slots : navs[s] = Free /\ Redirect(s, to)

Click ==
  /\ clicks < MaxClicks /\ clicks' = clicks + 1
  /\ \E to \in Links : Offered(to) /\ Push(to)
  /\ UNCHANGED <<authenticated, session, maintenance, user, listed, setting, known, asked,
                 archive, current, failures, switches>>

\* The button of the dashboard: the server archives the project or refuses.
Archive ==
  /\ clicks < MaxClicks /\ clicks' = clicks + 1
  /\ archiving = None /\ current.name = "project" /\ InStore(current)
  /\ archiving' = current.slug
  /\ archived' \in {archived, archived \cup {current.slug}}
  /\ UNCHANGED <<authenticated, session, maintenance, user, listed, setting, known, asked,
                 navs, latest, current, blind, failures, switches>>

\* A variant that stays on the page that is open.
BadLeaveDashboard == UNCHANGED <<navs, latest, blind>>

LeaveDashboard == Push(Route("projects"))

\* The end of archiveProject, also when the archive was refused and the project
\* read again: the list is pushed, and the project of the dashboard leaves the
\* store.  If that reading fails too, nothing follows.
Archived ==
  /\ archiving # None /\ archiving' = None
  /\ \/ /\ LeaveDashboard
        /\ known' = known \ {archiving}
        /\ UNCHANGED failures
     \/ /\ failures < MaxFailures /\ failures' = failures + 1
        /\ UNCHANGED <<known, navs, latest, blind>>
  /\ UNCHANGED <<authenticated, session, maintenance, user, listed, setting, asked, archived,
                 current, clicks, switches>>

\* The token could not be refreshed.
Expire ==
  /\ authenticated /\ authenticated' = FALSE
  /\ UNCHANGED <<session, maintenance, user, listed, setting, known, asked, archive,
                 navs, latest, current, blind, bounds>>

\* An administrator changes the setting, elsewhere.
Switch ==
  /\ switches < MaxSwitches /\ switches' = switches + 1
  /\ maintenance' = ~maintenance
  /\ UNCHANGED <<authenticated, session, user, listed, setting, known, asked, archive, navs,
                 latest, current, blind, clicks, failures>>

Progress(s) ==
  \/ SetIsLoggedIn(s)
  \/ Settled /\ (Auth(s) \/ ListSystemSettings(s) \/ GetProject(s) \/ Leave(s) \/ Enter(s))

Next ==
  \/ \E s \in Slots : Progress(s)
  \/ Settled /\ (ListRoles \/ ListMyProjects \/ Click \/ Archive \/ Archived \/ Expire \/ Switch)

\* Every request is answered, and components are loaded.
Spec == Init /\ [][Next]_vars /\ \A s \in Slots : WF_vars(Progress(s))
-----------------------------------------------------------------------------
\* A page for users is opened for a user whose session was found when its
\* guards ran, however the navigations overlap, whatever expires or fails
\* meanwhile (router.beforeEach).
GatedNeedsSession == [][current' # current /\ Gated(current') => user.loggedIn = "yes"]_vars

\* Where nothing failed or runs, who is known to have no right of administration is
\* not on a page for users when the setting that was last read says that the
\* maintenance is on, with two exceptions: the page was opened before the rights
\* were known (isLoggedIn is set before the profile is awaited, so that a second
\* navigation passes with null rights), or the navigation that was leading away
\* from it was dropped, as a link to the page itself was followed.
MaintenanceGate ==
  latest = None /\ failures = 0 /\ Gated(current) /\ setting = "on" =>
    AdminPerms # "none" \/ blind

\* The page of a project is opened only when the store has the project, which
\* its views use without a test, although a dashboard that archives takes a
\* project out of the store at any time, even that of another page: the list it
\* pushes first drops the navigation that would open it.  (A page whose address
\* gives an id is opened without: the store has the project under its slug.)
ProjectIsKnown ==
  [][current' # current /\ current'.name = "project" /\ ~current'.byId
       => current'.slug \in known']_vars

\* A project that leaves the store leaves the screen: unless a request failed,
\* its page is not the one where the navigations end (archiveProject of
\* DsoDashboard.vue, which deletes the project while its page is still open).
ArchivedIsLeft ==
  latest = None /\ failures = 0 /\ current.name = "project" /\ ~current.byId
    => current.slug \in known

\* A navigation comes to an end: redirections do not follow one another for
\* ever.
NavigationEnds == latest # None ~> latest = None
=============================================================================
