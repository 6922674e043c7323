------------------------------ MODULE Browser -------------------------------
(***************************************************************************)
(* The console in a browser (apps/client): a page, the handlers its clicks *)
(* start, the requests they send and their answers, which come in any      *)
(* order.  Between two awaits a handler runs alone.  What each handler     *)
(* does is in AdminPages and ProjectPages, whose tables are the pages of an *)
(* instance; this module runs one page at a time, against the rows of the  *)
(* resource the page lists.                                                *)
(***************************************************************************)
EXTENDS Integers, FiniteSets, Discipline

CONSTANTS
  Pages,        \* the pages, by name
  First,        \* the rows stored at the beginning
  Spare,        \* identifiers for what is created
  Busy,         \* rows whose deletion the server refuses
  Slots,        \* names of the handlers that may run at a time
  MaxClicks,    \* bound on the clicks, for each page
  MaxFailures   \* bound on the requests that fail

Ids == First \cup Spare

ASSUME BrowserAssumption ==
  /\ First \cap Spare = {} /\ Busy \subseteq First /\ First \subseteq Nat
  /\ Spare \subseteq Nat /\ \A n \in Spare : \A m \in First : m < n
  /\ Slots \subseteq Nat \ {0} /\ IsFiniteSet(Slots) /\ None \notin Ids \cup Slots
  /\ \A p \in DOMAIN Pages : MaxClicks[p] \in Nat
  /\ MaxFailures \in Nat

VARIABLES
  page,      \* the page that is open
  db,        \* the stored rows: 0 none, 1 as created, 2 as edited
  view,      \* what the page shows
  tasks,     \* the threads that run
  reqs,      \* the requests without an answer
  clicks,    \* clicks so far
  failures,  \* requests that failed
  excused    \* a failure, an answer overtaken by a later one or an edit
             \* left unsaved explains that the list is not what is stored

vars == <<page, db, view, tasks, reqs, clicks, failures, excused>>

Has(trait) == trait \in Pages[page].traits

ASSUME PagesAssumption ==
  \A p \in DOMAIN Pages :
    /\ \A h \in HandlersOf(Pages[p]) : IsSequence(h)
    /\ \A h \in {Pages[p].mount} \cup Pages[p].again : Len(h) <= Cardinality(Slots)
    /\ \A th \in ThreadsIn(HandlersOf(Pages[p])) : Disciplined(p, th)
    /\ p \notin Drifting => SavesWhatItShows(Pages[p]) /\ SavesWhatWasTyped(Pages[p])
    /\ p \notin CopiedOnce => ShowsWhatIsStored(Pages[p])

Idle == [live |-> FALSE]

NoForm == [on |-> None, val |-> 0]
-----------------------------------------------------------------------------
(* The page.                                                               *)

\* A variant where no form is mounted anew for another resource.
BadMounted(v) ==
  LET p == v.picked IN
  IF p = None \/ (Has("lookup") /\ v.rows[p] = 0) THEN NoForm
  ELSE IF v.form.on # None THEN v.form
  ELSE [on |-> p, val |-> v.rows[p]]

\* A form is mounted when its resource appears and, unless it is keyed,
\* keeps the object it was mounted with (ref(props.x)).
Mounted(v) ==
  LET p == v.picked IN
  IF p = None \/ (Has("lookup") /\ v.rows[p] = 0) THEN NoForm
  ELSE IF v.form.on # None /\ (v.form.on = p \/ ~Has("keyed")) THEN v.form
  ELSE [on |-> p, val |-> v.rows[p]]

Newest(v) ==
  LET there == {i \in Ids : v.rows[i] # 0}
  IN IF there = {} THEN None ELSE CHOOSE i \in there : \A j \in there : j <= i

\* An operation that is not recorded.
NoName == <<NoTag, 0>>

\* addOperation: a second operation of the same name gets a random suffix, a
\* third one is not recorded.
Named(v, tag, slot) ==
  IF Cardinality(v.ops) > 1 THEN NoName
  ELSE IF <<tag, 0>> \in v.ops THEN <<tag, slot>>
  ELSE <<tag, 0>>

\* A variant that removes the operation under its first name.
BadUnnamed(v, t) == [v EXCEPT !.ops = @ \ {<<t.name[1], 0>>}]

\* removeOperation, by the callback of addOperation.
Unnamed(v, t) == [v EXCEPT !.ops = @ \ {t.name}]

Recorded(v, name) == IF name = NoName THEN v ELSE [v EXCEPT !.ops = @ \cup {name}]

\* A step that is not an await: what it does to the page, and to its thread.
Local(v, t, s) ==
  CASE s.do = "wait" -> [v EXCEPT !.waiting = TRUE]
    [] s.do = "rest" -> [v EXCEPT !.waiting = FALSE]
    [] s.do = "hideNew" -> [v EXCEPT !.isNew = FALSE]
    [] s.do = "letGo" -> [v EXCEPT !.picked = None]
    [] s.do = "pick" -> [v EXCEPT !.picked = t.item]
    [] s.do = "pickLast" -> [v EXCEPT !.picked = Newest(v)]
    [] s.do = "forget" -> [v EXCEPT !.draft = {}, !.typed = {}]
    [] s.do = "load" -> [v EXCEPT !.loading = TRUE]
    [] s.do = "loaded" -> [v EXCEPT !.loading = FALSE]
    [] s.do = "show" -> [v EXCEPT !.rows = v.store]
    [] s.do = "choose" -> [v EXCEPT !.rows[t.item] = 2]
    [] s.do = "leave" -> [v EXCEPT !.left = TRUE]
    [] s.do = "begin" -> Recorded(v, Named(v, s.tag, t.slot))
    [] s.do = "finish" -> Unnamed(v, t)
    [] OTHER -> v

Moved(v, t, s) ==
  CASE s.do = "endTry" -> [t EXCEPT !.rescue = << >>]
    [] s.do = "detach" -> [t EXCEPT !.error = "nobody"]
    [] s.do = "begin" -> [t EXCEPT !.name = Named(v, s.tag, t.slot)]
    [] s.do = "finish" -> [t EXCEPT !.name = NoName]
    [] OTHER -> t

Both(st, s) == [view |-> Local(st.view, st.task, s), task |-> Moved(st.view, st.task, s)]

Request(t, c) ==
  [slot |-> t.slot, what |-> c.what, fills |-> c.fills, on |-> t.on,
   shows |-> t.shows, stage |-> "sent", ok |-> TRUE, copy |-> << >>, rank |-> 0]

\* The first await of a thread; one past its steps if there is none.
NextAwait(todo) ==
  CHOOSE k \in 1..(Len(todo) + 1) :
    /\ k <= Len(todo) => todo[k].do = "await"
    /\ \A j \in 1..(k - 1) : todo[j].do # "await"

Until(v, t, k) ==
  LET after[i \in 0..(k - 1)] ==
        IF i = 0 THEN [view |-> v, task |-> t] ELSE Both(after[i - 1], t.todo[i])
  IN after[k - 1]

Paused(st, todo, k) ==
  IF k > Len(todo)
  THEN [view |-> Unnamed(st.view, st.task), task |-> Idle, sent |-> {}]
  ELSE [view |-> st.view,
        task |-> [st.task EXCEPT !.todo = SubSeq(todo, k + 1, Len(todo))],
        sent |-> {Request(st.task, c) : c \in todo[k].calls}]

RunTo(v, t, k) == Paused(Until(v, t, k), t.todo, k)

\* A thread runs to its next await or to its end.
Run(v, t) == RunTo(v, t, NextAwait(t.todo))

\* A variant where App.vue leaves the flag raised.
BadFailed(v, t) == [view |-> Unnamed(v, t), task |-> Idle, sent |-> {}]

\* A thread whose await was rejected: its catch, or its end after the
\* callback of its finally; the handler of App.vue resets the waiting flag.
Failed(v, t) ==
  [view |-> [Unnamed(v, t) EXCEPT !.waiting = @ /\ t.error # "app"],
   task |-> Idle, sent |-> {}]

Task(slot, th, item, on, shows) ==
  [live |-> TRUE, slot |-> slot, todo |-> th.steps, error |-> th.error,
   rescue |-> th.rescue, item |-> item, on |-> on, shows |-> shows, name |-> NoName]

Free(ts) == {s \in Slots : ~ts[s].live}

FirstFree(ts) == CHOOSE s \in Free(ts) : \A z \in Free(ts) : s <= z

With(acc, slot, r) ==
  [view |-> r.view, tasks |-> [acc.tasks EXCEPT ![slot] = r.task], sent |-> acc.sent \cup r.sent]

Launch(acc, slot, th, item, on, shows) ==
  With(acc, slot, Run(acc.view, Task(slot, th, item, on, shows)))

\* The threads of a handler, each to its first await.
Started(v, ts, handler, item, on, shows) ==
  LET after[i \in 0..Len(handler)] ==
        IF i = 0 THEN [view |-> v, tasks |-> ts, sent |-> {}]
        ELSE Launch(after[i - 1], FirstFree(after[i - 1].tasks), handler[i], item, on, shows)
  IN after[Len(handler)]

\* The page is rendered after the handlers have run.
Rendered(v) == [v EXCEPT !.form = Mounted(v)]

EmptyView ==
  [rows |-> [i \in Ids |-> 0], isNew |-> FALSE, picked |-> None, form |-> NoForm,
   store |-> [i \in Ids |-> 0], used |-> {}, draft |-> {}, typed |-> {},
   waiting |-> FALSE, loading |-> FALSE, left |-> FALSE, ops |-> {}, rank |-> 0]

FirstRows == [i \in Ids |-> IF i \in First THEN 1 ELSE 0]

\* What another page has read: the store is that of the whole console.
ReadView == [EmptyView EXCEPT !.rows = FirstRows, !.store = FirstRows]

Openings ==
  {[shows |-> EmptyView, runs |-> Pages[page].mount]}
    \cup {[shows |-> ReadView, runs |-> h] : h \in Pages[page].again}

Init ==
  /\ page \in DOMAIN Pages
  /\ db = FirstRows
  /\ \E o \in Openings : \E s \in {Started(o.shows, [z \in Slots |-> Idle], o.runs, None, {}, {})} :
       /\ view = Rendered(s.view)
       /\ tasks = s.tasks
       /\ reqs = s.sent
  /\ clicks = 0 /\ failures = 0 /\ excused = FALSE
-----------------------------------------------------------------------------
(* The user.                                                               *)

Tick ==
  /\ ~view.left /\ clicks < MaxClicks[page]
  /\ clicks' = clicks + 1
  /\ UNCHANGED <<page, db, failures>>

Click(handler, item, on, shows) ==
  /\ Tick
  /\ handler # NoHandler /\ Cardinality(Free(tasks)) >= Len(handler)
  /\ \E s \in {Started(view, tasks, handler, item, on, shows)} :
       /\ view' = Rendered(s.view)
       /\ tasks' = s.tasks
       /\ reqs' = reqs \cup s.sent
  /\ UNCHANGED excused

\* A click that starts nothing.
Turn(v) ==
  /\ Tick
  /\ view' = Rendered(v)
  /\ UNCHANGED <<tasks, reqs>>

FormOpen == view.isNew \/ view.picked # None

Usable == ~(Has("overlay") /\ view.waiting)

\* operationsInProgress does not include the operation, by this very name.
Quiet(unless) ==
  CASE unless = "loading" -> ~view.loading
    [] unless = "waiting" -> ~view.waiting
    [] OTHER -> <<unless, 0>> \notin view.ops

PickRow ==
  \E i \in Ids :
    /\ view.rows[i] # 0
    /\ Has("oneForm") => ~FormOpen
    /\ Has("hidesList") => view.picked = None
    /\ Has("settings") => view.draft = {}
    /\ Has("loadingHides") => ~view.loading
    /\ view.picked # i
    /\ Click(Pages[page].pick, i, {i}, {i})

ShowNew ==
  /\ Has("creationForm") /\ ~FormOpen
  /\ Turn([view EXCEPT !.isNew = TRUE])
  /\ UNCHANGED excused

Cancel ==
  /\ FormOpen
  /\ IF Pages[page].cancel = NoHandler
     THEN Turn([view EXCEPT !.isNew = FALSE, !.picked = None]) /\ UNCHANGED excused
     ELSE Click(Pages[page].cancel, None, {}, {})

\* The user types in the form of a selected resource.
Edit ==
  /\ view.form.on # None /\ view.form.val # 2 /\ Usable /\ ~Has("readOnly")
  /\ Turn([view EXCEPT !.form.val = 2,
                       !.rows[view.form.on] = IF Has("alias") /\ @ # 0 THEN 2 ELSE @])
  /\ excused' = (excused \/ Has("alias"))

EditSetting ==
  \E i \in Ids \ view.draft :
    /\ Has("settings") /\ view.rows[i] # 0
    /\ Has("loadingHides") => ~view.loading
    /\ Turn([view EXCEPT !.draft = @ \cup {i}, !.typed = @ \cup {i},
                         !.rows[i] = IF Has("alias") THEN 2 ELSE @])
    /\ excused' = (excused \/ Has("alias"))

Add ==
  /\ Has("creationForm") => view.isNew
  /\ Has("hidesList") /\ ~Has("creationForm") => view.picked = None
  /\ Usable
  /\ Click(Pages[page].add, None, {}, {})

Save ==
  LET saved == IF Has("savesPicked") THEN {view.picked} ELSE {view.form.on}
  IN \/ /\ view.form.on # None /\ view.form.val = 2 /\ Usable
        /\ Click(Pages[page].update, view.picked, saved, {view.form.on})
     \/ /\ Has("settings") /\ view.draft # {}
        /\ Has("onceAtATime") => Quiet("update")
        /\ Click(Pages[page].update, None, view.draft, view.typed)

Delete ==
  /\ view.form.on # None /\ Usable
  /\ Has("unusedOnly") => view.used = {}
  /\ Has("unusedListed") => view.form.on \notin Busy
  /\ Click(Pages[page].remove, view.picked, {view.form.on}, {view.form.on})

Push ==
  \E b \in Pages[page].buttons :
    Quiet(b.unless) /\ Click(b.handler, view.picked, {}, {})
-----------------------------------------------------------------------------
(* The server and the network.                                             *)

Allowed(r) ==
  CASE r.what = "create" -> \E i \in Spare : db[i] = 0
    [] r.what = "delete" -> \A i \in r.on : db[i] # 0 /\ i \notin Busy
    [] r.what \in {"update", "details"} -> \A i \in r.on : db[i] # 0
    [] OTHER -> TRUE

Written(r) ==
  CASE r.what = "create" ->
         LET new == CHOOSE i \in Spare : db[i] = 0 /\ \A j \in Spare : db[j] = 0 => i <= j
         IN [db EXCEPT ![new] = 1]
    [] r.what = "update" -> [i \in Ids |-> IF i \in r.on THEN 2 ELSE db[i]]
    [] r.what = "delete" -> [i \in Ids |-> IF i \in r.on THEN 0 ELSE db[i]]
    [] OTHER -> db

Ranks == {view.rank} \cup {q.rank : q \in reqs}

(* The server runs a request; it may refuse it, and fail after it wrote.   *)
Serve(r) ==
  /\ r.stage = "sent"
  /\ \E ok \in BOOLEAN, writes \in BOOLEAN :
       /\ writes => Allowed(r)
       /\ ok => writes
       /\ failures' = IF ~ok /\ Allowed(r) THEN failures + 1 ELSE failures
       /\ failures' <= MaxFailures
       /\ db' = IF writes THEN Written(r) ELSE db
       /\ reqs' = (reqs \ {r}) \cup
            {[r EXCEPT !.stage = "served", !.ok = ok,
                       !.copy = IF ok /\ r.fills # "nothing" THEN db' ELSE << >>,
                       !.rank = IF ok /\ r.fills # "nothing"
                                THEN 1 + (CHOOSE n \in Ranks : \A m \in Ranks : m <= n)
                                ELSE 0]}
  /\ UNCHANGED <<page, view, tasks, clicks, excused>>

\* A variant where the store merges the rows it reads into those it has.
BadFilled(rows, r) ==
  CASE r.fills = "list" -> [i \in Ids |-> IF r.copy[i] # 0 THEN r.copy[i] ELSE rows[i]]
    [] r.fills = "row" -> [i \in Ids |-> IF i \in r.on THEN r.copy[i] ELSE rows[i]]
    [] OTHER -> rows

\* The list once an answer is assigned to it.
Filled(rows, r) ==
  CASE r.fills = "list" -> r.copy
    [] r.fills = "row" -> [i \in Ids |-> IF i \in r.on THEN r.copy[i] ELSE rows[i]]
    [] OTHER -> rows

\* What the stores keep of an answer, whoever waits for it; the inputs that
\* are filled with the list are filled anew.
Assigned(r, fills) ==
  [view EXCEPT !.rows = IF Has("copy") THEN @ ELSE Filled(@, r),
               !.store = IF Has("copy") THEN Filled(@, r) ELSE @,
               !.rank = IF fills THEN r.rank ELSE @,
               !.typed = IF fills THEN {} ELSE @,
               !.draft = IF fills /\ Has("alias") THEN {} ELSE @,
               !.used = IF r.what = "related" THEN r.on \cap Busy ELSE @,
               !.picked = IF r.what = "details" THEN CHOOSE i \in r.on : TRUE ELSE @]

Kept(r) == IF r.ok THEN Rendered(Assigned(r, r.fills # "nothing")) ELSE view

\* The thread that waits for r goes on when each of its calls is answered; a
\* catch is what follows when one is rejected.
Resumed(v, t, r) ==
  IF ~r.ok /\ t.rescue = << >> THEN Failed(v, t)
  ELSE IF r.ok /\ \E q \in reqs \ {r} : q.slot = r.slot THEN [view |-> v, task |-> t, sent |-> {}]
  ELSE Run(v, IF r.ok THEN t ELSE [t EXCEPT !.todo = t.rescue, !.rescue = << >>])

\* The requests that are left when r was answered: those of a Promise.all
\* that was rejected have nobody to answer to.
Left(r) ==
  {IF ~r.ok /\ q.slot = r.slot /\ r.slot # None THEN [q EXCEPT !.slot = None] ELSE q : q \in reqs \ {r}}

Answer(r) ==
  /\ r.stage = "served"
  /\ \E n \in {IF r.slot = None THEN [view |-> Kept(r), sent |-> {}]
               ELSE Resumed(Kept(r), tasks[r.slot], r)} :
       /\ reqs' = Left(r) \cup n.sent
       /\ view' = Rendered([n.view EXCEPT !.rank = IF \E q \in reqs' : q.rank # 0 THEN @ ELSE 0])
       /\ tasks' = IF r.slot = None THEN tasks ELSE [tasks EXCEPT ![r.slot] = n.task]
  /\ excused' =
       IF r.ok /\ view'.rows = db /\ \A q \in reqs \ {r} : q.rank = 0 THEN FALSE
       ELSE IF ~r.ok \/ (r.fills # "nothing" /\ r.rank < view.rank) THEN TRUE
       ELSE excused
  /\ UNCHANGED <<page, db, clicks, failures>>

Next ==
  \/ PickRow \/ ShowNew \/ Cancel \/ Edit \/ EditSetting
  \/ Add \/ Save \/ Delete \/ Push
  \/ \E r \in reqs : Serve(r) \/ Answer(r)

Spec == Init /\ [][Next]_vars
-----------------------------------------------------------------------------
Resting == reqs = {} /\ \A s \in Slots : ~tasks[s].live

TypeOK ==
  /\ page \in DOMAIN Pages
  /\ db \in [Ids -> 0..2] /\ view.rows \in [Ids -> 0..2]
  /\ view.picked \in Ids \cup {None} /\ view.form.on \in Ids \cup {None}
  /\ view.store \in [Ids -> 0..2] /\ view.used \subseteq Busy
  /\ view.draft \subseteq Ids /\ view.typed \subseteq view.draft
  /\ \A r \in reqs : r.slot = None \/ tasks[r.slot].live

\* When nothing runs and nothing failed, the list the page shows is what is
\* stored: each handler reads the list again after what it wrote, whatever
\* other handlers run meanwhile, unless an answer was overtaken by a later
\* one (the lists are assigned in the order the answers come).  The page of
\* a project for an administrator copies the environments once only.
ShownIsStored ==
  Resting /\ ~excused /\ page \notin CopiedOnce => view.rows = db

\* A form saves the resource whose data it was filled with, however the
\* selections and the answers interleave.
ShowsWhatItSaves == \A r \in reqs : r.what = "update" => r.on = r.shows

\* So it is, but on the page of the clusters, which selects one in an answer
\* while the form keeps another, and on those of the services of a project,
\* whose inputs are filled anew while what was typed in them is kept.
FormSavesItself == page \notin Drifting => ShowsWhatItSaves

\* When nothing runs the page does not wait and no operation is shown, even
\* after failures: the flag is one for all the handlers of the page, a
\* failure resets it in App.vue, and the operations end in a finally.  Only
\* the flags of the logs (of the services, of a project, of the project an
\* administrator looks at) and of the synchronization of organizations are
\* reset by nobody after a failure.
RestIsQuiet ==
  Resting =>
    /\ ~view.waiting /\ view.ops = {}
    /\ view.loading => failures > 0 /\ page \in Stuck

\* The operations of a project that are shown in progress are those its
\* threads have begun and not ended, apart from a third one:
\* the console names two at most.
OperationsAreRunning ==
  /\ view.ops = {tasks[s].name : s \in {z \in Slots : tasks[z].live}} \ {NoName}
  /\ Cardinality(view.ops) <= 2
=============================================================================
