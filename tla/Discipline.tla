----------------------------- MODULE Discipline -----------------------------
(***************************************************************************)
(* How the handlers of the pages are written: that what a thread raises on *)
(* its page is lowered on each of its ways out, and that a form saves what *)
(* it shows.  Browser assumes it of its pages, and its properties follow   *)
(* from it whatever the order of the clicks and of the answers.            *)
(***************************************************************************)
EXTENDS Naturals, Page

\* The pages where a flag of the page itself survives a failure.
Stuck == {"logs", "projectLogs", "organizations", "adminProject"}

\* Those whose form may drift away from what it saves.
Drifting == {"clusters", "services", "adminServices"}

\* The page that copies its list when the details are read, and not after a
\* change.
CopiedOnce == {"adminProject"}

Writes == {"create", "update", "delete"}

\* A step after the i-th.
Does(steps, i, what) == \E j \in DOMAIN steps : j > i /\ steps[j].do = what

Calls(steps, i, whats) ==
  \E j \in DOMAIN steps : j > i /\ \E c \in steps[j].calls : c.what \in whats

IsSequence(s) == s \in Seq({s[j] : j \in DOMAIN s})

\* A thread begins one operation at most.
BeginsOnce(steps, i) ==
  \A j \in DOMAIN steps :
    j > i /\ steps[j].do = "begin" => steps[j].tag # NoTag /\ ~Does(steps, j, "begin")

\* A thread that makes the page wait lets it rest, or App.vue does when the
\* thread is rejected, or its catch.
RestIsSure(steps, i, rescue, error) ==
  /\ error = "app" /\ ~Does(steps, i, "detach")
  /\ rescue # << >> => Does(rescue, 0, "rest") /\ ~Does(rescue, 0, "detach")

RestsAfterWait(steps, i, rescue, error) ==
  \A j \in DOMAIN steps :
    j > i /\ steps[j].do = "wait" =>
      Does(steps, j, "rest") /\ RestIsSure(steps, i, rescue, error)

\* A thread that raises the flag of the page lowers it, and only reads in
\* between; its catch does, or there is none on the pages that get stuck.
LoadedIsSure(p, rescue) ==
  \/ p \in Stuck /\ rescue = << >>
  \/ Does(rescue, 0, "loaded")

LoadedAfterLoad(p, steps, i, rescue) ==
  /\ \A j \in DOMAIN steps : j > i /\ steps[j].do = "load" => Does(steps, j, "loaded")
  /\ Does(steps, i, "loaded") =>
       /\ ~Calls(steps, i, Writes \cup {"details"}) /\ ~Does(steps, i, "endTry")
       /\ Does(steps, i, "await") => LoadedIsSure(p, rescue)

\* A catch only ends what its try has begun.
OnlyEnds(rescue) ==
  /\ \A j \in DOMAIN rescue : rescue[j].do \notin {"begin", "wait", "load"}
  /\ Does(rescue, 0, "loaded") =>
       /\ ~Calls(rescue, 0, Writes \cup {"details"})
       /\ ~Does(rescue, 0, "await") /\ ~Does(rescue, 0, "endTry")

Disciplined(p, th) ==
  /\ IsSequence(th.steps) /\ IsSequence(th.rescue)
  /\ BeginsOnce(th.steps, 0)
  /\ RestsAfterWait(th.steps, 0, th.rescue, th.error)
  /\ LoadedAfterLoad(p, th.steps, 0, th.rescue)
  /\ OnlyEnds(th.rescue)

Selects == {"pick", "pickLast"}

\* Nothing is selected by a thread after an await.
SelectsAtOnce(steps, i) ==
  \A j \in DOMAIN steps :
    j > i /\ steps[j].do = "await" => \A what \in Selects : ~Does(steps, j, what)

Selectless(steps, i) == \A what \in Selects : ~Does(steps, i, what)

Callless(th, whats) == ~Calls(th.steps, 0, whats) /\ ~Calls(th.rescue, 0, whats)

HandlersButPick(p) ==
  {p.mount, p.add, p.update, p.remove, p.cancel} \cup p.again
    \cup {b.handler : b \in p.buttons}

HandlersOf(p) == HandlersButPick(p) \cup {p.pick}

ThreadsIn(handlers) == UNION {{h[j] : j \in DOMAIN h} : h \in handlers}

\* A form that saves what is selected is mounted anew for each selection, or
\* nothing is selected while it is open.
SavesWhatItShows(p) ==
  "savesPicked" \in p.traits /\ "keyed" \notin p.traits =>
    /\ "oneForm" \in p.traits
    /\ \A th \in ThreadsIn({p.pick}) : SelectsAtOnce(th.steps, 0)
    /\ \A th \in ThreadsIn(HandlersButPick(p)) : Selectless(th.steps, 0)
    /\ \A th \in ThreadsIn(HandlersOf(p)) :
         Selectless(th.rescue, 0) /\ Callless(th, {"details"})

\* What fills the inputs is awaited alone, and what was typed is forgotten
\* before anything else is awaited.
ForgetsNext(steps, i) ==
  \E l \in DOMAIN steps :
    /\ l > i /\ steps[l].do = "forget"
    /\ \A j \in DOMAIN steps : i < j /\ j < l => steps[j].do # "await"

ForgetsWhenFilled(steps, i) ==
  \A j \in DOMAIN steps :
    j > i /\ steps[j].do = "await" /\ (\E c \in steps[j].calls : c.fills # "nothing") =>
      (\A c, d \in steps[j].calls : c = d) /\ ForgetsNext(steps, j)

Forgetful(p) ==
  \A th \in ThreadsIn(HandlersOf(p)) :
    ForgetsWhenFilled(th.steps, 0) /\ ForgetsWhenFilled(th.rescue, 0)

\* Values edited in place are those of the list, or are forgotten when they
\* are filled anew, or are not what an update sends.
SavesWhatWasTyped(p) ==
  "settings" \in p.traits =>
    \/ "alias" \in p.traits
    \/ Forgetful(p)
    \/ \A th \in ThreadsIn({p.update}) : Callless(th, {"update"})

\* The list is read.
Lists(steps, i) ==
  \E j \in DOMAIN steps :
    j > i /\ steps[j].do = "await" /\ \E c \in steps[j].calls : c.fills = "list"

\* A write whose answer does not show what it has written.
Silent(c) == c.what \in Writes /\ c.fills # "list" /\ (c.fills = "row" => c.what = "create")

\* What is written is awaited alone and the list is read after it; so it is
\* after a row shows what was chosen in it.
ListsAfterWrites(steps, i) ==
  \A j \in DOMAIN steps :
    j > i =>
      /\ steps[j].do = "choose" => Lists(steps, j)
      /\ steps[j].do = "await" /\ (\E c \in steps[j].calls : Silent(c)) =>
           (\A c, d \in steps[j].calls : c = d) /\ Lists(steps, j)

\* A page that copies its list does so before anything else is awaited.
ShowsNext(steps, i) ==
  \E l \in DOMAIN steps :
    /\ l > i /\ steps[l].do = "show"
    /\ \A j \in DOMAIN steps : i < j /\ j < l => steps[j].do # "await"

ShowsWhatItReads(steps, i) ==
  \A j \in DOMAIN steps :
    j > i /\ steps[j].do = "await" /\ (\E c \in steps[j].calls : c.fills # "nothing") =>
      (\A c, d \in steps[j].calls : c = d) /\ ShowsNext(steps, j)

Copies(p) == "copy" \in p.traits

ListsAgain(p, steps, i) ==
  /\ ListsAfterWrites(steps, i)
  /\ Copies(p) => ShowsWhatItReads(steps, i) /\ ~Does(steps, i, "choose")
  /\ ~Copies(p) => ~Does(steps, i, "show")

\* What a page shows is what is stored, once it rests.
ShowsWhatIsStored(p) ==
  /\ \E th \in ThreadsIn({p.mount}) : Lists(th.steps, 0)
  /\ \A th \in ThreadsIn(HandlersOf(p)) :
       ListsAgain(p, th.steps, 0) /\ ListsAgain(p, th.rescue, 0)
  /\ Copies(p) => "alias" \notin p.traits

=============================================================================
