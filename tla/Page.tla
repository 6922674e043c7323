-------------------------------- MODULE Page --------------------------------
(***************************************************************************)
(* The vocabulary in which the pages of the console are described.  A      *)
(* handler of a page is the threads a click starts, a thread the steps of  *)
(* an asynchronous function: what it does to the page between two awaits,  *)
(* and the calls of the API it waits for, all those of a Promise.all at a  *)
(* time.  Browser runs them.                                               *)
(***************************************************************************)
EXTENDS Sequences

CONSTANT None   \* no resource, no operation

(* The calls of the stores: a read of the list whose answer is assigned to *)
(* what the page shows, a write, one whose answer is the new list or the   *)
(* row that was written, and the reads of something else.                  *)
List == [what |-> "list", fills |-> "list"]
Write(what) == [what |-> what, fills |-> "nothing"]
WriteThatLists(what) == [what |-> what, fills |-> "list"]
WriteThatTells(what) == [what |-> what, fills |-> "row"]
Related == [what |-> "related", fills |-> "nothing"]
Details == [what |-> "details", fills |-> "nothing"]
Other == [what |-> "other", fills |-> "nothing"]

NoTag == ""

Step(do) == [do |-> do, calls |-> {}, tag |-> NoTag]

Await(calls) == <<[Step("await") EXCEPT !.calls = calls]>>

\* snackbarStore.isWaitingForResponse
Wait == <<Step("wait")>>
Rest == <<Step("rest")>>

\* A flag of the page itself: isUpdating, isLoading, isCreating.
Load == <<Step("load")>>
Loaded == <<Step("loaded")>>

\* The creation form is hidden, the selected resource is let go, or both.
HideNew == <<Step("hideNew")>>
LetGo == <<Step("letGo")>>
Close == HideNew \o LetGo

\* What was typed in a settings page is forgotten.
Forget == <<Step("forget")>>

\* The row that was just created becomes the selected one.
PickLast == <<Step("pickLast")>>

\* The page copies the list of its store; a row shows what was chosen in it.
Show == <<Step("show")>>
Choose == <<Step("choose")>>

\* Another page is opened.
Leave == <<Step("leave")>>

\* The end of a try: what follows is not rescued.
EndTry == <<Step("endTry")>>

\* Nobody waits for the promise of what follows.
Detach == <<Step("detach")>>

\* An operation of a project begins, and the callback that ends it.
Begin(tag) == <<[Step("begin") EXCEPT !.tag = tag]>>
Finish == <<Step("finish")>>

(* A rejected thread goes on with rescue (a catch), or its error goes to   *)
(* error: "app", the handler of App.vue; "message", a catch that only says *)
(* so; "nobody".                                                           *)
Thread(steps, error) == [steps |-> steps, error |-> error, rescue |-> << >>]

Rescued(steps, rescue, error) ==
  [steps |-> steps, error |-> error, rescue |-> rescue]

\* A handler of one thread, whose promise Vue is given.
Handler(steps) == <<Thread(steps, "app")>>

\* What a page does not have.
NoHandler == << >>

\* A button that has no row; it is disabled while this operation is shown,
\* while the page loads ("loading") or waits ("waiting").
Button(handler, unless) == [handler |-> handler, unless |-> unless]

\* The resource is selected.
Pick == <<Step("pick")>>

(* A page: the handler that opens it and, for the pages that do not read   *)
(* again what their store has already, the one that does so then (again);  *)
(* its other handlers; and the traits of its template and of its form that *)
(* decide what can be clicked and what is sent:                            *)
(*   oneForm       the list is hidden while a form is open;                *)
(*   hidesList     the list is hidden while a resource is selected;        *)
(*   creationForm  a resource is created from a form of its own;           *)
(*   alias         the form edits the very object that is in the list;     *)
(*   keyed         the form is mounted anew for another resource;          *)
(*   savesPicked   what is saved is the selected resource, whatever the    *)
(*                 form was filled with;                                   *)
(*   overlay       the form cannot be used while the page waits;           *)
(*   lookup        the form shows the row of the list with this id;        *)
(*   unusedOnly    a deletion is offered when the form shows no use, as it *)
(*                 was last read;                                          *)
(*   unusedListed  or as the list of what uses it says;                    *)
(*   readOnly      nothing can be changed in what is selected;             *)
(*   settings      values are edited in place and saved together;          *)
(*   loadingHides  the rows are hidden while the page loads;               *)
(*   onceAtATime   nothing is saved while an 'update' is shown;            *)
(*   copy          the page shows a copy of the list of its store.         *)
NoPage ==
  [mount |-> NoHandler, again |-> {}, pick |-> NoHandler, add |-> NoHandler,
   update |-> NoHandler, remove |-> NoHandler,
   cancel |-> NoHandler, buttons |-> {}, traits |-> {}]
=============================================================================
