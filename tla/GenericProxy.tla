---------------------------- MODULE GenericProxy ----------------------------
(***************************************************************************)
(* The proxy every call to the plugins goes through                        *)
(* (apps/server/src/utils/proxy.ts).  It serialises the executions of a    *)
(* method on one id, lets methods exclude each other, and makes the calls  *)
(* that arrive during an execution wait for a later one, which receives    *)
(* the merged arguments of all of them.                                    *)
(*                                                                         *)
(* A call is identified by an element of Calls.  An execution (the promise *)
(* returned by methods[property](...)) is identified by the call that      *)
(* started it: a call starts at most one execution.                        *)
(***************************************************************************)
EXTENDS FiniteSets

CONSTANTS
  Calls,     \* the calls made to the proxy, each at most once
  Methods,   \* the methods of the proxied object
  NoIdMethods, \* the methods that are called without arguments
  Ids,       \* the ids a call may carry as its first argument
  Excludes,  \* Excludes[m]: the methods that must not be in progress for m
  ArgKeys,   \* the keys of the second argument
  ArgVals,   \* the values of these keys
  NoId,      \* a call without arguments
  NoExec,    \* no promise
  NoArg,     \* a key the second argument does not have
  NoCall     \* the call has not been made

ASSUME ExcludesAssumption == Excludes \in [Methods -> SUBSET Methods]

ASSUME MarkersAssumption ==
  /\ NoIdMethods \subseteq Methods
  /\ NoExec \notin Calls
  /\ NoId \notin Ids
  /\ NoArg \notin ArgVals

VARIABLES
  currentExec,  \* tracker[m][i].currentExec, and tracker[m] itself at NoId
  nextArgs,     \* tracker[m][i].nextArgs
  call,         \* what each call asked for
  pc,           \* where each call is
  waitOn,       \* the promise on which a waiting call registered its then()
  answer,       \* the execution whose outcome settles the call
  exec,         \* the state of each execution
  execArgs      \* the second argument each execution was started with

proxyVars ==
  <<currentExec, nextArgs, call, pc, waitOn, answer, exec, execArgs>>

-----------------------------------------------------------------------------
(* Data                                                                    *)

Args == [ArgKeys -> ArgVals \cup {NoArg}]

NoArgs == [k \in ArgKeys |-> NoArg]

Invocation == [method : Methods, id : Ids \cup {NoId}, args : Args]

BadMerge(old, new) == [k \in {x \in ArgKeys : new[x] # NoArg} |-> new[k]]

\* { ...old, ...new }: a key of the new object wins.
Merge(old, new) ==
  [k \in ArgKeys |-> IF new[k] # NoArg THEN new[k] ELSE old[k]]

Invoke(m, i, a) == [method |-> m, id |-> i, args |-> a]

CallState == {"idle", "waiting", "served", "refused"}

ExecState == {"none", "running", "resolved", "rejected"}

TypeOK ==
  /\ currentExec \in [Methods -> [Ids \cup {NoId} -> Calls \cup {NoExec}]]
  /\ nextArgs \in [Methods -> [Ids -> Args]]
  /\ call \in [Calls -> Invocation \cup {NoCall}]
  /\ pc \in [Calls -> CallState]
  /\ waitOn \in [Calls -> Calls \cup {NoExec}]
  /\ answer \in [Calls -> Calls \cup {NoExec}]
  /\ exec \in [Calls -> ExecState]
  /\ execArgs \in [Calls -> Args]

ProxyInit ==
  /\ currentExec = [m \in Methods |-> [i \in Ids \cup {NoId} |-> NoExec]]
  /\ nextArgs = [m \in Methods |-> [i \in Ids |-> NoArgs]]
  /\ call = [c \in Calls |-> NoCall]
  /\ pc = [c \in Calls |-> "idle"]
  /\ waitOn = [c \in Calls |-> NoExec]
  /\ answer = [c \in Calls |-> NoExec]
  /\ exec = [c \in Calls |-> "none"]
  /\ execArgs = [c \in Calls |-> NoArgs]

-----------------------------------------------------------------------------
(* A call.  Its body up to the returned promise has no await: one step.    *)
(* (The operators named Bad... are faulty variants of the definition that  *)
(* follows them; nothing below uses them.)                                 *)

BadExcluded(m, i) == \E x \in Excludes[m] : currentExec[x][i] = m

Excluded(m, i) == \E x \in Excludes[m] : currentExec[x][i] # NoExec

Register(c, m, i, a) ==
  /\ pc[c] = "idle"
  /\ call' = [call EXCEPT ![c] = Invoke(m, i, a)]

\* An excluded method is in progress on this id: the call throws.
Refuse(c, m, i, a) ==
  /\ Register(c, m, i, a)
  /\ Excluded(m, i)
  /\ pc' = [pc EXCEPT ![c] = "refused"]
  /\ UNCHANGED <<currentExec, nextArgs, waitOn, answer, exec, execArgs>>

BadJoinCurrent(c, m, i, a) ==
  /\ Register(c, m, i, a)
  /\ ~Excluded(m, i)
  /\ currentExec[m][i] # NoExec
  /\ pc' = [pc EXCEPT ![c] = "served"]
  /\ answer' = [answer EXCEPT ![c] = currentExec[m][i]]
  /\ UNCHANGED <<currentExec, nextArgs, waitOn, exec, execArgs>>

BadJoinOverwrite(c, m, i, a) ==
  /\ Register(c, m, i, a)
  /\ ~Excluded(m, i)
  /\ currentExec[m][i] # NoExec
  /\ nextArgs' = [nextArgs EXCEPT ![m][i] = a]
  /\ pc' = [pc EXCEPT ![c] = "waiting"]
  /\ waitOn' = [waitOn EXCEPT ![c] = currentExec[m][i]]
  /\ UNCHANGED <<currentExec, answer, exec, execArgs>>

\* The method is already in progress on this id: merge and wait.
Join(c, m, i, a) ==
  /\ Register(c, m, i, a)
  /\ ~Excluded(m, i)
  /\ currentExec[m][i] # NoExec
  /\ nextArgs' = [nextArgs EXCEPT ![m][i] = Merge(@, a)]
  /\ pc' = [pc EXCEPT ![c] = "waiting"]
  /\ waitOn' = [waitOn EXCEPT ![c] = currentExec[m][i]]
  /\ UNCHANGED <<currentExec, answer, exec, execArgs>>

BadStartKeepsArgs(c, m, i, a) ==
  /\ Register(c, m, i, a)
  /\ ~Excluded(m, i)
  /\ currentExec[m][i] = NoExec
  /\ exec' = [exec EXCEPT ![c] = "running"]
  /\ execArgs' = [execArgs EXCEPT ![c] = a]
  /\ currentExec' = [currentExec EXCEPT ![m][i] = c]
  /\ answer' = [answer EXCEPT ![c] = c]
  /\ pc' = [pc EXCEPT ![c] = "served"]
  /\ UNCHANGED <<waitOn, nextArgs>>

\* Nothing tracked on this id: start an execution and track it.
Start(c, m, i, a) ==
  /\ Register(c, m, i, a)
  /\ ~Excluded(m, i)
  /\ currentExec[m][i] = NoExec
  /\ exec' = [exec EXCEPT ![c] = "running"]
  /\ execArgs' = [execArgs EXCEPT ![c] = a]
  /\ currentExec' = [currentExec EXCEPT ![m][i] = c]
  /\ nextArgs' = [nextArgs EXCEPT ![m][i] = NoArgs]
  /\ answer' = [answer EXCEPT ![c] = c]
  /\ pc' = [pc EXCEPT ![c] = "served"]
  /\ UNCHANGED waitOn

Call(c, m, i, a) == Refuse(c, m, i, a) \/ Join(c, m, i, a) \/ Start(c, m, i, a)

\* Without an id the promise in progress is simply shared.
CallNoId(c, m) ==
  /\ Register(c, m, NoId, NoArgs)
  /\ pc' = [pc EXCEPT ![c] = "served"]
  /\ \/ /\ currentExec[m][NoId] # NoExec
        /\ answer' = [answer EXCEPT ![c] = currentExec[m][NoId]]
        /\ UNCHANGED <<currentExec, exec>>
     \/ /\ currentExec[m][NoId] = NoExec
        /\ answer' = [answer EXCEPT ![c] = c]
        /\ currentExec' = [currentExec EXCEPT ![m][NoId] = c]
        /\ exec' = [exec EXCEPT ![c] = "running"]
  /\ UNCHANGED <<nextArgs, waitOn, execArgs>>

-----------------------------------------------------------------------------
(* The end of an execution.                                                *)

BadWaiters(e) == {}

Waiters(e) == {c \in Calls : pc[c] = "waiting" /\ waitOn[c] = e}

BadTracked(e) == FALSE

\* The execution recorded in the tracker when it ends is the one that ends.
Tracked(e) == currentExec[call[e].method][call[e].id] = e

\* The then() callbacks of the promise run back to back: the first clears
\* the tracker, so each waiter then finds no current execution and starts
\* one of its own, with the arguments merged so far.  Nothing records these
\* executions in the tracker.
Resolve(e) ==
  LET m == call[e].method
      i == call[e].id
      W == Waiters(e)
  IN  /\ exec[e] = "running"
      /\ exec' = [x \in Calls |-> IF x = e THEN "resolved"
                                  ELSE IF x \in W THEN "running" ELSE exec[x]]
      /\ execArgs' = [x \in Calls |->
                        IF x \in W THEN nextArgs[m][i] ELSE execArgs[x]]
      /\ answer' = [x \in Calls |-> IF x \in W THEN x ELSE answer[x]]
      /\ pc' = [x \in Calls |-> IF x \in W THEN "served" ELSE pc[x]]
      /\ currentExec' = IF Tracked(e)
                          THEN [currentExec EXCEPT ![m][i] = NoExec]
                          ELSE currentExec
      /\ UNCHANGED <<nextArgs, call, waitOn>>

\* No rejection handler is registered anywhere: the tracker keeps the
\* promise and the waiters stay where they are.
Reject(e) ==
  /\ exec[e] = "running"
  /\ exec' = [exec EXCEPT ![e] = "rejected"]
  /\ UNCHANGED <<currentExec, nextArgs, call, pc, waitOn, answer, execArgs>>
=============================================================================
