---------------------------- MODULE BrowserProofs ----------------------------
(***************************************************************************)
(* Proofs about the pages of the console (Browser), for any pages written  *)
(* with discipline (Discipline), any rows, and any number of handlers and  *)
(* of failures: whatever the order of the clicks and of the answers, the   *)
(* operations shown are those that run, nothing is left waiting, a form    *)
(* saves what it shows, and a page at rest shows what is stored.           *)
(***************************************************************************)
EXTENDS Browser, FiniteSetTheorems, SequenceTheorems, WellFoundedInduction, TLAPS

-----------------------------------------------------------------------------
(* Least numbers, and the recursive functions of Browser.  An induction is *)
(* stated with the set of its counterexamples, which has a least element.  *)

LEMMA LeastNumber ==
  ASSUME NEW T, T \subseteq Nat, T # {}
  PROVE  \E x \in T : \A y \in T : x <= y
<1> DEFINE R == {ss \in Nat \X Nat : ss[1] < ss[2]}
<1>1. OpToRel(<, Nat) = R
  BY Zenon DEF OpToRel
<1>2. IsWellFoundedOn(R, Nat)
  BY ONLY <1>1, NatLessThanWellFounded, Zenon
<1>3. \A a, b \in Nat : <<a, b>> \notin R => b <= a
  OBVIOUS
<1> HIDE DEF R
<1>4. \E x \in T : \A y \in T : ~ (<<y, x>> \in R)
  BY <1>2, WFMin
<1> QED BY <1>3, <1>4

\* The states of a thread between its steps.
Steps(f, v, t, n) ==
  f = [i \in 0..n |-> IF i = 0 THEN [view |-> v, task |-> t] ELSE Both(f[i - 1], t.todo[i])]

LEMMA StepsExist ==
  ASSUME NEW v, NEW t, NEW n \in Nat
  PROVE  \E f : Steps(f, v, t, n)
<1> DEFINE T == {m \in Nat : ~ \E f : Steps(f, v, t, m)}
<1>1. SUFFICES ASSUME T # {} PROVE FALSE
  OBVIOUS
<1>2. T \subseteq Nat
  OBVIOUS
<1> HIDE DEF T
<1>3. PICK m \in T : \A y \in T : m <= y
  BY <1>1, <1>2, LeastNumber
<1>4. m \in Nat /\ m - 1 \notin T
  BY <1>2, <1>3
<1>5. m # 0
  <2> DEFINE f == [i \in 0..0 |-> [view |-> v, task |-> t]]
  <2>1. Steps(f, v, t, 0)
    BY DEF Steps
  <2> HIDE DEF f
  <2> QED BY <2>1, <1>3 DEF T
<1>6. PICK f : Steps(f, v, t, m - 1)
  BY <1>4, <1>5 DEF T
<1> DEFINE g == [i \in 0..m |-> IF i < m THEN f[i] ELSE Both(f[m - 1], t.todo[m])]
<1>7. Steps(g, v, t, m)
  <2> SUFFICES ASSUME NEW i \in 0..m
               PROVE  g[i] = IF i = 0 THEN [view |-> v, task |-> t]
                             ELSE Both(g[i - 1], t.todo[i])
    BY DEF Steps
  <2>1. CASE i = 0
    BY <2>1, <1>4, <1>5, <1>6 DEF Steps
  <2>2. CASE i # 0 /\ i < m
    BY <2>2, <1>4, <1>5, <1>6 DEF Steps
  <2>3. CASE i = m
    BY <2>3, <1>4, <1>5
  <2> QED BY <2>1, <2>2, <2>3, <1>4
<1> HIDE DEF g
<1> QED BY <1>3, <1>7 DEF T

LEMMA UntilSteps ==
  ASSUME NEW v, NEW t, NEW k \in Nat \ {0}
  PROVE  \E f : /\ Until(v, t, k) = f[k - 1]
                /\ f[0].view = v /\ f[0].task = t
                /\ \A i \in 1..(k - 1) :
                     /\ f[i].view = Local(f[i - 1].view, f[i - 1].task, t.todo[i])
                     /\ f[i].task = Moved(f[i - 1].view, f[i - 1].task, t.todo[i])
<1> DEFINE A == CHOOSE f : Steps(f, v, t, k - 1)
<1>1. Steps(A, v, t, k - 1)
  BY StepsExist
<1>2. Until(v, t, k) = A[k - 1]
  BY DEF Until, Steps
<1> HIDE DEF A
<1>3. \A i \in 0..(k - 1) :
        A[i] = IF i = 0 THEN [view |-> v, task |-> t] ELSE Both(A[i - 1], t.todo[i])
  BY <1>1 DEF Steps
<1>4. /\ A[0] = [view |-> v, task |-> t]
      /\ \A i \in 1..(k - 1) : A[i] = Both(A[i - 1], t.todo[i])
  BY <1>3
<1>5. \A i \in 1..(k - 1) :
        /\ A[i].view = Local(A[i - 1].view, A[i - 1].task, t.todo[i])
        /\ A[i].task = Moved(A[i - 1].view, A[i - 1].task, t.todo[i])
  <2> SUFFICES ASSUME NEW i \in 1..(k - 1), NEW before, before = A[i - 1],
                      NEW step, step = t.todo[i]
               PROVE  /\ A[i].view = Local(before.view, before.task, step)
                      /\ A[i].task = Moved(before.view, before.task, step)
    OBVIOUS
  <2>1. A[i] = Both(before, step)
    BY <1>4
  <2>2. A[i] = [view |-> Local(before.view, before.task, step),
                task |-> Moved(before.view, before.task, step)]
    BY <2>1 DEF Both
  <2> QED BY <2>2
<1>6. A[0].view = v /\ A[0].task = t
  BY <1>4
<1> QED BY <1>2, <1>5, <1>6

\* The states of a handler between the launches of its threads.
Launches(f, v, ts, handler, item, on, shows, n) ==
  f = [i \in 0..n |->
         IF i = 0 THEN [view |-> v, tasks |-> ts, sent |-> {}]
         ELSE Launch(f[i - 1], FirstFree(f[i - 1].tasks), handler[i], item, on, shows)]

LEMMA LaunchesExist ==
  ASSUME NEW v, NEW ts, NEW handler, NEW item, NEW on, NEW shows, NEW n \in Nat
  PROVE  \E f : Launches(f, v, ts, handler, item, on, shows, n)
<1> DEFINE L(f, m) == Launches(f, v, ts, handler, item, on, shows, m)
           T == {m \in Nat : ~ \E f : L(f, m)}
           first == [view |-> v, tasks |-> ts, sent |-> {}]
           next(a, i) == Launch(a, FirstFree(a.tasks), handler[i], item, on, shows)
<1>1. SUFFICES ASSUME T # {} PROVE FALSE
  OBVIOUS
<1>2. T \subseteq Nat
  OBVIOUS
<1>a. \A f, m : L(f, m) <=> f = [i \in 0..m |-> IF i = 0 THEN first ELSE next(f[i - 1], i)]
  BY DEF Launches
<1>b. \A m \in Nat : m \in T <=> ~ \E f : L(f, m)
  OBVIOUS
<1> HIDE DEF T, L, first, next
<1>3. PICK m \in T : \A y \in T : m <= y
  BY <1>1, <1>2, LeastNumber
<1>4. m \in Nat /\ m - 1 \notin T
  BY <1>2, <1>3
<1>5. m # 0
  <2> DEFINE f == [i \in 0..0 |-> first]
  <2>1. f = [i \in 0..0 |-> IF i = 0 THEN first ELSE next(f[i - 1], i)]
    OBVIOUS
  <2> HIDE DEF f
  <2> QED BY <2>1, <1>3, <1>a, <1>b
<1>6. PICK f : L(f, m - 1)
  BY <1>4, <1>5, <1>b
<1>6a. f = [i \in 0..(m - 1) |-> IF i = 0 THEN first ELSE next(f[i - 1], i)]
  BY <1>6, <1>a
<1> DEFINE g == [i \in 0..m |-> IF i < m THEN f[i] ELSE next(f[m - 1], m)]
<1>7. g = [i \in 0..m |-> IF i = 0 THEN first ELSE next(g[i - 1], i)]
  <2> SUFFICES ASSUME NEW i \in 0..m
               PROVE  g[i] = IF i = 0 THEN first ELSE next(g[i - 1], i)
    OBVIOUS
  <2>1. CASE i = 0
    BY <2>1, <1>4, <1>5, <1>6a
  <2>2. CASE i # 0 /\ i < m
    BY <2>2, <1>4, <1>5, <1>6a
  <2>3. CASE i = m
    BY <2>3, <1>4, <1>5
  <2> QED BY <2>1, <2>2, <2>3, <1>4
<1> HIDE DEF g
<1>8. L(g, m)
  BY <1>7, <1>a
<1>9. \E h : L(h, m)
  BY <1>8
<1> QED BY <1>3, <1>4, <1>9, <1>b

LEMMA StartedLaunches ==
  ASSUME NEW v, NEW ts, NEW handler, NEW item, NEW on, NEW shows, Len(handler) \in Nat
  PROVE  \E f : /\ Started(v, ts, handler, item, on, shows) = f[Len(handler)]
                /\ f[0] = [view |-> v, tasks |-> ts, sent |-> {}]
                /\ \A i \in 1..Len(handler) :
                     f[i] = Launch(f[i - 1], FirstFree(f[i - 1].tasks), handler[i], item, on, shows)
<1> DEFINE n == Len(handler)
           A == CHOOSE f : Launches(f, v, ts, handler, item, on, shows, n)
           next(a, i) == Launch(a, FirstFree(a.tasks), handler[i], item, on, shows)
<1>1. Launches(A, v, ts, handler, item, on, shows, n)
  BY LaunchesExist
<1>2. Started(v, ts, handler, item, on, shows) = A[n]
  BY DEF Started, Launches
<1>3. A = [i \in 0..n |-> IF i = 0 THEN [view |-> v, tasks |-> ts, sent |-> {}]
                          ELSE next(A[i - 1], i)]
  BY <1>1 DEF Launches
<1> HIDE DEF A, next
<1>4. n \in Nat
  OBVIOUS
<1> HIDE DEF n
<1>5. A[0] = [view |-> v, tasks |-> ts, sent |-> {}]
  BY <1>3, <1>4
<1>6. \A i \in 1..n : A[i] = next(A[i - 1], i)
  BY <1>3, <1>4
<1> QED BY <1>2, <1>5, <1>6 DEF n, next

LEMMA NextAwaitIsFirst ==
  ASSUME NEW todo, IsSequence(todo)
  PROVE  /\ NextAwait(todo) \in 1..(Len(todo) + 1)
         /\ NextAwait(todo) <= Len(todo) => todo[NextAwait(todo)].do = "await"
         /\ \A j \in 1..(NextAwait(todo) - 1) : todo[j].do # "await"
<1> DEFINE n == Len(todo)
           T == {k \in 1..(n + 1) : k <= n => todo[k].do = "await"}
<1>1. n \in Nat
  BY DEF IsSequence
<1>2. T \subseteq Nat /\ T # {}
  <2> n + 1 \in T
    BY <1>1
  <2> QED BY <1>1
<1>3. PICK k \in T : \A j \in T : k <= j
  BY <1>2, LeastNumber
<1>4. /\ k \in 1..(n + 1) /\ (k <= n => todo[k].do = "await")
      /\ \A j \in 1..(k - 1) : todo[j].do # "await"
  <2> SUFFICES ASSUME NEW j \in 1..(k - 1), todo[j].do = "await" PROVE FALSE
    BY <1>1
  <2> j \in T
    BY <1>1
  <2> QED BY <1>1, <1>3
<1>5. \E x \in 1..(Len(todo) + 1) :
        /\ x <= Len(todo) => todo[x].do = "await"
        /\ \A j \in 1..(x - 1) : todo[j].do # "await"
  BY <1>4
<1> QED BY <1>5 DEF NextAwait

LEMMA FirstFreeIsFree ==
  ASSUME NEW ts, Free(ts) # {}
  PROVE  FirstFree(ts) \in Free(ts)
<1>1. Free(ts) \subseteq Nat
  BY BrowserAssumption DEF Free
<1>2. \E s \in Free(ts) : \A z \in Free(ts) : s <= z
  BY <1>1, LeastNumber
<1> QED BY <1>2 DEF FirstFree
-----------------------------------------------------------------------------
(* The disciplines hold of the steps that are left.                        *)

LEMMA LaterSteps ==
  ASSUME NEW steps, IsSequence(steps), NEW i \in Nat, NEW k \in Nat, i <= k
  PROVE  /\ \A w : Does(steps, k, w) => Does(steps, i, w)
         /\ \A ws : Calls(steps, k, ws) => Calls(steps, i, ws)
         /\ BeginsOnce(steps, i) => BeginsOnce(steps, k)
         /\ \A r, e : RestIsSure(steps, i, r, e) => RestIsSure(steps, k, r, e)
         /\ \A r, e : RestsAfterWait(steps, i, r, e) => RestsAfterWait(steps, k, r, e)
         /\ \A p, r : LoadedAfterLoad(p, steps, i, r) => LoadedAfterLoad(p, steps, k, r)
         /\ SelectsAtOnce(steps, i) => SelectsAtOnce(steps, k)
         /\ ForgetsWhenFilled(steps, i) => ForgetsWhenFilled(steps, k)
<1>1. \A j \in DOMAIN steps : j > k => j > i
  BY DEF IsSequence
<1>2. \A w : Does(steps, k, w) => Does(steps, i, w)
  BY <1>1 DEF Does
<1>3. \A ws : Calls(steps, k, ws) => Calls(steps, i, ws)
  BY <1>1 DEF Calls
<1>4. BeginsOnce(steps, i) => BeginsOnce(steps, k)
  BY <1>1 DEF BeginsOnce
<1>5. \A r, e : RestIsSure(steps, i, r, e) => RestIsSure(steps, k, r, e)
  BY <1>2 DEF RestIsSure
<1>6. \A r, e : RestsAfterWait(steps, i, r, e) => RestsAfterWait(steps, k, r, e)
  BY <1>1, <1>5 DEF RestsAfterWait
<1>7. \A p, r : LoadedAfterLoad(p, steps, i, r) => LoadedAfterLoad(p, steps, k, r)
  BY <1>1, <1>2, <1>3 DEF LoadedAfterLoad
<1>8. SelectsAtOnce(steps, i) => SelectsAtOnce(steps, k)
  BY <1>1 DEF SelectsAtOnce
<1>9. ForgetsWhenFilled(steps, i) => ForgetsWhenFilled(steps, k)
  BY <1>1 DEF ForgetsWhenFilled
<1> QED BY <1>2, <1>3, <1>4, <1>5, <1>6, <1>7, <1>8, <1>9

StepsAfter(steps, k) == SubSeq(steps, k + 1, Len(steps))

LEMMA LeftIndices ==
  ASSUME NEW steps, IsSequence(steps), NEW k \in 1..Len(steps),
         NEW left, left = StepsAfter(steps, k)
  PROVE  /\ IsSequence(left) /\ k \in Nat
         /\ DOMAIN left \subseteq Nat /\ DOMAIN steps \subseteq Nat
         /\ \A j \in DOMAIN left :
              j + k \in DOMAIN steps /\ j + k > k /\ left[j] = steps[j + k] /\ j > 0
         /\ \A j \in DOMAIN steps :
              j > k => j - k \in DOMAIN left /\ left[j - k] = steps[j]
<1> DEFINE n == Len(steps)
           S == {steps[j] : j \in DOMAIN steps}
<1>1. n \in Nat /\ DOMAIN steps = 1..n /\ steps \in Seq(S)
  BY DEF IsSequence
<1>2. /\ left \in Seq(S) /\ Len(left) = n - k /\ DOMAIN left = 1..(n - k)
      /\ \A j \in 1..(n - k) : left[j] = steps[j + k]
  <2>1. k + 1 \in 1..(n + 1) /\ n \in k..n
    BY <1>1
  <2>2. LET l == SubSeq(steps, k + 1, n) IN
        /\ l \in Seq(S) /\ Len(l) = n - k
        /\ \A j \in 1..(n - k) : l[j] = steps[j + k]
    BY ONLY <1>1, <2>1, k \in 1..Len(steps)
  <2> QED BY <2>2 DEF StepsAfter
<1> HIDE DEF n, S
<1>3. IsSequence(left)
  <2>1. left = [j \in 1..Len(left) |-> left[j]] /\ Len(left) \in Nat
    BY <1>2, <1>1
  <2>2. \A j \in 1..Len(left) : left[j] \in {left[l] : l \in DOMAIN left}
    BY <1>1, <1>2
  <2>3. left \in [1..Len(left) -> {left[l] : l \in DOMAIN left}]
    BY <2>1, <2>2
  <2>4. left \in Seq({left[l] : l \in DOMAIN left})
    BY ONLY <2>1, <2>3, SeqDef
  <2> QED BY <2>4 DEF IsSequence
<1>4. \A j \in DOMAIN left : j + k \in DOMAIN steps /\ j + k > k /\ left[j] = steps[j + k] /\ j > 0
  BY <1>1, <1>2
<1>5. \A j \in DOMAIN steps : j > k => j - k \in DOMAIN left /\ left[j - k] = steps[j]
  <2> SUFFICES ASSUME NEW j \in 1..n, j > k PROVE j - k \in 1..(n - k) /\ left[j - k] = steps[j]
    BY <1>1, <1>2
  <2>1. j - k \in 1..(n - k)
    BY <1>1
  <2>2. left[j - k] = steps[(j - k) + k]
    BY <2>1, <1>2
  <2>3. (j - k) + k = j
    BY <1>1
  <2> QED BY <2>1, <2>2, <2>3
<1>6. k \in Nat /\ DOMAIN left \subseteq Nat /\ DOMAIN steps \subseteq Nat
  BY <1>1, <1>2
<1> QED BY <1>3, <1>4, <1>5, <1>6

LEMMA StepsLeft ==
  ASSUME NEW steps, IsSequence(steps), NEW k \in 1..Len(steps)
  PROVE  LET left == StepsAfter(steps, k) IN
         /\ IsSequence(left)
         /\ \A w : Does(left, 0, w) <=> Does(steps, k, w)
         /\ \A ws : Calls(left, 0, ws) <=> Calls(steps, k, ws)
         /\ BeginsOnce(steps, k) => BeginsOnce(left, 0)
         /\ \A r, e : RestIsSure(steps, k, r, e) <=> RestIsSure(left, 0, r, e)
         /\ \A r, e : RestsAfterWait(steps, k, r, e) => RestsAfterWait(left, 0, r, e)
         /\ \A p, r : LoadedAfterLoad(p, steps, k, r) => LoadedAfterLoad(p, left, 0, r)
         /\ SelectsAtOnce(steps, k) => SelectsAtOnce(left, 0)
         /\ ForgetsWhenFilled(steps, k) => ForgetsWhenFilled(left, 0)
         /\ ForgetsNext(steps, k) => ForgetsNext(left, 0)
<1> DEFINE left == StepsAfter(steps, k)
<1>1. /\ IsSequence(left) /\ k \in Nat
      /\ DOMAIN left \subseteq Nat /\ DOMAIN steps \subseteq Nat
  BY LeftIndices
<1>4. \A j \in DOMAIN left : j + k \in DOMAIN steps /\ j + k > k /\ left[j] = steps[j + k] /\ j > 0
  BY LeftIndices
<1>5. \A j \in DOMAIN steps : j > k => j - k \in DOMAIN left /\ left[j - k] = steps[j]
  BY LeftIndices
<1> HIDE DEF left
<1>6. \A i \in Nat : \A w : Does(left, i, w) <=> Does(steps, i + k, w)
  <2> SUFFICES ASSUME NEW i \in Nat, NEW w
               PROVE  Does(left, i, w) <=> Does(steps, i + k, w)
    OBVIOUS
  <2>1. ASSUME NEW j \in DOMAIN left, j > i, left[j].do = w PROVE Does(steps, i + k, w)
    <3> j + k > i + k
      BY <2>1, <1>1
    <3> QED BY <2>1, <1>4 DEF Does
  <2>2. ASSUME NEW j \in DOMAIN steps, j > i + k, steps[j].do = w PROVE Does(left, i, w)
    <3> j - k > i /\ j > k
      BY <2>2, <1>1
    <3> QED BY <2>2, <1>5 DEF Does
  <2> QED BY <2>1, <2>2 DEF Does
<1>7. \A w : Does(left, 0, w) <=> Does(steps, k, w)
  BY <1>6
<1>8. \A j \in DOMAIN left : \A w : Does(left, j, w) <=> Does(steps, j + k, w)
  BY <1>6, <1>1
<1>9. \A ws : Calls(left, 0, ws) <=> Calls(steps, k, ws)
  BY <1>4, <1>5, <1>1 DEF Calls
<1>10. BeginsOnce(steps, k) => BeginsOnce(left, 0)
  BY <1>4, <1>8 DEF BeginsOnce
<1>11. \A r, e : RestIsSure(steps, k, r, e) <=> RestIsSure(left, 0, r, e)
  BY <1>7 DEF RestIsSure
<1>12. \A r, e : RestsAfterWait(steps, k, r, e) => RestsAfterWait(left, 0, r, e)
  BY <1>4, <1>8, <1>11 DEF RestsAfterWait
<1>13. \A p, r : LoadedAfterLoad(p, steps, k, r) => LoadedAfterLoad(p, left, 0, r)
  BY <1>4, <1>7, <1>8, <1>9 DEF LoadedAfterLoad
<1>14. SelectsAtOnce(steps, k) => SelectsAtOnce(left, 0)
  BY <1>4, <1>8 DEF SelectsAtOnce
<1>15. \A i \in Nat : ForgetsNext(steps, i + k) => ForgetsNext(left, i)
  <2> SUFFICES ASSUME NEW i \in Nat, NEW l \in DOMAIN steps,
                      l > i + k, steps[l].do = "forget",
                      \A j \in DOMAIN steps : i + k < j /\ j < l => steps[j].do # "await"
               PROVE  ForgetsNext(left, i)
    BY DEF ForgetsNext
  <2>1. l - k \in DOMAIN left /\ l - k > i /\ left[l - k].do = "forget"
    BY <1>5, <1>1
  <2>2. ASSUME NEW j \in DOMAIN left, i < j, j < l - k PROVE left[j].do # "await"
    <3> j + k \in DOMAIN steps /\ i + k < j + k /\ j + k < l
      BY <2>2, <1>1
    <3> QED BY <1>4
  <2> QED BY <2>1, <2>2 DEF ForgetsNext
<1>16. ForgetsWhenFilled(steps, k) => ForgetsWhenFilled(left, 0)
  <2>1. \A j \in DOMAIN left : ForgetsNext(steps, j + k) => ForgetsNext(left, j)
    BY <1>15, <1>1
  <2> QED BY <2>1, <1>4 DEF ForgetsWhenFilled
<1>17. ForgetsNext(steps, k) => ForgetsNext(left, 0)
  BY <1>15
<1> QED BY <1>1, <1>7, <1>9, <1>10, <1>11, <1>12, <1>13, <1>14, <1>16, <1>17
   DEF left
-----------------------------------------------------------------------------
(* What one step does.                                                     *)

ViewFields ==
  {"rows", "isNew", "picked", "form", "store", "used", "draft", "typed", "waiting",
   "loading", "left", "ops", "rank"}

IsView(v) ==
  v = [f \in ViewFields |-> v[f]] /\ v.waiting \in BOOLEAN /\ v.loading \in BOOLEAN

TaskFields ==
  {"live", "slot", "todo", "error", "rescue", "item", "on", "shows", "name"}

IsTask(t) == t = [f \in TaskFields |-> t[f]] /\ t.live = TRUE

LEMMA LocalView ==
  ASSUME NEW v, IsView(v), NEW t, NEW s
  PROVE  LET w == Local(v, t, s) IN
         /\ IsView(w) /\ w.form = v.form
         /\ w.waiting <=> s.do = "wait" \/ (s.do # "rest" /\ v.waiting)
         /\ w.loading <=> s.do = "load" \/ (s.do # "loaded" /\ v.loading)
         /\ s.do \notin {"begin", "finish"} => w.ops = v.ops
         /\ w.draft = IF s.do = "forget" THEN {} ELSE v.draft
         /\ w.typed = IF s.do = "forget" THEN {} ELSE v.typed
         /\ s.do \notin Selects => w.picked \in {None, v.picked}
<1> DEFINE w == Local(v, t, s)
<1> USE DEF Local, IsView, ViewFields, Recorded, Unnamed, Selects
<1>1. CASE s.do = "wait" BY <1>1
<1>2. CASE s.do = "rest" BY <1>2
<1>3. CASE s.do = "hideNew" BY <1>3
<1>4. CASE s.do = "letGo" BY <1>4
<1>5. CASE s.do = "pick" BY <1>5
<1>6. CASE s.do = "pickLast" BY <1>6
<1>7. CASE s.do = "forget" BY <1>7
<1>8. CASE s.do = "load" BY <1>8
<1>9. CASE s.do = "loaded" BY <1>9
<1>10. CASE s.do = "show" BY <1>10
<1>11. CASE s.do = "choose" BY <1>11
<1>12. CASE s.do = "leave" BY <1>12
<1>13. CASE s.do = "begin" BY <1>13
<1>14. CASE s.do = "finish" BY <1>14
<1>15. CASE s.do \notin {"wait", "rest", "hideNew", "letGo", "pick", "pickLast", "forget",
                        "load", "loaded", "show", "choose", "leave", "begin", "finish"}
  BY <1>15
<1> QED BY <1>1, <1>2, <1>3, <1>4, <1>5, <1>6, <1>7, <1>8, <1>9, <1>10, <1>11, <1>12,
           <1>13, <1>14, <1>15

\* The operations a step adds and removes.
LEMMA LocalOps ==
  ASSUME NEW v, IsView(v), NEW t, NEW s, NEW w, w = Local(v, t, s)
  PROVE  /\ s.do = "begin" =>
              \A x : x \in w.ops <=>
                x \in v.ops \/ (x = Named(v, s.tag, t.slot) /\ x # NoName)
         /\ s.do = "finish" => \A x : x \in w.ops <=> x \in v.ops /\ x # t.name
<1> USE DEF Local, IsView, ViewFields, Recorded, Unnamed
<1>1. CASE s.do = "begin" BY <1>1
<1>2. CASE s.do = "finish" BY <1>2
<1> QED BY <1>1, <1>2

LEMMA MovedTask ==
  ASSUME NEW v, NEW t, IsTask(t), NEW s
  PROVE  LET u == Moved(v, t, s) IN
         /\ IsTask(u)
         /\ u.todo = t.todo /\ u.slot = t.slot /\ u.item = t.item
         /\ u.on = t.on /\ u.shows = t.shows
         /\ u.rescue = IF s.do = "endTry" THEN << >> ELSE t.rescue
         /\ u.error = IF s.do = "detach" THEN "nobody" ELSE t.error
         /\ u.name = IF s.do = "begin" THEN Named(v, s.tag, t.slot)
                     ELSE IF s.do = "finish" THEN NoName ELSE t.name
<1> USE DEF Moved, IsTask, TaskFields, NoName
<1>1. CASE s.do = "endTry" BY <1>1
<1>2. CASE s.do = "detach" BY <1>2
<1>3. CASE s.do = "begin" BY <1>3
<1>4. CASE s.do = "finish" BY <1>4
<1>5. CASE s.do \notin {"endTry", "detach", "begin", "finish"} BY <1>5
<1> QED BY <1>1, <1>2, <1>3, <1>4, <1>5
-----------------------------------------------------------------------------
(* The operations in progress.                                             *)

IsTasks(ts) == ts = [z \in Slots |-> ts[z]] /\ \A z \in Slots : ts[z] = Idle \/ IsTask(ts[z])

Work(ts) == {z \in Slots : ts[z].live}

\* The name of an operation is a tag, with the suffix of a thread or without.
NameOf(tag, z) == <<tag, z>>

OwnName(given, z) ==
  given = NoName \/ \E tag : tag # NoTag /\ (given = NameOf(tag, 0) \/ given = NameOf(tag, z))

\* The operations shown are the names of the threads, two at most, and no two
\* threads have the same.
OpsOK(v, ts) ==
  /\ v.ops = {ts[z].name : z \in Work(ts)} \ {NoName}
  /\ IsFiniteSet(v.ops) /\ Cardinality(v.ops) <= 2
  /\ \A y, z \in Work(ts) : y # z /\ ts[y].name = ts[z].name => ts[y].name = NoName
  /\ \A z \in Work(ts) : OwnName(ts[z].name, z)

LEMMA WorkChanges ==
  ASSUME NEW ts, IsTasks(ts), NEW s \in Slots, NEW u
  PROVE  LET after == [ts EXCEPT ![s] = u] IN
         /\ after[s] = u /\ \A z \in Slots : z # s => after[z] = ts[z]
         /\ Work(ts) \subseteq Slots /\ Work(after) \subseteq Slots
         /\ u = Idle => IsTasks(after) /\ Work(after) = Work(ts) \ {s}
         /\ IsTask(u) => IsTasks(after) /\ Work(after) = Work(ts) \cup {s}
<1> DEFINE after == [ts EXCEPT ![s] = u]
<1>1. after = [z \in Slots |-> after[z]] /\ after[s] = u /\ \A z \in Slots : z # s => after[z] = ts[z]
  BY DEF IsTasks
<1> HIDE DEF after
<1>1a. Work(ts) \subseteq Slots /\ Work(after) \subseteq Slots
  BY DEF Work
<1>2. u = Idle => ~u.live
  BY DEF Idle
<1>3. IsTask(u) => u.live
  BY DEF IsTask
<1>4. u = Idle => IsTasks(after) /\ Work(after) = Work(ts) \ {s}
  BY <1>1, <1>2 DEF IsTasks, Work
<1>5. IsTask(u) => IsTasks(after) /\ Work(after) = Work(ts) \cup {s}
  BY <1>1, <1>3 DEF IsTasks, Work
<1> QED BY <1>1, <1>1a, <1>4, <1>5 DEF after

LEMMA NamesDiffer ==
  /\ \A a, b, y, z : NameOf(a, y) = NameOf(b, z) => a = b /\ y = z
  /\ \A a, z : a # NoTag => NameOf(a, z) # NoName
  /\ NoName = NameOf(NoTag, 0)
BY DEF NameOf, NoName

LEMMA NamedOnce ==
  ASSUME NEW v, NEW tag, NEW s, IsFiniteSet(v.ops)
  PROVE  LET given == Named(v, tag, s) IN
         \/ given = NoName
         \/ given = NameOf(tag, 0) /\ given \notin v.ops /\ Cardinality(v.ops) <= 1
         \/ given = NameOf(tag, s) /\ Cardinality(v.ops) <= 1
<1>1. Cardinality(v.ops) \in Nat
  BY FS_CardinalityType
<1>2. Cardinality(v.ops) > 1 \/ Cardinality(v.ops) <= 1
  BY <1>1
<1>3. Named(v, tag, s) =
        IF Cardinality(v.ops) > 1 THEN NoName
        ELSE IF NameOf(tag, 0) \in v.ops THEN NameOf(tag, s) ELSE NameOf(tag, 0)
  BY Zenon DEF Named, NameOf, NoName
<1> QED BY <1>2, <1>3

LEMMA OpsBegin ==
  ASSUME NEW v, NEW w, NEW ts, IsTasks(ts), OpsOK(v, ts), NEW s \in Work(ts),
         ts[s].name = NoName, NEW tag, tag # NoTag,
         NEW u, IsTask(u), NEW given, given = Named(v, tag, s), u.name = given,
         \A x : x \in w.ops <=> x \in v.ops \/ (x = given /\ x # NoName)
  PROVE  OpsOK(w, [ts EXCEPT ![s] = u])
<1> DEFINE after == [ts EXCEPT ![s] = u]
<1>0. s \in Slots /\ s # 0
  BY BrowserAssumption DEF Work
<1>1. /\ after[s] = u /\ Work(after) = Work(ts)
      /\ \A z \in Work(ts) : z # s => after[z] = ts[z]
  BY <1>0, WorkChanges
<1>0a. w.ops = IF given = NoName THEN v.ops ELSE v.ops \cup {given}
  OBVIOUS
<1>1a. IsFiniteSet(v.ops) /\ Cardinality(v.ops) \in Nat /\ Cardinality(v.ops) <= 2
  BY FS_CardinalityType DEF OpsOK
<1>2. \/ given = NoName
      \/ /\ Cardinality(v.ops) <= 1 /\ given \notin v.ops
         /\ given = NameOf(tag, 0) \/ given = NameOf(tag, s)
  <2>1. NameOf(tag, s) \notin v.ops
    <3> SUFFICES ASSUME NEW z \in Work(ts), ts[z].name = NameOf(tag, s) PROVE FALSE
      BY DEF OpsOK
    <3>1. OwnName(ts[z].name, z)
      BY DEF OpsOK
    <3>2. z = s
      BY <3>1, <1>0, NamesDiffer DEF OwnName
    <3> QED BY <3>2, NamesDiffer
  <2> QED BY <1>1a, <2>1, NamedOnce
<1> HIDE DEF after
<1>5. w.ops = {after[z].name : z \in Work(after)} \ {NoName}
  BY <1>0a, <1>1 DEF OpsOK
<1>6. IsFiniteSet(w.ops) /\ Cardinality(w.ops) <= 2
  <2>1. CASE given = NoName
    BY <2>1, <1>0a DEF OpsOK
  <2>2. CASE given # NoName
    <3>1. IsFiniteSet(v.ops) /\ given \notin v.ops /\ w.ops = v.ops \cup {given}
      BY <2>2, <1>0a, <1>2 DEF OpsOK
    <3>2. Cardinality(v.ops) \in Nat /\ Cardinality(v.ops) <= 1
      BY <2>2, <3>1, <1>2, FS_CardinalityType
    <3>3. /\ IsFiniteSet(v.ops \cup {given})
          /\ Cardinality(v.ops \cup {given}) = Cardinality(v.ops) + 1
      BY <3>1, FS_AddElement
    <3> QED BY <3>1, <3>2, <3>3
  <2> QED BY <2>1, <2>2
<1>7. ASSUME NEW z \in Work(ts), z # s, ts[z].name = given PROVE given = NoName
  BY <1>7, <1>2 DEF OpsOK
<1>8. \A y, z \in Work(after) : y # z /\ after[y].name = after[z].name => after[y].name = NoName
  BY <1>1, <1>7 DEF OpsOK
<1>9. \A z \in Work(after) : OwnName(after[z].name, z)
  BY <1>1, <1>2 DEF OpsOK, OwnName
<1> QED BY <1>5, <1>6, <1>8, <1>9 DEF OpsOK, after

LEMMA OpsFinish ==
  ASSUME NEW v, NEW w, NEW ts, IsTasks(ts), OpsOK(v, ts), NEW s \in Work(ts),
         w.ops = v.ops \ {ts[s].name},
         NEW u, u = Idle \/ (IsTask(u) /\ u.name = NoName)
  PROVE  OpsOK(w, [ts EXCEPT ![s] = u])
<1> DEFINE after == [ts EXCEPT ![s] = u]
<1>0. s \in Slots
  BY DEF Work
<1>1. /\ after[s] = u /\ Work(after) \subseteq Work(ts)
      /\ \A z \in Work(ts) : z # s => after[z] = ts[z] /\ z \in Work(after)
      /\ s \in Work(after) => u.name = NoName
  <2>0. Work(ts) \subseteq Slots /\ after[s] = u /\ \A z \in Slots : z # s => after[z] = ts[z]
    BY <1>0 DEF IsTasks, Work
  <2>1. CASE u = Idle
    <3>1. Work(after) = Work(ts) \ {s}
      BY <2>1, <1>0, WorkChanges
    <3> HIDE DEF after
    <3> QED BY <2>0, <3>1
  <2>2. CASE IsTask(u) /\ u.name = NoName
    <3>1. Work(after) = Work(ts) \cup {s}
      BY <2>2, <1>0, WorkChanges
    <3> HIDE DEF after
    <3> QED BY <2>0, <3>1, <2>2
  <2> QED BY <2>1, <2>2
<1> HIDE DEF after
<1>2. w.ops = {after[z].name : z \in Work(after)} \ {NoName}
  BY <1>1 DEF OpsOK
<1>3. IsFiniteSet(w.ops) /\ Cardinality(w.ops) <= 2
  <2>1. IsFiniteSet(w.ops) /\ Cardinality(w.ops) <= Cardinality(v.ops)
    BY FS_Subset DEF OpsOK
  <2> QED BY <2>1, FS_CardinalityType DEF OpsOK
<1>4. \A y, z \in Work(after) : y # z /\ after[y].name = after[z].name => after[y].name = NoName
  BY <1>1 DEF OpsOK
<1>5. \A z \in Work(after) : OwnName(after[z].name, z)
  BY <1>1 DEF OpsOK, OwnName
<1> QED BY <1>2, <1>3, <1>4, <1>5 DEF OpsOK, after

LEMMA OpsSame ==
  ASSUME NEW v, NEW w, NEW ts, IsTasks(ts), OpsOK(v, ts), NEW s \in Slots,
         w.ops = v.ops, NEW u, IsTask(u),
         u.name = IF s \in Work(ts) THEN ts[s].name ELSE NoName
  PROVE  OpsOK(w, [ts EXCEPT ![s] = u])
<1> DEFINE after == [ts EXCEPT ![s] = u]
<1>1. /\ after[s] = u /\ Work(after) = Work(ts) \cup {s}
      /\ \A z \in Work(ts) : z # s => after[z] = ts[z]
  BY WorkChanges
<1> HIDE DEF after
<1>2. w.ops = {after[z].name : z \in Work(after)} \ {NoName}
  BY <1>1 DEF OpsOK
<1>3. \A y, z \in Work(after) : y # z /\ after[y].name = after[z].name => after[y].name = NoName
  BY <1>1 DEF OpsOK
<1>4. \A z \in Work(after) : OwnName(after[z].name, z)
  BY <1>1 DEF OpsOK, OwnName
<1> QED BY <1>2, <1>3, <1>4 DEF OpsOK, after
-----------------------------------------------------------------------------
(* The invariant of the page and of the threads: s is the thread that      *)
(* runs, of which i steps are done; None when no thread runs.              *)

\* The page saves the selection and keeps its form.
Stable(p) ==
  p \notin Drifting /\ "savesPicked" \in Pages[p].traits /\ "keyed" \notin Pages[p].traits

FormOK(p, t, i) ==
  /\ Stable(p) => /\ SelectsAtOnce(t.todo, i) /\ Selectless(t.rescue, 0)
                  /\ ~Calls(t.todo, i, {"details"}) /\ ~Calls(t.rescue, 0, {"details"})
  /\ Forgetful(Pages[p]) => ForgetsWhenFilled(t.todo, i) /\ ForgetsWhenFilled(t.rescue, 0)
  /\ p \notin Drifting =>
       \/ t.on = t.shows
       \/ ~Calls(t.todo, i, {"update"}) /\ ~Calls(t.rescue, 0, {"update"})

TaskOK(p, t, z, i) ==
  /\ IsTask(t) /\ t.slot = z
  /\ IsSequence(t.todo) /\ IsSequence(t.rescue)
  /\ BeginsOnce(t.todo, i) /\ (t.name # NoName => ~Does(t.todo, i, "begin"))
  /\ RestsAfterWait(t.todo, i, t.rescue, t.error)
  /\ LoadedAfterLoad(p, t.todo, i, t.rescue)
  /\ OnlyEnds(t.rescue)
  /\ FormOK(p, t, i)

\* A thread that waits for requests.
Parked(p, t) ==
  /\ Does(t.todo, 0, "loaded") => LoadedIsSure(p, t.rescue)
  /\ Stable(p) => Selectless(t.todo, 0)

At(z, s, i) == IF z = s THEN i ELSE 0

OwesRest(t, i) == Does(t.todo, i, "rest") /\ RestIsSure(t.todo, i, t.rescue, t.error)

OwesLoaded(t, i) == Does(t.todo, i, "loaded")

Sys(p, lost, v, ts, s, i) ==
  /\ IsView(v) /\ IsTasks(ts) /\ OpsOK(v, ts)
  /\ \A z \in Work(ts) : TaskOK(p, ts[z], z, At(z, s, i)) /\ (z # s => Parked(p, ts[z]))
  /\ v.waiting => \E z \in Work(ts) : OwesRest(ts[z], At(z, s, i))
  /\ v.loading => lost \/ \E z \in Work(ts) : OwesLoaded(ts[z], At(z, s, i))

LEMMA NoCatch ==
  /\ IsSequence(<< >>) /\ OnlyEnds(<< >>) /\ ForgetsWhenFilled(<< >>, 0)
  /\ \A w : ~Does(<< >>, 0, w)
  /\ \A ws : ~Calls(<< >>, 0, ws)
<1>1. DOMAIN << >> = {}
  OBVIOUS
<1>2. IsSequence(<< >>)
  BY EmptySeq DEF IsSequence
<1>3. \A w : ~Does(<< >>, 0, w)
  BY <1>1 DEF Does
<1>4. \A ws : ~Calls(<< >>, 0, ws)
  BY <1>1 DEF Calls
<1>5. OnlyEnds(<< >>)
  BY <1>1, <1>3 DEF OnlyEnds
<1>6. ForgetsWhenFilled(<< >>, 0)
  BY <1>1 DEF ForgetsWhenFilled
<1> QED BY <1>2, <1>3, <1>4, <1>5, <1>6

LEMMA TaskStep ==
  ASSUME NEW p, NEW v, NEW t, NEW z, NEW i \in 1..Len(t.todo), TaskOK(p, t, z, i - 1)
  PROVE  TaskOK(p, Moved(v, t, t.todo[i]), z, i)
<1> DEFINE step == t.todo[i]
           u == Moved(v, t, step)
           todo == t.todo
<1>1. /\ i \in Nat /\ i - 1 \in Nat /\ i - 1 <= i /\ i > i - 1
      /\ i \in DOMAIN todo
  BY DEF TaskOK, IsSequence
<1>2. /\ IsTask(u) /\ u.todo = todo /\ u.slot = t.slot
      /\ u.on = t.on /\ u.shows = t.shows
      /\ u.rescue = IF step.do = "endTry" THEN << >> ELSE t.rescue
      /\ u.error = IF step.do = "detach" THEN "nobody" ELSE t.error
      /\ step.do # "begin" => u.name \in {t.name, NoName}
  BY MovedTask DEF TaskOK
<1>3. /\ IsTask(t) /\ t.slot = z
      /\ IsSequence(todo) /\ IsSequence(t.rescue)
      /\ BeginsOnce(todo, i - 1) /\ (t.name # NoName => ~Does(todo, i - 1, "begin"))
      /\ RestsAfterWait(todo, i - 1, t.rescue, t.error)
      /\ LoadedAfterLoad(p, todo, i - 1, t.rescue)
      /\ OnlyEnds(t.rescue)
      /\ FormOK(p, t, i - 1)
  BY DEF TaskOK
<1>4. \A w : step.do = w => Does(todo, i - 1, w)
  BY <1>1 DEF Does
<1> HIDE DEF u, step, todo
<1>5. IsSequence(u.rescue) /\ OnlyEnds(u.rescue)
  BY <1>2, <1>3, NoCatch
<1>6. BeginsOnce(todo, i)
  BY <1>1, <1>3, LaterSteps
<1>7. u.name # NoName => ~Does(todo, i, "begin")
  <2>1. CASE step.do = "begin"
    BY <2>1, <1>1, <1>3 DEF BeginsOnce, step, todo
  <2>2. CASE step.do # "begin"
    BY <2>2, <1>1, <1>2, <1>3, LaterSteps
  <2> QED BY <2>1, <2>2
<1>8. RestsAfterWait(todo, i, u.rescue, u.error)
  <2> SUFFICES ASSUME NEW j \in DOMAIN todo, j > i, todo[j].do = "wait"
               PROVE  Does(todo, j, "rest") /\ RestIsSure(todo, i, u.rescue, u.error)
    BY DEF RestsAfterWait
  <2>1. Does(todo, j, "rest") /\ RestIsSure(todo, i - 1, t.rescue, t.error)
    <3> j > i - 1
      BY <1>1, <1>3 DEF IsSequence
    <3> QED BY <1>3 DEF RestsAfterWait
  <2>2. step.do # "detach"
    BY <2>1, <1>4 DEF RestIsSure
  <2>3. RestIsSure(todo, i, t.rescue, t.error)
    BY <2>1, <1>1, <1>3, LaterSteps
  <2> QED BY <2>1, <2>2, <2>3, <1>2 DEF RestIsSure
<1>9. LoadedAfterLoad(p, todo, i, u.rescue)
  <2>1. LoadedAfterLoad(p, todo, i, t.rescue)
    BY <1>1, <1>3, LaterSteps
  <2>2. CASE step.do # "endTry"
    BY <2>1, <2>2, <1>2
  <2>3. CASE step.do = "endTry"
    <3>1. ~Does(todo, i, "loaded")
      BY <2>3, <1>1, <1>3, <1>4, LaterSteps DEF LoadedAfterLoad
    <3> QED BY <2>1, <3>1 DEF LoadedAfterLoad
  <2> QED BY <2>2, <2>3
<1>10. FormOK(p, u, i)
  <2>1. Selectless(t.rescue, 0) => Selectless(u.rescue, 0)
    BY <1>2, NoCatch DEF Selectless
  <2>2. \A ws : ~Calls(t.rescue, 0, ws) => ~Calls(u.rescue, 0, ws)
    BY <1>2, NoCatch
  <2>3. ForgetsWhenFilled(t.rescue, 0) => ForgetsWhenFilled(u.rescue, 0)
    BY <1>2, NoCatch
  <2>4. /\ SelectsAtOnce(todo, i - 1) => SelectsAtOnce(todo, i)
        /\ \A ws : ~Calls(todo, i - 1, ws) => ~Calls(todo, i, ws)
        /\ ForgetsWhenFilled(todo, i - 1) => ForgetsWhenFilled(todo, i)
    BY <1>1, <1>3, LaterSteps
  <2> QED BY <2>1, <2>2, <2>3, <2>4, <1>2, <1>3 DEF FormOK, todo
<1> QED BY <1>2, <1>3, <1>5, <1>6, <1>7, <1>8, <1>9, <1>10 DEF TaskOK, u, step

LEMMA SysStep ==
  ASSUME NEW p, NEW lost \in BOOLEAN, NEW v, NEW ts, NEW s \in Work(ts),
         NEW t, t = ts[s], NEW i \in 1..Len(t.todo), Sys(p, lost, v, ts, s, i - 1),
         NEW step, step = t.todo[i], NEW w, w = Local(v, t, step),
         NEW u, u = Moved(v, t, step)
  PROVE  Sys(p, lost, w, [ts EXCEPT ![s] = u], s, i)
<1> DEFINE after == [ts EXCEPT ![s] = u]
<1>1. /\ IsView(v) /\ IsTasks(ts) /\ OpsOK(v, ts) /\ TaskOK(p, t, s, i - 1)
      /\ \A z \in Work(ts) : z # s => TaskOK(p, ts[z], z, 0) /\ Parked(p, ts[z])
      /\ v.waiting => \E z \in Work(ts) : OwesRest(ts[z], At(z, s, i - 1))
      /\ v.loading => lost \/ \E z \in Work(ts) : OwesLoaded(ts[z], At(z, s, i - 1))
  BY DEF Sys, At
<1>2. /\ s \in Slots /\ IsTask(t) /\ t.slot = s /\ IsSequence(t.todo)
      /\ i \in DOMAIN t.todo /\ i \in Nat /\ i - 1 \in Nat
  BY <1>1 DEF TaskOK, Work, IsSequence
<1>3. TaskOK(p, u, s, i)
  BY <1>1, TaskStep
<1>4. /\ IsView(w)
      /\ w.waiting <=> step.do = "wait" \/ (step.do # "rest" /\ v.waiting)
      /\ w.loading <=> step.do = "load" \/ (step.do # "loaded" /\ v.loading)
      /\ step.do \notin {"begin", "finish"} => w.ops = v.ops
  BY <1>1, LocalView
<1>5. /\ IsTask(u) /\ u.todo = t.todo
      /\ u.rescue = IF step.do = "endTry" THEN << >> ELSE t.rescue
      /\ u.error = IF step.do = "detach" THEN "nobody" ELSE t.error
      /\ u.name = IF step.do = "begin" THEN Named(v, step.tag, s)
                  ELSE IF step.do = "finish" THEN NoName ELSE t.name
  BY <1>2, MovedTask
<1>6. /\ after[s] = u /\ IsTasks(after) /\ Work(after) = Work(ts)
      /\ \A z \in Work(ts) : z # s => after[z] = ts[z]
  <2>1. after = [z \in Slots |-> after[z]] /\ after[s] = u /\ \A z \in Slots : z # s => after[z] = ts[z]
    BY <1>1, <1>2 DEF IsTasks
  <2> HIDE DEF after
  <2>2. IsTasks(after)
    BY <2>1, <1>1, <1>5 DEF IsTasks
  <2>3. \A z \in Slots : after[z].live <=> ts[z].live
    BY <2>1, <1>2, <1>5 DEF IsTask
  <2> QED BY <2>1, <2>2, <2>3 DEF Work
<1>7. \A x : Does(t.todo, i - 1, x) => step.do = x \/ Does(t.todo, i, x)
  <2> SUFFICES ASSUME NEW j \in DOMAIN t.todo, j > i - 1, j # i
               PROVE  j > i
    BY DEF Does
  <2> QED BY <1>2 DEF IsSequence
<1>8. BeginsOnce(t.todo, i - 1) /\ (t.name # NoName => ~Does(t.todo, i - 1, "begin"))
      /\ RestsAfterWait(t.todo, i - 1, t.rescue, t.error)
      /\ LoadedAfterLoad(p, t.todo, i - 1, t.rescue)
  BY <1>1 DEF TaskOK
<1>8a. i > i - 1
  BY <1>2
<1>9. OpsOK(w, after)
  <2>1. CASE step.do = "begin"
    <3>1. step.tag # NoTag /\ t.name = NoName
      BY <2>1, <1>2, <1>8, <1>8a DEF BeginsOnce, Does
    <3>2. \A x : x \in w.ops <=> x \in v.ops \/ (x = u.name /\ x # NoName)
      BY <2>1, <1>1, <1>2, <1>5, LocalOps
    <3>3. u.name = Named(v, step.tag, s)
      BY <2>1, <1>5
    <3> HIDE DEF after
    <3>4. OpsOK(w, [ts EXCEPT ![s] = u])
      <4>1. IsTasks(ts) /\ OpsOK(v, ts) /\ ts[s].name = NoName /\ IsTask(u)
        BY <3>1, <1>1, <1>5
      <4>2. step.tag # NoTag
        BY <3>1
      <4> QED BY ONLY s \in Work(ts), <4>1, <4>2, <3>2, <3>3, OpsBegin
    <3> QED BY <3>4 DEF after
  <2>2. CASE step.do = "finish"
    <3>1. \A x : x \in w.ops <=> x \in v.ops /\ x # t.name
      BY <2>2, <1>1, LocalOps
    <3>2. w.ops = v.ops \ {ts[s].name}
      BY <3>1
    <3> QED BY <2>2, <3>2, <1>1, <1>5, OpsFinish
  <2>3. CASE step.do \notin {"begin", "finish"}
    <3> QED BY <2>3, <1>1, <1>2, <1>4, <1>5, OpsSame
  <2> QED BY <2>1, <2>2, <2>3
<1> HIDE DEF after
<1>10. RestIsSure(t.todo, i - 1, t.rescue, t.error) => RestIsSure(t.todo, i, u.rescue, u.error)
  <2> SUFFICES ASSUME RestIsSure(t.todo, i - 1, t.rescue, t.error)
               PROVE  RestIsSure(t.todo, i, u.rescue, u.error)
    OBVIOUS
  <2>1. step.do # "detach"
    BY <1>2, <1>8a DEF RestIsSure, Does
  <2>2. RestIsSure(t.todo, i, t.rescue, t.error)
    BY <1>2, LaterSteps
  <2> QED BY <2>1, <2>2, <1>5 DEF RestIsSure
<1>11. w.waiting => \E z \in Work(ts) : OwesRest(after[z], At(z, s, i))
  <2>1. CASE step.do = "wait"
    <3>1. Does(t.todo, i, "rest") /\ RestIsSure(t.todo, i - 1, t.rescue, t.error)
      BY <2>1, <1>2, <1>8, <1>8a DEF RestsAfterWait
    <3> QED BY <3>1, <1>5, <1>6, <1>10 DEF OwesRest, At
  <2>2. CASE step.do \notin {"wait", "rest"} /\ v.waiting
    <3>1. PICK z \in Work(ts) : OwesRest(ts[z], At(z, s, i - 1))
      BY <2>2, <1>1
    <3>2. CASE z = s
      BY <2>2, <3>1, <3>2, <1>5, <1>6, <1>7, <1>10 DEF OwesRest, At
    <3>3. CASE z # s
      BY <3>1, <3>3, <1>6 DEF At
    <3> QED BY <3>2, <3>3
  <2> QED BY <2>1, <2>2, <1>4
<1>12. w.loading => lost \/ \E z \in Work(ts) : OwesLoaded(after[z], At(z, s, i))
  <2>1. CASE step.do = "load"
    <3>1. Does(t.todo, i, "loaded")
      BY <2>1, <1>2, <1>8, <1>8a DEF LoadedAfterLoad
    <3> QED BY <3>1, <1>5, <1>6 DEF OwesLoaded, At
  <2>2. CASE step.do \notin {"load", "loaded"} /\ v.loading /\ ~lost
    <3>1. PICK z \in Work(ts) : OwesLoaded(ts[z], At(z, s, i - 1))
      BY <2>2, <1>1
    <3>2. CASE z = s
      BY <2>2, <3>1, <3>2, <1>5, <1>6, <1>7 DEF OwesLoaded, At
    <3>3. CASE z # s
      BY <3>1, <3>3, <1>6 DEF At
    <3> QED BY <3>2, <3>3
  <2> QED BY <2>1, <2>2, <1>4
<1>13. \A z \in Work(after) :
         TaskOK(p, after[z], z, At(z, s, i)) /\ (z # s => Parked(p, after[z]))
  BY <1>1, <1>3, <1>6 DEF At
<1>14. Sys(p, lost, w, after, s, i)
  BY <1>4, <1>6, <1>9, <1>11, <1>12, <1>13 DEF Sys
<1> QED BY <1>14 DEF after
-----------------------------------------------------------------------------
(* What a run does: the steps before its first await, then the await or    *)
(* the end of the thread.                                                  *)

\* From the view v and the threads ts, the thread s has done i steps and is u.
Reached(p, lost, v, ts, s, w, u, i) ==
  /\ Sys(p, lost, w, [ts EXCEPT ![s] = u], s, i)
  /\ IsTask(u) /\ u.todo = ts[s].todo /\ u.slot = ts[s].slot
  /\ u.on = ts[s].on /\ u.shows = ts[s].shows
  /\ w.form = v.form
  /\ v.draft = v.typed \/ (\E j \in 1..i : u.todo[j].do = "forget") => w.draft = w.typed
  /\ (\A j \in 1..i : u.todo[j].do \notin Selects) => w.picked \in {None, v.picked}

LEMMA ReachedStep ==
  ASSUME NEW p, NEW lost \in BOOLEAN, NEW v, NEW ts, NEW s \in Slots, IsTasks(ts),
         NEW i \in Nat \ {0}, i <= Len(ts[s].todo),
         NEW w, NEW u, Reached(p, lost, v, ts, s, w, u, i - 1),
         NEW step, step = ts[s].todo[i],
         NEW ww, ww = Local(w, u, step), NEW uu, uu = Moved(w, u, step)
  PROVE  Reached(p, lost, v, ts, s, ww, uu, i)
<1> DEFINE now == [ts EXCEPT ![s] = u]
           after == [ts EXCEPT ![s] = uu]
<1>1. /\ Sys(p, lost, w, now, s, i - 1)
      /\ IsTask(u) /\ u.todo = ts[s].todo /\ u.slot = ts[s].slot
      /\ u.on = ts[s].on /\ u.shows = ts[s].shows
      /\ w.form = v.form
      /\ v.draft = v.typed \/ (\E j \in 1..(i - 1) : u.todo[j].do = "forget") => w.draft = w.typed
      /\ (\A j \in 1..(i - 1) : u.todo[j].do \notin Selects) => w.picked \in {None, v.picked}
  BY DEF Reached
<1>2. now[s] = u /\ [now EXCEPT ![s] = uu] = after
  BY DEF IsTasks
<1> HIDE DEF now, after
<1>3. s \in Work(now) /\ IsView(w)
  BY <1>1, <1>2 DEF Work, IsTask, Sys
<1>4. Sys(p, lost, ww, after, s, i)
  <2>1. i \in 1..Len(u.todo) /\ step = u.todo[i]
    BY <1>1
  <2>2. Sys(p, lost, ww, [now EXCEPT ![s] = uu], s, i)
    BY <2>1, <1>1, <1>2, <1>3, SysStep
  <2> QED BY <2>2, <1>2
<1>5. /\ IsTask(uu) /\ uu.todo = u.todo /\ uu.slot = u.slot /\ uu.on = u.on /\ uu.shows = u.shows
  BY <1>1, MovedTask
<1>6. /\ ww.form = w.form
      /\ step.do = "forget" => ww.draft = ww.typed
      /\ step.do # "forget" => ww.draft = w.draft /\ ww.typed = w.typed
      /\ step.do \notin Selects => ww.picked \in {None, w.picked}
  BY <1>3, LocalView
<1>7. \A j \in 1..i : j # i => j \in 1..(i - 1)
  OBVIOUS
<1>8. v.draft = v.typed \/ (\E j \in 1..i : u.todo[j].do = "forget") => ww.draft = ww.typed
  BY <1>1, <1>6, <1>7
<1>9. (\A j \in 1..i : u.todo[j].do \notin Selects) => ww.picked \in {None, v.picked}
  <2> SUFFICES ASSUME \A j \in 1..i : u.todo[j].do \notin Selects
               PROVE  ww.picked \in {None, v.picked}
    OBVIOUS
  <2>1. i \in 1..i /\ \A j \in 1..(i - 1) : j \in 1..i
    OBVIOUS
  <2>2. step.do \notin Selects /\ \A j \in 1..(i - 1) : u.todo[j].do \notin Selects
    BY <2>1, <1>1
  <2> QED BY <2>2, <1>1, <1>6
<1> QED BY <1>1, <1>4, <1>5, <1>6, <1>8, <1>9 DEF Reached, after

LEMMA UntilReached ==
  ASSUME NEW p, NEW lost \in BOOLEAN, NEW v, NEW ts, NEW s \in Work(ts), Sys(p, lost, v, ts, s, 0),
         NEW t, t = ts[s], NEW k \in Nat \ {0}, k - 1 <= Len(t.todo),
         NEW st, st = Until(v, t, k)
  PROVE  Reached(p, lost, v, ts, s, st.view, st.task, k - 1)
<1>1. PICK f : /\ st = f[k - 1]
               /\ f[0].view = v /\ f[0].task = t
               /\ \A i \in 1..(k - 1) :
                    /\ f[i].view = Local(f[i - 1].view, f[i - 1].task, t.todo[i])
                    /\ f[i].task = Moved(f[i - 1].view, f[i - 1].task, t.todo[i])
  BY UntilSteps
<1> DEFINE OK(i) == Reached(p, lost, v, ts, s, f[i].view, f[i].task, i)
           T == {i \in 0..(k - 1) : ~OK(i)}
<1>2. IsTasks(ts) /\ s \in Slots /\ IsTask(t) /\ IsSequence(t.todo)
  BY DEF Sys, Work, TaskOK
<1>3. Len(t.todo) \in Nat
  BY <1>2 DEF IsSequence
<1>4. OK(0)
  <2>1. f[0].view = v /\ f[0].task = t
    BY <1>1
  <2>2. [ts EXCEPT ![s] = t] = ts
    BY <1>2 DEF IsTasks
  <2>3. 1..0 = {}
    OBVIOUS
  <2> QED BY <2>1, <2>2, <2>3, <1>2 DEF Reached
<1>5. ASSUME NEW i \in 1..(k - 1), OK(i - 1) PROVE OK(i)
  <2>1. /\ f[i].view = Local(f[i - 1].view, f[i - 1].task, t.todo[i])
        /\ f[i].task = Moved(f[i - 1].view, f[i - 1].task, t.todo[i])
    BY <1>1
  <2>2. i \in Nat \ {0} /\ i <= Len(ts[s].todo)
    BY <1>3
  <2> QED BY <2>1, <2>2, <1>2, <1>5, ReachedStep
<1> HIDE DEF OK
<1>6. SUFFICES ASSUME T # {} PROVE FALSE
  <2>1. k - 1 \in 0..(k - 1)
    OBVIOUS
  <2>2. OK(k - 1)
    BY <2>1
  <2> QED BY <2>2, <1>1 DEF OK
<1>7. PICK m \in T : \A y \in T : m <= y
  <2> T \subseteq Nat
    OBVIOUS
  <2> QED BY <1>6, LeastNumber
<1>8. m \in 1..(k - 1) /\ m - 1 \in 0..(k - 1)
  BY <1>4, <1>7
<1>9. m - 1 \notin T
  BY <1>7, <1>8
<1> QED BY <1>5, <1>7, <1>8, <1>9

LEMMA TaskChanges ==
  ASSUME NEW p, NEW lost \in BOOLEAN, NEW v, NEW ts, NEW s \in Slots, NEW i,
         Sys(p, lost, v, ts, s, i), NEW u, TaskOK(p, u, s, 0),
         u.name = IF s \in Work(ts) THEN ts[s].name ELSE NoName,
         s \in Work(ts) => /\ OwesRest(ts[s], i) => OwesRest(u, 0)
                           /\ OwesLoaded(ts[s], i) => lost \/ OwesLoaded(u, 0)
  PROVE  Sys(p, lost, v, [ts EXCEPT ![s] = u], s, 0)
<1> DEFINE after == [ts EXCEPT ![s] = u]
<1>1. /\ IsView(v) /\ IsTasks(ts) /\ OpsOK(v, ts) /\ IsTask(u)
      /\ \A z \in Work(ts) : z # s => TaskOK(p, ts[z], z, 0) /\ Parked(p, ts[z])
      /\ v.waiting => \E z \in Work(ts) : OwesRest(ts[z], At(z, s, i))
      /\ v.loading => lost \/ \E z \in Work(ts) : OwesLoaded(ts[z], At(z, s, i))
  BY DEF Sys, At, TaskOK
<1>2. /\ after[s] = u /\ Work(after) = Work(ts) \cup {s} /\ IsTasks(after)
      /\ \A z \in Work(ts) : z # s => after[z] = ts[z]
  BY <1>1, WorkChanges
<1>3. OpsOK(v, after)
  BY <1>1, OpsSame
<1> HIDE DEF after
<1>4. At(s, s, i) = i /\ At(s, s, 0) = 0 /\ \A z : z # s => At(z, s, i) = 0 /\ At(z, s, 0) = 0
  BY DEF At
<1>5. v.waiting => \E z \in Work(after) : OwesRest(after[z], At(z, s, 0))
  BY <1>1, <1>2, <1>4
<1>6. v.loading => lost \/ \E z \in Work(after) : OwesLoaded(after[z], At(z, s, 0))
  BY <1>1, <1>2, <1>4
<1>7. \A z \in Work(after) :
        TaskOK(p, after[z], z, At(z, s, 0)) /\ (z # s => Parked(p, after[z]))
  BY <1>1, <1>2, <1>4
<1> QED BY <1>1, <1>2, <1>3, <1>5, <1>6, <1>7 DEF Sys, after

LEMMA TaskEnds ==
  ASSUME NEW p, NEW lost \in BOOLEAN, NEW v, NEW ts, NEW s \in Work(ts), NEW i,
         Sys(p, lost, v, ts, s, i), NEW w, IsView(w),
         \A x : x \in w.ops <=> x \in v.ops /\ x # ts[s].name,
         w.waiting => v.waiting /\ ~OwesRest(ts[s], i),
         w.loading => v.loading /\ (lost \/ ~OwesLoaded(ts[s], i))
  PROVE  Sys(p, lost, w, [ts EXCEPT ![s] = Idle], None, 0)
<1> DEFINE after == [ts EXCEPT ![s] = Idle]
<1>0. s \in Slots /\ None \notin Slots
  BY BrowserAssumption DEF Work
<1>1. /\ IsTasks(ts) /\ OpsOK(v, ts)
      /\ \A z \in Work(ts) : z # s => TaskOK(p, ts[z], z, 0) /\ Parked(p, ts[z])
      /\ v.waiting => \E z \in Work(ts) : OwesRest(ts[z], At(z, s, i))
      /\ v.loading => lost \/ \E z \in Work(ts) : OwesLoaded(ts[z], At(z, s, i))
  BY DEF Sys, At
<1>2. /\ Work(after) = Work(ts) \ {s} /\ IsTasks(after)
      /\ \A z \in Work(ts) : z # s => after[z] = ts[z]
  BY <1>0, <1>1, WorkChanges DEF Work
<1>3. OpsOK(w, after)
  <2>1. w.ops = v.ops \ {ts[s].name}
    OBVIOUS
  <2> QED BY <1>1, <2>1, OpsFinish
<1> HIDE DEF after
<1>4. At(s, s, i) = i /\ \A z : (z # s => At(z, s, i) = 0) /\ At(z, None, 0) = 0
  BY DEF At
<1>5. w.waiting => \E z \in Work(after) : OwesRest(after[z], At(z, None, 0))
  BY <1>1, <1>2, <1>4
<1>6. w.loading => lost \/ \E z \in Work(after) : OwesLoaded(after[z], At(z, None, 0))
  BY <1>1, <1>2, <1>4
<1>7. \A z \in Work(after) : TaskOK(p, after[z], z, At(z, None, 0)) /\ Parked(p, after[z])
  BY <1>1, <1>2, <1>4
<1> QED BY <1>2, <1>3, <1>5, <1>6, <1>7 DEF Sys, after

\* The thread that ran waits.
LEMMA TaskParks ==
  ASSUME NEW p, NEW lost, NEW v, NEW ts, NEW s, Sys(p, lost, v, ts, s, 0),
         s \in Work(ts) => Parked(p, ts[s])
  PROVE  Sys(p, lost, v, ts, None, 0)
<1>1. \A z : At(z, s, 0) = 0 /\ At(z, None, 0) = 0
  BY DEF At
<1> QED BY <1>1 DEF Sys

\* A thread that waited runs.
LEMMA TaskWakes ==
  ASSUME NEW p, NEW lost, NEW v, NEW ts, NEW s, Sys(p, lost, v, ts, None, 0)
  PROVE  Sys(p, lost, v, ts, s, 0)
<1>1. \A z : At(z, s, 0) = 0 /\ At(z, None, 0) = 0
  BY DEF At
<1>2. None \notin Work(ts)
  BY BrowserAssumption DEF Work
<1> QED BY <1>1, <1>2 DEF Sys

RequestFields == {"slot", "what", "fills", "on", "shows", "stage", "ok", "copy", "rank"}

IsRequest(q) == q = [f \in RequestFields |-> q[f]]

\* A thread that waits for q.
Awaits(p, t, q) ==
  /\ OwesLoaded(t, 0) => q.what \notin Writes \cup {"details"}
  /\ Forgetful(Pages[p]) /\ q.fills # "nothing" => ForgetsNext(t.todo, 0)

\* A request, of which n have failed.
RequestOK(p, n, ts, q) ==
  /\ IsRequest(q)
  /\ q.slot # None => q.slot \in Work(ts) /\ Awaits(p, ts[q.slot], q)
  /\ Forgetful(Pages[p]) /\ q.fills # "nothing" => q.slot # None
  /\ p \notin Drifting /\ q.what = "update" => q.on = q.shows
  /\ Stable(p) => q.what # "details"
  /\ ~q.ok /\ q.what \notin Writes \cup {"details"} => n > 0

\* The thread t, with other steps to do.
Continues(u, t, todo, rescue) ==
  /\ IsTask(u) /\ u.todo = todo /\ u.rescue = rescue /\ u.error = t.error
  /\ u.slot = t.slot /\ u.on = t.on /\ u.shows = t.shows /\ u.name = t.name

LEMMA TaskAwaits ==
  ASSUME NEW p, NEW t, NEW s, NEW k \in Nat \ {0}, k <= Len(t.todo),
         TaskOK(p, t, s, k - 1), t.todo[k].do = "await",
         NEW u, Continues(u, t, StepsAfter(t.todo, k), t.rescue)
  PROVE  /\ TaskOK(p, u, s, 0) /\ Parked(p, u) /\ u.name = t.name
         /\ OwesRest(t, k - 1) => OwesRest(u, 0)
         /\ OwesLoaded(t, k - 1) => OwesLoaded(u, 0)
         /\ \A c \in t.todo[k].calls :
              /\ OwesLoaded(u, 0) => c.what \notin Writes \cup {"details"}
              /\ p \notin Drifting /\ c.what = "update" => t.on = t.shows
              /\ Stable(p) => c.what # "details"
              /\ Forgetful(Pages[p]) /\ c.fills # "nothing" =>
                   ForgetsNext(u.todo, 0) /\ \A d \in t.todo[k].calls : c = d
<1> DEFINE todo == t.todo
           left == StepsAfter(todo, k)
<1>1. /\ IsTask(t) /\ t.slot = s /\ IsSequence(todo) /\ IsSequence(t.rescue)
      /\ BeginsOnce(todo, k - 1) /\ (t.name # NoName => ~Does(todo, k - 1, "begin"))
      /\ RestsAfterWait(todo, k - 1, t.rescue, t.error)
      /\ LoadedAfterLoad(p, todo, k - 1, t.rescue)
      /\ OnlyEnds(t.rescue)
      /\ FormOK(p, t, k - 1)
  BY DEF TaskOK
<1>2. /\ IsTask(u) /\ u.todo = left /\ u.slot = t.slot /\ u.on = t.on /\ u.shows = t.shows
      /\ u.rescue = t.rescue /\ u.error = t.error /\ u.name = t.name
  BY DEF Continues
<1>3. /\ k \in 1..Len(todo) /\ k \in DOMAIN todo /\ k \in Nat /\ k - 1 \in Nat
      /\ k - 1 <= k /\ k > k - 1 /\ todo[k].do = "await"
  BY <1>1 DEF IsSequence
<1> HIDE DEF todo, left
<1>4. /\ \A w : Does(todo, k, w) => Does(todo, k - 1, w)
      /\ \A ws : Calls(todo, k, ws) => Calls(todo, k - 1, ws)
      /\ BeginsOnce(todo, k)
      /\ \A r, e : RestIsSure(todo, k - 1, r, e) => RestIsSure(todo, k, r, e)
      /\ RestsAfterWait(todo, k, t.rescue, t.error)
      /\ LoadedAfterLoad(p, todo, k, t.rescue)
      /\ SelectsAtOnce(todo, k - 1) => SelectsAtOnce(todo, k)
      /\ ForgetsWhenFilled(todo, k - 1) => ForgetsWhenFilled(todo, k)
  BY <1>1, <1>3, LaterSteps
<1>5. /\ IsSequence(left)
      /\ \A w : Does(left, 0, w) <=> Does(todo, k, w)
      /\ \A ws : Calls(left, 0, ws) <=> Calls(todo, k, ws)
      /\ BeginsOnce(left, 0)
      /\ \A r, e : RestIsSure(todo, k, r, e) <=> RestIsSure(left, 0, r, e)
      /\ RestsAfterWait(left, 0, t.rescue, t.error)
      /\ LoadedAfterLoad(p, left, 0, t.rescue)
      /\ SelectsAtOnce(todo, k) => SelectsAtOnce(left, 0)
      /\ ForgetsWhenFilled(todo, k) => ForgetsWhenFilled(left, 0)
      /\ ForgetsNext(todo, k) => ForgetsNext(left, 0)
  BY <1>1, <1>3, <1>4, StepsLeft DEF left
<1>6. \A w : w # "await" /\ Does(todo, k - 1, w) => Does(left, 0, w)
  <2> SUFFICES ASSUME NEW j \in DOMAIN todo, j > k - 1, todo[j].do # "await" PROVE j > k
    BY <1>5 DEF Does
  <2> QED BY <1>1, <1>3 DEF IsSequence
<1>7. FormOK(p, u, 0)
  BY <1>1, <1>2, <1>4, <1>5 DEF FormOK, todo
<1>8. TaskOK(p, u, s, 0)
  BY <1>1, <1>2, <1>4, <1>5, <1>7 DEF TaskOK
<1>9. Parked(p, u)
  <2>1. Does(left, 0, "loaded") => LoadedIsSure(p, t.rescue)
    <3> Does(todo, k - 1, "await")
      BY <1>3 DEF Does
    <3> QED BY <1>1, <1>4, <1>5 DEF LoadedAfterLoad
  <2>2. Stable(p) => Selectless(left, 0)
    BY <1>1, <1>3, <1>5 DEF FormOK, SelectsAtOnce, Selectless, todo
  <2> QED BY <2>1, <2>2, <1>2 DEF Parked
<1>10. OwesRest(t, k - 1) => OwesRest(u, 0)
  BY <1>2, <1>4, <1>5, <1>6 DEF OwesRest, todo
<1>11. OwesLoaded(t, k - 1) => OwesLoaded(u, 0)
  BY <1>2, <1>6 DEF OwesLoaded, todo
<1>12. ASSUME NEW c \in todo[k].calls
       PROVE  /\ OwesLoaded(u, 0) => c.what \notin Writes \cup {"details"}
              /\ p \notin Drifting /\ c.what = "update" => t.on = t.shows
              /\ Stable(p) => c.what # "details"
              /\ Forgetful(Pages[p]) /\ c.fills # "nothing" =>
                   ForgetsNext(u.todo, 0) /\ \A d \in todo[k].calls : c = d
  <2>1. \A ws : c.what \in ws => Calls(todo, k - 1, ws)
    BY <1>3 DEF Calls
  <2>2. OwesLoaded(u, 0) => c.what \notin Writes \cup {"details"}
    BY <2>1, <1>1, <1>2, <1>4, <1>5 DEF OwesLoaded, LoadedAfterLoad
  <2>3. p \notin Drifting /\ c.what = "update" => t.on = t.shows
    BY <2>1, <1>1 DEF FormOK, todo
  <2>4. Stable(p) => c.what # "details"
    BY <2>1, <1>1 DEF FormOK, todo
  <2>5. Forgetful(Pages[p]) /\ c.fills # "nothing" =>
           ForgetsNext(u.todo, 0) /\ \A d \in todo[k].calls : c = d
    <3> SUFFICES ASSUME ForgetsWhenFilled(todo, k - 1), c.fills # "nothing"
                 PROVE  ForgetsNext(todo, k) /\ \A d \in todo[k].calls : c = d
      BY <1>1, <1>2, <1>5 DEF FormOK, todo
    <3> QED BY <1>3 DEF ForgetsWhenFilled
  <2> QED BY <2>2, <2>3, <2>4, <2>5
<1> QED BY <1>2, <1>8, <1>9, <1>10, <1>11, <1>12 DEF todo

\* A thread that goes on with its catch.
LEMMA TaskIsRescued ==
  ASSUME NEW p, NEW t, NEW s, TaskOK(p, t, s, 0), Parked(p, t), t.rescue # << >>,
         NEW u, Continues(u, t, t.rescue, << >>)
  PROVE  /\ TaskOK(p, u, s, 0) /\ u.name = t.name
         /\ OwesRest(t, 0) => OwesRest(u, 0)
         /\ OwesLoaded(t, 0) => OwesLoaded(u, 0)
<1> DEFINE todo == t.rescue
<1>1. /\ IsTask(t) /\ t.slot = s /\ IsSequence(todo) /\ OnlyEnds(todo) /\ FormOK(p, t, 0)
  BY DEF TaskOK
<1>2. /\ IsTask(u) /\ u.todo = todo /\ u.slot = t.slot /\ u.on = t.on /\ u.shows = t.shows
      /\ u.rescue = << >> /\ u.error = t.error /\ u.name = t.name
  BY DEF Continues
<1> HIDE DEF todo
<1>3. \A j \in DOMAIN todo : todo[j].do \notin {"begin", "wait", "load"}
  BY <1>1 DEF OnlyEnds
<1>4. BeginsOnce(todo, 0) /\ ~Does(todo, 0, "begin")
  BY <1>3 DEF BeginsOnce, Does
<1>5. RestsAfterWait(todo, 0, << >>, u.error)
  BY <1>3 DEF RestsAfterWait
<1>6. LoadedAfterLoad(p, todo, 0, << >>)
  BY <1>1, <1>3 DEF LoadedAfterLoad, OnlyEnds
<1>7. Selectless(todo, 0) => SelectsAtOnce(todo, 0)
  <2> SUFFICES ASSUME NEW j \in DOMAIN todo PROVE \A w : Does(todo, j, w) => Does(todo, 0, w)
    BY DEF Selectless, SelectsAtOnce
  <2> j \in Nat /\ 0 <= j
    BY <1>1 DEF IsSequence
  <2> QED BY <1>1, LaterSteps
<1>8. FormOK(p, u, 0)
  BY <1>1, <1>2, <1>7, NoCatch DEF FormOK, Selectless, todo
<1>9. TaskOK(p, u, s, 0)
  BY <1>1, <1>2, <1>4, <1>5, <1>6, <1>8, NoCatch DEF TaskOK
<1>10. OwesRest(t, 0) => OwesRest(u, 0)
  BY <1>2 DEF OwesRest, RestIsSure, todo
<1>11. OwesLoaded(t, 0) => OwesLoaded(u, 0)
  BY <1>2 DEF OwesLoaded, Parked, LoadedIsSure, todo
<1> QED BY <1>2, <1>9, <1>10, <1>11

\* What a thread has done once it is parked or has ended: from the view v and
\* the threads ts, the thread s has run all of the steps of todo it could.
Ran(p, lost, n, v, ts, s, todo, r) ==
  /\ Sys(p, lost, r.view, [ts EXCEPT ![s] = r.task], None, 0)
  /\ r.task = Idle \/ IsTask(r.task)
  /\ r.view.form = v.form
  /\ v.draft = v.typed \/ ForgetsNext(todo, 0) => r.view.draft = r.view.typed
  /\ Selectless(todo, 0) => r.view.picked \in {None, v.picked}
  /\ \A q \in r.sent :
       /\ RequestOK(p, n, [ts EXCEPT ![s] = r.task], q) /\ q.slot = s
       /\ Forgetful(Pages[p]) /\ q.fills # "nothing" => \A x \in r.sent : x = q

LEMMA RunRan ==
  ASSUME NEW p, NEW lost \in BOOLEAN, NEW n \in Nat, NEW v, NEW ts, NEW s \in Work(ts),
         Sys(p, lost, v, ts, s, 0), NEW t, t = ts[s], NEW r, r = Run(v, t)
  PROVE  Ran(p, lost, n, v, ts, s, t.todo, r)
<1> DEFINE todo == t.todo
           k == NextAwait(todo)
           st == Until(v, t, k)
           w == st.view
           u == st.task
           before == [ts EXCEPT ![s] = u]
           after == [ts EXCEPT ![s] = r.task]
<1>1. /\ IsTasks(ts) /\ s \in Slots /\ s # None /\ IsSequence(todo)
  BY BrowserAssumption DEF Sys, Work, TaskOK
<1>2. /\ k \in 1..(Len(todo) + 1) /\ Len(todo) \in Nat
      /\ k <= Len(todo) => todo[k].do = "await"
      /\ \A j \in 1..(k - 1) : todo[j].do # "await"
  BY <1>1, NextAwaitIsFirst DEF IsSequence
<1>3. Reached(p, lost, v, ts, s, w, u, k - 1)
  <2>1. k \in Nat \ {0} /\ k - 1 <= Len(todo)
    BY <1>2
  <2> HIDE DEF k
  <2> QED BY <2>1, UntilReached
<1>4. r = IF k > Len(todo)
          THEN [view |-> Unnamed(w, u), task |-> Idle, sent |-> {}]
          ELSE [view |-> w, task |-> [u EXCEPT !.todo = SubSeq(todo, k + 1, Len(todo))],
                sent |-> {Request(u, c) : c \in todo[k].calls}]
  BY DEF Run, RunTo, Paused
<1> HIDE DEF k, st, w, u
<1>5. /\ Sys(p, lost, w, before, s, k - 1)
      /\ IsTask(u) /\ u.todo = todo
      /\ w.form = v.form
      /\ v.draft = v.typed \/ (\E j \in 1..(k - 1) : todo[j].do = "forget") => w.draft = w.typed
      /\ (\A j \in 1..(k - 1) : todo[j].do \notin Selects) => w.picked \in {None, v.picked}
  BY <1>3 DEF Reached
<1>6. before[s] = u /\ [before EXCEPT ![s] = r.task] = after /\ s \in Work(before)
  <2>1. before[s] = u /\ [before EXCEPT ![s] = r.task] = after
    BY <1>1 DEF IsTasks
  <2> HIDE DEF before
  <2> QED BY <2>1, <1>1, <1>5 DEF Work, IsTask
<1>7. Selectless(todo, 0) => w.picked \in {None, v.picked}
  <2> SUFFICES ASSUME Selectless(todo, 0), NEW j \in 1..(k - 1) PROVE todo[j].do \notin Selects
    BY <1>5
  <2> j \in DOMAIN todo /\ j > 0
    BY <1>1, <1>2 DEF IsSequence
  <2> QED BY DEF Selectless, Does
<1>8. v.draft = v.typed \/ ForgetsNext(todo, 0) => w.draft = w.typed
  <2> SUFFICES ASSUME NEW l \in DOMAIN todo, l > 0, todo[l].do = "forget",
                      \A j \in DOMAIN todo : 0 < j /\ j < l => todo[j].do # "await"
               PROVE  l \in 1..(k - 1)
    BY <1>5 DEF ForgetsNext
  <2>1. l \in 1..Len(todo) /\ DOMAIN todo = 1..Len(todo)
    BY <1>1 DEF IsSequence
  <2>2. k <= Len(todo) => ~(k < l) /\ k # l
    BY <2>1, <1>2
  <2> QED BY <2>1, <2>2, <1>2
<1>9. CASE k > Len(todo)
  <2>1. r.view = Unnamed(w, u) /\ r.task = Idle /\ r.sent = {}
    BY <1>4, <1>9
  <2>2. IsView(w)
    BY <1>5 DEF Sys
  <2>3. /\ IsView(r.view) /\ r.view.form = w.form
        /\ r.view.draft = w.draft /\ r.view.typed = w.typed /\ r.view.picked = w.picked
        /\ r.view.waiting = w.waiting /\ r.view.loading = w.loading
    BY <2>1, <2>2 DEF Unnamed, IsView, ViewFields
  <2>4. \A x : x \in r.view.ops <=> x \in w.ops /\ x # u.name
    BY <2>1, <2>2 DEF Unnamed, IsView, ViewFields
  <2>5. \A what : ~Does(todo, k - 1, what)
    <3> SUFFICES ASSUME NEW j \in DOMAIN todo PROVE ~(j > k - 1)
      BY DEF Does
    <3> QED BY <1>1, <1>2, <1>9 DEF IsSequence
  <2>6. ~OwesRest(u, k - 1) /\ ~OwesLoaded(u, k - 1)
    BY <2>5, <1>5 DEF OwesRest, OwesLoaded
  <2>7. Sys(p, lost, r.view, after, None, 0)
    <3> HIDE DEF before, after
    <3>1. Sys(p, lost, r.view, [before EXCEPT ![s] = Idle], None, 0)
      BY <2>3, <2>4, <2>6, <1>5, <1>6, TaskEnds
    <3> QED BY <3>1, <2>1, <1>6
  <2> HIDE DEF after
  <2>8. \A q \in r.sent : FALSE
    BY <2>1
  <2>9. Ran(p, lost, n, v, ts, s, todo, r)
    BY <2>1, <2>3, <2>7, <2>8, <1>5, <1>7, <1>8 DEF Ran, after
  <2> QED BY <2>9
<1>10. CASE k <= Len(todo)
  <2> DEFINE x == [u EXCEPT !.todo = StepsAfter(todo, k)]
  <2>1. r.view = w /\ r.task = x /\ r.sent = {Request(u, c) : c \in todo[k].calls}
    BY <1>2, <1>4, <1>10 DEF StepsAfter
  <2>2. TaskOK(p, u, s, k - 1)
    <3> HIDE DEF before
    <3> QED BY <1>5, <1>6 DEF Sys, At
  <2>3. /\ TaskOK(p, x, s, 0) /\ Parked(p, x) /\ x.name = u.name
        /\ OwesRest(u, k - 1) => OwesRest(x, 0)
        /\ OwesLoaded(u, k - 1) => OwesLoaded(x, 0)
        /\ \A c \in u.todo[k].calls :
              /\ OwesLoaded(x, 0) => c.what \notin Writes \cup {"details"}
              /\ p \notin Drifting /\ c.what = "update" => u.on = u.shows
              /\ Stable(p) => c.what # "details"
              /\ Forgetful(Pages[p]) /\ c.fills # "nothing" =>
                   ForgetsNext(x.todo, 0) /\ \A d \in u.todo[k].calls : c = d
    <3>1. /\ k \in Nat \ {0} /\ k <= Len(u.todo) /\ u.todo[k].do = "await"
          /\ Continues(x, u, StepsAfter(u.todo, k), u.rescue)
      BY <1>2, <1>5, <1>10 DEF Continues, IsTask, TaskFields
    <3> HIDE DEF x
    <3> QED BY ONLY <2>2, <3>1, TaskAwaits
  <2> HIDE DEF x
  <2>4. Sys(p, lost, w, after, s, 0)
    <3> HIDE DEF before, after
    <3>1. Sys(p, lost, w, [before EXCEPT ![s] = x], s, 0)
      BY <2>3, <1>1, <1>5, <1>6, TaskChanges
    <3> QED BY <3>1, <2>1, <1>6
  <2>5. after[s] = x /\ s \in Work(after)
    <3>1. after[s] = x
      BY <2>1, <1>1 DEF IsTasks
    <3> HIDE DEF after
    <3> QED BY <3>1, <2>3, <1>1 DEF Work, TaskOK, IsTask
  <2> HIDE DEF after
  <2>6. Sys(p, lost, w, after, None, 0)
    BY <2>3, <2>4, <2>5, TaskParks
  <2>7. u.slot = s
    BY <2>2 DEF TaskOK
  <2>8. ASSUME NEW q \in r.sent
        PROVE  /\ RequestOK(p, n, after, q) /\ q.slot = s
               /\ Forgetful(Pages[p]) /\ q.fills # "nothing" => \A y \in r.sent : y = q
    <3>1. PICK c \in u.todo[k].calls : q = Request(u, c)
      BY <2>1, <1>5
    <3>2. /\ IsRequest(q) /\ q.slot = s /\ q.what = c.what /\ q.fills = c.fills
          /\ q.on = u.on /\ q.shows = u.shows /\ q.ok
      BY <3>1, <2>7 DEF Request, IsRequest, RequestFields
    <3>3. Awaits(p, x, q)
      BY <3>2, <2>3 DEF Awaits
    <3>4. RequestOK(p, n, after, q)
      BY <3>2, <3>3, <2>3, <2>5, <1>1 DEF RequestOK
    <3>5. ASSUME Forgetful(Pages[p]), q.fills # "nothing", NEW y \in r.sent PROVE y = q
      <4>1. PICK d \in u.todo[k].calls : y = Request(u, d)
        BY <2>1, <1>5
      <4>2. c = d
        BY <3>2, <3>5, <2>3
      <4> QED BY <4>1, <4>2, <3>1
    <3> QED BY <3>2, <3>4, <3>5
  <2>9. IsTask(r.task)
    BY <2>1, <2>3 DEF TaskOK
  <2>10. Ran(p, lost, n, v, ts, s, todo, r)
    BY <2>1, <2>6, <2>8, <2>9, <1>5, <1>7, <1>8 DEF Ran, after
  <2> QED BY <2>10
<1> QED BY <1>2, <1>9, <1>10

LEMMA WaitingTask ==
  ASSUME NEW p, NEW lost, NEW v, NEW ts, NEW s \in Work(ts), Sys(p, lost, v, ts, None, 0)
  PROVE  /\ IsView(v) /\ IsTasks(ts) /\ s \in Slots /\ s # None
         /\ TaskOK(p, ts[s], s, 0) /\ Parked(p, ts[s])
         /\ Sys(p, lost, v, ts, s, 0)
<1>1. s \in Slots /\ s # None
  BY BrowserAssumption DEF Work
<1>2. At(s, None, 0) = 0
  BY DEF At
<1>3. TaskOK(p, ts[s], s, At(s, None, 0)) /\ Parked(p, ts[s])
  BY <1>1 DEF Sys
<1>4. Sys(p, lost, v, ts, s, 0)
  BY TaskWakes
<1>5. IsView(v) /\ IsTasks(ts)
  BY DEF Sys
<1> QED BY <1>1, <1>2, <1>3, <1>4, <1>5

\* A thread ends when it is rejected and has no catch.
LEMMA FailedRan ==
  ASSUME NEW p, NEW lost \in BOOLEAN, NEW n, NEW v, NEW ts, NEW s \in Work(ts),
         Sys(p, lost, v, ts, None, 0), NEW t, t = ts[s],
         OwesLoaded(t, 0) => lost, NEW r, r = Failed(v, t)
  PROVE  Ran(p, lost, n, v, ts, s, << >>, r)
<1>1. IsView(v) /\ Sys(p, lost, v, ts, s, 0) /\ TaskOK(p, t, s, 0)
  BY WaitingTask
<1>2. /\ r.view = [Unnamed(v, t) EXCEPT !.waiting = @ /\ t.error # "app"]
      /\ r.task = Idle /\ r.sent = {}
  BY DEF Failed
<1> DEFINE w == Unnamed(v, t)
<1>2a. /\ IsView(w) /\ w.form = v.form
       /\ w.draft = v.draft /\ w.typed = v.typed /\ w.picked = v.picked
       /\ w.waiting = v.waiting /\ w.loading = v.loading
  BY <1>1 DEF Unnamed, IsView, ViewFields
<1>2b. \A x : x \in w.ops <=> x \in v.ops /\ x # t.name
  BY <1>1 DEF Unnamed, IsView, ViewFields
<1> HIDE DEF w
<1>2c. r.view = [w EXCEPT !.waiting = @ /\ t.error # "app"]
  BY <1>2 DEF w
<1>3. /\ IsView(r.view) /\ r.view.form = v.form
      /\ r.view.draft = v.draft /\ r.view.typed = v.typed /\ r.view.picked = v.picked
      /\ r.view.waiting <=> (v.waiting /\ t.error # "app")
      /\ r.view.loading = v.loading /\ r.view.ops = w.ops
  BY <1>2a, <1>2c DEF IsView, ViewFields
<1>4. \A x : x \in r.view.ops <=> x \in v.ops /\ x # t.name
  BY <1>2b, <1>3
<1>5. r.view.waiting => v.waiting /\ ~OwesRest(t, 0)
  BY <1>3 DEF OwesRest, RestIsSure
<1>6. Sys(p, lost, r.view, [ts EXCEPT ![s] = Idle], None, 0)
  BY <1>1, <1>3, <1>4, <1>5, TaskEnds
<1>7. ~ForgetsNext(<< >>, 0)
  BY DEF ForgetsNext
<1>8. \A q \in r.sent : FALSE
  BY <1>2
<1> QED BY <1>2, <1>3, <1>6, <1>7, <1>8 DEF Ran

\* What a thread does, whatever was in its slot.
LEMMA RanInSlot ==
  ASSUME NEW p, NEW lost \in BOOLEAN, NEW n, NEW v, NEW ts, NEW s \in Slots, IsTasks(ts),
         NEW u, NEW todo, NEW r, Ran(p, lost, n, v, [ts EXCEPT ![s] = u], s, todo, r)
  PROVE  Ran(p, lost, n, v, ts, s, todo, r)
<1>1. [[ts EXCEPT ![s] = u] EXCEPT ![s] = r.task] = [ts EXCEPT ![s] = r.task]
  BY DEF IsTasks
<1> QED BY <1>1 DEF Ran

LEMMA RescuedRan ==
  ASSUME NEW p, NEW lost \in BOOLEAN, NEW n \in Nat, NEW v, NEW ts, NEW s \in Work(ts),
         Sys(p, lost, v, ts, None, 0), NEW t, t = ts[s], t.rescue # << >>,
         NEW u, Continues(u, t, t.rescue, << >>), NEW r, r = Run(v, u)
  PROVE  Ran(p, lost, n, v, ts, s, t.rescue, r)
<1> DEFINE now == [ts EXCEPT ![s] = u]
<1>1. /\ Sys(p, lost, v, ts, s, 0) /\ TaskOK(p, t, s, 0) /\ Parked(p, t)
      /\ IsTasks(ts) /\ s \in Slots
  BY WaitingTask
<1>2. /\ TaskOK(p, u, s, 0) /\ u.name = t.name
      /\ OwesRest(t, 0) => OwesRest(u, 0)
      /\ OwesLoaded(t, 0) => OwesLoaded(u, 0)
  BY <1>1, TaskIsRescued
<1>3. Sys(p, lost, v, now, s, 0)
  BY <1>1, <1>2, TaskChanges
<1>4. now[s] = u /\ s \in Work(now)
  <2>1. now[s] = u
    BY <1>1 DEF IsTasks
  <2> HIDE DEF now
  <2> QED BY <2>1, <1>1, <1>2 DEF Work, TaskOK, IsTask
<1>5. Ran(p, lost, n, v, now, s, u.todo, r)
  <2> HIDE DEF now
  <2> QED BY <1>3, <1>4, RunRan
<1>6. u.todo = t.rescue
  BY DEF Continues
<1> QED BY <1>1, <1>5, <1>6, RanInSlot

LEMMA NewTaskRan ==
  ASSUME NEW p, NEW lost \in BOOLEAN, NEW n \in Nat, NEW v, NEW ts, NEW s \in Slots,
         s \notin Work(ts), Sys(p, lost, v, ts, None, 0),
         NEW u, TaskOK(p, u, s, 0), u.name = NoName, NEW r, r = Run(v, u)
  PROVE  Ran(p, lost, n, v, ts, s, u.todo, r)
<1> DEFINE now == [ts EXCEPT ![s] = u]
<1>1. Sys(p, lost, v, ts, s, 0) /\ IsTasks(ts)
  BY TaskWakes DEF Sys
<1>3. Sys(p, lost, v, now, s, 0)
  BY <1>1, TaskChanges
<1>4. now[s] = u /\ s \in Work(now)
  <2>1. now[s] = u
    BY <1>1 DEF IsTasks
  <2> HIDE DEF now
  <2> QED BY <2>1, <1>1 DEF Work, TaskOK, IsTask
<1>5. Ran(p, lost, n, v, now, s, u.todo, r)
  <2> HIDE DEF now
  <2> QED BY <1>3, <1>4, RunRan
<1> QED BY <1>1, <1>5, RanInSlot
-----------------------------------------------------------------------------
(* The threads of a handler are disciplined.                               *)

LEMMA TaskIsDisciplined ==
  ASSUME NEW p \in DOMAIN Pages, NEW h \in HandlersOf(Pages[p]), NEW j \in DOMAIN h,
         NEW th, th = h[j], NEW s, NEW item, NEW on, NEW shows,
         p \notin Drifting => on = shows \/ Callless(th, {"update"}),
         NEW t, t = Task(s, th, item, on, shows)
  PROVE  /\ TaskOK(p, t, s, 0) /\ t.todo = th.steps /\ t.name = NoName
         /\ Stable(p) /\ h \in HandlersButPick(Pages[p]) => Selectless(t.todo, 0)
<1>1. /\ IsTask(t) /\ t.slot = s /\ t.todo = th.steps /\ t.rescue = th.rescue
      /\ t.error = th.error /\ t.on = on /\ t.shows = shows /\ t.name = NoName
  BY DEF Task, IsTask, TaskFields
<1>2. th \in ThreadsIn(HandlersOf(Pages[p]))
  BY DEF ThreadsIn
<1>3. Disciplined(p, th)
  BY <1>2, PagesAssumption
<1>4. h \in HandlersButPick(Pages[p]) => th \in ThreadsIn(HandlersButPick(Pages[p]))
  BY DEF ThreadsIn
<1>5. h \notin HandlersButPick(Pages[p]) => th \in ThreadsIn({Pages[p].pick})
  BY DEF ThreadsIn, HandlersOf
<1>6. Stable(p) => SavesWhatItShows(Pages[p])
  BY PagesAssumption DEF Stable
<1>7. Stable(p) => /\ Selectless(th.rescue, 0) /\ Callless(th, {"details"})
                   /\ h \in HandlersButPick(Pages[p]) => Selectless(th.steps, 0)
                   /\ h \notin HandlersButPick(Pages[p]) => SelectsAtOnce(th.steps, 0)
  BY <1>2, <1>4, <1>5, <1>6 DEF SavesWhatItShows, Stable
<1>8. Selectless(th.steps, 0) => SelectsAtOnce(th.steps, 0)
  <2> SUFFICES ASSUME NEW l \in DOMAIN th.steps
               PROVE  \A w : Does(th.steps, l, w) => Does(th.steps, 0, w)
    BY DEF Selectless, SelectsAtOnce
  <2> l \in Nat /\ 0 <= l /\ IsSequence(th.steps)
    BY <1>3 DEF Disciplined, IsSequence
  <2> QED BY LaterSteps
<1>9. Forgetful(Pages[p]) => ForgetsWhenFilled(th.steps, 0) /\ ForgetsWhenFilled(th.rescue, 0)
  BY <1>2 DEF Forgetful
<1>10. FormOK(p, t, 0)
  BY <1>1, <1>7, <1>8, <1>9 DEF FormOK, Callless
<1>11. TaskOK(p, t, s, 0)
  BY <1>1, <1>3, <1>10 DEF TaskOK, Disciplined
<1> QED BY <1>1, <1>7, <1>11

LEMMA RequestKept ==
  ASSUME NEW p, NEW n, NEW ts, NEW q, RequestOK(p, n, ts, q), NEW after,
         q.slot # None => q.slot \in Work(after) /\ after[q.slot] = ts[q.slot]
  PROVE  RequestOK(p, n, after, q)
BY DEF RequestOK

Put(ts, s, u) == [ts EXCEPT ![s] = u]

\* No two requests of a thread, when one of them fills inputs.
Alone(p, requests) ==
  Forgetful(Pages[p]) =>
    \A q, x \in requests : q.fills # "nothing" /\ x.slot = q.slot => x = q

\* From the view v and the threads ts, i threads of a handler were launched;
\* none of them selects anything, when still.
Launched(p, lost, n, v, ts, still, acc, i) ==
  /\ Sys(p, lost, acc.view, acc.tasks, None, 0)
  /\ \A z \in Work(ts) : z \in Work(acc.tasks) /\ acc.tasks[z] = ts[z]
  /\ Cardinality(Free(acc.tasks)) + i >= Cardinality(Free(ts))
  /\ acc.view.form = v.form
  /\ v.draft = v.typed => acc.view.draft = acc.view.typed
  /\ still => acc.view.picked \in {None, v.picked}
  /\ \A q \in acc.sent : RequestOK(p, n, acc.tasks, q) /\ q.slot \in Slots \ Work(ts)
  /\ Alone(p, acc.sent)

LEMMA LaunchedNext ==
  ASSUME NEW p, NEW lost \in BOOLEAN, NEW n, NEW v, NEW ts, NEW still \in BOOLEAN,
         NEW i \in Nat, NEW acc, Launched(p, lost, n, v, ts, still, acc, i - 1),
         NEW slot \in Free(acc.tasks), NEW todo, NEW r,
         Ran(p, lost, n, acc.view, acc.tasks, slot, todo, r), still => Selectless(todo, 0),
         NEW next, next.view = r.view, next.tasks = Put(acc.tasks, slot, r.task),
         \A q : q \in next.sent <=> q \in acc.sent \/ q \in r.sent
  PROVE  Launched(p, lost, n, v, ts, still, next, i)
<1> DEFINE after == [acc.tasks EXCEPT ![slot] = r.task]
<1>1. /\ Sys(p, lost, r.view, after, None, 0)
      /\ r.task = Idle \/ IsTask(r.task)
      /\ r.view.form = acc.view.form
      /\ acc.view.draft = acc.view.typed => r.view.draft = r.view.typed
      /\ Selectless(todo, 0) => r.view.picked \in {None, acc.view.picked}
      /\ \A q \in r.sent :
           /\ RequestOK(p, n, after, q) /\ q.slot = slot
           /\ Forgetful(Pages[p]) /\ q.fills # "nothing" => \A x \in r.sent : x = q
  BY DEF Ran
<1>2. /\ Sys(p, lost, acc.view, acc.tasks, None, 0)
      /\ \A z \in Work(ts) : z \in Work(acc.tasks) /\ acc.tasks[z] = ts[z]
      /\ Cardinality(Free(acc.tasks)) + (i - 1) >= Cardinality(Free(ts))
      /\ acc.view.form = v.form
      /\ v.draft = v.typed => acc.view.draft = acc.view.typed
      /\ still => acc.view.picked \in {None, v.picked}
      /\ \A q \in acc.sent : RequestOK(p, n, acc.tasks, q) /\ q.slot \in Slots \ Work(ts)
      /\ Alone(p, acc.sent)
  BY DEF Launched
<1>3. slot \in Slots /\ slot \notin Work(acc.tasks) /\ slot # None /\ IsTasks(acc.tasks)
  BY <1>2, BrowserAssumption DEF Free, Work, Sys
<1>4. after[slot] = r.task /\ \A z \in Slots : z # slot => after[z] = acc.tasks[z]
  BY <1>3 DEF IsTasks
<1>5. next.tasks = after
  BY DEF Put
<1> HIDE DEF after
<1>6. \A z \in Work(acc.tasks) : z \in Work(after) /\ after[z] = acc.tasks[z]
  BY <1>3, <1>4 DEF Work
<1>7. \A z \in Work(ts) : z \in Work(after) /\ after[z] = ts[z]
  BY <1>2, <1>6
<1>8. Cardinality(Free(after)) + i >= Cardinality(Free(ts))
  <2>1. Free(acc.tasks) \ {slot} \subseteq Free(after)
    BY <1>4 DEF Free
  <2>2. Free(acc.tasks) \subseteq Slots /\ Free(after) \subseteq Slots /\ Free(ts) \subseteq Slots
    BY DEF Free
  <2>3. IsFiniteSet(Free(acc.tasks)) /\ IsFiniteSet(Free(after)) /\ IsFiniteSet(Free(ts))
    BY <2>2, FS_Subset, BrowserAssumption
  <2>4. Cardinality(Free(acc.tasks) \ {slot}) = Cardinality(Free(acc.tasks)) - 1
    BY <2>3, FS_RemoveElement
  <2>5. Cardinality(Free(acc.tasks) \ {slot}) <= Cardinality(Free(after))
    BY <2>1, <2>3, FS_Subset
  <2>6. /\ Cardinality(Free(acc.tasks)) \in Nat /\ Cardinality(Free(after)) \in Nat
        /\ Cardinality(Free(ts)) \in Nat
    BY <2>3, FS_CardinalityType
  <2> QED BY <1>2, <2>4, <2>5, <2>6
<1>9. \A q \in next.sent : RequestOK(p, n, after, q) /\ q.slot \in Slots \ Work(ts)
  <2> SUFFICES ASSUME NEW q \in next.sent
               PROVE  RequestOK(p, n, after, q) /\ q.slot \in Slots \ Work(ts)
    OBVIOUS
  <2>1. CASE q \in acc.sent
    <3>1. q.slot \in Work(acc.tasks) /\ RequestOK(p, n, acc.tasks, q) /\ q.slot # None
      BY <2>1, <1>2, BrowserAssumption DEF RequestOK
    <3> QED BY <2>1, <3>1, <1>2, <1>6, RequestKept
  <2>2. CASE q \in r.sent
    BY <2>2, <1>1, <1>2, <1>3
  <2> QED BY <2>1, <2>2
<1>10. Alone(p, next.sent)
  <2>1. \A q \in acc.sent : q.slot # slot
    BY <1>2, <1>3 DEF RequestOK
  <2> QED BY <2>1, <1>1, <1>2 DEF Alone
<1> QED BY <1>1, <1>2, <1>5, <1>7, <1>8, <1>9, <1>10 DEF Launched

\* The launch of a thread of a handler, from before to after.
LaunchedIn(before, slot, th, item, on, shows, after) ==
  LET r == Run(before.view, Task(slot, th, item, on, shows)) IN
  /\ slot \in Slots /\ slot \notin Work(before.tasks)
  /\ after.view = r.view /\ after.tasks = Put(before.tasks, slot, r.task)
  /\ \A q : q \in after.sent <=> q \in before.sent \/ q \in r.sent

\* The threads of the handler h, one by one.
OneByOne(p, lost, n, v, ts, still, h, item, on, shows, f) ==
  /\ f[0] = [view |-> v, tasks |-> ts, sent |-> {}]
  /\ \A i \in 0..Len(h) : Launched(p, lost, n, v, ts, still, f[i], i)
  /\ \A i \in 1..Len(h) : \E slot : LaunchedIn(f[i - 1], slot, h[i], item, on, shows, f[i])

LaunchedBy(p, lost, n, v, ts, still, h, item, on, shows, acc) ==
  \E f : acc = f[Len(h)] /\ OneByOne(p, lost, n, v, ts, still, h, item, on, shows, f)

LEMMA LaunchedOneByOne ==
  ASSUME NEW p \in DOMAIN Pages, NEW lost \in BOOLEAN, NEW n \in Nat, NEW v, NEW ts,
         Sys(p, lost, v, ts, None, 0), NEW h \in HandlersOf(Pages[p]),
         Cardinality(Free(ts)) >= Len(h), NEW item, NEW on, NEW shows,
         p \notin Drifting => on = shows \/ \A th \in ThreadsIn({h}) : Callless(th, {"update"}),
         NEW still, still = (Stable(p) /\ h \in HandlersButPick(Pages[p])),
         NEW acc, acc = Started(v, ts, h, item, on, shows)
  PROVE  LaunchedBy(p, lost, n, v, ts, still, h, item, on, shows, acc)
<1>1. IsSequence(h) /\ Len(h) \in Nat /\ DOMAIN h = 1..Len(h)
  BY PagesAssumption DEF IsSequence
<1>2. PICK f : /\ acc = f[Len(h)]
               /\ f[0] = [view |-> v, tasks |-> ts, sent |-> {}]
               /\ \A i \in 1..Len(h) :
                    f[i] = Launch(f[i - 1], FirstFree(f[i - 1].tasks), h[i], item, on, shows)
  BY <1>1, StartedLaunches
<1> DEFINE OK(i) == Launched(p, lost, n, v, ts, still, f[i], i)
           T == {i \in 0..Len(h) : ~OK(i)}
<1>3. OK(0)
  <2>1. f[0].view = v /\ f[0].tasks = ts /\ \A q \in f[0].sent : FALSE
    BY <1>2
  <2>2. Cardinality(Free(ts)) \in Nat
    <3>1. Free(ts) \subseteq Slots
      BY DEF Free
    <3> QED BY <3>1, FS_Subset, FS_CardinalityType, BrowserAssumption
  <2> QED BY <2>1, <2>2 DEF Launched, Alone
<1>4. ASSUME NEW i \in 1..Len(h), OK(i - 1)
      PROVE  OK(i) /\ \E slot : LaunchedIn(f[i - 1], slot, h[i], item, on, shows, f[i])
  <2> DEFINE before == f[i - 1]
             slot == FirstFree(before.tasks)
             u == Task(slot, h[i], item, on, shows)
             r == Run(before.view, u)
  <2>1. slot \in Free(before.tasks)
    <3>1. Free(before.tasks) # {}
      <4>1. Cardinality(Free(before.tasks)) + (i - 1) >= Cardinality(Free(ts))
        BY <1>4 DEF Launched
      <4> HIDE DEF before
      <4>2. Free(before.tasks) = {} => Cardinality(Free(before.tasks)) = 0
        BY FS_EmptySet
      <4>3. Free(ts) \subseteq Slots /\ Free(before.tasks) \subseteq Slots
        BY DEF Free
      <4>4. Cardinality(Free(ts)) \in Nat
        BY <4>3, FS_Subset, FS_CardinalityType, BrowserAssumption
      <4>5. ~(0 + (i - 1) >= Cardinality(Free(ts)))
        BY <4>4, <1>1
      <4> QED BY <4>1, <4>2, <4>5
    <3> QED BY <3>1, FirstFreeIsFree
  <2>2. /\ f[i].view = r.view
        /\ f[i].tasks = Put(before.tasks, slot, r.task)
        /\ \A q : q \in f[i].sent <=> q \in before.sent \/ q \in r.sent
    <3>1. f[i] = Launch(before, slot, h[i], item, on, shows)
      BY <1>2
    <3>2. f[i] = With(before, slot, r)
      BY <3>1 DEF Launch
    <3> HIDE DEF r, before, slot
    <3> QED BY <3>2 DEF With, Put
  <2>3. /\ TaskOK(p, u, slot, 0) /\ u.todo = h[i].steps /\ u.name = NoName
        /\ still => Selectless(u.todo, 0)
    <3>1. p \notin Drifting => on = shows \/ Callless(h[i], {"update"})
      BY <1>1 DEF ThreadsIn
    <3>2. i \in DOMAIN h
      BY <1>1
    <3> HIDE DEF slot, u
    <3>3. u = Task(slot, h[i], item, on, shows)
      BY DEF u
    <3>4. /\ TaskOK(p, u, slot, 0) /\ u.todo = h[i].steps /\ u.name = NoName
          /\ Stable(p) /\ h \in HandlersButPick(Pages[p]) => Selectless(u.todo, 0)
      BY <3>1, <3>2, <3>3, TaskIsDisciplined
    <3> QED BY <3>4
  <2>4. slot \in Slots /\ slot \notin Work(before.tasks)
    BY <2>1 DEF Free, Work
  <2>8. LaunchedIn(before, slot, h[i], item, on, shows, f[i])
    <3> HIDE DEF slot, before
    <3> QED BY <2>2, <2>4 DEF LaunchedIn
  <2> HIDE DEF u, r, slot
  <2>5. Sys(p, lost, before.view, before.tasks, None, 0)
    BY <1>4 DEF Launched
  <2>6. Ran(p, lost, n, before.view, before.tasks, slot, u.todo, r)
    BY <2>3, <2>4, <2>5, NewTaskRan DEF r
  <2>7. still \in BOOLEAN /\ i \in Nat
    OBVIOUS
  <2>9. OK(i)
    BY <2>1, <2>2, <2>3, <2>6, <2>7, <1>4, LaunchedNext
  <2> QED BY <2>8, <2>9
<1> HIDE DEF OK
<1>5. SUFFICES ASSUME T # {} PROVE FALSE
  <2>1. \A i \in 0..Len(h) : OK(i)
    OBVIOUS
  <2>2. \A i \in 1..Len(h) : i - 1 \in 0..Len(h)
    BY <1>1
  <2>3. \A i \in 1..Len(h) : \E slot : LaunchedIn(f[i - 1], slot, h[i], item, on, shows, f[i])
    BY <2>1, <2>2, <1>4
  <2>4. OneByOne(p, lost, n, v, ts, still, h, item, on, shows, f)
    BY <2>1, <2>3, <1>2 DEF OK, OneByOne
  <2> QED BY <2>4, <1>2 DEF LaunchedBy
<1>6. PICK m \in T : \A y \in T : m <= y
  <2> T \subseteq Nat
    OBVIOUS
  <2> QED BY <1>5, LeastNumber
<1>7. m \in 1..Len(h) /\ m - 1 \in 0..Len(h)
  BY <1>1, <1>3, <1>6
<1>8. m - 1 \notin T
  BY <1>6, <1>7
<1> QED BY <1>4, <1>6, <1>7, <1>8

LEMMA StartedLaunched ==
  ASSUME NEW p \in DOMAIN Pages, NEW lost \in BOOLEAN, NEW n \in Nat, NEW v, NEW ts,
         Sys(p, lost, v, ts, None, 0), NEW h \in HandlersOf(Pages[p]),
         Cardinality(Free(ts)) >= Len(h), NEW item, NEW on, NEW shows,
         p \notin Drifting => on = shows \/ \A th \in ThreadsIn({h}) : Callless(th, {"update"}),
         NEW still, still = (Stable(p) /\ h \in HandlersButPick(Pages[p])),
         NEW acc, acc = Started(v, ts, h, item, on, shows)
  PROVE  Launched(p, lost, n, v, ts, still, acc, Len(h))
<1>1. Len(h) \in 0..Len(h)
  BY PagesAssumption DEF IsSequence
<1>2. LaunchedBy(p, lost, n, v, ts, still, h, item, on, shows, acc)
  BY LaunchedOneByOne
<1> QED BY <1>1, <1>2 DEF LaunchedBy, OneByOne
-----------------------------------------------------------------------------
(* The inductive invariant.                                                *)

IsForm(f) == f = [on |-> f.on, val |-> f.val]

SavesPicked(p) == p \notin Drifting /\ "savesPicked" \in Pages[p].traits

\* The form that is saved under the selected resource shows this resource.
FormFits(p, v) == IsForm(v.form) /\ (SavesPicked(p) => v.form.on \in {None, v.picked})

\* It will once the page is rendered.
FormLags(p, v) ==
  IsForm(v.form) /\ (Stable(p) => v.form.on = None \/ v.picked \in {None, v.form.on})

Typing(p) ==
  /\ p \notin Drifting /\ "settings" \in Pages[p].traits
  /\ "alias" \in Pages[p].traits \/ Forgetful(Pages[p])

\* What was typed is what the inputs show.
DraftFits(p, v) == Typing(p) => v.draft = v.typed

RequestsOK(p, n, ts, rs) == (\A q \in rs : RequestOK(p, n, ts, q)) /\ Alone(p, rs)

\* A flag of the page stays raised after a failure.
Lost(p, n) == n > 0 /\ p \in Stuck

PageOK(p, n, v, ts, rs) ==
  /\ p \in DOMAIN Pages /\ n \in Nat
  /\ Sys(p, Lost(p, n), v, ts, None, 0)
  /\ FormFits(p, v) /\ DraftFits(p, v)
  /\ RequestsOK(p, n, ts, rs)

Inv == PageOK(page, failures, view, tasks, reqs)

LEMMA ViewChanges ==
  ASSUME NEW p, NEW lost, NEW v, NEW ts, NEW s, NEW i, Sys(p, lost, v, ts, s, i),
         NEW w, IsView(w), w.ops = v.ops,
         w.waiting => v.waiting, w.loading => v.loading
  PROVE  Sys(p, lost, w, ts, s, i)
<1>1. OpsOK(v, ts) => OpsOK(w, ts)
  BY DEF OpsOK
<1> QED BY <1>1 DEF Sys

LEMMA FailuresGrow ==
  ASSUME NEW p, NEW v, NEW ts, NEW s, NEW i, NEW n \in Nat, NEW m \in Nat, n <= m,
         Sys(p, Lost(p, n), v, ts, s, i)
  PROVE  Sys(p, Lost(p, m), v, ts, s, i)
<1>1. Lost(p, n) => Lost(p, m)
  BY DEF Lost
<1> QED BY <1>1 DEF Sys

LEMMA FitsThenLags ==
  ASSUME NEW p, NEW v, FormFits(p, v), NEW w, w.form = v.form,
         Stable(p) => w.picked \in {None, v.picked}
  PROVE  FormLags(p, w)
BY DEF FormFits, FormLags, SavesPicked, Stable

\* A form follows the selection when the page is rendered.
LEMMA RenderedFits ==
  ASSUME NEW v, IsView(v), FormLags(page, v), NEW w, w = Rendered(v)
  PROVE  /\ IsView(w) /\ FormFits(page, w) /\ w.picked = v.picked
         /\ w.ops = v.ops /\ w.waiting = v.waiting /\ w.loading = v.loading
         /\ w.draft = v.draft /\ w.typed = v.typed
<1> DEFINE f == Mounted(v)
<1>1. w = [v EXCEPT !.form = f]
  BY DEF Rendered
<1>2. \/ f = NoForm
      \/ f = v.form /\ v.form.on # None /\ v.picked # None
         /\ (v.form.on = v.picked \/ ~Has("keyed"))
      \/ f = [on |-> v.picked, val |-> v.rows[v.picked]]
  BY DEF Mounted
<1>3. IsForm(f) /\ (SavesPicked(page) => f.on \in {None, v.picked})
  <2>1. CASE f = NoForm
    BY <2>1 DEF NoForm, IsForm
  <2>2. CASE f = v.form /\ v.form.on # None /\ v.picked # None
             /\ (v.form.on = v.picked \/ ~Has("keyed"))
    BY <2>2 DEF FormLags, SavesPicked, Stable, Has
  <2>3. CASE f = [on |-> v.picked, val |-> v.rows[v.picked]]
    BY <2>3 DEF IsForm
  <2> QED BY <1>2, <2>1, <2>2, <2>3
<1> HIDE DEF f
<1>4. /\ IsView(w) /\ w.form = f /\ w.picked = v.picked
      /\ w.ops = v.ops /\ w.waiting = v.waiting /\ w.loading = v.loading
      /\ w.draft = v.draft /\ w.typed = v.typed
  BY <1>1 DEF IsView, ViewFields
<1> QED BY <1>3, <1>4 DEF FormFits

\* The page after a click that starts nothing.
LEMMA TurnKeeps ==
  ASSUME Inv, NEW v, IsView(v), v.ops = view.ops,
         v.waiting = view.waiting, v.loading = view.loading,
         FormLags(page, v), DraftFits(page, v), Turn(v)
  PROVE  Inv'
<1>1. /\ page \in DOMAIN Pages /\ failures \in Nat
      /\ Sys(page, Lost(page, failures), view, tasks, None, 0)
      /\ RequestsOK(page, failures, tasks, reqs)
  BY DEF Inv, PageOK
<1>2. /\ page' = page /\ failures' = failures /\ tasks' = tasks /\ reqs' = reqs
      /\ view' = Rendered(v)
  BY DEF Turn, Tick
<1>3. /\ IsView(view') /\ FormFits(page, view')
      /\ view'.ops = v.ops /\ view'.waiting = v.waiting /\ view'.loading = v.loading
      /\ view'.draft = v.draft /\ view'.typed = v.typed
  BY <1>2, RenderedFits
<1>4. Sys(page, Lost(page, failures), view', tasks, None, 0)
  BY <1>1, <1>3, ViewChanges
<1>5. DraftFits(page, view')
  BY <1>3 DEF DraftFits
<1>6. PageOK(page, failures, view', tasks, reqs)
  BY <1>1, <1>3, <1>4, <1>5 DEF PageOK
<1> QED BY <1>2, <1>6 DEF Inv

\* The page after the threads of a handler are launched.
LEMMA ClickKeeps ==
  ASSUME Inv, NEW h \in HandlersOf(Pages[page]), NEW item, NEW on, NEW shows,
         page \notin Drifting => on = shows \/ \A th \in ThreadsIn({h}) : Callless(th, {"update"}),
         Stable(page) /\ h \notin HandlersButPick(Pages[page]) => view.form.on = None,
         Click(h, item, on, shows)
  PROVE  Inv'
<1>1. /\ page \in DOMAIN Pages /\ failures \in Nat
      /\ Sys(page, Lost(page, failures), view, tasks, None, 0)
      /\ FormFits(page, view) /\ DraftFits(page, view)
      /\ RequestsOK(page, failures, tasks, reqs)
  BY DEF Inv, PageOK
<1> DEFINE lost == Lost(page, failures)
           still == Stable(page) /\ h \in HandlersButPick(Pages[page])
<1>2. PICK s : /\ s = Started(view, tasks, h, item, on, shows)
               /\ view' = Rendered(s.view) /\ tasks' = s.tasks /\ reqs' = reqs \cup s.sent
  BY DEF Click
<1>3. page' = page /\ failures' = failures /\ Cardinality(Free(tasks)) >= Len(h)
  BY DEF Click, Tick
<1>4. Launched(page, lost, failures, view, tasks, still, s, Len(h))
  <2>1. lost \in BOOLEAN /\ still \in BOOLEAN
    BY DEF Lost
  <2> HIDE DEF lost
  <2> QED BY <2>1, <1>1, <1>2, <1>3, StartedLaunched DEF lost
<1>5. /\ Sys(page, lost, s.view, s.tasks, None, 0)
      /\ \A z \in Work(tasks) : z \in Work(s.tasks) /\ s.tasks[z] = tasks[z]
      /\ s.view.form = view.form
      /\ view.draft = view.typed => s.view.draft = s.view.typed
      /\ still => s.view.picked \in {None, view.picked}
      /\ \A q \in s.sent : RequestOK(page, failures, s.tasks, q) /\ q.slot \in Slots \ Work(tasks)
      /\ Alone(page, s.sent)
  BY <1>4 DEF Launched
<1>6. FormLags(page, s.view)
  <2>1. CASE Stable(page) => h \in HandlersButPick(Pages[page])
    BY <2>1, <1>1, <1>5, FitsThenLags
  <2>2. CASE Stable(page) /\ h \notin HandlersButPick(Pages[page])
    BY <2>2, <1>1, <1>5 DEF FormLags, FormFits
  <2> QED BY <2>1, <2>2
<1>7. /\ IsView(view') /\ FormFits(page, view')
      /\ view'.ops = s.view.ops /\ view'.waiting = s.view.waiting
      /\ view'.loading = s.view.loading
      /\ view'.draft = s.view.draft /\ view'.typed = s.view.typed
  <2>1. IsView(s.view)
    BY <1>5 DEF Sys
  <2> QED BY <2>1, <1>2, <1>6, RenderedFits
<1>8. Sys(page, lost, view', s.tasks, None, 0)
  BY <1>5, <1>7, ViewChanges
<1>9. DraftFits(page, view')
  BY <1>1, <1>5, <1>7 DEF DraftFits
<1>10. \A q \in reqs \cup s.sent : RequestOK(page, failures, s.tasks, q)
  <2>1. ASSUME NEW q \in reqs PROVE RequestOK(page, failures, s.tasks, q)
    <3>1. RequestOK(page, failures, tasks, q)
      BY <1>1 DEF RequestsOK
    <3>2. q.slot # None => q.slot \in Work(s.tasks) /\ s.tasks[q.slot] = tasks[q.slot]
      BY <3>1, <1>5 DEF RequestOK
    <3> QED BY <3>1, <3>2, RequestKept
  <2> QED BY <2>1, <1>5
<1>11. Alone(page, reqs \cup s.sent)
  <2>1. \A q \in reqs : q.slot = None \/ q.slot \in Work(tasks)
    BY <1>1 DEF RequestsOK, RequestOK
  <2>2. \A q \in s.sent : q.slot # None /\ q.slot \notin Work(tasks)
    BY <1>5, BrowserAssumption
  <2> QED BY <2>1, <2>2, <1>1, <1>5 DEF Alone, RequestsOK
<1>12. PageOK(page, failures, view', s.tasks, reqs \cup s.sent)
  BY <1>1, <1>7, <1>8, <1>9, <1>10, <1>11 DEF PageOK, RequestsOK
<1> QED BY <1>2, <1>3, <1>12 DEF Inv

LEMMA InvFacts ==
  Inv => /\ page \in DOMAIN Pages /\ failures \in Nat /\ IsView(view)
         /\ Sys(page, Lost(page, failures), view, tasks, None, 0)
         /\ FormFits(page, view) /\ DraftFits(page, view)
         /\ RequestsOK(page, failures, tasks, reqs)
BY DEF Inv, PageOK, Sys

LEMMA HandlersOfPage ==
  ASSUME NEW p
  PROVE  /\ p.pick \in HandlersOf(p)
         /\ \A h \in {p.add, p.update, p.remove, p.cancel, p.mount} \cup p.again :
              h \in HandlersOf(p) /\ h \in HandlersButPick(p)
         /\ \A b \in p.buttons :
              b.handler \in HandlersOf(p) /\ b.handler \in HandlersButPick(p)
BY DEF HandlersOf, HandlersButPick

LEMMA PickRowKeeps == Inv /\ PickRow => Inv'
<1> SUFFICES ASSUME Inv, PickRow PROVE Inv'
  OBVIOUS
<1>1. PICK i \in Ids : /\ Has("oneForm") => ~FormOpen
                       /\ Click(Pages[page].pick, i, {i}, {i})
  BY DEF PickRow
<1>2. Stable(page) => view.form.on = None
  <2> SUFFICES ASSUME Stable(page) PROVE view.form.on = None
    OBVIOUS
  <2>1. SavesWhatItShows(Pages[page])
    BY InvFacts, PagesAssumption DEF Stable
  <2>2. Has("oneForm")
    BY <2>1 DEF SavesWhatItShows, Stable, Has
  <2>3. view.picked = None
    BY <2>2, <1>1 DEF FormOpen
  <2> QED BY <2>3, InvFacts DEF FormFits, SavesPicked, Stable
<1>3. Pages[page].pick \in HandlersOf(Pages[page])
  BY HandlersOfPage
<1> QED BY <1>1, <1>2, <1>3, ClickKeeps

LEMMA ShowNewKeeps == Inv /\ ShowNew => Inv'
<1> SUFFICES ASSUME Inv, ShowNew PROVE Inv'
  OBVIOUS
<1> DEFINE v == [view EXCEPT !.isNew = TRUE]
<1>1. /\ IsView(v) /\ v.ops = view.ops /\ v.waiting = view.waiting /\ v.loading = view.loading
      /\ v.form = view.form /\ v.picked = view.picked
      /\ v.draft = view.draft /\ v.typed = view.typed
  BY InvFacts DEF IsView, ViewFields
<1>2. Turn(v)
  BY DEF ShowNew
<1> HIDE DEF v
<1>3. FormLags(page, v) /\ DraftFits(page, v)
  BY <1>1, InvFacts, FitsThenLags DEF DraftFits
<1> QED BY <1>1, <1>2, <1>3, TurnKeeps

LEMMA CancelKeeps == Inv /\ Cancel => Inv'
<1> SUFFICES ASSUME Inv, Cancel PROVE Inv'
  OBVIOUS
<1> DEFINE v == [view EXCEPT !.isNew = FALSE, !.picked = None]
<1>1. CASE Turn(v)
  <2>1. /\ IsView(v) /\ v.ops = view.ops /\ v.waiting = view.waiting /\ v.loading = view.loading
        /\ v.form = view.form /\ v.picked = None
        /\ v.draft = view.draft /\ v.typed = view.typed
    BY InvFacts DEF IsView, ViewFields
  <2> HIDE DEF v
  <2>2. FormLags(page, v) /\ DraftFits(page, v)
    BY <2>1, InvFacts, FitsThenLags DEF DraftFits
  <2> QED BY <1>1, <2>1, <2>2, TurnKeeps
<1>2. CASE Click(Pages[page].cancel, None, {}, {})
  <2>1. Pages[page].cancel \in HandlersOf(Pages[page]) /\ Pages[page].cancel \in HandlersButPick(Pages[page])
    BY HandlersOfPage
  <2> QED BY <1>2, <2>1, ClickKeeps
<1> QED BY <1>1, <1>2 DEF Cancel

LEMMA EditKeeps == Inv /\ Edit => Inv'
<1> SUFFICES ASSUME Inv, Edit PROVE Inv'
  OBVIOUS
<1> DEFINE v == [view EXCEPT !.form.val = 2,
                             !.rows[view.form.on] = IF Has("alias") /\ @ # 0 THEN 2 ELSE @]
<1>1. /\ IsView(v) /\ v.ops = view.ops /\ v.waiting = view.waiting /\ v.loading = view.loading
      /\ v.form = [view.form EXCEPT !.val = 2] /\ v.picked = view.picked
      /\ v.draft = view.draft /\ v.typed = view.typed
  BY InvFacts DEF IsView, ViewFields
<1>2. Turn(v)
  BY DEF Edit
<1> HIDE DEF v
<1>3. IsForm(v.form) /\ v.form.on = view.form.on
  BY <1>1, InvFacts DEF FormFits, IsForm
<1>4. FormLags(page, v)
  BY <1>1, <1>3, InvFacts DEF FormFits, FormLags, SavesPicked, Stable
<1>5. DraftFits(page, v)
  BY <1>1, InvFacts DEF DraftFits
<1> QED BY <1>1, <1>2, <1>4, <1>5, TurnKeeps

LEMMA EditSettingKeeps == Inv /\ EditSetting => Inv'
<1> SUFFICES ASSUME Inv, NEW i,
                    Turn([view EXCEPT !.draft = @ \cup {i}, !.typed = @ \cup {i},
                                      !.rows[i] = IF Has("alias") THEN 2 ELSE @])
             PROVE  Inv'
  BY DEF EditSetting
<1> DEFINE v == [view EXCEPT !.draft = @ \cup {i}, !.typed = @ \cup {i},
                             !.rows[i] = IF Has("alias") THEN 2 ELSE @]
<1>1. /\ IsView(v) /\ v.ops = view.ops /\ v.waiting = view.waiting /\ v.loading = view.loading
      /\ v.form = view.form /\ v.picked = view.picked
      /\ view.draft = view.typed => v.draft = v.typed
  BY InvFacts DEF IsView, ViewFields
<1>2. Turn(v)
  OBVIOUS
<1> HIDE DEF v
<1>3. FormLags(page, v) /\ DraftFits(page, v)
  BY <1>1, InvFacts, FitsThenLags DEF DraftFits
<1> QED BY <1>1, <1>2, <1>3, TurnKeeps

LEMMA AddKeeps == Inv /\ Add => Inv'
<1>1. Pages[page].add \in HandlersOf(Pages[page]) /\ Pages[page].add \in HandlersButPick(Pages[page])
  BY HandlersOfPage
<1> QED BY <1>1, ClickKeeps DEF Add

\* What is saved is what is shown, or is not sent.
LEMMA SaveClicks ==
  Inv /\ Save =>
    \E item, on, shows :
      /\ page \notin Drifting =>
           on = shows \/ \A th \in ThreadsIn({Pages[page].update}) : Callless(th, {"update"})
      /\ Click(Pages[page].update, item, on, shows)
<1> SUFFICES ASSUME Inv, Save
             PROVE  \E item, on, shows :
                      /\ page \notin Drifting =>
                           \/ on = shows
                           \/ \A th \in ThreadsIn({Pages[page].update}) : Callless(th, {"update"})
                      /\ Click(Pages[page].update, item, on, shows)
  OBVIOUS
<1> DEFINE h == Pages[page].update
           saved == IF Has("savesPicked") THEN {view.picked} ELSE {view.form.on}
<1>1. CASE view.form.on # None /\ Click(h, view.picked, saved, {view.form.on})
  <2>1. page \notin Drifting => saved = {view.form.on}
    BY <1>1, InvFacts DEF FormFits, SavesPicked, Has
  <2> HIDE DEF h, saved
  <2> QED BY <1>1, <2>1 DEF h
<1>2. CASE Has("settings") /\ Click(h, None, view.draft, view.typed)
  <2>1. page \notin Drifting => SavesWhatWasTyped(Pages[page])
    BY InvFacts, PagesAssumption
  <2>2. page \notin Drifting =>
          view.draft = view.typed \/ \A th \in ThreadsIn({h}) : Callless(th, {"update"})
    BY <1>2, <2>1, InvFacts DEF DraftFits, Typing, SavesWhatWasTyped, Has
  <2> HIDE DEF h
  <2> QED BY <1>2, <2>2 DEF h
<1> QED BY <1>1, <1>2 DEF Save

LEMMA SaveKeeps == Inv /\ Save => Inv'
<1>1. Pages[page].update \in HandlersOf(Pages[page]) /\ Pages[page].update \in HandlersButPick(Pages[page])
  BY HandlersOfPage
<1> QED BY <1>1, SaveClicks, ClickKeeps

LEMMA DeleteKeeps == Inv /\ Delete => Inv'
<1>1. Pages[page].remove \in HandlersOf(Pages[page]) /\ Pages[page].remove \in HandlersButPick(Pages[page])
  BY HandlersOfPage
<1> QED BY <1>1, ClickKeeps DEF Delete

LEMMA PushKeeps == Inv /\ Push => Inv'
<1> SUFFICES ASSUME Inv, NEW b \in Pages[page].buttons, Click(b.handler, view.picked, {}, {})
             PROVE  Inv'
  BY DEF Push
<1>1. b.handler \in HandlersOf(Pages[page]) /\ b.handler \in HandlersButPick(Pages[page])
  BY HandlersOfPage
<1> QED BY <1>1, ClickKeeps

LEMMA ServeKeeps ==
  ASSUME Inv, NEW r \in reqs, Serve(r)
  PROVE  Inv'
<1>1. RequestOK(page, failures, tasks, r) /\ failures \in Nat
  BY InvFacts DEF RequestsOK
<1> DEFINE copy(ok) == IF ok /\ r.fills # "nothing" THEN db' ELSE << >>
           rank(ok) == IF ok /\ r.fills # "nothing"
                       THEN 1 + (CHOOSE n \in Ranks : \A m \in Ranks : m <= n) ELSE 0
<1>2. PICK ok \in BOOLEAN :
        /\ failures' = IF ~ok /\ Allowed(r) THEN failures + 1 ELSE failures
        /\ reqs' = (reqs \ {r}) \cup {[r EXCEPT !.stage = "served", !.ok = ok,
                                               !.copy = copy(ok), !.rank = rank(ok)]}
  BY DEF Serve
<1> HIDE DEF copy, rank
<1> DEFINE x == [r EXCEPT !.stage = "served", !.ok = ok, !.copy = copy(ok), !.rank = rank(ok)]
<1>3. page' = page /\ view' = view /\ tasks' = tasks
  BY DEF Serve
<1>4. /\ IsRequest(x) /\ x.slot = r.slot /\ x.what = r.what /\ x.fills = r.fills
      /\ x.on = r.on /\ x.shows = r.shows /\ x.ok = ok
  BY <1>1 DEF RequestOK, IsRequest, RequestFields
<1>5. \A q : q \in reqs' <=> (q \in reqs /\ q # r) \/ q = x
  BY <1>2
<1> HIDE DEF x
<1>6. failures' \in Nat /\ failures <= failures' /\ (~ok /\ Allowed(r) => failures' > 0)
  BY <1>1, <1>2
<1>7. r.what \notin Writes \cup {"details"} => Allowed(r)
  BY DEF Allowed, Writes
<1>8. RequestOK(page, failures', tasks, x)
  BY <1>1, <1>4, <1>6, <1>7 DEF RequestOK, Awaits
<1>9. ASSUME NEW q \in reqs PROVE RequestOK(page, failures', tasks, q)
  <2>1. RequestOK(page, failures, tasks, q)
    BY InvFacts DEF RequestsOK
  <2>2. failures > 0 => failures' > 0
    BY <1>1, <1>6
  <2> QED BY <2>1, <2>2 DEF RequestOK
<1>10. Alone(page, reqs')
  <2>1. Alone(page, reqs)
    BY InvFacts DEF RequestsOK
  <2> QED BY <2>1, <1>4, <1>5 DEF Alone
<1>11. Sys(page, Lost(page, failures'), view, tasks, None, 0)
  BY <1>1, <1>6, InvFacts, FailuresGrow
<1>12. PageOK(page, failures', view, tasks, reqs')
  BY <1>5, <1>6, <1>8, <1>9, <1>10, <1>11, InvFacts DEF PageOK, RequestsOK
<1> QED BY <1>3, <1>12 DEF Inv

\* The page when an answer is assigned to what it shows.
LEMMA KeptFits ==
  ASSUME Inv, NEW r \in reqs, NEW k, k = Kept(r)
  PROVE  /\ IsView(k) /\ FormFits(page, k)
         /\ Sys(page, Lost(page, failures), k, tasks, None, 0)
         /\ \/ DraftFits(page, k)
            \/ r.ok /\ r.fills # "nothing" /\ Forgetful(Pages[page])
<1>1. RequestOK(page, failures, tasks, r)
  BY InvFacts DEF RequestsOK
<1>2. CASE ~r.ok
  <2> k = view
    BY <1>2 DEF Kept
  <2> QED BY InvFacts
<1>3. CASE r.ok
  <2> DEFINE a == Assigned(r, r.fills # "nothing")
  <2>1. /\ IsView(a) /\ a.form = view.form
        /\ a.ops = view.ops /\ a.waiting = view.waiting /\ a.loading = view.loading
        /\ r.what # "details" => a.picked = view.picked
        /\ a.typed = IF r.fills # "nothing" THEN {} ELSE view.typed
        /\ a.draft = IF r.fills # "nothing" /\ Has("alias") THEN {} ELSE view.draft
    <3> DEFINE typed == IF r.fills # "nothing" THEN {} ELSE view.typed
               draft == IF r.fills # "nothing" /\ Has("alias") THEN {} ELSE view.draft
               picked == IF r.what = "details" THEN CHOOSE i \in r.on : TRUE ELSE view.picked
               rows == IF Has("copy") THEN view.rows ELSE Filled(view.rows, r)
               store == IF Has("copy") THEN Filled(view.store, r) ELSE view.store
               used == IF r.what = "related" THEN r.on \cap Busy ELSE view.used
               rank == IF r.fills # "nothing" THEN r.rank ELSE view.rank
    <3>1. a = [view EXCEPT !.rows = rows, !.store = store, !.rank = rank, !.typed = typed,
                       !.draft = draft, !.used = used, !.picked = picked]
      BY InvFacts DEF Assigned, IsView, ViewFields
    <3>2. r.what # "details" => picked = view.picked
      OBVIOUS
    <3> HIDE DEF typed, draft, picked, rows, store, used, rank, a
    <3>3. /\ IsView(a) /\ a.form = view.form /\ a.picked = picked
          /\ a.ops = view.ops /\ a.waiting = view.waiting /\ a.loading = view.loading
          /\ a.typed = typed /\ a.draft = draft
      BY <3>1, InvFacts DEF IsView, ViewFields
    <3> QED BY <3>2, <3>3 DEF typed, draft
  <2>2. k = Rendered(a)
    BY <1>3 DEF Kept
  <2> HIDE DEF a
  <2>3. FormLags(page, a)
    BY <2>1, <1>1, InvFacts, FitsThenLags DEF RequestOK
  <2>4. /\ IsView(k) /\ FormFits(page, k)
        /\ k.ops = a.ops /\ k.waiting = a.waiting /\ k.loading = a.loading
        /\ k.draft = a.draft /\ k.typed = a.typed
    BY <2>1, <2>2, <2>3, RenderedFits
  <2>5. Sys(page, Lost(page, failures), k, tasks, None, 0)
    BY <2>1, <2>4, InvFacts, ViewChanges
  <2>6. DraftFits(page, k) \/ (r.fills # "nothing" /\ Forgetful(Pages[page]))
    BY <2>1, <2>4, InvFacts DEF DraftFits, Typing, Has
  <2> QED BY <1>3, <2>4, <2>5, <2>6
<1> QED BY <1>2, <1>3

LEMMA LeftFields ==
  ASSUME Inv, NEW r \in reqs, NEW q \in Left(r)
  PROVE  \/ /\ q \in reqs /\ q # r
            /\ r.ok \/ q.slot # r.slot \/ r.slot = None
         \/ \E x \in reqs :
              /\ x # r /\ ~r.ok /\ x.slot = r.slot /\ r.slot # None
              /\ IsRequest(q) /\ q.slot = None /\ q.what = x.what /\ q.fills = x.fills
              /\ q.on = x.on /\ q.shows = x.shows /\ q.ok = x.ok
              /\ q.stage = x.stage /\ q.copy = x.copy /\ q.rank = x.rank
<1>1. PICK x \in reqs : /\ x # r
                        /\ q = IF ~r.ok /\ x.slot = r.slot /\ r.slot # None
                               THEN [x EXCEPT !.slot = None] ELSE x
  BY DEF Left
<1>2. IsRequest(x)
  BY InvFacts DEF RequestsOK, RequestOK
<1>3. CASE ~r.ok /\ x.slot = r.slot /\ r.slot # None
  <2>1. q = [x EXCEPT !.slot = None]
    BY <1>1, <1>3
  <2>2. /\ IsRequest(q) /\ q.slot = None /\ q.what = x.what /\ q.fills = x.fills
        /\ q.on = x.on /\ q.shows = x.shows /\ q.ok = x.ok
        /\ q.stage = x.stage /\ q.copy = x.copy /\ q.rank = x.rank
    BY <1>2, <2>1 DEF IsRequest, RequestFields
  <2> QED BY <1>1, <1>3, <2>2
<1>4. CASE ~(~r.ok /\ x.slot = r.slot /\ r.slot # None)
  BY <1>1, <1>4
<1> QED BY <1>3, <1>4

\* The requests that are left are in order.
LEMMA LeftOK ==
  ASSUME Inv, NEW r \in reqs
  PROVE  /\ \A q \in Left(r) : RequestOK(page, failures, tasks, q)
         /\ \A q \in Left(r) : q.slot # None => q \in reqs /\ q # r
         /\ \A q \in Left(r) : r.slot # None /\ ~r.ok => q.slot # r.slot
         /\ Alone(page, Left(r))
<1>1. (\A q \in reqs : RequestOK(page, failures, tasks, q)) /\ Alone(page, reqs)
  BY InvFacts DEF RequestsOK
<1>2. ASSUME NEW q \in Left(r)
      PROVE  /\ RequestOK(page, failures, tasks, q)
             /\ q.slot # None => q \in reqs /\ q # r
             /\ r.slot # None /\ ~r.ok => q.slot # r.slot
  <2>1. CASE q \in reqs /\ q # r /\ (r.ok \/ q.slot # r.slot \/ r.slot = None)
    BY <2>1, <1>1
  <2>2. ASSUME NEW x \in reqs,
               x # r, ~r.ok, x.slot = r.slot, r.slot # None,
               IsRequest(q), q.slot = None, q.what = x.what, q.fills = x.fills,
               q.on = x.on, q.shows = x.shows, q.ok = x.ok
        PROVE  RequestOK(page, failures, tasks, q)
    <3>1. Forgetful(Pages[page]) => x.fills = "nothing"
      BY <2>2, <1>1 DEF Alone
    <3>2. RequestOK(page, failures, tasks, x)
      BY <1>1
    <3> QED BY <2>2, <3>1, <3>2 DEF RequestOK
  <2> QED BY <2>1, <2>2, LeftFields
<1>3. Alone(page, Left(r))
  <2>1. \A q \in Left(r) : Forgetful(Pages[page]) /\ q.fills # "nothing" => q.slot # None
    BY <1>2 DEF RequestOK
  <2> QED BY <2>1, <1>1, <1>2 DEF Alone
<1> QED BY <1>2, <1>3

\* The page when an answer is assigned: w is what it shows, rs what is awaited.
LEMMA AnsweredFits ==
  ASSUME NEW v, NEW ts, NEW rs, NEW x, Inv,
         IsView(v), FormLags(page, v), DraftFits(page, v),
         Sys(page, Lost(page, failures), v, ts, None, 0),
         RequestsOK(page, failures, ts, rs),
         NEW w, w = Rendered([v EXCEPT !.rank = x])
  PROVE  PageOK(page, failures, w, ts, rs)
<1> DEFINE u == [v EXCEPT !.rank = x]
<1>1. /\ IsView(u) /\ u.form = v.form /\ u.picked = v.picked
      /\ u.ops = v.ops /\ u.waiting = v.waiting /\ u.loading = v.loading
      /\ u.draft = v.draft /\ u.typed = v.typed
  BY DEF IsView, ViewFields
<1> HIDE DEF u
<1>2. FormLags(page, u)
  BY <1>1 DEF FormLags
<1>3. /\ IsView(w) /\ FormFits(page, w)
      /\ w.ops = u.ops /\ w.waiting = u.waiting /\ w.loading = u.loading
      /\ w.draft = u.draft /\ w.typed = u.typed
  BY <1>1, <1>2, RenderedFits DEF u
<1>4. Sys(page, Lost(page, failures), w, ts, None, 0)
  BY <1>1, <1>3, ViewChanges
<1>5. DraftFits(page, w)
  BY <1>1, <1>3 DEF DraftFits
<1> QED BY <1>3, <1>4, <1>5, InvFacts DEF PageOK

\* The thread that waited for r goes on.
LEMMA ResumedFits ==
  ASSUME Inv, NEW r \in reqs, NEW s, s = r.slot, s # None,
         NEW k, k = Kept(r), NEW todo, NEW n,
         Ran(page, Lost(page, failures), failures, k, tasks, s, todo, n),
         Stable(page) => Selectless(todo, 0),
         DraftFits(page, k) \/ ForgetsNext(todo, 0),
         \A q \in Left(r) : q.slot # s
  PROVE  LET after == [tasks EXCEPT ![s] = n.task] IN
         /\ IsView(n.view) /\ FormLags(page, n.view) /\ DraftFits(page, n.view)
         /\ Sys(page, Lost(page, failures), n.view, after, None, 0)
         /\ RequestsOK(page, failures, after, Left(r) \cup n.sent)
<1> DEFINE after == [tasks EXCEPT ![s] = n.task]
<1>1. /\ Sys(page, Lost(page, failures), n.view, after, None, 0)
      /\ n.view.form = k.form
      /\ k.draft = k.typed \/ ForgetsNext(todo, 0) => n.view.draft = n.view.typed
      /\ Selectless(todo, 0) => n.view.picked \in {None, k.picked}
      /\ \A q \in n.sent :
           /\ RequestOK(page, failures, after, q) /\ q.slot = s
           /\ Forgetful(Pages[page]) /\ q.fills # "nothing" => \A x \in n.sent : x = q
  BY DEF Ran
<1>2. IsTasks(tasks) /\ s \in Work(tasks) /\ s \in Slots
  BY InvFacts DEF RequestsOK, RequestOK, Sys, Work
<1>3. \A z \in Slots : z # s => after[z] = tasks[z]
  BY <1>2 DEF IsTasks
<1> HIDE DEF after
<1>4. IsView(n.view)
  BY <1>1 DEF Sys
<1>5. FormLags(page, n.view)
  BY <1>1, KeptFits, FitsThenLags
<1>6. DraftFits(page, n.view)
  BY <1>1 DEF DraftFits
<1>7. ASSUME NEW q \in Left(r) PROVE RequestOK(page, failures, after, q)
  <2>1. RequestOK(page, failures, tasks, q) /\ q.slot # s
    BY LeftOK
  <2>2. q.slot # None => q.slot \in Work(after) /\ after[q.slot] = tasks[q.slot]
    BY <2>1, <1>3 DEF RequestOK, Work
  <2> QED BY <2>1, <2>2, RequestKept
<1>8. Alone(page, Left(r) \cup n.sent)
  <2>1. Alone(page, Left(r))
    BY LeftOK
  <2> QED BY <2>1, <1>1 DEF Alone
<1>9. RequestsOK(page, failures, after, Left(r) \cup n.sent)
  BY <1>1, <1>7, <1>8 DEF RequestsOK
<1> QED BY <1>1, <1>4, <1>5, <1>6, <1>9 DEF after

\* Nobody goes on.
LEMMA NobodyResumes ==
  ASSUME Inv, NEW r \in reqs, NEW k, k = Kept(r),
         r.slot = None \/ (\E q \in reqs \ {r} : q.slot = r.slot)
  PROVE  /\ IsView(k) /\ FormLags(page, k) /\ DraftFits(page, k)
         /\ Sys(page, Lost(page, failures), k, tasks, None, 0)
         /\ RequestsOK(page, failures, tasks, Left(r))
<1>1. /\ IsView(k) /\ FormFits(page, k)
      /\ Sys(page, Lost(page, failures), k, tasks, None, 0)
      /\ DraftFits(page, k) \/ (r.ok /\ r.fills # "nothing" /\ Forgetful(Pages[page]))
  BY KeptFits
<1>2. FormLags(page, k)
  BY <1>1, FitsThenLags
<1>3. ~(r.fills # "nothing" /\ Forgetful(Pages[page]))
  BY InvFacts DEF RequestsOK, RequestOK, Alone
<1>4. RequestsOK(page, failures, tasks, Left(r))
  BY LeftOK DEF RequestsOK
<1> QED BY <1>1, <1>2, <1>3, <1>4

\* What the thread that waited for r does.
LEMMA ResumedRan ==
  ASSUME Inv, NEW r \in reqs, NEW s, s = r.slot, s # None, NEW t, t = tasks[s],
         NEW k, k = Kept(r), NEW n, n = Resumed(k, t, r),
         ~r.ok \/ ~ \E q \in reqs \ {r} : q.slot = r.slot
  PROVE  \E todo : /\ Ran(page, Lost(page, failures), failures, k, tasks, s, todo, n)
                   /\ Stable(page) => Selectless(todo, 0)
                   /\ DraftFits(page, k) \/ ForgetsNext(todo, 0)
                   /\ \A q \in Left(r) : q.slot # s
<1> DEFINE lost == Lost(page, failures)
<1>1. /\ RequestOK(page, failures, tasks, r) /\ failures \in Nat /\ lost \in BOOLEAN
      /\ s \in Work(tasks) /\ Awaits(page, t, r)
  BY InvFacts DEF RequestsOK, RequestOK, Lost
<1>2. /\ Sys(page, lost, k, tasks, None, 0)
      /\ DraftFits(page, k) \/ (r.ok /\ r.fills # "nothing" /\ Forgetful(Pages[page]))
  BY KeptFits
<1> HIDE DEF lost
<1>3. /\ TaskOK(page, t, s, 0) /\ Parked(page, t) /\ Sys(page, lost, k, tasks, s, 0)
  BY <1>1, <1>2, WaitingTask
<1>4. \A q \in Left(r) : q.slot # s
  BY LeftOK
<1>5. CASE ~r.ok /\ t.rescue = << >>
  <2>1. OwesLoaded(t, 0) => lost
    <3> SUFFICES ASSUME OwesLoaded(t, 0) PROVE lost
      OBVIOUS
    <3>1. failures > 0
      BY <1>1, <1>5 DEF RequestOK, Awaits
    <3>2. page \in Stuck
      BY <1>3, <1>5, NoCatch DEF Parked, OwesLoaded, LoadedIsSure
    <3> QED BY <3>1, <3>2 DEF lost, Lost
  <2>2. n = Failed(k, t)
    BY <1>5 DEF Resumed
  <2>3. Ran(page, lost, failures, k, tasks, s, << >>, n)
    BY <2>1, <2>2, <1>1, <1>2, FailedRan
  <2>4. Selectless(<< >>, 0)
    BY NoCatch DEF Selectless
  <2> QED BY <2>3, <2>4, <1>2, <1>4, <1>5 DEF lost
<1>6. CASE ~r.ok /\ t.rescue # << >>
  <2> DEFINE u == [t EXCEPT !.todo = t.rescue, !.rescue = << >>]
  <2>1. n = Run(k, u)
    BY <1>6 DEF Resumed
  <2>2. Continues(u, t, t.rescue, << >>)
    BY <1>3 DEF Continues, TaskOK, IsTask, TaskFields
  <2> HIDE DEF u
  <2>3. Ran(page, lost, failures, k, tasks, s, t.rescue, n)
    BY <2>1, <2>2, <1>1, <1>2, <1>6, RescuedRan
  <2>4. Stable(page) => Selectless(t.rescue, 0)
    BY <1>3 DEF TaskOK, FormOK
  <2> QED BY <2>3, <2>4, <1>2, <1>4, <1>6 DEF lost
<1>7. CASE r.ok
  <2>1. n = Run(k, t)
    BY <1>7 DEF Resumed
  <2>2. Ran(page, lost, failures, k, tasks, s, t.todo, n)
    BY <2>1, <1>1, <1>3, RunRan
  <2>3. Stable(page) => Selectless(t.todo, 0)
    BY <1>3 DEF Parked
  <2>4. DraftFits(page, k) \/ ForgetsNext(t.todo, 0)
    BY <1>1, <1>2 DEF Awaits
  <2> QED BY <2>2, <2>3, <2>4, <1>4 DEF lost
<1> QED BY <1>5, <1>6, <1>7

LEMMA AnswerKeeps ==
  ASSUME Inv, NEW r \in reqs, Answer(r)
  PROVE  Inv'
<1>1. PICK n : /\ n = IF r.slot = None THEN [view |-> Kept(r), sent |-> {}]
                      ELSE Resumed(Kept(r), tasks[r.slot], r)
               /\ reqs' = Left(r) \cup n.sent
               /\ view' = Rendered([n.view EXCEPT !.rank = IF \E q \in reqs' : q.rank # 0 THEN @ ELSE 0])
               /\ tasks' = IF r.slot = None THEN tasks ELSE [tasks EXCEPT ![r.slot] = n.task]
  BY DEF Answer
<1>2. page' = page /\ failures' = failures
  BY DEF Answer
<1>3. /\ IsView(n.view) /\ FormLags(page, n.view) /\ DraftFits(page, n.view)
      /\ Sys(page, Lost(page, failures), n.view, tasks', None, 0)
      /\ RequestsOK(page, failures, tasks', reqs')
  <2>1. CASE r.slot = None
    <3>1. n.view = Kept(r) /\ tasks' = tasks /\ reqs' = Left(r)
      BY <2>1, <1>1
    <3> QED BY <3>1, <2>1, NobodyResumes
  <2>2. CASE r.slot # None /\ r.ok /\ \E q \in reqs \ {r} : q.slot = r.slot
    <3>1. n = [view |-> Kept(r), task |-> tasks[r.slot], sent |-> {}]
      BY <2>2, <1>1 DEF Resumed
    <3>2. [tasks EXCEPT ![r.slot] = tasks[r.slot]] = tasks
      BY InvFacts DEF Sys, IsTasks
    <3>3. n.view = Kept(r) /\ tasks' = tasks /\ reqs' = Left(r)
      BY <3>1, <3>2, <2>2, <1>1
    <3> QED BY <3>3, <2>2, NobodyResumes
  <2>3. CASE r.slot # None /\ (~r.ok \/ ~ \E q \in reqs \ {r} : q.slot = r.slot)
    <3>1. n = Resumed(Kept(r), tasks[r.slot], r) /\ tasks' = [tasks EXCEPT ![r.slot] = n.task]
      BY <2>3, <1>1
    <3>2. PICK todo :
            /\ Ran(page, Lost(page, failures), failures, Kept(r), tasks, r.slot, todo, n)
            /\ Stable(page) => Selectless(todo, 0)
            /\ DraftFits(page, Kept(r)) \/ ForgetsNext(todo, 0)
            /\ \A q \in Left(r) : q.slot # r.slot
      BY <3>1, <2>3, ResumedRan
    <3> DEFINE after == [tasks EXCEPT ![r.slot] = n.task]
    <3>3. /\ IsView(n.view) /\ FormLags(page, n.view) /\ DraftFits(page, n.view)
          /\ Sys(page, Lost(page, failures), n.view, after, None, 0)
          /\ RequestsOK(page, failures, after, Left(r) \cup n.sent)
      BY <3>2, <2>3, ResumedFits
    <3> HIDE DEF after
    <3> QED BY <3>1, <3>3, <1>1 DEF after
  <2> QED BY <2>1, <2>2, <2>3
<1>4. PageOK(page, failures, view', tasks', reqs')
  BY <1>1, <1>3, AnsweredFits
<1> QED BY <1>2, <1>4 DEF Inv

LEMMA InitInv == Init => Inv
<1> SUFFICES ASSUME Init PROVE Inv
  OBVIOUS
<1> DEFINE none == [z \in Slots |-> Idle]
<1>0. PICK o \in Openings :
        \E s : /\ s = Started(o.shows, none, o.runs, None, {}, {})
               /\ view = Rendered(s.view) /\ tasks = s.tasks /\ reqs = s.sent
  BY DEF Init
<1> DEFINE v == o.shows
           h == o.runs
<1>1. PICK s : /\ s = Started(v, none, h, None, {}, {})
               /\ view = Rendered(s.view) /\ tasks = s.tasks /\ reqs = s.sent
  BY <1>0
<1>2. page \in DOMAIN Pages /\ failures = 0
  BY DEF Init
<1>2a. /\ v \in {EmptyView, ReadView} /\ h \in {Pages[page].mount} \cup Pages[page].again
  BY DEF Openings
<1>3. Work(none) = {} /\ Free(none) = Slots /\ IsTasks(none)
  BY DEF Work, Free, Idle, IsTasks
<1> HIDE DEF none
<1> HIDE DEF v, h
<1>4. /\ IsView(v) /\ v.ops = {} /\ ~v.waiting /\ ~v.loading
      /\ v.form = NoForm /\ v.draft = v.typed
  <2>1. CASE v = EmptyView
    BY <2>1 DEF EmptyView, IsView, ViewFields
  <2>2. CASE v = ReadView
    BY <2>2 DEF ReadView, EmptyView, IsView, ViewFields
  <2> QED BY <2>1, <2>2, <1>2a
<1>5. Sys(page, FALSE, v, none, None, 0)
  <2>1. OpsOK(v, none)
    BY <1>3, <1>4, FS_EmptySet DEF OpsOK
  <2> QED BY <2>1, <1>3, <1>4 DEF Sys
<1>6. Cardinality(Free(none)) >= Len(h)
  BY <1>2, <1>2a, <1>3, PagesAssumption
<1>7. h \in HandlersOf(Pages[page]) /\ h \in HandlersButPick(Pages[page])
  BY <1>2a, HandlersOfPage
<1> DEFINE still == Stable(page) /\ h \in HandlersButPick(Pages[page])
<1>8. Launched(page, FALSE, 0, v, none, still, s, Len(h))
  BY <1>1, <1>2, <1>5, <1>6, <1>7, StartedLaunched
<1>9. /\ Sys(page, FALSE, s.view, s.tasks, None, 0)
      /\ s.view.form = NoForm /\ s.view.draft = s.view.typed
      /\ \A q \in s.sent : RequestOK(page, 0, s.tasks, q)
      /\ Alone(page, s.sent)
  BY <1>4, <1>8 DEF Launched
<1>10. IsView(s.view) /\ FormLags(page, s.view)
  BY <1>9 DEF Sys, FormLags, NoForm, IsForm
<1>11. /\ IsView(view) /\ FormFits(page, view)
       /\ view.ops = s.view.ops /\ view.waiting = s.view.waiting
       /\ view.loading = s.view.loading
       /\ view.draft = s.view.draft /\ view.typed = s.view.typed
  BY <1>1, <1>10, RenderedFits
<1>12. Sys(page, FALSE, view, tasks, None, 0)
  BY <1>1, <1>9, <1>11, ViewChanges
<1>13. Lost(page, 0) = FALSE
  BY DEF Lost
<1>14. DraftFits(page, view) /\ RequestsOK(page, 0, tasks, reqs)
  BY <1>1, <1>9, <1>11 DEF DraftFits, RequestsOK
<1> QED BY <1>2, <1>11, <1>12, <1>13, <1>14 DEF Inv, PageOK

LEMMA NextKeeps == Inv /\ [Next]_vars => Inv'
<1> SUFFICES ASSUME Inv, [Next]_vars PROVE Inv'
  OBVIOUS
<1>1. CASE PickRow
  BY <1>1, PickRowKeeps
<1>2. CASE ShowNew
  BY <1>2, ShowNewKeeps
<1>3. CASE Cancel
  BY <1>3, CancelKeeps
<1>4. CASE Edit
  BY <1>4, EditKeeps
<1>5. CASE EditSetting
  BY <1>5, EditSettingKeeps
<1>6. CASE Add
  BY <1>6, AddKeeps
<1>7. CASE Save
  BY <1>7, SaveKeeps
<1>8. CASE Delete
  BY <1>8, DeleteKeeps
<1>9. CASE Push
  BY <1>9, PushKeeps
<1>10. ASSUME NEW r \in reqs, Serve(r) PROVE Inv'
  BY <1>10, ServeKeeps
<1>11. ASSUME NEW r \in reqs, Answer(r) PROVE Inv'
  BY <1>11, AnswerKeeps
<1>12. CASE UNCHANGED vars
  BY <1>12 DEF vars, Inv
<1> QED BY <1>1, <1>2, <1>3, <1>4, <1>5, <1>6, <1>7, <1>8, <1>9, <1>10, <1>11, <1>12 DEF Next
-----------------------------------------------------------------------------
(* What the page shows is what is stored, once it rests: a second          *)
(* invariant, on the rows, the copies of them that the answers carry and   *)
(* the reads that are still to come.                                       *)

\* A function on the rows.
Rowed(f) == f = [i \in Ids |-> f[i]]

Touches(q, i) == q.fills = "list" \/ (q.fills = "row" /\ i \in q.on)

\* An answer with the rows has a rank, the order in which they were read.
RankOK(q) ==
  /\ q.stage \in {"sent", "served"} /\ q.rank \in Nat
  /\ q.rank # 0 => q.stage = "served" /\ q.ok /\ q.fills # "nothing" /\ Rowed(q.copy)
  /\ q.stage = "served" /\ q.ok /\ q.fills # "nothing" => q.rank # 0

Bounded(rs) == \E b \in Nat : \A q \in rs : q.rank <= b

\* The answers to come that still change a row.
Coming(v, rs, i) == {q \in rs : q.rank # 0 /\ q.rank >= v.rank /\ Touches(q, i)}

\* The last of them has the row as it is stored, or the page has.
Fresh(d, v, rs, i) ==
  /\ Coming(v, rs, i) = {} => v.rows[i] = d[i]
  /\ \A q \in Coming(v, rs, i) :
       (\A x \in Coming(v, rs, i) : x.rank <= q.rank) => q.copy[i] = d[i]

\* A request not answered yet after which the list is read, or excused.
Unsettling(v, q) ==
  \/ q.stage = "sent" /\ q.fills = "list"
  \/ q.stage = "served" /\ ~q.ok
  \/ q.rank # 0 /\ q.rank < v.rank

OwesList(t) == Lists(t.todo, 0)

Unsettled(v, ts, rs) ==
  (\E q \in rs : Unsettling(v, q)) \/ (\E z \in Work(ts) : OwesList(ts[z]))

\* The steps left to a thread read the list after what they write.
Lister(p, t) == ListsAgain(Pages[p], t.todo, 0) /\ ListsAgain(Pages[p], t.rescue, 0)

\* A request that writes in silence, or fills a list that is copied, is
\* awaited alone by a thread that goes on to read the list, or to copy it.
Unheard(q) == q.stage = "sent" /\ Silent(q)

Fills(p, q) == Copies(Pages[p]) /\ q.fills # "nothing"

ListedAfter(p, ts, q) ==
  /\ Unheard(q) => q.slot \in Work(ts) /\ OwesList(ts[q.slot])
  /\ Fills(p, q) => q.slot \in Work(ts) /\ ShowsNext(ts[q.slot].todo, 0)

OneAwaited(p, rs) ==
  \A q, x \in rs : (Unheard(q) \/ Fills(p, q)) /\ x.slot = q.slot => x = q

RowsOK(p, d, v) ==
  /\ Rowed(d) /\ Rowed(v.rows) /\ Rowed(v.store) /\ v.rank \in Nat
  /\ Copies(Pages[p]) => v.rows = v.store

QueueOK(p, ts, rs) ==
  /\ \A q \in rs : RankOK(q) /\ ListedAfter(p, ts, q)
  /\ Bounded(rs) /\ OneAwaited(p, rs)

ListsOK(p, d, v, ts, rs, ex) ==
  /\ RowsOK(p, d, v)
  /\ \A z \in Work(ts) : Lister(p, ts[z])
  /\ QueueOK(p, ts, rs)
  /\ ex \/ Unsettled(v, ts, rs) \/ \A i \in Ids : Fresh(d, v, rs, i)

ListInv == page \notin CopiedOnce => ListsOK(page, db, view, tasks, reqs, excused)
-----------------------------------------------------------------------------
(* What the steps that are left read and show.                             *)

LEMMA ListsLeft ==
  ASSUME NEW steps, IsSequence(steps), NEW k \in 1..Len(steps),
         NEW left, left = StepsAfter(steps, k)
  PROVE  /\ Lists(left, 0) <=> Lists(steps, k)
         /\ ShowsNext(steps, k) => ShowsNext(left, 0)
         /\ \A p : ListsAgain(p, steps, 0) => ListsAgain(p, left, 0)
<1>1. /\ k \in Nat /\ DOMAIN left \subseteq Nat /\ DOMAIN steps \subseteq Nat
      /\ \A j \in DOMAIN left :
           j + k \in DOMAIN steps /\ j + k > k /\ left[j] = steps[j + k] /\ j > 0
  BY LeftIndices
<1>2. \A j \in DOMAIN steps : j > k => j - k \in DOMAIN left /\ left[j - k] = steps[j]
  BY LeftIndices
<1>3. \A j \in DOMAIN left : j + k > 0 /\ j \in Nat
  BY <1>1
<1>4. \A i \in Nat : Lists(left, i) <=> Lists(steps, i + k)
  <2> SUFFICES ASSUME NEW i \in Nat PROVE Lists(left, i) <=> Lists(steps, i + k)
    OBVIOUS
  <2>1. ASSUME NEW j \in DOMAIN left, j > i PROVE j + k > i + k
    BY <2>1, <1>1
  <2>2. ASSUME NEW j \in DOMAIN steps, j > i + k PROVE j > k /\ j - k > i
    BY <2>2, <1>1
  <2> QED BY <2>1, <2>2, <1>1, <1>2 DEF Lists
<1>5. \A i \in Nat : ShowsNext(steps, i + k) => ShowsNext(left, i)
  <2> SUFFICES ASSUME NEW i \in Nat, NEW l \in DOMAIN steps,
                      l > i + k, steps[l].do = "show",
                      \A j \in DOMAIN steps : i + k < j /\ j < l => steps[j].do # "await"
               PROVE  ShowsNext(left, i)
    BY DEF ShowsNext
  <2>1. l - k \in DOMAIN left /\ l - k > i /\ left[l - k].do = "show"
    BY <1>1, <1>2
  <2>2. ASSUME NEW j \in DOMAIN left, i < j, j < l - k PROVE left[j].do # "await"
    <3> j + k \in DOMAIN steps /\ i + k < j + k /\ j + k < l
      BY <2>2, <1>1
    <3> QED BY <1>1
  <2> QED BY <2>1, <2>2 DEF ShowsNext
<1>6. \A w : Does(left, 0, w) => Does(steps, 0, w)
  BY <1>1, <1>3 DEF Does
<1>7. ListsAfterWrites(steps, 0) => ListsAfterWrites(left, 0)
  <2> SUFFICES ASSUME ListsAfterWrites(steps, 0), NEW j \in DOMAIN left
               PROVE  /\ left[j].do = "choose" => Lists(left, j)
                      /\ left[j].do = "await" /\ (\E c \in left[j].calls : Silent(c)) =>
                           (\A c, d \in left[j].calls : c = d) /\ Lists(left, j)
    BY DEF ListsAfterWrites
  <2>1. j + k \in DOMAIN steps /\ j + k > 0 /\ left[j] = steps[j + k] /\ j \in Nat
    BY <1>1, <1>3
  <2>2. Lists(left, j) <=> Lists(steps, j + k)
    BY <2>1, <1>4
  <2> QED BY <2>1, <2>2 DEF ListsAfterWrites
<1>8. ShowsWhatItReads(steps, 0) => ShowsWhatItReads(left, 0)
  <2> SUFFICES ASSUME ShowsWhatItReads(steps, 0), NEW j \in DOMAIN left,
                      left[j].do = "await", \E c \in left[j].calls : c.fills # "nothing"
               PROVE  (\A c, d \in left[j].calls : c = d) /\ ShowsNext(left, j)
    BY DEF ShowsWhatItReads
  <2>1. j + k \in DOMAIN steps /\ j + k > 0 /\ left[j] = steps[j + k] /\ j \in Nat
    BY <1>1, <1>3
  <2>2. ShowsNext(steps, j + k) => ShowsNext(left, j)
    BY <2>1, <1>5
  <2> QED BY <2>1, <2>2 DEF ShowsWhatItReads
<1>9. (Lists(left, 0) <=> Lists(steps, k)) /\ (ShowsNext(steps, k) => ShowsNext(left, 0))
  BY <1>1, <1>4, <1>5
<1> QED BY <1>6, <1>7, <1>8, <1>9 DEF ListsAgain

LEMMA NothingLists ==
  ~Lists(<< >>, 0) /\ \A p : ListsAgain(p, << >>, 0)
<1>1. DOMAIN << >> = {}
  OBVIOUS
<1> QED BY <1>1 DEF Lists, ListsAgain, ListsAfterWrites, ShowsWhatItReads, Does
-----------------------------------------------------------------------------
(* What a run does to the rows.                                            *)

LEMMA LocalRows ==
  ASSUME NEW v, IsView(v), NEW t, NEW s, NEW w, w = Local(v, t, s)
  PROVE  /\ w.store = v.store /\ w.rank = v.rank
         /\ s.do = "show" => w.rows = v.store
         /\ s.do \notin {"show", "choose"} => w.rows = v.rows
         /\ Rowed(v.rows) /\ Rowed(v.store) => Rowed(w.rows)
<1> USE DEF Local, IsView, ViewFields, Recorded, Unnamed
<1>1. CASE s.do = "show" BY <1>1
<1>2. CASE s.do = "choose"
  <2>1. w = [v EXCEPT !.rows[t.item] = 2]
    BY <1>2
  <2>2. /\ w.store = v.store /\ w.rank = v.rank /\ w.rows = [v.rows EXCEPT ![t.item] = 2]
    BY <2>1
  <2> HIDE DEF Local, IsView, ViewFields, Recorded, Unnamed
  <2>3. Rowed(v.rows) => Rowed(w.rows)
    BY <2>2 DEF Rowed
  <2> QED BY <1>2, <2>2, <2>3
<1>3. CASE s.do \in {"wait", "rest", "hideNew", "letGo", "pick", "pickLast"} BY <1>3
<1>4. CASE s.do \in {"forget", "load", "loaded", "leave"} BY <1>4
<1>5. CASE s.do = "begin" BY <1>5
<1>6. CASE s.do = "finish" BY <1>6
<1>7. CASE s.do \notin {"wait", "rest", "hideNew", "letGo", "pick", "pickLast", "forget",
                        "load", "loaded", "show", "choose", "leave", "begin", "finish"}
  BY <1>7
<1> QED BY <1>1, <1>2, <1>3, <1>4, <1>5, <1>6, <1>7

\* From the view v, the thread t has done i steps, none of them an await: the
\* page is w, the thread u.
Walked(v, t, w, u, i) ==
  /\ IsView(w) /\ Rowed(w.rows) /\ w.store = v.store /\ w.rank = v.rank
  /\ IsTask(u) /\ u.todo = t.todo /\ u.slot = t.slot
  /\ u.rescue \in {t.rescue, << >>}
  /\ /\ v.rows = v.store \/ \E j \in 1..i : t.todo[j].do = "show"
     /\ \A j \in 1..i : t.todo[j].do # "choose"
     => w.rows = v.store
  /\ (\A j \in 1..i : t.todo[j].do \notin {"show", "choose"}) => w.rows = v.rows

LEMMA WalkedStep ==
  ASSUME NEW v, NEW t, NEW i \in Nat \ {0}, Rowed(v.store),
         NEW w, NEW u, Walked(v, t, w, u, i - 1), NEW step, step = t.todo[i],
         NEW ww, ww = Local(w, u, step), NEW uu, uu = Moved(w, u, step)
  PROVE  Walked(v, t, ww, uu, i)
<1>1. /\ IsView(w) /\ Rowed(w.rows) /\ w.store = v.store /\ w.rank = v.rank
      /\ IsTask(u) /\ u.todo = t.todo /\ u.slot = t.slot
      /\ u.rescue \in {t.rescue, << >>}
      /\ /\ v.rows = v.store \/ \E j \in 1..(i - 1) : t.todo[j].do = "show"
         /\ \A j \in 1..(i - 1) : t.todo[j].do # "choose"
         => w.rows = v.store
      /\ (\A j \in 1..(i - 1) : t.todo[j].do \notin {"show", "choose"}) => w.rows = v.rows
  BY DEF Walked
<1>2. IsView(ww)
  BY <1>1, LocalView
<1>3. /\ ww.store = w.store /\ ww.rank = w.rank
      /\ step.do = "show" => ww.rows = w.store
      /\ step.do \notin {"show", "choose"} => ww.rows = w.rows
      /\ Rowed(ww.rows)
  BY <1>1, LocalRows
<1>4. IsTask(uu) /\ uu.todo = u.todo /\ uu.slot = u.slot /\ uu.rescue \in {u.rescue, << >>}
  BY <1>1, MovedTask
<1>5. i \in 1..i /\ (\A j \in 1..(i - 1) : j \in 1..i) /\ \A j \in 1..i : j # i => j \in 1..(i - 1)
  OBVIOUS
<1>6. ASSUME v.rows = v.store \/ \E j \in 1..i : t.todo[j].do = "show",
             \A j \in 1..i : t.todo[j].do # "choose"
      PROVE  ww.rows = v.store
  <2>1. CASE step.do = "show"
    BY <2>1, <1>1, <1>3
  <2>2. CASE step.do # "show"
    <3>1. step.do # "choose" /\ \A j \in 1..(i - 1) : t.todo[j].do # "choose"
      BY <1>5, <1>6
    <3>2. v.rows = v.store \/ \E j \in 1..(i - 1) : t.todo[j].do = "show"
      BY <2>2, <1>5, <1>6
    <3> QED BY <2>2, <3>1, <3>2, <1>1, <1>3
  <2> QED BY <2>1, <2>2
<1>7. ASSUME \A j \in 1..i : t.todo[j].do \notin {"show", "choose"} PROVE ww.rows = v.rows
  BY <1>1, <1>3, <1>5, <1>7
<1> QED BY <1>1, <1>2, <1>3, <1>4, <1>6, <1>7 DEF Walked

LEMMA UntilWalked ==
  ASSUME NEW v, IsView(v), Rowed(v.rows), Rowed(v.store), NEW t, IsTask(t),
         NEW k \in Nat \ {0}, NEW st, st = Until(v, t, k)
  PROVE  Walked(v, t, st.view, st.task, k - 1)
<1>1. PICK f : /\ st = f[k - 1]
               /\ f[0].view = v /\ f[0].task = t
               /\ \A i \in 1..(k - 1) :
                    /\ f[i].view = Local(f[i - 1].view, f[i - 1].task, t.todo[i])
                    /\ f[i].task = Moved(f[i - 1].view, f[i - 1].task, t.todo[i])
  BY UntilSteps
<1> DEFINE OK(i) == Walked(v, t, f[i].view, f[i].task, i)
           T == {i \in 0..(k - 1) : ~OK(i)}
<1>2. OK(0)
  <2>1. 1..0 = {}
    OBVIOUS
  <2> QED BY <2>1, <1>1 DEF Walked
<1>3. ASSUME NEW i \in 1..(k - 1), OK(i - 1) PROVE OK(i)
  <2>1. /\ f[i].view = Local(f[i - 1].view, f[i - 1].task, t.todo[i])
        /\ f[i].task = Moved(f[i - 1].view, f[i - 1].task, t.todo[i])
    BY <1>1
  <2> QED BY <2>1, <1>3, WalkedStep
<1> HIDE DEF OK
<1>4. SUFFICES ASSUME T # {} PROVE FALSE
  <2>1. k - 1 \in 0..(k - 1)
    OBVIOUS
  <2>2. OK(k - 1)
    BY <2>1
  <2> QED BY <2>2, <1>1 DEF OK
<1>5. PICK m \in T : \A y \in T : m <= y
  <2> T \subseteq Nat
    OBVIOUS
  <2> QED BY <1>4, LeastNumber
<1>6. m \in 1..(k - 1) /\ m - 1 \in 0..(k - 1)
  BY <1>2, <1>5
<1>7. m - 1 \notin T
  BY <1>5, <1>6
<1> QED BY <1>3, <1>5, <1>6, <1>7

\* The list is read by what a run sends, or later.
Relists(r) ==
  \/ \E q \in r.sent : q.stage = "sent" /\ q.fills = "list"
  \/ r.task # Idle /\ OwesList(r.task)

\* A run r, begun on the page v by the thread in the slot s.
RowsRan(p, v, s, r) ==
  /\ IsView(r.view) /\ Rowed(r.view.rows) /\ r.view.store = v.store /\ r.view.rank = v.rank
  /\ Copies(Pages[p]) => r.view.rows = v.store
  /\ ~Copies(Pages[p]) => r.view.rows = v.rows \/ Relists(r)
  /\ r.task = Idle \/ (IsTask(r.task) /\ Lister(p, r.task))
  /\ \A q \in r.sent :
       /\ IsTask(r.task) /\ q.slot = s /\ q.stage = "sent" /\ q.rank = 0
       /\ Unheard(q) => OwesList(r.task)
       /\ Fills(p, q) => ShowsNext(r.task.todo, 0)
       /\ Unheard(q) \/ Fills(p, q) => \A x \in r.sent : x = q

LEMMA RunLists ==
  ASSUME NEW p, NEW v, IsView(v), Rowed(v.rows), Rowed(v.store),
         NEW t, IsTask(t), IsSequence(t.todo), Lister(p, t),
         Copies(Pages[p]) => v.rows = v.store \/ ShowsNext(t.todo, 0),
         NEW r, r = Run(v, t)
  PROVE  RowsRan(p, v, t.slot, r) /\ (OwesList(t) => Relists(r))
<1> DEFINE todo == t.todo
           k == NextAwait(todo)
           st == Until(v, t, k)
           w == st.view
           u == st.task
<1>1. /\ k \in 1..(Len(todo) + 1) /\ Len(todo) \in Nat /\ DOMAIN todo = 1..Len(todo)
      /\ k <= Len(todo) => todo[k].do = "await"
      /\ \A j \in 1..(k - 1) : todo[j].do # "await"
  BY NextAwaitIsFirst DEF IsSequence
<1>2. Walked(v, t, w, u, k - 1)
  <2>1. k \in Nat \ {0}
    BY <1>1
  <2> HIDE DEF k
  <2> QED BY <2>1, UntilWalked
<1>3. r = IF k > Len(todo)
          THEN [view |-> Unnamed(w, u), task |-> Idle, sent |-> {}]
          ELSE [view |-> w, task |-> [u EXCEPT !.todo = SubSeq(todo, k + 1, Len(todo))],
                sent |-> {Request(u, c) : c \in todo[k].calls}]
  BY DEF Run, RunTo, Paused
<1>4. /\ ListsAfterWrites(todo, 0)
      /\ Copies(Pages[p]) => ShowsWhatItReads(todo, 0) /\ ~Does(todo, 0, "choose")
      /\ ~Copies(Pages[p]) => ~Does(todo, 0, "show")
      /\ ListsAgain(Pages[p], todo, 0) /\ ListsAgain(Pages[p], t.rescue, 0)
  BY DEF Lister, ListsAgain
<1> HIDE DEF k, st, w, u, todo
<1>5. /\ IsView(w) /\ Rowed(w.rows) /\ w.store = v.store /\ w.rank = v.rank
      /\ IsTask(u) /\ u.todo = todo /\ u.slot = t.slot /\ u.rescue \in {t.rescue, << >>}
      /\ /\ v.rows = v.store \/ \E j \in 1..(k - 1) : todo[j].do = "show"
         /\ \A j \in 1..(k - 1) : todo[j].do # "choose"
         => w.rows = v.store
      /\ (\A j \in 1..(k - 1) : todo[j].do \notin {"show", "choose"}) => w.rows = v.rows
  BY <1>2 DEF Walked, todo
<1>6. /\ \A j \in 1..(k - 1) : j \in DOMAIN todo /\ j > 0 /\ j < k
      /\ \A j \in DOMAIN todo : j > 0 /\ (j < k => j \in 1..(k - 1)) /\ (j > k \/ j = k \/ j < k)
  BY <1>1
<1>7. Copies(Pages[p]) => w.rows = v.store
  <2> SUFFICES ASSUME Copies(Pages[p]) PROVE w.rows = v.store
    OBVIOUS
  <2>1. \A j \in 1..(k - 1) : todo[j].do # "choose"
    BY <1>4, <1>6 DEF Does
  <2>2. ASSUME NEW l \in DOMAIN todo, l > 0, todo[l].do = "show",
               \A j \in DOMAIN todo : 0 < j /\ j < l => todo[j].do # "await"
        PROVE  \E j \in 1..(k - 1) : todo[j].do = "show"
    <3>1. k <= Len(todo) => ~(k < l) /\ k # l
      BY <2>2, <1>1
    <3>2. l \in 1..(k - 1)
      BY <3>1, <1>1
    <3> QED BY <3>2, <2>2
  <2>3. v.rows = v.store \/ \E j \in 1..(k - 1) : todo[j].do = "show"
    BY <2>2 DEF ShowsNext, todo
  <2> QED BY <2>1, <2>3, <1>5
<1>8. ~Copies(Pages[p]) => w.rows = v.rows \/ \E j \in 1..(k - 1) : Lists(todo, j)
  <2> SUFFICES ASSUME ~Copies(Pages[p]), \A j \in 1..(k - 1) : ~Lists(todo, j)
               PROVE  \A j \in 1..(k - 1) : todo[j].do \notin {"show", "choose"}
    BY <1>5
  <2> QED BY <1>4, <1>6 DEF Does, ListsAfterWrites
<1>9. CASE k > Len(todo)
  <2>1. r.view = Unnamed(w, u) /\ r.task = Idle /\ r.sent = {}
    BY <1>3, <1>9
  <2>2. /\ IsView(r.view) /\ r.view.rows = w.rows
        /\ r.view.store = w.store /\ r.view.rank = w.rank
    BY <2>1, <1>5 DEF Unnamed, IsView, ViewFields
  <2>3. \A j : ~Lists(todo, j)
    BY <1>1, <1>6, <1>9 DEF Lists
  <2>4. \A q \in r.sent : FALSE
    BY <2>1
  <2>5. OwesList(t) => Relists(r)
    BY <2>3 DEF OwesList, todo
  <2> QED BY <2>1, <2>2, <2>3, <2>4, <2>5, <1>5, <1>7, <1>8 DEF RowsRan
<1>10. CASE k <= Len(todo)
  <2> DEFINE x == [u EXCEPT !.todo = StepsAfter(todo, k)]
  <2>1. r.view = w /\ r.task = x /\ r.sent = {Request(u, c) : c \in todo[k].calls}
    BY <1>1, <1>3, <1>10 DEF StepsAfter
  <2>2. /\ IsTask(x) /\ x.todo = StepsAfter(todo, k) /\ x.rescue = u.rescue
    BY <1>5 DEF IsTask, TaskFields
  <2> HIDE DEF x
  <2>3. k \in 1..Len(todo) /\ k \in DOMAIN todo /\ todo[k].do = "await" /\ IsSequence(todo)
    BY <1>1, <1>10 DEF todo
  <2>4. /\ OwesList(x) <=> Lists(todo, k)
        /\ ShowsNext(todo, k) => ShowsNext(x.todo, 0)
        /\ ListsAgain(Pages[p], x.todo, 0)
    BY <2>2, <2>3, <1>4, ListsLeft DEF OwesList
  <2>5. x # Idle
    <3>1. x.live /\ ~Idle.live
      BY <2>2 DEF IsTask, Idle
    <3> QED BY <3>1
  <2>6. Lister(p, x)
    BY <2>2, <2>4, <1>4, <1>5, NothingLists DEF Lister
  <2>7. \A c \in todo[k].calls : \A q : q = Request(u, c) =>
          /\ q.slot = t.slot /\ q.stage = "sent" /\ q.rank = 0
          /\ q.what = c.what /\ q.fills = c.fills
    BY <1>5 DEF Request
  <2>8. ASSUME NEW q \in r.sent
        PROVE  /\ q.slot = t.slot /\ q.stage = "sent" /\ q.rank = 0
               /\ Unheard(q) => OwesList(x)
               /\ Fills(p, q) => ShowsNext(x.todo, 0)
               /\ Unheard(q) \/ Fills(p, q) => \A y \in r.sent : y = q
    <3>1. PICK c \in todo[k].calls : q = Request(u, c)
      BY <2>1
    <3>2. /\ q.slot = t.slot /\ q.stage = "sent" /\ q.rank = 0
          /\ q.what = c.what /\ q.fills = c.fills
      BY <3>1, <2>7
    <3>3. Unheard(q) => (\A d \in todo[k].calls : c = d) /\ Lists(todo, k)
      <4>1. Silent(q) <=> Silent(c)
        BY <3>2 DEF Silent
      <4> QED BY <4>1, <2>3, <1>4, <1>6 DEF Unheard, ListsAfterWrites
    <3>4. Fills(p, q) => (\A d \in todo[k].calls : c = d) /\ ShowsNext(todo, k)
      BY <3>2, <2>3, <1>4, <1>6 DEF Fills, ShowsWhatItReads
    <3>5. (\A d \in todo[k].calls : c = d) => \A y \in r.sent : y = q
      BY <3>1, <2>1
    <3> QED BY <3>2, <3>3, <3>4, <3>5, <2>4
  <2>9. ASSUME NEW i, Lists(todo, i), i = 0 \/ i \in 1..(k - 1) PROVE Relists(r)
    <3>1. PICK j \in DOMAIN todo : /\ j > i /\ todo[j].do = "await"
                                   /\ \E c \in todo[j].calls : c.fills = "list"
      BY <2>9 DEF Lists
    <3>2. CASE j > k
      <4>1. Lists(todo, k)
        BY <3>1, <3>2 DEF Lists
      <4> QED BY <4>1, <2>1, <2>4, <2>5 DEF Relists
    <3>3. CASE j = k
      <4>1. PICK c \in todo[k].calls : c.fills = "list"
        BY <3>1, <3>3
      <4>2. Request(u, c) \in r.sent
        BY <2>1
      <4>3. Request(u, c).stage = "sent" /\ Request(u, c).fills = "list"
        BY <4>1 DEF Request
      <4> QED BY <4>2, <4>3 DEF Relists
    <3>4. CASE j < k
      BY <3>1, <3>4, <1>1, <1>6
    <3> QED BY <3>2, <3>3, <3>4, <1>6
  <2>10. OwesList(t) => Relists(r)
    BY <2>9 DEF OwesList, todo
  <2>11. ~Copies(Pages[p]) => r.view.rows = v.rows \/ Relists(r)
    BY <2>1, <2>9, <1>8
  <2> QED BY <2>1, <2>2, <2>6, <2>8, <2>10, <2>11, <1>5, <1>7 DEF RowsRan
<1> QED BY <1>1, <1>9, <1>10

LEMMA FailedRows ==
  ASSUME NEW p, NEW v, IsView(v), Rowed(v.rows), Copies(Pages[p]) => v.rows = v.store,
         NEW t, NEW r, r = Failed(v, t)
  PROVE  \A s : RowsRan(p, v, s, r)
<1> DEFINE w == Unnamed(v, t)
<1>1. IsView(w) /\ w.rows = v.rows /\ w.store = v.store /\ w.rank = v.rank
  BY DEF Unnamed, IsView, ViewFields
<1>2. r.view = [w EXCEPT !.waiting = @ /\ t.error # "app"] /\ r.task = Idle /\ r.sent = {}
  BY DEF Failed
<1> HIDE DEF w
<1>3. /\ IsView(r.view) /\ r.view.rows = w.rows
      /\ r.view.store = w.store /\ r.view.rank = w.rank
  BY <1>1, <1>2 DEF IsView, ViewFields
<1>4. \A q \in r.sent : FALSE
  BY <1>2
<1> QED BY <1>1, <1>2, <1>3, <1>4 DEF RowsRan

\* A thread is put in a slot, or ends there.
LEMMA PutWork ==
  ASSUME NEW ts, IsTasks(ts), NEW s \in Slots, NEW u, u = Idle \/ IsTask(u),
         NEW after, after = Put(ts, s, u)
  PROVE  /\ s \in Work(after) <=> IsTask(u)
         /\ s \in Work(after) => after[s] = u
         /\ \A z : z # s => (z \in Work(after) <=> z \in Work(ts))
         /\ \A z \in Work(after) : z # s => after[z] = ts[z]
<1> DEFINE put == [ts EXCEPT ![s] = u]
<1>1. /\ put[s] = u /\ \A z \in Slots : z # s => put[z] = ts[z]
      /\ Work(ts) \subseteq Slots /\ Work(put) \subseteq Slots
  BY WorkChanges
<1>1b. u = Idle => Work(put) = Work(ts) \ {s}
  BY WorkChanges
<1>1c. IsTask(u) => Work(put) = Work(ts) \cup {s}
  BY WorkChanges
<1>1a. after = put
  BY DEF Put
<1> HIDE DEF put
<1>2. IsTask(u) => u # Idle
  <2>1. IsTask(u) => u.live
    BY DEF IsTask
  <2>2. ~Idle.live
    BY DEF Idle
  <2> QED BY <2>1, <2>2
<1> QED BY <1>1, <1>1a, <1>1b, <1>1c, <1>2

\* A request is still awaited by the thread that sent it.
LEMMA StillListed ==
  ASSUME NEW p, NEW ts, NEW q, ListedAfter(p, ts, q), NEW after,
         q.slot \in Work(ts) => q.slot \in Work(after) /\ after[q.slot] = ts[q.slot]
  PROVE  ListedAfter(p, after, q)
BY DEF ListedAfter

LEMMA RunSends ==
  ASSUME NEW p, NEW v, NEW ts, IsTasks(ts), NEW s \in Slots, NEW r, RowsRan(p, v, s, r),
         NEW after, after = Put(ts, s, r.task)
  PROVE  /\ \A q \in r.sent : RankOK(q) /\ q.stage = "sent" /\ q.rank = 0 /\ q.slot = s
         /\ \A q \in r.sent : ListedAfter(p, after, q)
         /\ OneAwaited(p, r.sent)
         /\ s \in Work(after) => Lister(p, after[s])
         /\ Relists(r) => Unsettled(r.view, after, r.sent)
<1>1. /\ r.task = Idle \/ (IsTask(r.task) /\ Lister(p, r.task))
      /\ \A q \in r.sent :
           /\ IsTask(r.task) /\ q.slot = s /\ q.stage = "sent" /\ q.rank = 0
           /\ Unheard(q) => OwesList(r.task)
           /\ Fills(p, q) => ShowsNext(r.task.todo, 0)
           /\ Unheard(q) \/ Fills(p, q) => \A x \in r.sent : x = q
  BY DEF RowsRan
<1>2. /\ s \in Work(after) <=> IsTask(r.task)
      /\ s \in Work(after) => after[s] = r.task
  BY <1>1, PutWork
<1>3. IsTask(r.task) => r.task # Idle
  <2>1. IsTask(r.task) => r.task.live
    BY DEF IsTask
  <2>2. ~Idle.live
    BY DEF Idle
  <2> QED BY <2>1, <2>2
<1>4. \A q \in r.sent : RankOK(q)
  BY <1>1 DEF RankOK
<1>5. \A q \in r.sent : ListedAfter(p, after, q)
  BY <1>1, <1>2 DEF ListedAfter
<1>6. OneAwaited(p, r.sent)
  BY <1>1 DEF OneAwaited
<1>7. s \in Work(after) => Lister(p, after[s])
  BY <1>1, <1>2, <1>3
<1>8. Relists(r) => Unsettled(r.view, after, r.sent)
  BY <1>1, <1>2 DEF Relists, Unsettled, Unsettling
<1> QED BY <1>1, <1>4, <1>5, <1>6, <1>7, <1>8

\* From the page v and the threads ts, threads of a handler were launched.
RowsLaunched(p, v, ts, acc) ==
  /\ Rowed(acc.view.rows) /\ acc.view.store = v.store /\ acc.view.rank = v.rank
  /\ Copies(Pages[p]) => acc.view.rows = v.store
  /\ ~Copies(Pages[p]) => acc.view.rows = v.rows \/ Unsettled(acc.view, acc.tasks, acc.sent)
  /\ \A z \in Work(acc.tasks) : z \in Work(ts) \/ Lister(p, acc.tasks[z])
  /\ \A q \in acc.sent :
       RankOK(q) /\ q.stage = "sent" /\ q.rank = 0 /\ ListedAfter(p, acc.tasks, q)
  /\ OneAwaited(p, acc.sent)

LEMMA ThreadLists ==
  ASSUME NEW p \in DOMAIN Pages, p \notin CopiedOnce,
         NEW th \in ThreadsIn(HandlersOf(Pages[p])), NEW s, NEW item, NEW on, NEW shows,
         NEW t, t = Task(s, th, item, on, shows)
  PROVE  /\ IsTask(t) /\ t.slot = s /\ t.todo = th.steps /\ IsSequence(t.todo) /\ Lister(p, t)
         /\ OwesList(t) <=> Lists(th.steps, 0)
<1>1. IsTask(t) /\ t.slot = s /\ t.todo = th.steps /\ t.rescue = th.rescue
  BY DEF Task, IsTask, TaskFields
<1>2. Disciplined(p, th) /\ ShowsWhatIsStored(Pages[p])
  BY PagesAssumption
<1>3. ListsAgain(Pages[p], th.steps, 0) /\ ListsAgain(Pages[p], th.rescue, 0)
  BY <1>2 DEF ShowsWhatIsStored
<1> QED BY <1>1, <1>2, <1>3 DEF Lister, OwesList, Disciplined

LEMMA RowsLaunchedNext ==
  ASSUME NEW p \in DOMAIN Pages, p \notin CopiedOnce, NEW lost, NEW n, NEW still, NEW i,
         NEW v, Rowed(v.store), NEW ts, NEW th \in ThreadsIn(HandlersOf(Pages[p])),
         NEW item, NEW on, NEW shows, NEW slot,
         NEW acc, Launched(p, lost, n, v, ts, still, acc, i), RowsLaunched(p, v, ts, acc),
         NEW next, LaunchedIn(acc, slot, th, item, on, shows, next)
  PROVE  /\ RowsLaunched(p, v, ts, next)
         /\ Lists(th.steps, 0) \/ Unsettled(acc.view, acc.tasks, acc.sent) =>
              Unsettled(next.view, next.tasks, next.sent)
<1> DEFINE t == Task(slot, th, item, on, shows)
           r == Run(acc.view, t)
<1>1. /\ slot \in Slots /\ slot \notin Work(acc.tasks)
      /\ next.view = r.view /\ next.tasks = Put(acc.tasks, slot, r.task)
      /\ \A q : q \in next.sent <=> q \in acc.sent \/ q \in r.sent
  BY DEF LaunchedIn
<1>2. /\ IsView(acc.view) /\ IsTasks(acc.tasks)
      /\ \A q \in acc.sent : q.slot \in Work(acc.tasks)
  <2>1. \A q \in acc.sent : RequestOK(p, n, acc.tasks, q) /\ q.slot \in Slots
    BY DEF Launched
  <2> QED BY <2>1, BrowserAssumption DEF Launched, Sys, RequestOK
<1>3. /\ Rowed(acc.view.rows) /\ acc.view.store = v.store /\ acc.view.rank = v.rank
      /\ Copies(Pages[p]) => acc.view.rows = v.store
      /\ ~Copies(Pages[p]) => acc.view.rows = v.rows \/ Unsettled(acc.view, acc.tasks, acc.sent)
      /\ \A z \in Work(acc.tasks) : z \in Work(ts) \/ Lister(p, acc.tasks[z])
      /\ \A q \in acc.sent :
           RankOK(q) /\ q.stage = "sent" /\ q.rank = 0 /\ ListedAfter(p, acc.tasks, q)
      /\ OneAwaited(p, acc.sent)
  BY DEF RowsLaunched
<1>4. /\ IsTask(t) /\ t.slot = slot /\ IsSequence(t.todo) /\ Lister(p, t)
      /\ OwesList(t) <=> Lists(th.steps, 0)
  BY ThreadLists
<1> HIDE DEF t
<1>5. RowsRan(p, acc.view, slot, r) /\ (Lists(th.steps, 0) => Relists(r))
  BY <1>2, <1>3, <1>4, RunLists
<1> HIDE DEF r
<1>6. /\ IsView(r.view) /\ Rowed(r.view.rows)
      /\ r.view.store = v.store /\ r.view.rank = v.rank
      /\ Copies(Pages[p]) => r.view.rows = v.store
      /\ ~Copies(Pages[p]) => r.view.rows = acc.view.rows \/ Relists(r)
      /\ r.task = Idle \/ IsTask(r.task)
  BY <1>3, <1>5 DEF RowsRan
<1>7. /\ \A q \in r.sent : RankOK(q) /\ q.stage = "sent" /\ q.rank = 0 /\ q.slot = slot
      /\ \A q \in r.sent : ListedAfter(p, next.tasks, q)
      /\ OneAwaited(p, r.sent)
      /\ slot \in Work(next.tasks) => Lister(p, next.tasks[slot])
      /\ Relists(r) => Unsettled(r.view, next.tasks, r.sent)
  BY <1>1, <1>2, <1>5, RunSends
<1>8. /\ \A z : z # slot => (z \in Work(next.tasks) <=> z \in Work(acc.tasks))
      /\ \A z \in Work(next.tasks) : z # slot => next.tasks[z] = acc.tasks[z]
  BY <1>1, <1>2, <1>6, PutWork
<1>9. Unsettled(acc.view, acc.tasks, acc.sent) => Unsettled(next.view, next.tasks, next.sent)
  <2>1. \A q : Unsettling(acc.view, q) => Unsettling(next.view, q)
    BY <1>1, <1>3, <1>6 DEF Unsettling
  <2> QED BY <2>1, <1>1, <1>8 DEF Unsettled
<1>10. Relists(r) => Unsettled(next.view, next.tasks, next.sent)
  BY <1>1, <1>7 DEF Unsettled
<1>11. \A z \in Work(next.tasks) : z \in Work(ts) \/ Lister(p, next.tasks[z])
  BY <1>3, <1>7, <1>8
<1>12. \A q \in next.sent :
         RankOK(q) /\ q.stage = "sent" /\ q.rank = 0 /\ ListedAfter(p, next.tasks, q)
  <2>1. ASSUME NEW q \in acc.sent PROVE ListedAfter(p, next.tasks, q)
    <3>1. q.slot \in Work(next.tasks) /\ next.tasks[q.slot] = acc.tasks[q.slot]
      BY <1>1, <1>2, <1>8
    <3> QED BY <3>1, <1>3, StillListed
  <2> QED BY <2>1, <1>1, <1>3, <1>7
<1>13. OneAwaited(p, next.sent)
  <2>1. \A q \in acc.sent : q.slot # slot
    BY <1>1, <1>2
  <2> QED BY <2>1, <1>1, <1>3, <1>7 DEF OneAwaited
<1> QED BY <1>1, <1>3, <1>5, <1>6, <1>9, <1>10, <1>11, <1>12, <1>13 DEF RowsLaunched

LEMMA StartedRows ==
  ASSUME NEW p \in DOMAIN Pages, p \notin CopiedOnce, NEW lost \in BOOLEAN, NEW n \in Nat,
         NEW v, NEW ts, Sys(p, lost, v, ts, None, 0), Rowed(v.rows), Rowed(v.store),
         Copies(Pages[p]) => v.rows = v.store,
         NEW h \in HandlersOf(Pages[p]), Cardinality(Free(ts)) >= Len(h),
         NEW item, NEW on, NEW shows,
         p \notin Drifting => on = shows \/ \A th \in ThreadsIn({h}) : Callless(th, {"update"}),
         NEW acc, acc = Started(v, ts, h, item, on, shows)
  PROVE  /\ RowsLaunched(p, v, ts, acc)
         /\ (\E th \in ThreadsIn({h}) : Lists(th.steps, 0)) =>
              Unsettled(acc.view, acc.tasks, acc.sent)
<1> DEFINE still == Stable(p) /\ h \in HandlersButPick(Pages[p])
<1>1. LaunchedBy(p, lost, n, v, ts, still, h, item, on, shows, acc)
  BY LaunchedOneByOne
<1> HIDE DEF still
<1>2. PICK f : acc = f[Len(h)] /\ OneByOne(p, lost, n, v, ts, still, h, item, on, shows, f)
  BY <1>1 DEF LaunchedBy
<1>3. /\ f[0] = [view |-> v, tasks |-> ts, sent |-> {}]
      /\ \A i \in 0..Len(h) : Launched(p, lost, n, v, ts, still, f[i], i)
      /\ \A i \in 1..Len(h) : \E slot : LaunchedIn(f[i - 1], slot, h[i], item, on, shows, f[i])
  BY <1>2 DEF OneByOne
<1>4. Len(h) \in Nat /\ DOMAIN h = 1..Len(h)
  BY PagesAssumption DEF IsSequence
<1> DEFINE Waits(a) == Unsettled(a.view, a.tasks, a.sent)
           OK(i) == /\ RowsLaunched(p, v, ts, f[i])
                    /\ \A j \in 1..i : Lists(h[j].steps, 0) => Waits(f[i])
           T == {i \in 0..Len(h) : ~OK(i)}
<1>5. OK(0)
  <2>1. f[0].view = v /\ f[0].tasks = ts /\ \A q \in f[0].sent : FALSE
    BY <1>3
  <2>2. 1..0 = {}
    OBVIOUS
  <2> QED BY <2>1, <2>2 DEF RowsLaunched, OneAwaited
<1>6. ASSUME NEW i \in 1..Len(h), OK(i - 1) PROVE OK(i)
  <2>1. PICK slot : LaunchedIn(f[i - 1], slot, h[i], item, on, shows, f[i])
    BY <1>3
  <2>2. h[i] \in ThreadsIn(HandlersOf(Pages[p]))
    <3>1. i \in DOMAIN h
      BY <1>4
    <3> QED BY <3>1 DEF ThreadsIn
  <2>3. Launched(p, lost, n, v, ts, still, f[i - 1], i - 1)
    BY <1>3, <1>4
  <2>4. RowsLaunched(p, v, ts, f[i - 1])
    BY <1>6
  <2>5. RowsLaunched(p, v, ts, f[i]) /\ (Lists(h[i].steps, 0) \/ Waits(f[i - 1]) => Waits(f[i]))
    <3> HIDE DEF OK
    <3> QED BY <2>1, <2>2, <2>3, <2>4, RowsLaunchedNext
  <2>6. ASSUME NEW j \in 1..i, Lists(h[j].steps, 0) PROVE Waits(f[i])
    <3>1. CASE j = i
      BY <3>1, <2>5, <2>6
    <3>2. CASE j # i
      <4>1. j \in 1..(i - 1)
        BY <3>2
      <4> HIDE DEF Waits
      <4> QED BY <4>1, <2>5, <2>6, <1>6
    <3> QED BY <3>1, <3>2
  <2> QED BY <2>5, <2>6
<1> HIDE DEF OK
<1>7. SUFFICES OK(Len(h))
  <2>1. ASSUME NEW th \in ThreadsIn({h}), Lists(th.steps, 0), OK(Len(h)) PROVE Waits(acc)
    <3>1. PICK j \in DOMAIN h : th = h[j]
      BY DEF ThreadsIn
    <3> QED BY <3>1, <2>1, <1>2, <1>4 DEF OK
  <2> QED BY <2>1, <1>2 DEF OK
<1>8. SUFFICES ASSUME T # {} PROVE FALSE
  <2>1. Len(h) \in 0..Len(h)
    BY <1>4
  <2> QED BY <2>1
<1>9. PICK m \in T : \A y \in T : m <= y
  <2> T \subseteq Nat
    OBVIOUS
  <2> QED BY <1>8, LeastNumber
<1>10. m \in 1..Len(h) /\ m - 1 \in 0..Len(h)
  BY <1>4, <1>5, <1>9
<1>11. m - 1 \notin T
  BY <1>9, <1>10
<1> QED BY <1>6, <1>9, <1>10, <1>11
-----------------------------------------------------------------------------
(* The rows and the clicks.                                                *)

LEMMA RenderedRows ==
  ASSUME NEW v, IsView(v), NEW w, w = Rendered(v)
  PROVE  IsView(w) /\ w.rows = v.rows /\ w.store = v.store /\ w.rank = v.rank
<1> DEFINE f == Mounted(v)
<1>1. w = [v EXCEPT !.form = f]
  BY DEF Rendered
<1> HIDE DEF f
<1> QED BY <1>1 DEF IsView, ViewFields

LEMMA ListFacts ==
  ListInv /\ page \notin CopiedOnce =>
    /\ Rowed(db) /\ Rowed(view.rows) /\ Rowed(view.store) /\ view.rank \in Nat
    /\ Copies(Pages[page]) => view.rows = view.store
    /\ \A z \in Work(tasks) : Lister(page, tasks[z])
    /\ \A q \in reqs : RankOK(q) /\ ListedAfter(page, tasks, q)
    /\ Bounded(reqs) /\ OneAwaited(page, reqs)
    /\ excused \/ Unsettled(view, tasks, reqs) \/ \A i \in Ids : Fresh(db, view, reqs, i)
BY DEF ListInv, ListsOK, RowsOK, QueueOK

\* What is fresh stays so when the answers with rows are the same.
LEMMA SameRows ==
  ASSUME NEW d, NEW v, NEW rs, NEW i, Fresh(d, v, rs, i),
         NEW w, w.rows[i] = v.rows[i], w.rank = v.rank, NEW after,
         \A q : q.rank # 0 => (q \in after <=> q \in rs)
  PROVE  Fresh(d, w, after, i)
<1>1. Coming(w, after, i) = Coming(v, rs, i)
  BY DEF Coming
<1> QED BY <1>1 DEF Fresh

LEMMA TurnRows ==
  ASSUME Inv, ListInv, NEW v, IsView(v), v.store = view.store, v.rank = view.rank,
         Rowed(view.rows) => Rowed(v.rows),
         Rowed(view.rows) /\ ~Has("alias") => v.rows = view.rows, Turn(v),
         excused \/ (Has("alias") /\ v.rows # view.rows) => excused'
  PROVE  ListInv'
<1> SUFFICES ASSUME page \notin CopiedOnce PROVE ListInv'
  BY DEF ListInv, Turn, Tick
<1>1. /\ page' = page /\ db' = db /\ tasks' = tasks /\ reqs' = reqs /\ view' = Rendered(v)
  BY DEF Turn, Tick
<1>2. view'.rows = v.rows /\ view'.store = v.store /\ view'.rank = v.rank
  BY <1>1, RenderedRows
<1>3. Copies(Pages[page]) => v.rows = view.rows
  <2>1. Copies(Pages[page]) => ~Has("alias")
    BY InvFacts, PagesAssumption DEF ShowsWhatIsStored, Has
  <2> QED BY <2>1, ListFacts
<1>4. RowsOK(page, db, view')
  BY <1>2, <1>3, ListFacts DEF RowsOK
<1>5. excused' \/ Unsettled(view', tasks, reqs) \/ \A i \in Ids : Fresh(db, view', reqs, i)
  <2>1. CASE Unsettled(view, tasks, reqs)
    BY <2>1, <1>2 DEF Unsettled, Unsettling
  <2>2. CASE ~excused' /\ \A i \in Ids : Fresh(db, view, reqs, i)
    <3>1. view'.rows = view.rows
      BY <2>2, <1>2, ListFacts
    <3> QED BY <3>1, <2>2, <1>2, SameRows
  <2> QED BY <2>1, <2>2, ListFacts
<1>6. ListsOK(page, db, view', tasks, reqs, excused')
  BY <1>4, <1>5, ListFacts DEF ListsOK, QueueOK
<1> QED BY <1>1, <1>6 DEF ListInv

LEMMA ClickRows ==
  ASSUME Inv, ListInv, NEW h \in HandlersOf(Pages[page]), NEW item, NEW on, NEW shows,
         page \notin Drifting => on = shows \/ \A th \in ThreadsIn({h}) : Callless(th, {"update"}),
         Click(h, item, on, shows)
  PROVE  ListInv'
<1> SUFFICES ASSUME page \notin CopiedOnce PROVE ListInv'
  BY DEF ListInv, Click, Tick
<1> DEFINE p == page
           lost == Lost(page, failures)
           still == Stable(page) /\ h \in HandlersButPick(Pages[page])
<1>1. PICK s : /\ s = Started(view, tasks, h, item, on, shows)
               /\ view' = Rendered(s.view) /\ tasks' = s.tasks /\ reqs' = reqs \cup s.sent
  BY DEF Click
<1>2. /\ page' = page /\ db' = db /\ excused' = excused
      /\ Cardinality(Free(tasks)) >= Len(h)
  BY DEF Click, Tick
<1>3. /\ page \in DOMAIN Pages /\ failures \in Nat /\ lost \in BOOLEAN
      /\ Sys(page, lost, view, tasks, None, 0)
      /\ \A q \in reqs : RequestOK(page, failures, tasks, q)
  BY InvFacts DEF RequestsOK, Lost
<1> HIDE DEF lost
<1>4. /\ Rowed(db) /\ Rowed(view.rows) /\ Rowed(view.store) /\ view.rank \in Nat
      /\ Copies(Pages[page]) => view.rows = view.store
      /\ \A z \in Work(tasks) : Lister(page, tasks[z])
      /\ \A q \in reqs : RankOK(q) /\ ListedAfter(page, tasks, q)
      /\ Bounded(reqs) /\ OneAwaited(page, reqs)
      /\ excused \/ Unsettled(view, tasks, reqs) \/ \A i \in Ids : Fresh(db, view, reqs, i)
  BY ListFacts
<1>5. Launched(page, lost, failures, view, tasks, still, s, Len(h))
  BY <1>1, <1>2, <1>3, StartedLaunched
<1>6. RowsLaunched(page, view, tasks, s)
  BY <1>1, <1>2, <1>3, <1>4, StartedRows
<1> HIDE DEF still, p
<1>7. /\ IsView(s.view)
      /\ \A z \in Work(tasks) : z \in Work(s.tasks) /\ s.tasks[z] = tasks[z]
      /\ \A q \in s.sent : q.slot \in Slots \ Work(tasks)
  BY <1>5 DEF Launched, Sys
<1>8. /\ Rowed(s.view.rows) /\ s.view.store = view.store /\ s.view.rank = view.rank
      /\ Copies(Pages[page]) => s.view.rows = view.store
      /\ ~Copies(Pages[page]) => s.view.rows = view.rows \/ Unsettled(s.view, s.tasks, s.sent)
      /\ \A z \in Work(s.tasks) : z \in Work(tasks) \/ Lister(page, s.tasks[z])
      /\ \A q \in s.sent :
           RankOK(q) /\ q.stage = "sent" /\ q.rank = 0 /\ ListedAfter(page, s.tasks, q)
      /\ OneAwaited(page, s.sent)
  BY <1>6 DEF RowsLaunched
<1>9. view'.rows = s.view.rows /\ view'.store = s.view.store /\ view'.rank = s.view.rank
  BY <1>1, <1>7, RenderedRows
<1>10. RowsOK(page, db, view')
  BY <1>4, <1>8, <1>9 DEF RowsOK
<1>11. \A z \in Work(tasks') : Lister(page, tasks'[z])
  BY <1>1, <1>4, <1>7, <1>8
<1>12. QueueOK(page, tasks', reqs')
  <2>1. \A q \in reqs : ListedAfter(page, s.tasks, q)
    BY <1>4, <1>7, StillListed
  <2>2. Bounded(reqs')
    <3>1. PICK b \in Nat : \A q \in reqs : q.rank <= b
      BY <1>4 DEF Bounded
    <3>2. \A q \in reqs' : q.rank <= b
      BY <3>1, <1>1, <1>8
    <3> QED BY <3>2 DEF Bounded
  <2>3. OneAwaited(page, reqs')
    <3>1. \A q \in reqs : q.slot = None \/ q.slot \in Work(tasks)
      BY <1>3 DEF RequestOK
    <3>2. \A q \in s.sent : q.slot # None /\ q.slot \notin Work(tasks)
      BY <1>7, BrowserAssumption
    <3> QED BY <3>1, <3>2, <1>1, <1>4, <1>8 DEF OneAwaited
  <2> QED BY <2>1, <2>2, <2>3, <1>1, <1>4, <1>8 DEF QueueOK
<1>13. excused \/ Unsettled(view', tasks', reqs') \/ \A i \in Ids : Fresh(db, view', reqs', i)
  <2>1. Unsettled(s.view, s.tasks, s.sent) => Unsettled(view', tasks', reqs')
    BY <1>1, <1>9 DEF Unsettled, Unsettling
  <2>2. Unsettled(view, tasks, reqs) => Unsettled(view', tasks', reqs')
    <3>1. \A q : Unsettling(view, q) => Unsettling(view', q)
      BY <1>8, <1>9 DEF Unsettling
    <3> QED BY <3>1, <1>1, <1>7 DEF Unsettled
  <2>3. CASE view'.rows = view.rows /\ \A i \in Ids : Fresh(db, view, reqs, i)
    <3>1. \A q : q.rank # 0 => (q \in reqs' <=> q \in reqs)
      BY <1>1, <1>8
    <3> QED BY <3>1, <2>3, <1>8, <1>9, SameRows
  <2> QED BY <2>1, <2>2, <2>3, <1>4, <1>8, <1>9
<1>14. ListsOK(page, db, view', tasks', reqs', excused)
  BY <1>10, <1>11, <1>12, <1>13 DEF ListsOK
<1> QED BY <1>2, <1>14 DEF ListInv

LEMMA ShowNewRows == Inv /\ ListInv /\ ShowNew => ListInv'
<1> SUFFICES ASSUME Inv, ListInv, ShowNew PROVE ListInv'
  OBVIOUS
<1> DEFINE v == [view EXCEPT !.isNew = TRUE]
<1>1. IsView(v) /\ v.rows = view.rows /\ v.store = view.store /\ v.rank = view.rank
  BY InvFacts DEF IsView, ViewFields
<1>2. Turn(v) /\ excused' = excused
  BY DEF ShowNew
<1> HIDE DEF v
<1> QED BY <1>1, <1>2, TurnRows

LEMMA CancelRows == Inv /\ ListInv /\ Cancel => ListInv'
<1> SUFFICES ASSUME Inv, ListInv, Cancel PROVE ListInv'
  OBVIOUS
<1> DEFINE v == [view EXCEPT !.isNew = FALSE, !.picked = None]
<1>1. CASE Turn(v) /\ excused' = excused
  <2>1. IsView(v) /\ v.rows = view.rows /\ v.store = view.store /\ v.rank = view.rank
    BY InvFacts DEF IsView, ViewFields
  <2> HIDE DEF v
  <2> QED BY <1>1, <2>1, TurnRows
<1>2. CASE Click(Pages[page].cancel, None, {}, {})
  <2>1. Pages[page].cancel \in HandlersOf(Pages[page])
    BY HandlersOfPage
  <2> QED BY <1>2, <2>1, ClickRows
<1> QED BY <1>1, <1>2 DEF Cancel

LEMMA EditRows == Inv /\ ListInv /\ Edit => ListInv'
<1> SUFFICES ASSUME Inv, ListInv, Edit PROVE ListInv'
  OBVIOUS
<1> DEFINE row == IF Has("alias") /\ view.rows[view.form.on] # 0
                  THEN 2 ELSE view.rows[view.form.on]
           rows == [view.rows EXCEPT ![view.form.on] = row]
           v == [view EXCEPT !.form.val = 2, !.rows = rows]
<1>1. IsView(v) /\ v.rows = rows /\ v.store = view.store /\ v.rank = view.rank
  BY InvFacts DEF IsView, ViewFields
<1>2. Turn(v) /\ excused' = (excused \/ Has("alias"))
  BY DEF Edit
<1> HIDE DEF v
<1>3. Rowed(view.rows) => Rowed(rows) /\ (~Has("alias") => rows = view.rows)
  <2>1. ~Has("alias") => row = view.rows[view.form.on]
    OBVIOUS
  <2> HIDE DEF row
  <2> QED BY <2>1 DEF Rowed
<1> HIDE DEF rows
<1> QED BY <1>1, <1>2, <1>3, TurnRows

LEMMA EditSettingRows == Inv /\ ListInv /\ EditSetting => ListInv'
<1> SUFFICES ASSUME Inv, ListInv, NEW i,
                    Turn([view EXCEPT !.draft = @ \cup {i}, !.typed = @ \cup {i},
                                      !.rows[i] = IF Has("alias") THEN 2 ELSE @]),
                    excused' = (excused \/ Has("alias"))
             PROVE  ListInv'
  BY DEF EditSetting
<1> DEFINE row == IF Has("alias") THEN 2 ELSE view.rows[i]
           rows == [view.rows EXCEPT ![i] = row]
           v == [view EXCEPT !.draft = @ \cup {i}, !.typed = @ \cup {i}, !.rows = rows]
<1>1. IsView(v) /\ v.rows = rows /\ v.store = view.store /\ v.rank = view.rank
  BY InvFacts DEF IsView, ViewFields
<1>2. Turn(v)
  OBVIOUS
<1> HIDE DEF v
<1>3. Rowed(view.rows) => Rowed(rows) /\ (~Has("alias") => rows = view.rows)
  <2>1. ~Has("alias") => row = view.rows[i]
    OBVIOUS
  <2> HIDE DEF row
  <2> QED BY <2>1 DEF Rowed
<1> HIDE DEF rows
<1> QED BY <1>1, <1>2, <1>3, TurnRows

LEMMA SaveRows == Inv /\ ListInv /\ Save => ListInv'
<1>1. Pages[page].update \in HandlersOf(Pages[page])
  BY HandlersOfPage
<1> QED BY <1>1, SaveClicks, ClickRows

LEMMA OtherClicksRows ==
  ASSUME Inv, ListInv, PickRow \/ Add \/ Delete \/ Push
  PROVE  ListInv'
<1> DEFINE p == Pages[page]
<1>1. /\ p.pick \in HandlersOf(p) /\ p.add \in HandlersOf(p) /\ p.remove \in HandlersOf(p)
      /\ \A b \in p.buttons : b.handler \in HandlersOf(p)
  BY HandlersOfPage
<1>2. \/ \E i : Click(p.pick, i, {i}, {i})
      \/ Click(p.add, None, {}, {})
      \/ Click(p.remove, view.picked, {view.form.on}, {view.form.on})
      \/ \E b \in p.buttons : Click(b.handler, view.picked, {}, {})
  BY DEF PickRow, Add, Delete, Push
<1> QED BY <1>1, <1>2, ClickRows
-----------------------------------------------------------------------------
(* The rows and the server.                                                *)

\* The ranks have a greatest.
LEMMA GreatestRank ==
  ASSUME Bounded(reqs), view.rank \in Nat, \A q \in reqs : q.rank \in Nat,
         NEW m, m = (CHOOSE n \in Ranks : \A x \in Ranks : x <= n)
  PROVE  m \in Nat /\ view.rank <= m /\ \A q \in reqs : q.rank <= m
<1> DEFINE T == {b \in Nat : \A x \in Ranks : x <= b}
<1>1. Ranks \subseteq Nat /\ view.rank \in Ranks /\ \A q \in reqs : q.rank \in Ranks
  BY DEF Ranks
<1>2. T # {}
  <2>1. PICK b \in Nat : \A q \in reqs : q.rank <= b
    BY DEF Bounded
  <2>2. b + view.rank \in Nat /\ \A x \in Ranks : x <= b + view.rank
    BY <2>1 DEF Ranks
  <2> QED BY <2>2
<1>3. PICK b \in T : \A y \in T : b <= y
  <2> T \subseteq Nat
    OBVIOUS
  <2> QED BY <1>2, LeastNumber
<1>4. b \in Nat /\ \A x \in Ranks : x <= b
  BY <1>3
<1>5. b \in Ranks
  <2> SUFFICES ASSUME b \notin Ranks PROVE FALSE
    OBVIOUS
  <2>1. b - 1 \in Nat /\ \A x \in Ranks : x <= b - 1
    BY <1>1, <1>4
  <2>2. b - 1 \in T
    BY <2>1
  <2> QED BY <2>2, <1>3, <1>4
<1>6. m \in Ranks /\ \A x \in Ranks : x <= m
  BY <1>4, <1>5
<1> QED BY <1>1, <1>6

LEMMA WrittenRowed ==
  ASSUME Rowed(db), NEW r
  PROVE  /\ Rowed(Written(r))
         /\ r.what \notin Writes => Written(r) = db
         /\ r.what \in {"update", "delete"} =>
              \A i \in Ids : i \notin r.on => Written(r)[i] = db[i]
<1>1. CASE r.what = "create"
  <2> DEFINE new == CHOOSE i \in Spare : db[i] = 0 /\ \A j \in Spare : db[j] = 0 => i <= j
  <2>1. Written(r) = [db EXCEPT ![new] = 1]
    BY <1>1 DEF Written
  <2> HIDE DEF new
  <2>2. Rowed(Written(r))
    BY <2>1 DEF Rowed
  <2> QED BY <1>1, <2>2 DEF Writes
<1>2. CASE r.what \in {"update", "delete"}
  <2>1. \E x : Written(r) = [i \in Ids |-> IF i \in r.on THEN x ELSE db[i]]
    BY <1>2 DEF Written
  <2> QED BY <2>1, <1>2 DEF Rowed, Writes
<1>3. CASE r.what \notin {"create", "update", "delete"}
  BY <1>3 DEF Written, Writes
<1> QED BY <1>1, <1>2, <1>3

\* A row is fresh when the last answer to come has it.
LEMMA LastIsFresh ==
  ASSUME NEW d, NEW v, v.rank \in Nat, NEW rs, \A q \in rs : q.rank \in Nat, NEW i,
         NEW x \in rs, x.rank \in Nat \ {0}, v.rank <= x.rank, Touches(x, i), x.copy[i] = d[i],
         \A q \in rs : q = x \/ q.rank < x.rank
  PROVE  Fresh(d, v, rs, i)
<1>1. x \in Coming(v, rs, i)
  BY DEF Coming
<1>2. ASSUME NEW q \in Coming(v, rs, i), \A y \in Coming(v, rs, i) : y.rank <= q.rank
      PROVE  q = x
  <2>1. x.rank <= q.rank /\ q \in rs
    BY <1>1, <1>2 DEF Coming
  <2> QED BY <2>1
<1> QED BY <1>1, <1>2 DEF Fresh

LEMMA ServeRows ==
  ASSUME Inv, ListInv, NEW r \in reqs, Serve(r)
  PROVE  ListInv'
<1> SUFFICES ASSUME page \notin CopiedOnce PROVE ListInv'
  BY DEF ListInv, Serve
<1>1. /\ Rowed(db) /\ Rowed(view.rows) /\ Rowed(view.store) /\ view.rank \in Nat
      /\ Copies(Pages[page]) => view.rows = view.store
      /\ \A z \in Work(tasks) : Lister(page, tasks[z])
      /\ \A q \in reqs : RankOK(q) /\ ListedAfter(page, tasks, q)
      /\ Bounded(reqs) /\ OneAwaited(page, reqs)
      /\ excused \/ Unsettled(view, tasks, reqs) \/ \A i \in Ids : Fresh(db, view, reqs, i)
  BY ListFacts
<1> DEFINE max == CHOOSE n \in Ranks : \A m \in Ranks : m <= n
           tells(ok) == ok /\ r.fills # "nothing"
           copy(ok) == IF tells(ok) THEN db' ELSE << >>
           rank(ok) == IF tells(ok) THEN 1 + max ELSE 0
<1>2. PICK ok \in BOOLEAN, writes \in BOOLEAN :
        /\ ok => writes
        /\ db' = IF writes THEN Written(r) ELSE db
        /\ reqs' = (reqs \ {r}) \cup {[r EXCEPT !.stage = "served", !.ok = ok,
                                               !.copy = copy(ok), !.rank = rank(ok)]}
  BY DEF Serve
<1>3. /\ page' = page /\ view' = view /\ tasks' = tasks /\ excused' = excused
      /\ r.stage = "sent"
  BY DEF Serve
<1>4. max \in Nat /\ view.rank <= max /\ \A q \in reqs : q.rank <= max /\ q.rank \in Nat
  <2>1. \A q \in reqs : q.rank \in Nat
    BY <1>1 DEF RankOK
  <2> QED BY <2>1, <1>1, GreatestRank
<1> HIDE DEF max
<1>5. /\ tells(ok) => copy(ok) = db' /\ rank(ok) = 1 + max
      /\ ~tells(ok) => rank(ok) = 0
      /\ tells(ok) <=> ok /\ r.fills # "nothing"
  OBVIOUS
<1> HIDE DEF copy, rank, tells
<1> DEFINE x == [r EXCEPT !.stage = "served", !.ok = ok, !.copy = copy(ok), !.rank = rank(ok)]
<1>6. /\ x.slot = r.slot /\ x.what = r.what /\ x.fills = r.fills /\ x.on = r.on
      /\ x.stage = "served" /\ x.ok = ok /\ x.copy = copy(ok) /\ x.rank = rank(ok)
  <2>1. IsRequest(r)
    BY InvFacts DEF RequestsOK, RequestOK
  <2> QED BY <2>1 DEF IsRequest, RequestFields
<1>7. \A q : q \in reqs' <=> (q \in reqs /\ q # r) \/ q = x
  BY <1>2
<1> HIDE DEF x
<1>8. /\ r.rank = 0 /\ x.rank \in Nat
      /\ \A q \in reqs' : q = x \/ (q \in reqs /\ q # r /\ q.rank < 1 + max)
      /\ \A q \in reqs' : q.rank \in Nat
  <2>1. r.rank = 0
    BY <1>1, <1>3 DEF RankOK
  <2>2. x.rank \in Nat
    BY <1>4, <1>5, <1>6
  <2> QED BY <2>1, <2>2, <1>4, <1>7
<1>9. /\ Rowed(db') /\ (r.what \notin Writes => db' = db)
      /\ r.what \in {"update", "delete"} => \A i \in Ids : i \notin r.on => db'[i] = db[i]
  BY <1>1, <1>2, WrittenRowed
<1>10. RowsOK(page, db', view)
  BY <1>1, <1>9 DEF RowsOK
<1>11. QueueOK(page, tasks, reqs')
  <2>1. RankOK(x)
    BY <1>4, <1>5, <1>6, <1>8, <1>9 DEF RankOK
  <2>2. ListedAfter(page, tasks, x)
    <3>1. ListedAfter(page, tasks, r)
      BY <1>1
    <3> QED BY <3>1, <1>6 DEF ListedAfter, Unheard, Fills
  <2>3. Bounded(reqs')
    <3>1. 1 + max \in Nat /\ x.rank <= 1 + max /\ \A q \in reqs : q.rank <= 1 + max
      BY <1>4, <1>5, <1>6
    <3> QED BY <3>1, <1>7 DEF Bounded
  <2>4. OneAwaited(page, reqs')
    <3>1. /\ ~Unheard(x) /\ (Fills(page, x) <=> Fills(page, r))
      BY <1>6 DEF Unheard, Fills
    <3>2. ASSUME NEW q \in reqs', NEW y \in reqs', Unheard(q) \/ Fills(page, q), y.slot = q.slot
          PROVE  y = q
      <4>1. CASE q = x
        BY <4>1, <3>1, <3>2, <1>1, <1>6, <1>7 DEF OneAwaited
      <4>2. CASE q # x
        BY <4>2, <3>2, <1>1, <1>6, <1>7 DEF OneAwaited
      <4> QED BY <4>1, <4>2
    <3> QED BY <3>2 DEF OneAwaited
  <2> QED BY <2>1, <2>2, <2>3, <2>4, <1>1, <1>7 DEF QueueOK
<1>12. excused \/ Unsettled(view, tasks, reqs') \/ \A i \in Ids : Fresh(db', view, reqs', i)
  <2> SUFFICES ASSUME ~excused, ~Unsettled(view, tasks, reqs'), NEW i \in Ids
               PROVE  Fresh(db', view, reqs', i)
    OBVIOUS
  <2>1. \A q \in reqs' : ~Unsettling(view, q)
    BY DEF Unsettled
  <2>2. \A z \in Work(tasks) : ~OwesList(tasks[z])
    BY DEF Unsettled
  <2>3. ok
    BY <2>1, <1>6, <1>7 DEF Unsettling
  <2>4. ~Silent(r)
    BY <2>2, <1>1, <1>3 DEF ListedAfter, Unheard
  <2>5. CASE r.fills # "nothing" /\ Touches(x, i)
    <3>1. tells(ok) /\ x.rank = 1 + max /\ x.copy = db'
      BY <2>3, <2>5, <1>5, <1>6
    <3>2. x \in reqs' /\ x.rank \in Nat \ {0} /\ view.rank <= x.rank
      BY <3>1, <1>1, <1>4, <1>7
    <3>3. \A q \in reqs' : q = x \/ q.rank < x.rank
      BY <3>1, <1>8
    <3> QED BY <3>1, <3>2, <3>3, <2>5, <1>1, <1>8, LastIsFresh
  <2>6. CASE r.fills = "nothing" \/ ~Touches(x, i)
    <3>1. r.fills # "list"
      BY <2>6, <1>6 DEF Touches
    <3>2. Fresh(db, view, reqs, i)
      <4>1. ~Unsettling(view, r)
        BY <3>1, <1>3, <1>8 DEF Unsettling
      <4>2. ~Unsettled(view, tasks, reqs)
        BY <4>1, <2>1, <2>2, <1>7 DEF Unsettled
      <4> QED BY <4>2, <1>1
    <3>3. db'[i] = db[i]
      <4>1. r.what \notin Writes \/ (r.fills = "row" /\ r.what \in {"update", "delete"})
        BY <2>4, <3>1 DEF Silent, Writes
      <4> QED BY <4>1, <2>6, <1>6, <1>9 DEF Touches
    <3>4. Coming(view, reqs', i) = Coming(view, reqs, i)
      <4>1. x \notin Coming(view, reqs', i) /\ r \notin Coming(view, reqs, i)
        BY <2>6, <1>5, <1>6, <1>8 DEF Coming
      <4> QED BY <4>1, <1>7 DEF Coming
    <3> QED BY <3>2, <3>3, <3>4 DEF Fresh
  <2> QED BY <2>5, <2>6
<1>13. ListsOK(page, db', view, tasks, reqs', excused)
  BY <1>1, <1>10, <1>11, <1>12 DEF ListsOK
<1> QED BY <1>3, <1>13 DEF ListInv
-----------------------------------------------------------------------------
(* The rows and the answers.                                               *)

LEMMA FilledRows ==
  ASSUME NEW rows, Rowed(rows), NEW r, r.fills # "nothing" => Rowed(r.copy),
         NEW filled, filled = Filled(rows, r)
  PROVE  /\ Rowed(filled)
         /\ r.fills = "nothing" => filled = rows
         /\ \A i \in Ids : filled[i] = IF Touches(r, i) THEN r.copy[i] ELSE rows[i]
<1>1. CASE r.fills = "list"
  BY <1>1 DEF Filled, Touches
<1>2. CASE r.fills = "row"
  <2>1. filled = [i \in Ids |-> IF i \in r.on THEN r.copy[i] ELSE rows[i]]
    BY <1>2 DEF Filled
  <2> QED BY <2>1, <1>2 DEF Rowed, Touches
<1>3. CASE r.fills \notin {"list", "row"}
  BY <1>3 DEF Filled, Touches
<1> QED BY <1>1, <1>2, <1>3

LEMMA KeptRows ==
  ASSUME Inv, NEW r \in reqs, NEW k, k = Kept(r)
  PROVE  /\ IsView(k)
         /\ ~r.ok => k = view
         /\ r.ok =>
              /\ k.rows = IF Copies(Pages[page]) THEN view.rows ELSE Filled(view.rows, r)
              /\ k.store = IF Copies(Pages[page]) THEN Filled(view.store, r) ELSE view.store
              /\ k.rank = IF r.fills # "nothing" THEN r.rank ELSE view.rank
<1>1. CASE ~r.ok
  BY <1>1, InvFacts DEF Kept
<1>2. CASE r.ok
  <2> DEFINE fills == r.fills # "nothing"
             rows == IF Has("copy") THEN view.rows ELSE Filled(view.rows, r)
             store == IF Has("copy") THEN Filled(view.store, r) ELSE view.store
             rank == IF fills THEN r.rank ELSE view.rank
             a == Assigned(r, fills)
  <2>1. /\ IsView(a) /\ a.rows = rows /\ a.store = store /\ a.rank = rank
    <3> DEFINE typed == IF fills THEN {} ELSE view.typed
               draft == IF fills /\ Has("alias") THEN {} ELSE view.draft
               picked == IF r.what = "details" THEN CHOOSE i \in r.on : TRUE ELSE view.picked
               used == IF r.what = "related" THEN r.on \cap Busy ELSE view.used
    <3>1. a = [view EXCEPT !.rows = rows, !.store = store, !.rank = rank, !.typed = typed,
                       !.draft = draft, !.used = used, !.picked = picked]
      BY InvFacts DEF Assigned, IsView, ViewFields
    <3> HIDE DEF typed, draft, picked, rows, store, used, rank, a
    <3> QED BY <3>1, InvFacts DEF IsView, ViewFields
  <2>2. k = Rendered(a)
    BY <1>2 DEF Kept
  <2>3. Has("copy") <=> Copies(Pages[page])
    BY DEF Has, Copies
  <2> HIDE DEF a
  <2>4. IsView(k) /\ k.rows = a.rows /\ k.store = a.store /\ k.rank = a.rank
    BY <2>1, <2>2, RenderedRows
  <2> QED BY <1>2, <2>1, <2>3, <2>4
<1> QED BY <1>1, <1>2

\* What the thread that waited for r does, n; k is what the page shows of r,
\* ts and after the threads before and after.
RowsAnswered(p, k, ts, r, n, after) ==
  /\ IsView(n.view) /\ Rowed(n.view.rows) /\ n.view.store = k.store /\ n.view.rank = k.rank
  /\ Copies(Pages[p]) => n.view.rows = k.store
  /\ ~Copies(Pages[p]) => n.view.rows = k.rows \/ Unsettled(n.view, after, n.sent)
  /\ \A z \in Work(after) : Lister(p, after[z])
  /\ \A z \in Work(ts) : z # r.slot => z \in Work(after) /\ after[z] = ts[z]
  /\ \A q \in n.sent :
       /\ RankOK(q) /\ q.rank = 0 /\ ListedAfter(p, after, q)
       /\ q.slot = r.slot /\ \A y \in Left(r) : y.slot # r.slot
  /\ OneAwaited(p, n.sent)
  /\ r.ok /\ (\E z \in Work(ts) : OwesList(ts[z])) => Unsettled(n.view, after, n.sent)

LEMMA NobodyAnswers ==
  ASSUME Inv, ListInv, page \notin CopiedOnce, NEW r \in reqs,
         r.slot = None \/ (\E q \in reqs \ {r} : q.slot = r.slot),
         NEW k, k = Kept(r), Rowed(k.rows),
         ~r.ok \/ r.fills = "nothing" => (Copies(Pages[page]) => k.rows = k.store),
         NEW n, n.view = k, n.sent = {}
  PROVE  RowsAnswered(page, k, tasks, r, n, tasks)
<1>1. IsView(k)
  BY KeptRows
<1>2. \A q \in n.sent : FALSE
  OBVIOUS
<1>3. ~Fills(page, r)
  <2>1. None \notin Work(tasks)
    BY BrowserAssumption DEF Work
  <2> QED BY <2>1, ListFacts DEF ListedAfter, OneAwaited
<1>4. Copies(Pages[page]) => k.rows = k.store
  BY <1>3 DEF Fills
<1>5. (\E z \in Work(tasks) : OwesList(tasks[z])) => Unsettled(n.view, tasks, n.sent)
  BY DEF Unsettled
<1> QED BY <1>1, <1>2, <1>4, <1>5, ListFacts DEF RowsAnswered, OneAwaited

LEMMA RunAnswers ==
  ASSUME Inv, ListInv, page \notin CopiedOnce, NEW r \in reqs, NEW s \in Work(tasks),
         s = r.slot, \A y \in Left(r) : y.slot # s,
         NEW k, NEW n, RowsRan(page, k, s, n),
         r.ok /\ OwesList(tasks[s]) => Relists(n),
         NEW after, after = Put(tasks, s, n.task)
  PROVE  RowsAnswered(page, k, tasks, r, n, after)
<1>1. IsTasks(tasks) /\ s \in Slots
  BY InvFacts DEF Sys, Work
<1>2. /\ IsView(n.view) /\ Rowed(n.view.rows) /\ n.view.store = k.store /\ n.view.rank = k.rank
      /\ Copies(Pages[page]) => n.view.rows = k.store
      /\ ~Copies(Pages[page]) => n.view.rows = k.rows \/ Relists(n)
      /\ n.task = Idle \/ IsTask(n.task)
  BY DEF RowsRan
<1>3. /\ \A q \in n.sent : RankOK(q) /\ q.stage = "sent" /\ q.rank = 0 /\ q.slot = s
      /\ \A q \in n.sent : ListedAfter(page, after, q)
      /\ OneAwaited(page, n.sent)
      /\ s \in Work(after) => Lister(page, after[s])
      /\ Relists(n) => Unsettled(n.view, after, n.sent)
  <2>1. \A q \in n.sent : RankOK(q) /\ q.stage = "sent" /\ q.rank = 0 /\ q.slot = s
    BY <1>1, RunSends
  <2>2. \A q \in n.sent : ListedAfter(page, after, q)
    BY <1>1, RunSends
  <2>3. OneAwaited(page, n.sent)
    BY <1>1, RunSends
  <2>4. s \in Work(after) => Lister(page, after[s])
    BY <1>1, RunSends
  <2>5. Relists(n) => Unsettled(n.view, after, n.sent)
    BY <1>1, RunSends
  <2> QED BY <2>1, <2>2, <2>3, <2>4, <2>5
<1>4. /\ \A z : z # s => (z \in Work(after) <=> z \in Work(tasks))
      /\ \A z \in Work(after) : z # s => after[z] = tasks[z]
  BY <1>1, <1>2, PutWork
<1>5. \A z \in Work(after) : Lister(page, after[z])
  BY <1>3, <1>4, ListFacts
<1>6. r.ok /\ (\E z \in Work(tasks) : OwesList(tasks[z])) => Unsettled(n.view, after, n.sent)
  <2> SUFFICES ASSUME r.ok, NEW z \in Work(tasks), OwesList(tasks[z])
               PROVE  Unsettled(n.view, after, n.sent)
    OBVIOUS
  <2>1. CASE z = s
    BY <2>1, <1>3
  <2>2. CASE z # s
    BY <2>2, <1>4 DEF Unsettled
  <2> QED BY <2>1, <2>2
<1> QED BY <1>2, <1>3, <1>4, <1>5, <1>6 DEF RowsAnswered

LEMMA ThreadAnswers ==
  ASSUME Inv, ListInv, page \notin CopiedOnce, NEW r \in reqs,
         NEW s, s = r.slot, s # None, ~r.ok \/ ~ \E q \in reqs \ {r} : q.slot = r.slot,
         NEW k, k = Kept(r), Rowed(k.rows), Rowed(k.store),
         ~r.ok \/ r.fills = "nothing" => (Copies(Pages[page]) => k.rows = k.store),
         Copies(Pages[page]) => k.rows = view.rows,
         NEW n, n = Resumed(k, tasks[s], r),
         NEW after, after = Put(tasks, s, n.task)
  PROVE  RowsAnswered(page, k, tasks, r, n, after)
<1> DEFINE t == tasks[s]
           lost == Lost(page, failures)
<1>1. s \in Work(tasks) /\ Sys(page, lost, view, tasks, None, 0)
  BY InvFacts DEF RequestsOK, RequestOK
<1> HIDE DEF lost
<1>2. TaskOK(page, t, s, 0)
  BY <1>1, WaitingTask
<1>3. IsTask(t) /\ t.slot = s /\ IsSequence(t.todo) /\ IsSequence(t.rescue) /\ IsView(k)
  BY <1>2, KeptRows DEF TaskOK
<1>4. Lister(page, t) /\ ListedAfter(page, tasks, r)
  BY <1>1, ListFacts
<1>5. \A y \in Left(r) : y.slot # s
  BY LeftOK
<1> HIDE DEF t
<1>6. RowsRan(page, k, s, n) /\ (r.ok /\ OwesList(t) => Relists(n))
  <2>1. CASE ~r.ok /\ t.rescue = << >>
    <3>1. n = Failed(k, t)
      BY <2>1 DEF Resumed, t
    <3> QED BY <3>1, <2>1, <1>3, FailedRows
  <2>2. CASE ~r.ok /\ t.rescue # << >>
    <3> DEFINE u == [t EXCEPT !.todo = t.rescue, !.rescue = << >>]
    <3>1. n = Run(k, u)
      BY <2>2 DEF Resumed, t
    <3>2. IsTask(u) /\ u.todo = t.rescue /\ u.rescue = << >> /\ u.slot = s
      BY <1>3 DEF IsTask, TaskFields
    <3> HIDE DEF u
    <3>3. Lister(page, u)
      BY <3>2, <1>4, NothingLists DEF Lister
    <3>4. RowsRan(page, k, u.slot, n)
      BY <3>1, <3>2, <3>3, <2>2, <1>3, RunLists
    <3> QED BY <3>2, <3>4, <2>2
  <2>3. CASE r.ok
    <3>1. n = Run(k, t)
      BY <2>3 DEF Resumed, t
    <3>2. Copies(Pages[page]) => k.rows = k.store \/ ShowsNext(t.todo, 0)
      BY <1>4 DEF ListedAfter, Fills, t
    <3>3. RowsRan(page, k, t.slot, n) /\ (OwesList(t) => Relists(n))
      BY <3>1, <3>2, <1>3, <1>4, RunLists
    <3> QED BY <3>3, <1>3
  <2> QED BY <2>1, <2>2, <2>3
<1> QED BY <1>1, <1>5, <1>6, RunAnswers DEF t

LEMMA LeftRows ==
  ASSUME Inv, ListInv, page \notin CopiedOnce, NEW r \in reqs
  PROVE  /\ \A q \in Left(r) :
              /\ RankOK(q) /\ \E x \in reqs : x # r /\ x.rank = q.rank
              /\ Unheard(q) \/ Fills(page, q) => q \in reqs /\ q # r /\ q.slot # r.slot
              /\ q.slot = None \/ q \in reqs
         /\ r.ok => Left(r) = reqs \ {r}
<1>1. (\A q \in reqs : RankOK(q)) /\ OneAwaited(page, reqs)
  BY ListFacts
<1>2. ASSUME NEW q \in Left(r)
      PROVE  /\ RankOK(q) /\ \E x \in reqs : x # r /\ x.rank = q.rank
             /\ Unheard(q) \/ Fills(page, q) => q \in reqs /\ q # r /\ q.slot # r.slot
             /\ q.slot = None \/ q \in reqs
  <2>1. CASE q \in reqs /\ q # r
    BY <2>1, <1>1 DEF OneAwaited
  <2>2. ASSUME NEW x \in reqs, x # r, x.slot = r.slot, q.slot = None,
               q.what = x.what, q.fills = x.fills, q.ok = x.ok,
               q.stage = x.stage, q.copy = x.copy, q.rank = x.rank
        PROVE  RankOK(q) /\ ~Unheard(q) /\ ~Fills(page, q)
    <3>1. ~Unheard(x) /\ ~Fills(page, x)
      BY <2>2, <1>1 DEF OneAwaited
    <3>2. RankOK(x)
      BY <1>1
    <3> QED BY <2>2, <3>1, <3>2 DEF RankOK, Unheard, Silent, Fills
  <2> QED BY <2>1, <2>2, LeftFields
<1>3. r.ok => Left(r) = reqs \ {r}
  BY DEF Left
<1> QED BY <1>2, <1>3

\* What an answer does to the page, and the threads that are left.
LEMMA AnswerRan ==
  ASSUME Inv, ListInv, page \notin CopiedOnce, NEW r \in reqs, Answer(r)
  PROVE  \E k, n :
           /\ k = Kept(r) /\ RowsAnswered(page, k, tasks, r, n, tasks')
           /\ Rowed(k.store) /\ reqs' = Left(r) \cup n.sent
           /\ view'.rows = n.view.rows /\ view'.store = n.view.store
           /\ view'.rank = IF \E q \in reqs' : q.rank # 0 THEN k.rank ELSE 0
<1> DEFINE k == Kept(r)
<1>1. PICK n : /\ n = IF r.slot = None THEN [view |-> k, sent |-> {}]
                      ELSE Resumed(k, tasks[r.slot], r)
               /\ reqs' = Left(r) \cup n.sent
               /\ view' = Rendered([n.view EXCEPT !.rank = IF \E q \in reqs' : q.rank # 0 THEN @ ELSE 0])
               /\ tasks' = IF r.slot = None THEN tasks ELSE [tasks EXCEPT ![r.slot] = n.task]
  BY DEF Answer
<1>2. /\ Rowed(view.rows) /\ Rowed(view.store) /\ RankOK(r) /\ r.stage = "served"
      /\ Copies(Pages[page]) => view.rows = view.store
  BY ListFacts DEF Answer
<1>3. /\ IsView(k)
      /\ ~r.ok => k = view
      /\ r.ok =>
           /\ k.rows = IF Copies(Pages[page]) THEN view.rows ELSE Filled(view.rows, r)
           /\ k.store = IF Copies(Pages[page]) THEN Filled(view.store, r) ELSE view.store
  BY KeptRows
<1> HIDE DEF k
<1>4. r.ok /\ r.fills # "nothing" => Rowed(r.copy)
  BY <1>2 DEF RankOK
<1>5. r.ok => /\ Rowed(Filled(view.rows, r)) /\ Rowed(Filled(view.store, r))
              /\ r.fills = "nothing" =>
                   Filled(view.rows, r) = view.rows /\ Filled(view.store, r) = view.store
  BY <1>2, <1>4, FilledRows
<1>6. /\ Rowed(k.rows) /\ Rowed(k.store)
      /\ ~r.ok \/ r.fills = "nothing" => (Copies(Pages[page]) => k.rows = k.store)
      /\ Copies(Pages[page]) => k.rows = view.rows
  BY <1>2, <1>3, <1>5
<1>7. RowsAnswered(page, k, tasks, r, n, tasks')
  <2>1. CASE r.slot = None
    <3>1. n.view = k /\ n.sent = {} /\ tasks' = tasks
      BY <2>1, <1>1
    <3> QED BY <3>1, <2>1, <1>6, NobodyAnswers DEF k
  <2>2. CASE r.slot # None /\ r.ok /\ \E q \in reqs \ {r} : q.slot = r.slot
    <3>1. n = [view |-> k, task |-> tasks[r.slot], sent |-> {}]
      BY <2>2, <1>1 DEF Resumed
    <3>2. [tasks EXCEPT ![r.slot] = tasks[r.slot]] = tasks
      BY InvFacts DEF Sys, IsTasks
    <3>3. n.view = k /\ n.sent = {} /\ tasks' = tasks
      BY <3>1, <3>2, <2>2, <1>1
    <3> QED BY <3>3, <2>2, <1>6, NobodyAnswers DEF k
  <2>3. CASE r.slot # None /\ (~r.ok \/ ~ \E q \in reqs \ {r} : q.slot = r.slot)
    <3> DEFINE after == Put(tasks, r.slot, n.task)
    <3>1. n = Resumed(k, tasks[r.slot], r) /\ tasks' = after
      BY <2>3, <1>1 DEF Put
    <3> HIDE DEF after
    <3>2. RowsAnswered(page, k, tasks, r, n, after)
      BY <3>1, <2>3, <1>6, ThreadAnswers DEF k, after
    <3> QED BY <3>1, <3>2
  <2> QED BY <2>1, <2>2, <2>3
<1>8. /\ view'.rows = n.view.rows /\ view'.store = n.view.store
      /\ view'.rank = IF \E q \in reqs' : q.rank # 0 THEN k.rank ELSE 0
  <2> DEFINE rank == IF \E q \in reqs' : q.rank # 0 THEN n.view.rank ELSE 0
             v == [n.view EXCEPT !.rank = rank]
  <2>1. view' = Rendered(v)
    BY <1>1
  <2>2. IsView(n.view) /\ n.view.rank = k.rank
    BY <1>7 DEF RowsAnswered
  <2>3. rank = IF \E q \in reqs' : q.rank # 0 THEN k.rank ELSE 0
    BY <2>2
  <2> HIDE DEF rank
  <2>4. IsView(v) /\ v.rows = n.view.rows /\ v.store = n.view.store /\ v.rank = rank
    BY <2>2 DEF IsView, ViewFields
  <2> HIDE DEF v
  <2> QED BY <2>1, <2>3, <2>4, RenderedRows
<1> QED BY <1>1, <1>6, <1>7, <1>8 DEF k

\* The rows are fresh after an answer that explains nothing.
LEMMA AnswerFresh ==
  ASSUME Inv, ListInv, page \notin CopiedOnce, NEW r \in reqs, Answer(r),
         ~excused', ~Unsettled(view', tasks', reqs'), NEW i \in Ids
  PROVE  Fresh(db, view', reqs', i)
<1>1. PICK k, n :
        /\ k = Kept(r) /\ RowsAnswered(page, k, tasks, r, n, tasks')
        /\ reqs' = Left(r) \cup n.sent /\ view'.rows = n.view.rows
        /\ view'.rank = IF \E q \in reqs' : q.rank # 0 THEN k.rank ELSE 0
  BY AnswerRan
<1>2. /\ Rowed(view.rows) /\ Rowed(view.store) /\ view.rank \in Nat
      /\ Copies(Pages[page]) => view.rows = view.store
      /\ \A q \in reqs : RankOK(q)
      /\ excused \/ Unsettled(view, tasks, reqs) \/ Fresh(db, view, reqs, i)
  BY ListFacts
<1>3. /\ Copies(Pages[page]) => n.view.rows = k.store
      /\ ~Copies(Pages[page]) => n.view.rows = k.rows \/ Unsettled(n.view, tasks', n.sent)
      /\ \A z \in Work(tasks) : z # r.slot => z \in Work(tasks') /\ tasks'[z] = tasks[z]
      /\ \A q \in n.sent : q.rank = 0
      /\ r.ok /\ (\E z \in Work(tasks) : OwesList(tasks[z])) => Unsettled(n.view, tasks', n.sent)
  BY <1>1 DEF RowsAnswered
<1>4. r.ok
  BY DEF Answer
<1>5. reqs' = (reqs \ {r}) \cup n.sent
  BY <1>1, <1>4, LeftRows
<1>6. CASE view'.rows = db /\ \A q \in reqs \ {r} : q.rank = 0
  <2>1. Coming(view', reqs', i) = {}
    BY <1>3, <1>5, <1>6 DEF Coming
  <2> QED BY <2>1, <1>6 DEF Fresh
<1>7. CASE ~excused /\ ~(r.fills # "nothing" /\ r.rank < view.rank)
  <2>1. /\ r.stage = "served" /\ r.rank \in Nat
        /\ r.fills # "nothing" => r.rank # 0 /\ Rowed(r.copy)
        /\ r.fills = "nothing" => r.rank = 0
    BY <1>2, <1>4 DEF RankOK, Answer
  <2>2. /\ k.rows = IF Copies(Pages[page]) THEN view.rows ELSE Filled(view.rows, r)
        /\ k.store = IF Copies(Pages[page]) THEN Filled(view.store, r) ELSE view.store
        /\ k.rank = IF r.fills # "nothing" THEN r.rank ELSE view.rank
    BY <1>1, <1>4, KeptRows
  <2>3. ~Unsettled(n.view, tasks', n.sent)
    BY <1>3, <1>5 DEF Unsettled, Unsettling
  <2>4. view'.rows = Filled(view.rows, r)
    BY <2>2, <2>3, <1>1, <1>2, <1>3
  <2>5. \A q \in reqs' : q.rank # 0 => q \in reqs /\ q # r /\ view'.rank = k.rank
    BY <1>1, <1>3, <1>5
  <2>6. k.rank \in Nat /\ view.rank <= k.rank
    BY <2>1, <2>2, <1>2, <1>7
  <2>7. ~Unsettled(view, tasks, reqs)
    <3>1. ~Unsettling(view, r)
      BY <2>1, <1>4, <1>7 DEF Unsettling
    <3>2. ASSUME NEW q \in reqs, q # r PROVE ~Unsettling(view, q)
      <4>1. q \in reqs' /\ ~Unsettling(view', q) /\ q.rank \in Nat
        BY <3>2, <1>2, <1>5 DEF Unsettled, RankOK
      <4>2. q.rank # 0 => view'.rank = k.rank
        BY <4>1, <2>5
      <4> QED BY <4>1, <4>2, <2>6, <1>2 DEF Unsettling
    <3>3. \A z \in Work(tasks) : ~OwesList(tasks[z])
      BY <2>3, <1>3, <1>4
    <3> QED BY <3>1, <3>2, <3>3 DEF Unsettled
  <2>8. Fresh(db, view, reqs, i)
    BY <2>7, <1>2, <1>7
  <2>9. view'.rows[i] = IF Touches(r, i) THEN r.copy[i] ELSE view.rows[i]
    BY <2>1, <2>4, <1>2, FilledRows
  <2>10. CASE r.fills = "nothing"
    <3>1. ~Touches(r, i) /\ k.rank = view.rank /\ r.rank = 0
      BY <2>1, <2>2, <2>10 DEF Touches
    <3>2. Coming(view', reqs', i) = Coming(view, reqs, i)
      BY <3>1, <2>5, <1>5 DEF Coming
    <3> QED BY <3>1, <3>2, <2>8, <2>9 DEF Fresh
  <2>11. CASE r.fills # "nothing"
    <3>1. k.rank = r.rank /\ r.rank # 0 /\ view.rank <= r.rank
      BY <2>1, <2>2, <2>6, <2>11
    <3>2. ASSUME NEW q \in Coming(view', reqs', i)
          PROVE  q \in Coming(view, reqs, i) /\ q.rank \in Nat /\ r.rank <= q.rank
      <4>1. q \in reqs' /\ q.rank # 0 /\ q.rank >= view'.rank /\ Touches(q, i)
        BY <3>2 DEF Coming
      <4>2. q \in reqs /\ view'.rank = r.rank /\ q.rank \in Nat
        BY <4>1, <3>1, <2>5, <1>2 DEF RankOK
      <4>3. r.rank <= q.rank /\ view.rank <= q.rank
        BY <4>1, <4>2, <3>1, <2>1, <1>2
      <4> QED BY <4>1, <4>2, <4>3 DEF Coming
    <3>3. ASSUME NEW q \in Coming(view, reqs, i), q # r PROVE q \in Coming(view', reqs', i)
      <4>1. q \in reqs /\ q \in reqs' /\ q.rank # 0 /\ Touches(q, i) /\ q.rank \in Nat
        BY <3>3, <1>2, <1>5 DEF Coming, RankOK
      <4>2. view'.rank = r.rank /\ ~Unsettling(view', q)
        BY <4>1, <3>1, <2>5 DEF Unsettled
      <4>3. q.rank >= view'.rank
        BY <4>1, <4>2, <2>1 DEF Unsettling
      <4> QED BY <4>1, <4>3 DEF Coming
    <3>4. r \in Coming(view, reqs, i) <=> Touches(r, i)
      BY <3>1, <2>1, <1>2 DEF Coming
    <3>5. Coming(view', reqs', i) = {} => view'.rows[i] = db[i]
      <4> SUFFICES ASSUME Coming(view', reqs', i) = {} PROVE view'.rows[i] = db[i]
        OBVIOUS
      <4>1. CASE Touches(r, i)
        <5>1. r \in Coming(view, reqs, i) /\ \A x \in Coming(view, reqs, i) : x.rank <= r.rank
          BY <4>1, <3>3, <3>4, <2>1
        <5> QED BY <5>1, <4>1, <2>8, <2>9 DEF Fresh
      <4>2. CASE ~Touches(r, i)
        <5>1. Coming(view, reqs, i) = {}
          BY <4>2, <3>3, <3>4
        <5> QED BY <5>1, <4>2, <2>8, <2>9 DEF Fresh
      <4> QED BY <4>1, <4>2
    <3>6. ASSUME NEW q \in Coming(view', reqs', i),
                 \A x \in Coming(view', reqs', i) : x.rank <= q.rank
          PROVE  q.copy[i] = db[i]
      <4>1. q \in Coming(view, reqs, i)
        BY <3>2, <3>6
      <4>2. \A x \in Coming(view, reqs, i) : x.rank <= q.rank
        BY <3>2, <3>3, <3>6
      <4> QED BY <4>1, <4>2, <2>8 DEF Fresh
    <3> QED BY <3>5, <3>6 DEF Fresh
  <2> QED BY <2>10, <2>11
<1> QED BY <1>4, <1>6, <1>7 DEF Answer

LEMMA AnswerRows ==
  ASSUME Inv, ListInv, NEW r \in reqs, Answer(r)
  PROVE  ListInv'
<1> SUFFICES ASSUME page \notin CopiedOnce PROVE ListInv'
  BY DEF ListInv, Answer
<1>1. PICK k, n :
        /\ k = Kept(r) /\ RowsAnswered(page, k, tasks, r, n, tasks')
        /\ Rowed(k.store) /\ reqs' = Left(r) \cup n.sent
        /\ view'.rows = n.view.rows /\ view'.store = n.view.store
        /\ view'.rank = IF \E q \in reqs' : q.rank # 0 THEN k.rank ELSE 0
  BY AnswerRan
<1>2. /\ Rowed(db) /\ view.rank \in Nat /\ RankOK(r)
      /\ \A q \in reqs : RankOK(q) /\ ListedAfter(page, tasks, q)
      /\ Bounded(reqs) /\ OneAwaited(page, reqs)
  BY ListFacts
<1>3. /\ Rowed(n.view.rows) /\ n.view.store = k.store
      /\ Copies(Pages[page]) => n.view.rows = k.store
      /\ \A z \in Work(tasks') : Lister(page, tasks'[z])
      /\ \A z \in Work(tasks) : z # r.slot => z \in Work(tasks') /\ tasks'[z] = tasks[z]
      /\ \A q \in n.sent :
           /\ RankOK(q) /\ q.rank = 0 /\ ListedAfter(page, tasks', q)
           /\ q.slot = r.slot /\ \A y \in Left(r) : y.slot # r.slot
      /\ OneAwaited(page, n.sent)
  BY <1>1 DEF RowsAnswered
<1>4. \A q \in Left(r) :
        /\ RankOK(q) /\ \E x \in reqs : x # r /\ x.rank = q.rank
        /\ Unheard(q) \/ Fills(page, q) => q \in reqs /\ q # r /\ q.slot # r.slot
        /\ q.slot = None \/ q \in reqs
  BY LeftRows
<1>5. RowsOK(page, db, view')
  <2>1. k.rank \in Nat
    <3>1. k.rank = view.rank \/ k.rank = r.rank
      BY <1>1, KeptRows
    <3> QED BY <3>1, <1>2 DEF RankOK
  <2> QED BY <2>1, <1>1, <1>2, <1>3 DEF RowsOK
<1>6. QueueOK(page, tasks', reqs')
  <2>1. ASSUME NEW q \in Left(r) PROVE ListedAfter(page, tasks', q)
    <3>1. CASE Unheard(q) \/ Fills(page, q)
      <4>1. ListedAfter(page, tasks, q) /\ q.slot # r.slot
        BY <3>1, <1>2, <1>4
      <4> QED BY <4>1, <1>3, StillListed
    <3>2. CASE ~(Unheard(q) \/ Fills(page, q))
      BY <3>2 DEF ListedAfter
    <3> QED BY <3>1, <3>2
  <2>2. Bounded(reqs')
    <3>1. PICK b \in Nat : \A q \in reqs : q.rank <= b
      BY <1>2 DEF Bounded
    <3>2. \A q \in reqs' : q.rank <= b
      BY <3>1, <1>1, <1>3, <1>4
    <3> QED BY <3>2 DEF Bounded
  <2>3. OneAwaited(page, reqs')
    <3> SUFFICES ASSUME NEW q \in reqs', NEW x \in reqs',
                        Unheard(q) \/ Fills(page, q), x.slot = q.slot
                 PROVE  x = q
      BY DEF OneAwaited
    <3>1. CASE q \in Left(r)
      <4>1. q \in reqs /\ q.slot # r.slot
        BY <3>1, <1>4
      <4>2. q.slot # None
        <5>1. q.slot \in Slots
          BY <4>1, <1>2 DEF ListedAfter, Work
        <5> QED BY <5>1, BrowserAssumption
      <4>3. x \in Left(r)
        BY <4>1, <1>1, <1>3
      <4>4. x \in reqs
        BY <4>2, <4>3, <1>4
      <4> QED BY <4>1, <4>4, <1>2 DEF OneAwaited
    <3>2. CASE q \in n.sent
      BY <3>2, <1>1, <1>3 DEF OneAwaited
    <3> QED BY <3>1, <3>2, <1>1
  <2> QED BY <2>1, <2>2, <2>3, <1>1, <1>3, <1>4 DEF QueueOK
<1>7. excused' \/ Unsettled(view', tasks', reqs') \/ \A i \in Ids : Fresh(db, view', reqs', i)
  BY AnswerFresh
<1>8. ListsOK(page, db, view', tasks', reqs', excused')
  BY <1>3, <1>5, <1>6, <1>7 DEF ListsOK
<1>9. page' = page /\ db' = db
  BY DEF Answer
<1> QED BY <1>8, <1>9 DEF ListInv

LEMMA InitRows == Init => ListInv
<1> SUFFICES ASSUME Init, page \notin CopiedOnce PROVE ListInv
  BY DEF ListInv
<1> DEFINE none == [z \in Slots |-> Idle]
<1>0. PICK o \in Openings :
        \E s : /\ s = Started(o.shows, none, o.runs, None, {}, {})
               /\ view = Rendered(s.view) /\ tasks = s.tasks /\ reqs = s.sent
  BY DEF Init
<1> DEFINE v == o.shows
           h == o.runs
<1>1. PICK s : /\ s = Started(v, none, h, None, {}, {})
               /\ view = Rendered(s.view) /\ tasks = s.tasks /\ reqs = s.sent
  BY <1>0
<1>2. page \in DOMAIN Pages /\ db = FirstRows /\ Rowed(FirstRows)
  BY DEF Init, Rowed, FirstRows
<1>2a. \/ v = EmptyView /\ h = Pages[page].mount
       \/ v = ReadView /\ h \in Pages[page].again
  BY DEF Openings
<1>3. Work(none) = {} /\ Free(none) = Slots /\ IsTasks(none)
  BY DEF Work, Free, Idle, IsTasks
<1> HIDE DEF none
<1> HIDE DEF v, h
<1>4. /\ IsView(v) /\ v.ops = {} /\ ~v.waiting /\ ~v.loading
      /\ v.rank = 0 /\ v.rows = v.store
      /\ Rowed(v.rows) /\ Rowed(v.store)
  <2>1. CASE v = EmptyView
    BY <2>1 DEF EmptyView, IsView, ViewFields, Rowed
  <2>2. CASE v = ReadView
    BY <2>2, <1>2 DEF ReadView, EmptyView, IsView, ViewFields
  <2> QED BY <2>1, <2>2, <1>2a
<1>5. Sys(page, FALSE, v, none, None, 0)
  <2>1. OpsOK(v, none)
    BY <1>3, <1>4, FS_EmptySet DEF OpsOK
  <2> QED BY <2>1, <1>3, <1>4 DEF Sys
<1>6. Cardinality(Free(none)) >= Len(h)
  BY <1>2, <1>2a, <1>3, PagesAssumption
<1>7. /\ h \in HandlersOf(Pages[page]) /\ h \in HandlersButPick(Pages[page])
      /\ v.rows = FirstRows \/ \E th \in ThreadsIn({h}) : Lists(th.steps, 0)
  <2>1. h \in HandlersOf(Pages[page]) /\ h \in HandlersButPick(Pages[page])
    BY <1>2a, HandlersOfPage
  <2>2. v = ReadView => v.rows = FirstRows
    BY DEF ReadView, EmptyView
  <2>3. h = Pages[page].mount => \E th \in ThreadsIn({h}) : Lists(th.steps, 0)
    BY <1>2, PagesAssumption DEF ShowsWhatIsStored
  <2> QED BY <2>1, <2>2, <2>3, <1>2a
<1> DEFINE still == Stable(page) /\ h \in HandlersButPick(Pages[page])
<1>8. Launched(page, FALSE, 0, v, none, still, s, Len(h))
  BY <1>1, <1>2, <1>5, <1>6, <1>7, StartedLaunched
<1>9. IsView(s.view)
  BY <1>8 DEF Launched, Sys
<1>10. /\ RowsLaunched(page, v, none, s)
       /\ v.rows = FirstRows \/ Unsettled(s.view, s.tasks, s.sent)
  BY <1>1, <1>2, <1>4, <1>5, <1>6, <1>7, StartedRows
<1>11. view.rows = s.view.rows /\ view.store = s.view.store /\ view.rank = s.view.rank
  BY <1>1, <1>9, RenderedRows
<1>12. /\ Rowed(s.view.rows) /\ s.view.store = v.store /\ s.view.rank = 0
       /\ Copies(Pages[page]) => s.view.rows = v.store
       /\ \A z \in Work(tasks) : Lister(page, tasks[z])
       /\ \A q \in reqs : RankOK(q) /\ q.rank = 0 /\ ListedAfter(page, tasks, q)
       /\ OneAwaited(page, reqs)
  BY <1>1, <1>3, <1>4, <1>10 DEF RowsLaunched
<1>13. RowsOK(page, db, view)
  BY <1>2, <1>4, <1>11, <1>12 DEF RowsOK
<1>14. QueueOK(page, tasks, reqs)
  BY <1>12 DEF QueueOK, Bounded
<1>15. Unsettled(view, tasks, reqs) \/ \A i \in Ids : Fresh(db, view, reqs, i)
  <2>1. Unsettled(s.view, s.tasks, s.sent) => Unsettled(view, tasks, reqs)
    BY <1>1, <1>11 DEF Unsettled, Unsettling
  <2>2. \A i \in Ids : Coming(view, reqs, i) = {}
    BY <1>12 DEF Coming
  <2>3. Copies(Pages[page]) /\ v.rows = FirstRows => view.rows = db
    BY <1>2, <1>4, <1>11, <1>12
  <2>4. ~Copies(Pages[page]) /\ v.rows = FirstRows =>
          view.rows = db \/ Unsettled(s.view, s.tasks, s.sent)
    BY <1>2, <1>10, <1>11 DEF RowsLaunched
  <2>5. view.rows = db => \A i \in Ids : Fresh(db, view, reqs, i)
    BY <2>2 DEF Fresh
  <2> QED BY <2>1, <2>3, <2>4, <2>5, <1>10
<1>16. ListsOK(page, db, view, tasks, reqs, excused)
  BY <1>12, <1>13, <1>14, <1>15 DEF ListsOK
<1> QED BY <1>16 DEF ListInv

LEMMA NextKeepsRows == Inv /\ ListInv /\ [Next]_vars => ListInv'
<1> SUFFICES ASSUME Inv, ListInv, [Next]_vars PROVE ListInv'
  OBVIOUS
<1>1. CASE PickRow \/ Add \/ Delete \/ Push
  BY <1>1, OtherClicksRows
<1>2. CASE ShowNew
  BY <1>2, ShowNewRows
<1>3. CASE Cancel
  BY <1>3, CancelRows
<1>4. CASE Edit
  BY <1>4, EditRows
<1>5. CASE EditSetting
  BY <1>5, EditSettingRows
<1>6. CASE Save
  BY <1>6, SaveRows
<1>7. ASSUME NEW r \in reqs, Serve(r) PROVE ListInv'
  BY <1>7, ServeRows
<1>8. ASSUME NEW r \in reqs, Answer(r) PROVE ListInv'
  BY <1>8, AnswerRows
<1>9. CASE UNCHANGED vars
  BY <1>9 DEF vars, ListInv
<1> QED BY <1>1, <1>2, <1>3, <1>4, <1>5, <1>6, <1>7, <1>8, <1>9 DEF Next
-----------------------------------------------------------------------------
(* The theorems.                                                           *)

\* The invariant holds in every state: on every page, whatever the clicks and
\* the order of the answers, each thread still has to lower what it raised.
THEOREM InvHolds == Spec => []Inv
BY InitInv, NextKeeps, PTL DEF Spec

\* addOperation and its callback: the operations of a project that are shown
\* in progress are those its threads have begun and not ended, two at most.
THEOREM OperationsShown == Spec => []OperationsAreRunning
<1>1. Inv => OperationsAreRunning
  <2>1. Work(tasks) = {z \in Slots : tasks[z].live}
    BY DEF Work
  <2> QED BY <2>1, InvFacts DEF Sys, OpsOK, OperationsAreRunning
<1> QED BY <1>1, InvHolds, PTL

\* isWaitingForResponse and the flags of the pages: once every thread has
\* ended and every request is answered, nothing is left waiting or shown in
\* progress, but the flags that a failure leaves raised on the pages Stuck.
THEOREM PagesComeToRest == Spec => []RestIsQuiet
<1>1. Inv => RestIsQuiet
  <2> SUFFICES ASSUME Inv, Resting
               PROVE  /\ ~view.waiting /\ view.ops = {}
                      /\ view.loading => failures > 0 /\ page \in Stuck
    BY DEF RestIsQuiet
  <2>1. Work(tasks) = {}
    BY DEF Resting, Work
  <2> QED BY <2>1, InvFacts DEF Sys, OpsOK, Lost
<1> QED BY <1>1, InvHolds, PTL

\* The forms of the pages: what an update sends is about the resource whose
\* data the form was filled with, except on the pages Drifting.
THEOREM FormsSaveThemselves == Spec => []FormSavesItself
<1>1. Inv => FormSavesItself
  BY InvFacts DEF RequestsOK, RequestOK, FormSavesItself, ShowsWhatItSaves
<1> QED BY <1>1, InvHolds, PTL

\* The second invariant holds in every state: the answers to come, in the
\* order the server read the rows, end with what is stored, or the list is
\* read once more.
THEOREM ListsAreRead == Spec => []ListInv
BY InitInv, InitRows, NextKeeps, NextKeepsRows, PTL DEF Spec

\* The stores and the pages that list them: once every thread has ended and
\* every request is answered, the rows on the page are the rows stored,
\* whatever was clicked meanwhile, unless a failure, an answer overtaken by
\* another or an edit left unsaved explains it.
THEOREM ShownIsWhatIsStored == Spec => []ShownIsStored
<1>1. ListInv => ShownIsStored
  <2> SUFFICES ASSUME ListInv, reqs = {}, \A s \in Slots : ~tasks[s].live,
                      ~excused, page \notin CopiedOnce
               PROVE  view.rows = db
    BY DEF ShownIsStored, Resting
  <2>1. ~Unsettled(view, tasks, reqs)
    BY DEF Unsettled, Work
  <2>2. \A i \in Ids : Fresh(db, view, reqs, i)
    BY <2>1, ListFacts
  <2>3. \A i \in Ids : Coming(view, reqs, i) = {}
    BY DEF Coming
  <2>4. \A i \in Ids : view.rows[i] = db[i]
    BY <2>2, <2>3 DEF Fresh
  <2> QED BY <2>4, ListFacts DEF Rowed
<1> QED BY <1>1, ListsAreRead, PTL
=============================================================================
