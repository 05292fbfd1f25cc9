------------------------ MODULE SchedulerPoolProofs ------------------------
(* Proofs about Scheduler that every job and every fiber is in one place,   *)
(* until a fiber is scheduled twice or popped while another thread still    *)
(* has it; that no assertion fails until then; and that the scheduler       *)
(* implements JobPool as long. Three theorems about what the threads leave  *)
(* behind when stop() returns follow.                                       *)
(*                                                                          *)
(* The inductive invariant gives each job and each fiber at most one token, *)
(* the place where it is to be found, and each fiber at most one holder,    *)
(* the thread that has it in hand. A fiber that was woken before its thread *)
(* let go of it has both. The invariant says which state a fiber with a     *)
(* given token or a given holder is in, and gives one of them to all that   *)
(* is unfinished. A step moves the tokens of a few things and leaves all    *)
(* others alone.                                                            *)
EXTENDS SchedulerProofs

\* Where thing x, a fiber or a job, can be: in the queue as a fiber or as a
\* callback, popped by a thread, in another fiber's m_cb, among the expired
\* callbacks of a thread, with a timer or an event, or kept by a thread for its
\* next callback.
InQueue(x) == \E i \in DOMAIN m_fibers : m_fibers[i].fiber = x
InCbs(x) == \E i \in DOMAIN m_fibers : m_fibers[i].cb = x
GotBy(x, t) == pc[t] = "got" /\ ft[t].fiber = x
GotCbBy(x, t) == pc[t] = "got" /\ ft[t].cb = x
CbOf(x, f) == m_cb[f] = x
FiredBy(x, t) == x \in fired[t]
SpareOf(x, t) == cb_fiber[t] = x /\ (pc[t] \in InHand => ft[t].fiber # None)
Parked(x) == x \in Fibers /\ waiting[x] # "no"

\* Thread t has fiber x in hand.
HeldBy(x, t) == pc[t] \in InHand /\ Cur(t) = x
Held(x) == \E t \in Threads : HeldBy(x, t)

Things == Fibers \cup Jobs
Kinds == {"run", "cb", "got", "gotcb", "relay", "fired", "wait", "spare"}
Whom == Threads \cup Fibers \cup {None}

\* Thing x has the token of kind k with a.
At(x, k, a) ==
  \/ k = "run" /\ a = None /\ InQueue(x)
  \/ k = "cb" /\ a = None /\ InCbs(x)
  \/ k = "got" /\ a \in Threads /\ GotBy(x, a)
  \/ k = "gotcb" /\ a \in Threads /\ GotCbBy(x, a)
  \/ k = "relay" /\ a \in Fibers /\ CbOf(x, a)
  \/ k = "fired" /\ a \in Threads /\ FiredBy(x, a)
  \/ k = "wait" /\ a = None /\ Parked(x)
  \/ k = "spare" /\ a \in Threads /\ SpareOf(x, a)

OneAt(x) ==
  \A k, l \in Kinds, a, b \in Whom : At(x, k, a) /\ At(x, l, b) => k = l /\ a = b

Placed(x) == \E k \in Kinds, a \in Whom : At(x, k, a)

\* An entry is a fiber or a callback.
Proper(e) == (e.fiber = None) <=> (e.cb # None)

\* No two entries of the queue are about the same thing.
QueueOK ==
  /\ \A i \in DOMAIN m_fibers : Proper(m_fibers[i])
  /\ \A i, k \in DOMAIN m_fibers : i # k =>
       /\ m_fibers[i].fiber # None => m_fibers[i].fiber # m_fibers[k].fiber
       /\ m_fibers[i].cb # None => m_fibers[i].cb # m_fibers[k].cb

\* What run() keeps in ft, and idle() in the list of expired callbacks.
ThreadOK(t) ==
  /\ pc[t] = "got" => Proper(ft[t])
  /\ pc[t] \notin InHand \cup {"got"} => ft[t].fiber = None
  /\ fired[t] # {} => pc[t] = "fire"

\* The fiber in the hands of a thread that is at l: only one that is about to
\* park has a token.
HeldOK(f, l) ==
  /\ l = "exec" => m_state[f] = "EXEC" /\ Live(f) /\ ~Placed(f)
  /\ l = "reg" => m_state[f] = "EXEC" /\ m_cb[f] \in Jobs /\ Placed(f)
  /\ l \in {"switch", "post", "settle"} =>
       \/ m_state[f] \in Finished /\ m_cb[f] = Over /\ ~Placed(f)
       \/ m_state[f] = "READY" /\ m_cb[f] \in Jobs /\ ~Placed(f)
       \/ m_state[f] = "HOLD" /\ m_cb[f] \in Jobs /\ Placed(f)
  /\ l = "hold" => m_state[f] = "HOLD" /\ m_cb[f] \in Jobs /\ Placed(f)

HolderOK(f) ==
  /\ \A t, u \in Threads : HeldBy(f, t) /\ HeldBy(f, u) => t = u
  /\ \A t \in Threads : HeldBy(f, t) => HeldOK(f, pc[t])

\* The state of a fiber by its token.
TokenOK(f, k, a) ==
  /\ k = "spare" => m_state[f] = "INIT" /\ m_cb[f] = None /\ ~Held(f)
  /\ k # "spare" => m_cb[f] \in Jobs
  /\ k = "got" => ~Held(f)
  /\ k \in {"run", "got"} /\ ~Held(f) => m_state[f] \in {"INIT", "READY", "HOLD"}
  /\ k \in {"cb", "gotcb", "relay", "fired", "wait"} /\ ~Held(f) => m_state[f] = "HOLD"

FiberOK(f) ==
  /\ m_state[f] = "FREE" => m_cb[f] = None /\ ~Placed(f) /\ ~Held(f)
  /\ \A k \in Kinds, a \in Whom : At(f, k, a) => TokenOK(f, k, a)
  /\ HolderOK(f)
  /\ Live(f) => Placed(f) \/ Held(f)

JobOK(j) == (j \in Unfinished <=> Placed(j)) /\ (j \in done => j \in submitted)

PoolInv ==
  /\ \A x \in Things : OneAt(x)
  /\ \A f \in Fibers : FiberOK(f)
  /\ \A j \in Jobs : JobOK(j)
  /\ \A t \in Threads : ThreadOK(t)
  /\ QueueOK

\* The step leaves the token of x where it is.
Same(x) == \A k \in Kinds, a \in Whom : At(x, k, a)' <=> At(x, k, a)

\* The step leaves fiber f alone, and the thread that has it.
Still(f) ==
  /\ m_state'[f] = m_state[f] /\ m_cb'[f] = m_cb[f]
  /\ \A t \in Threads : /\ HeldBy(f, t)' <=> HeldBy(f, t)
                        /\ HeldBy(f, t) => pc'[t] = pc[t]

\* The step neither submits nor ends job j.
SameJob(j) == (j \in submitted' <=> j \in submitted) /\ (j \in done' <=> j \in done)

\* After the step the only token of x is (k, a), or it has none.
GoesTo(x, k, a) == \A l \in Kinds, b \in Whom : At(x, l, b)' <=> l = k /\ b = a
Vanishes(x) == \A l \in Kinds, b \in Whom : ~At(x, l, b)'

USE ConfigAssumption
----------------------------------------------------------------------------
(* The queue.                                                               *)

\* push_back.
LEMMA QueueAppend ==
  ASSUME NEW e \in Entries, m_fibers \in Seq(Entries), m_fibers' = Append(m_fibers, e)
  PROVE  /\ \A x : InQueue(x)' <=> InQueue(x) \/ e.fiber = x
         /\ \A x : InCbs(x)' <=> InCbs(x) \/ e.cb = x
         /\ QueueOK /\ Proper(e) /\ (e.fiber # None => ~InQueue(e.fiber))
              /\ (e.cb # None => ~InCbs(e.cb)) => QueueOK'
<1> DEFINE n == Len(m_fibers)
<1>1. /\ n \in Nat /\ DOMAIN m_fibers = 1..n /\ DOMAIN m_fibers' = 1..(n + 1)
      /\ \A i \in 1..n : m_fibers'[i] = m_fibers[i]
      /\ m_fibers'[n + 1] = e
  OBVIOUS
<1> HIDE DEF n
<1>2. \A x : InQueue(x)' <=> InQueue(x) \/ e.fiber = x BY <1>1 DEF InQueue
<1>3. \A x : InCbs(x)' <=> InCbs(x) \/ e.cb = x BY <1>1 DEF InCbs
<1>4. ASSUME QueueOK, Proper(e), e.fiber # None => ~InQueue(e.fiber), e.cb # None => ~InCbs(e.cb)
      PROVE QueueOK'
  <2>1. \A i \in DOMAIN m_fibers' : Proper(m_fibers'[i]) BY <1>1, <1>4 DEF QueueOK, Proper
  <2>2. ASSUME NEW i \in 1..(n + 1), NEW k \in 1..(n + 1), i # k
        PROVE /\ m_fibers'[i].fiber # None => m_fibers'[i].fiber # m_fibers'[k].fiber
              /\ m_fibers'[i].cb # None => m_fibers'[i].cb # m_fibers'[k].cb
    <3>1. CASE i \in 1..n /\ k \in 1..n BY <1>1, <1>4, <2>2, <3>1 DEF QueueOK
    <3>2. CASE i = n + 1 /\ k \in 1..n BY <1>1, <1>4, <2>2, <3>2 DEF InQueue, InCbs
    <3>3. CASE i \in 1..n /\ k = n + 1 BY <1>1, <1>4, <2>2, <3>3 DEF InQueue, InCbs
    <3> QED BY <1>1, <2>2, <3>1, <3>2, <3>3
  <2> QED BY <1>1, <2>1, <2>2 DEF QueueOK, Proper
<1> QED BY <1>2, <1>3, <1>4

\* What is left when entry i is erased.
LEMMA RemoveAtElements ==
  ASSUME NEW S, NEW s \in Seq(S), NEW i \in 1..Len(s)
  PROVE  /\ Len(RemoveAt(s, i)) = Len(s) - 1 /\ RemoveAt(s, i) \in Seq(S)
         /\ \A k \in 1..(Len(s) - 1) : RemoveAt(s, i)[k] = IF k < i THEN s[k] ELSE s[k + 1]
<1> DEFINE n == Len(s)
           p == SubSeq(s, 1, i - 1)
           q == SubSeq(s, i + 1, n)
<1>1. n \in Nat /\ i \in Int /\ \A k \in 1..n : s[k] \in S OBVIOUS
<1>2. p \in Seq(S) /\ Len(p) = i - 1 /\ \A k \in 1..(i - 1) : p[k] = s[k]
  <2>1. /\ p \in Seq(S) /\ Len(p) = IF 1 <= i - 1 THEN (i - 1) - 1 + 1 ELSE 0
        /\ \A k \in 1..((i - 1) - 1 + 1) : p[k] = s[1 + k - 1]
    BY <1>1, SubSeqProperties
  <2> HIDE DEF p
  <2>2. Len(p) = i - 1 BY <1>1, <2>1
  <2>3. \A k \in 1..(i - 1) : k \in 1..((i - 1) - 1 + 1) /\ 1 + k - 1 = k BY <1>1
  <2> QED BY <2>1, <2>2, <2>3
<1>3. q \in Seq(S) /\ Len(q) = n - i /\ \A k \in 1..(n - i) : q[k] = s[i + k]
  <2>1. /\ q \in Seq(S) /\ Len(q) = IF i + 1 <= n THEN n - (i + 1) + 1 ELSE 0
        /\ \A k \in 1..(n - (i + 1) + 1) : q[k] = s[(i + 1) + k - 1]
    BY <1>1, SubSeqProperties
  <2> HIDE DEF q
  <2>2. Len(q) = n - i BY <1>1, <2>1
  <2>3. \A k \in 1..(n - i) : k \in 1..(n - (i + 1) + 1) /\ (i + 1) + k - 1 = i + k BY <1>1
  <2> QED BY <2>1, <2>2, <2>3
<1> HIDE DEF p, q, n
<1>4. /\ p \o q \in Seq(S) /\ Len(p \o q) = Len(p) + Len(q)
      /\ \A k \in 1..(Len(p) + Len(q)) : (p \o q)[k] = IF k <= Len(p) THEN p[k] ELSE q[k - Len(p)]
  <2>1. p \in Seq(S) /\ q \in Seq(S) BY <1>2, <1>3
  <2> QED BY <2>1, ConcatProperties, Zenon
<1>5. RemoveAt(s, i) = p \o q BY DEF RemoveAt, p, q, n
<1>6. \A k \in 1..(n - 1) : (p \o q)[k] = IF k < i THEN s[k] ELSE s[k + 1]
  <2> SUFFICES ASSUME NEW k \in 1..(n - 1) PROVE (p \o q)[k] = IF k < i THEN s[k] ELSE s[k + 1]
      OBVIOUS
  <2>1. (p \o q)[k] = IF k <= i - 1 THEN p[k] ELSE q[k - (i - 1)]
    <3>1. Len(p) + Len(q) = n - 1 /\ Len(p) = i - 1 BY <1>1, <1>2, <1>3
    <3> QED BY <1>4, <3>1
  <2>2. CASE k < i BY <1>1, <1>2, <2>1, <2>2
  <2>3. CASE ~(k < i)
    <3>1. k - (i - 1) \in 1..(n - i) BY <1>1, <2>3
    <3>2. q[k - (i - 1)] = s[i + (k - (i - 1))] BY <1>3, <3>1
    <3> QED BY <1>1, <2>1, <2>3, <3>2
  <2> QED BY <2>2, <2>3
<1>7. Len(p \o q) = n - 1 /\ p \o q \in Seq(S)
  <2>1. Len(p \o q) = Len(p) + Len(q) /\ p \o q \in Seq(S) BY <1>4
  <2>2. Len(p) + Len(q) = n - 1 BY <1>1, <1>2, <1>3
  <2> QED BY <2>1, <2>2
<1> QED BY <1>5, <1>6, <1>7, Zenon DEF n

\* Erasing an entry takes its thing out of the queue, and only that.
LEMMA QueueRemove ==
  ASSUME m_fibers \in Seq(Entries), QueueOK, NEW i \in DOMAIN m_fibers,
         m_fibers' = RemoveAt(m_fibers, i)
  PROVE  /\ \A x : x # None => (InQueue(x)' <=> InQueue(x) /\ m_fibers[i].fiber # x)
         /\ \A x : x # None => (InCbs(x)' <=> InCbs(x) /\ m_fibers[i].cb # x)
         /\ QueueOK'
<1> DEFINE n == Len(m_fibers)
           q == m_fibers'
<1>1. n \in Nat /\ DOMAIN m_fibers = 1..n /\ i \in 1..n OBVIOUS
<1>2. /\ q \in Seq(Entries) /\ Len(q) = n - 1
      /\ \A k \in 1..(n - 1) : q[k] = IF k < i THEN m_fibers[k] ELSE m_fibers[k + 1]
  BY <1>1, RemoveAtElements
<1>3. DOMAIN q = 1..(n - 1)
  <2> HIDE DEF q
  <2> QED BY <1>2
<1> HIDE DEF n
<1>4. \A k \in 1..(n - 1) : \E m \in 1..n : m # i /\ q[k] = m_fibers[m]
  <2> SUFFICES ASSUME NEW k \in 1..(n - 1) PROVE \E m \in 1..n : m # i /\ q[k] = m_fibers[m]
      OBVIOUS
  <2> HIDE DEF q
  <2>1. CASE k < i BY <1>1, <1>2, <2>1
  <2>2. CASE ~(k < i)
    <3>1. k + 1 \in 1..n /\ k + 1 # i BY <1>1, <2>2
    <3>2. q[k] = m_fibers[k + 1] BY <1>2, <2>2
    <3> QED BY <3>1, <3>2
  <2> QED BY <2>1, <2>2
<1>5. \A m \in 1..n : m # i => \E k \in 1..(n - 1) : q[k] = m_fibers[m]
  <2> SUFFICES ASSUME NEW m \in 1..n, m # i PROVE \E k \in 1..(n - 1) : q[k] = m_fibers[m]
      OBVIOUS
  <2> HIDE DEF q
  <2>1. CASE m < i BY <1>1, <1>2, <2>1
  <2>2. CASE m > i
    <3>1. m - 1 \in 1..(n - 1) /\ ~(m - 1 < i) /\ (m - 1) + 1 = m BY <1>1, <2>2
    <3>2. q[m - 1] = m_fibers[m] BY <1>2, <3>1
    <3> QED BY <3>1, <3>2
  <2> QED BY <1>1, <2>1, <2>2
<1>6. \A m \in 1..n : m # i => /\ m_fibers[m].fiber = None \/ m_fibers[m].fiber # m_fibers[i].fiber
                               /\ m_fibers[m].cb = None \/ m_fibers[m].cb # m_fibers[i].cb
  BY <1>1 DEF QueueOK
<1>7. ASSUME NEW x, x # None PROVE InQueue(x)' <=> InQueue(x) /\ m_fibers[i].fiber # x
  <2>1. ASSUME NEW k \in 1..(n - 1), q[k].fiber = x PROVE InQueue(x) /\ m_fibers[i].fiber # x
    <3>1. PICK m \in 1..n : m # i /\ q[k] = m_fibers[m] BY <1>4
    <3> QED BY <1>1, <1>6, <1>7, <2>1, <3>1 DEF InQueue
  <2>2. ASSUME NEW m \in 1..n, m_fibers[m].fiber = x, m_fibers[i].fiber # x
        PROVE \E k \in 1..(n - 1) : q[k].fiber = x
    <3>1. PICK k \in 1..(n - 1) : q[k] = m_fibers[m] BY <1>5, <2>2
    <3> QED BY <2>2, <3>1
  <2> QED BY <1>1, <1>3, <2>1, <2>2 DEF InQueue
<1>8. ASSUME NEW x, x # None PROVE InCbs(x)' <=> InCbs(x) /\ m_fibers[i].cb # x
  <2>1. ASSUME NEW k \in 1..(n - 1), q[k].cb = x PROVE InCbs(x) /\ m_fibers[i].cb # x
    <3>1. PICK m \in 1..n : m # i /\ q[k] = m_fibers[m] BY <1>4
    <3> QED BY <1>1, <1>6, <1>8, <2>1, <3>1 DEF InCbs
  <2>2. ASSUME NEW m \in 1..n, m_fibers[m].cb = x, m_fibers[i].cb # x
        PROVE \E k \in 1..(n - 1) : q[k].cb = x
    <3>1. PICK k \in 1..(n - 1) : q[k] = m_fibers[m] BY <1>5, <2>2
    <3> QED BY <2>2, <3>1
  <2> QED BY <1>1, <1>3, <2>1, <2>2 DEF InCbs
<1>9. QueueOK'
  <2>1. \A k \in 1..(n - 1) : Proper(q[k]) BY <1>1, <1>4 DEF QueueOK, Proper
  <2>2. ASSUME NEW k \in 1..(n - 1), NEW l \in 1..(n - 1), k # l
        PROVE /\ q[k].fiber # None => q[k].fiber # q[l].fiber
              /\ q[k].cb # None => q[k].cb # q[l].cb
    <3> DEFINE m(z) == IF z < i THEN z ELSE z + 1
    <3>1. m(k) \in 1..n /\ m(l) \in 1..n /\ m(k) # m(l) BY <1>1, <2>2
    <3>2. q[k] = m_fibers[m(k)] /\ q[l] = m_fibers[m(l)] BY <1>2, <2>2
    <3> HIDE DEF m, q
    <3> QED BY <1>1, <3>1, <3>2 DEF QueueOK
  <2> QED BY <1>3, <2>1, <2>2 DEF QueueOK, Proper
<1> QED BY <1>7, <1>8, <1>9
----------------------------------------------------------------------------
(* Tokens and holders.                                                      *)

LEMMA FiberFrame ==
  ASSUME NEW f \in Fibers, FiberOK(f), Same(f), Still(f)
  PROVE  FiberOK(f)'
<1>1. Placed(f)' <=> Placed(f) BY DEF Placed, Same
<1>2. Held(f)' <=> Held(f) BY DEF Held, Still
<1>3. ASSUME NEW k \in Kinds, NEW a \in Whom, At(f, k, a)' PROVE TokenOK(f, k, a)'
  <2>1. At(f, k, a) /\ TokenOK(f, k, a) BY <1>3 DEF Same, FiberOK
  <2> QED BY <1>2, <2>1 DEF TokenOK, Still
<1>4. HolderOK(f)'
  <2>1. ASSUME NEW t \in Threads, HeldBy(f, t)' PROVE HeldOK(f, pc[t])'
    <3>1. HeldBy(f, t) /\ pc'[t] = pc[t] /\ HeldOK(f, pc[t]) BY <2>1 DEF Still, FiberOK, HolderOK
    <3> QED BY <1>1, <3>1 DEF HeldOK, Still, Live
  <2> QED BY <2>1 DEF HolderOK, FiberOK, Still
<1> QED BY <1>1, <1>2, <1>3, <1>4 DEF FiberOK, Still, Live

\* The only token of f is (k, a) after the step.
LEMMA FiberGoes ==
  ASSUME NEW f \in Fibers, NEW k \in Kinds, NEW a \in Whom, GoesTo(f, k, a), TokenOK(f, k, a)',
         HolderOK(f)', m_state'[f] # "FREE"
  PROVE  FiberOK(f)' /\ OneAt(f)'
<1>1. Placed(f)' BY DEF GoesTo, Placed
<1>2. \A l \in Kinds, b \in Whom : At(f, l, b)' => l = k /\ b = a BY DEF GoesTo
<1>3. OneAt(f)' BY <1>2 DEF OneAt
<1> HIDE DEF TokenOK
<1>4. \A l \in Kinds, b \in Whom : At(f, l, b)' => TokenOK(f, l, b)' BY <1>2
<1> QED BY <1>1, <1>3, <1>4 DEF FiberOK

\* f has no token after the step.
LEMMA FiberOut ==
  ASSUME NEW f \in Fibers, Vanishes(f), HolderOK(f)', m_state'[f] # "FREE", Live(f)' => Held(f)'
  PROVE  FiberOK(f)' /\ OneAt(f)' /\ ~Placed(f)'
BY DEF FiberOK, OneAt, Vanishes, Placed

\* Nobody holds f after the step.
LEMMA NoHolder ==
  ASSUME NEW f, \A t \in Threads : ~HeldBy(f, t)'
  PROVE  HolderOK(f)' /\ ~Held(f)'
BY DEF HolderOK, Held

\* Thread t alone holds f after the step.
LEMMA OneHolder ==
  ASSUME NEW f, NEW t \in Threads, HeldBy(f, t)', \A u \in Threads \ {t} : ~HeldBy(f, u)',
         HeldOK(f, pc[t])'
  PROVE  HolderOK(f)' /\ Held(f)'
BY DEF HolderOK, Held

\* The thread that has f in hand goes on with it; the token of f stays.
LEMMA FiberHeld ==
  ASSUME NEW f \in Fibers, FiberOK(f), OneAt(f), Same(f), Held(f), Held(f)',
         m_cb'[f] = m_cb[f], HolderOK(f)', m_state'[f] # "FREE"
  PROVE  FiberOK(f)' /\ OneAt(f)'
<1>1. OneAt(f)' BY DEF OneAt, Same
<1>2. ASSUME NEW k \in Kinds, NEW a \in Whom, At(f, k, a)' PROVE TokenOK(f, k, a)'
  <2>1. At(f, k, a) /\ TokenOK(f, k, a) BY <1>2 DEF Same, FiberOK
  <2> QED BY <2>1 DEF TokenOK
<1> QED BY <1>1, <1>2 DEF FiberOK

\* The invariant after a step from what it does to the things it touches.
LEMMA PoolFrom ==
  ASSUME PoolInv, NEW T,
         \A x \in Things \ T : Same(x), \A f \in Fibers \ T : Still(f),
         \A x \in Things \cap T : OneAt(x)', \A f \in Fibers \cap T : FiberOK(f)',
         \A j \in Jobs \cap T : JobOK(j)',
         \A j \in Jobs \ T : SameJob(j),
         \A t \in Threads : ThreadOK(t)', QueueOK'
  PROVE  PoolInv'
<1>1. ASSUME NEW x \in Things PROVE OneAt(x)'
  <2>1. CASE x \in T BY <2>1
  <2>2. CASE x \notin T
    <3>1. Same(x) /\ OneAt(x) BY <2>2 DEF PoolInv
    <3> QED BY <3>1 DEF Same, OneAt
  <2> QED BY <2>1, <2>2
<1>2. ASSUME NEW f \in Fibers PROVE FiberOK(f)'
  <2>1. CASE f \in T BY <2>1
  <2>2. CASE f \notin T
    <3>1. Same(f) /\ Still(f) /\ FiberOK(f) BY <2>2 DEF PoolInv, Things
    <3> QED BY <3>1, FiberFrame
  <2> QED BY <2>1, <2>2
<1>3. ASSUME NEW j \in Jobs PROVE JobOK(j)'
  <2>1. CASE j \in T BY <2>1
  <2>2. CASE j \notin T
    <3>1. Same(j) /\ JobOK(j) /\ SameJob(j) BY <2>2 DEF PoolInv, Things
    <3>2. Placed(j)' <=> Placed(j) BY <3>1 DEF Placed, Same
    <3> QED BY <3>1, <3>2 DEF JobOK, SameJob, Unfinished
  <2> QED BY <2>1, <2>2
<1> QED BY <1>1, <1>2, <1>3 DEF PoolInv

LEMMA PoolInit == Init => PoolInv
<1> SUFFICES ASSUME Init PROVE PoolInv OBVIOUS
<1>1. \A x \in Things : \A t \in Threads : ~HeldBy(x, t)
  BY DEF Init, HeldBy, InHand, OnStack
<1>2. ASSUME NEW x \in Things, NEW k, NEW a PROVE ~At(x, k, a)
  <2>1. ~InQueue(x) /\ ~InCbs(x) BY DEF Init, InQueue, InCbs
  <2>2. x # None BY DEF Things
  <2>3. \A t \in Threads : ~GotBy(x, t) /\ ~GotCbBy(x, t) /\ ~FiredBy(x, t) /\ ~SpareOf(x, t)
    BY <2>2 DEF Init, GotBy, GotCbBy, FiredBy, SpareOf, InHand, OnStack
  <2>4. \A f \in Fibers : ~CbOf(x, f) BY <2>2 DEF Init, CbOf
  <2>5. ~Parked(x) BY DEF Init, Parked
  <2> QED BY <2>1, <2>3, <2>4, <2>5 DEF At
<1>3. \A x \in Things : OneAt(x) /\ ~Placed(x) BY <1>2 DEF OneAt, Placed
<1>4. \A f \in Fibers : FiberOK(f)
  BY <1>1, <1>2, <1>3 DEF FiberOK, HolderOK, Held, Init, Live, Things
<1>5. \A j \in Jobs : JobOK(j) BY <1>3 DEF JobOK, Init, Unfinished, Things
<1>6. \A t \in Threads : ThreadOK(t) BY DEF ThreadOK, Init, NoTask, Task, InHand, OnStack
<1>7. QueueOK BY DEF QueueOK, Init
<1> QED BY <1>3, <1>4, <1>5, <1>6, <1>7 DEF PoolInv

\* Labels at which a thread has nothing popped and nothing in hand.
Empty(l) == l \notin InHand \cup {"got"}

\* Steps of a thread between such labels, and of the owner.
Quiet ==
  /\ UNCHANGED <<m_fibers, fibers, slot, fired, submitted, done>>
  /\ \A t \in Threads : pc'[t] = pc[t] \/ (Empty(pc[t]) /\ Empty(pc'[t]) /\ pc[t] # "fire")

LEMMA QuietPool ==
  ASSUME IndInv, PoolInv, Quiet
  PROVE  PoolInv'
<1> USE DEF Quiet, fibers, slot
<1>1. \A t \in Threads : \A x : /\ GotBy(x, t)' <=> GotBy(x, t)
                                /\ GotCbBy(x, t)' <=> GotCbBy(x, t)
                                /\ FiredBy(x, t)' <=> FiredBy(x, t)
                                /\ HeldBy(x, t)' <=> HeldBy(x, t)
                                /\ SpareOf(x, t)' <=> SpareOf(x, t)
  BY DEF GotBy, GotCbBy, FiredBy, HeldBy, SpareOf, Cur, Empty
<1>2. \A x : (InQueue(x)' <=> InQueue(x)) /\ (InCbs(x)' <=> InCbs(x)) BY DEF InQueue, InCbs
<1>3. \A x : (Parked(x)' <=> Parked(x)) /\ \A f \in Fibers : CbOf(x, f)' <=> CbOf(x, f)
  BY <1>1 DEF Parked, CbOf
<1>4. \A x \in Things : Same(x) BY <1>1, <1>2, <1>3 DEF Same, At
<1>5. \A f \in Fibers : Still(f) BY <1>1 DEF Still, HeldBy, Empty
<1>6. \A t \in Threads : ThreadOK(t)'
  BY DEF PoolInv, ThreadOK, Proper, Empty
<1>7. QueueOK' BY DEF PoolInv, QueueOK, Proper
<1>8. \A j : SameJob(j) BY DEF SameJob
<1> QED BY <1>4, <1>5, <1>6, <1>7, <1>8, PoolFrom

\* What the step leaves of x with thread t.
SameWith(x, t) ==
  /\ (GotBy(x, t)' <=> GotBy(x, t)) /\ (GotCbBy(x, t)' <=> GotCbBy(x, t))
  /\ (FiredBy(x, t)' <=> FiredBy(x, t)) /\ (HeldBy(x, t)' <=> HeldBy(x, t))
  /\ (SpareOf(x, t)' <=> SpareOf(x, t))

\* Only thread t moves.
OnlyThread(t) ==
  \A u \in Threads \ {t} : /\ pc'[u] = pc[u] /\ ft'[u] = ft[u]
                           /\ cb_fiber'[u] = cb_fiber[u] /\ fired'[u] = fired[u]

LEMMA OtherThreads ==
  ASSUME NEW t, OnlyThread(t)
  PROVE  /\ \A u \in Threads \ {t} : \A x : SameWith(x, u)
         /\ PoolInv => \A u \in Threads \ {t} : ThreadOK(u)'
<1>1. \A u \in Threads \ {t} : \A x : SameWith(x, u)
  BY DEF OnlyThread, SameWith, GotBy, GotCbBy, FiredBy, HeldBy, SpareOf, Cur
<1>2. PoolInv => \A u \in Threads \ {t} : ThreadOK(u)'
  BY DEF OnlyThread, PoolInv, ThreadOK, Proper
<1> QED BY <1>1, <1>2

\* x stays where it is when nothing about it changes.
LEMMA SameFrom ==
  ASSUME NEW x, InQueue(x)' <=> InQueue(x), InCbs(x)' <=> InCbs(x),
         \A t \in Threads : SameWith(x, t), \A f \in Fibers : CbOf(x, f)' <=> CbOf(x, f),
         x \in Fibers => waiting'[x] = waiting[x]
  PROVE  Same(x)
<1>1. Parked(x)' <=> Parked(x) BY DEF Parked
<1> QED BY <1>1 DEF Same, At, SameWith

\* The token (k, a) of x becomes (l, b).
Moves(x, k, a, l, b) ==
  \A m \in Kinds, c \in Whom :
    At(x, m, c)' <=> (m = l /\ c = b) \/ (At(x, m, c) /\ ~(m = k /\ c = a))

LEMMA MovesGoes ==
  ASSUME NEW x, OneAt(x), NEW k \in Kinds, NEW a \in Whom, At(x, k, a),
         NEW l \in Kinds, NEW b \in Whom, Moves(x, k, a, l, b)
  PROVE  GoesTo(x, l, b)
BY DEF OneAt, Moves, GoesTo

\* The wake-up of a fiber goes one station further; who holds it, if anybody,
\* goes on holding it.
Wakeups == {"cb", "gotcb", "relay", "fired", "wait"}

LEMMA FiberMoves ==
  ASSUME NEW f \in Fibers, FiberOK(f), OneAt(f), NEW k \in Wakeups, NEW a \in Whom, At(f, k, a),
         NEW l \in Wakeups \cup {"run"}, NEW b \in Whom, Moves(f, k, a, l, b), Still(f)
  PROVE  FiberOK(f)' /\ OneAt(f)'
<1>1. k \in Kinds /\ l \in Kinds BY DEF Wakeups, Kinds
<1>2. GoesTo(f, l, b) BY <1>1, MovesGoes
<1>3. Placed(f) /\ Placed(f)' BY <1>1, <1>2 DEF Placed, GoesTo
<1>4. Held(f)' <=> Held(f) BY DEF Held, Still
<1>5. TokenOK(f, k, a) /\ HolderOK(f) /\ m_state[f] # "FREE" BY <1>1, <1>3 DEF FiberOK
<1>6. TokenOK(f, l, b)' BY <1>4, <1>5 DEF TokenOK, Wakeups, Still
<1>7. HolderOK(f)'
  <2>1. ASSUME NEW t \in Threads, HeldBy(f, t)' PROVE HeldOK(f, pc[t])'
    <3>1. HeldBy(f, t) /\ pc'[t] = pc[t] /\ HeldOK(f, pc[t]) BY <1>5, <2>1 DEF Still, HolderOK
    <3> QED BY <1>3, <3>1 DEF HeldOK, Still, Live
  <2> QED BY <1>5, <2>1 DEF HolderOK, Still
<1> QED BY <1>1, <1>2, <1>5, <1>6, <1>7, FiberGoes DEF Still

\* A thing without a token gets one.
LEMMA ArrivesGoes ==
  ASSUME NEW x, ~Placed(x), NEW k \in Kinds, NEW a \in Whom,
         \A m \in Kinds, c \in Whom : At(x, m, c)' <=> At(x, m, c) \/ (m = k /\ c = a)
  PROVE  GoesTo(x, k, a)
BY DEF Placed, GoesTo

\* A job that has a token keeps being unfinished.
LEMMA JobGoes ==
  ASSUME NEW j \in Jobs, NEW k \in Kinds, NEW a \in Whom, GoesTo(j, k, a), j \in Unfinished'
  PROVE  JobOK(j)' /\ OneAt(j)'
BY DEF JobOK, OneAt, Placed, GoesTo, Unfinished

\* run() pops the entry of a fiber that no thread has, or of a callback.
LEMMA TakePool ==
  ASSUME IndInv, PoolInv, NEW t \in Threads, Take(t), doubled' = {}
  PROVE  PoolInv'
<1> USE DEF counters, fibers, slot, idler, rest, flags, owner, jobs, threads
<1>0. PICK i \in DOMAIN m_fibers : TakeLeaving(t, i, RemoveAt(m_fibers, i)) BY DEF Take
<1> DEFINE e == m_fibers[i]
<1>1. /\ pc[t] = "scan" /\ ft' = [ft EXCEPT ![t] = e] /\ m_fibers' = RemoveAt(m_fibers, i)
      /\ Goto(t, "got") /\ UNCHANGED <<m_state, m_cb, waiting, cb_fiber, fired, submitted, done>>
      /\ \A f \in Fibers : f = e.fiber => Holders(f) = {}
  BY <1>0 DEF TakeLeaving
<1>2. m_fibers \in Seq(Entries) /\ QueueOK /\ e \in Entries /\ Proper(e)
  BY DEF IndInv, Shape, PoolInv, QueueOK
<1>3. /\ \A x : x # None => (InQueue(x)' <=> InQueue(x) /\ e.fiber # x)
      /\ \A x : x # None => (InCbs(x)' <=> InCbs(x) /\ e.cb # x)
      /\ QueueOK'
  BY <1>1, <1>2, QueueRemove
<1>4. InQueue(e.fiber) /\ InCbs(e.cb) BY DEF InQueue, InCbs
<1>5. pc'[t] = "got" /\ ft'[t] = e /\ pc \in [Threads -> PCs] BY <1>1 DEF Goto, IndInv, Shape
<1>6. OnlyThread(t) BY <1>1 DEF OnlyThread, Goto, IndInv, Shape
<1>7. \A x \in Things : /\ GotBy(x, t)' <=> e.fiber = x
                        /\ GotCbBy(x, t)' <=> e.cb = x
                        /\ ~GotBy(x, t) /\ ~GotCbBy(x, t) /\ ~HeldBy(x, t) /\ ~HeldBy(x, t)'
                        /\ FiredBy(x, t)' <=> FiredBy(x, t)
                        /\ SpareOf(x, t)' <=> SpareOf(x, t)
  BY <1>1, <1>5 DEF GotBy, GotCbBy, HeldBy, FiredBy, SpareOf, InHand, OnStack
<1>8. \A x \in Things : /\ \A f \in Fibers : CbOf(x, f)' <=> CbOf(x, f)
                        /\ x \in Fibers => waiting'[x] = waiting[x]
                        /\ Parked(x)' <=> Parked(x)
                        /\ x # None
  BY <1>1 DEF CbOf, Things, Parked
<1> HIDE DEF e
<1>9. ASSUME NEW x \in Things, x # e.fiber, x # e.cb PROVE Same(x)
  <2>1. \A u \in Threads : SameWith(x, u) BY <1>6, <1>7, <1>9, OtherThreads DEF SameWith
  <2> QED BY <1>3, <1>8, <1>9, <2>1, SameFrom
<1>10. ASSUME NEW x \in Things, x = e.fiber PROVE GoesTo(x, "got", t)
  <2>1. e.cb = None BY <1>2, <1>8, <1>10 DEF Proper
  <2>3. Moves(x, "run", None, "got", t)
    BY <1>3, <1>6, <1>7, <1>8, <1>10, <2>1, OtherThreads DEF Moves, At, SameWith, Whom, Kinds
  <2>4. At(x, "run", None) /\ OneAt(x) BY <1>4, <1>10 DEF At, PoolInv
  <2> QED BY <2>3, <2>4, MovesGoes DEF Kinds, Whom
<1>11. ASSUME NEW x \in Things, x = e.cb PROVE Moves(x, "cb", None, "gotcb", t) /\ GoesTo(x, "gotcb", t)
  <2>1. e.fiber = None BY <1>2, <1>8, <1>11 DEF Proper
  <2>3. Moves(x, "cb", None, "gotcb", t)
    BY <1>3, <1>6, <1>7, <1>8, <1>11, <2>1, OtherThreads DEF Moves, At, SameWith, Whom, Kinds
  <2>4. At(x, "cb", None) /\ OneAt(x) BY <1>4, <1>11 DEF At, PoolInv
  <2> QED BY <2>3, <2>4, MovesGoes DEF Kinds, Whom
<1>12. \A f \in Fibers : Still(f)
  BY <1>1, <1>5, <1>6, <1>7, OtherThreads DEF Still, SameWith, HeldBy, OnlyThread, InHand, OnStack, Things
<1>13. ASSUME NEW f \in Fibers, f = e.fiber PROVE FiberOK(f)' /\ OneAt(f)'
  <2>1. At(f, "run", None) BY <1>4, <1>13 DEF At
  <2>2. TokenOK(f, "run", None) BY <2>1 DEF PoolInv, FiberOK, Kinds, Whom
  <2>3. \A u \in Threads : ~HeldBy(f, u) /\ ~HeldBy(f, u)' BY <1>1, <1>12, <1>13 DEF Holders, HeldBy, Still, e
  <2>4. ~Held(f) /\ ~Held(f)' /\ HolderOK(f)' BY <2>3, NoHolder DEF Held
  <2>5. TokenOK(f, "got", t)' /\ m_state'[f] # "FREE" BY <1>1, <2>2, <2>4 DEF TokenOK
  <2>6. GoesTo(f, "got", t) /\ "got" \in Kinds /\ t \in Whom BY <1>10, <1>13 DEF Things, Kinds, Whom
  <2> QED BY <2>4, <2>5, <2>6, FiberGoes
<1>14. ASSUME NEW f \in Fibers, f = e.cb PROVE FiberOK(f)' /\ OneAt(f)'
  <2>1. At(f, "cb", None) /\ FiberOK(f) /\ OneAt(f) BY <1>4, <1>14 DEF At, PoolInv, Things
  <2>2. Moves(f, "cb", None, "gotcb", t) BY <1>11, <1>14 DEF Things
  <2> QED BY <1>12, <2>1, <2>2, FiberMoves DEF Wakeups, Whom
<1>15. Unfinished' = Unfinished BY <1>1 DEF Unfinished
<1>16. ASSUME NEW j \in Jobs, j = e.cb PROVE JobOK(j)' /\ OneAt(j)'
  <2>1. At(j, "cb", None) BY <1>4, <1>16 DEF At
  <2>2. j \in Unfinished' BY <1>15, <2>1 DEF PoolInv, JobOK, Placed, Kinds, Whom
  <2>3. GoesTo(j, "gotcb", t) /\ "gotcb" \in Kinds /\ t \in Whom BY <1>11, <1>16 DEF Things, Kinds, Whom
  <2> QED BY <2>2, <2>3, JobGoes
<1>17. ThreadOK(t)'
  BY <1>1, <1>2, <1>5 DEF ThreadOK, Proper, PoolInv
<1>18. \A u \in Threads : ThreadOK(u)' BY <1>6, <1>17, OtherThreads
<1> DEFINE T == {e.fiber, e.cb}
<1>19. e.fiber \notin Jobs BY <1>2 DEF Entries
<1>20. /\ \A x \in Things \ T : Same(x)
       /\ \A f \in Fibers \ T : Still(f)
       /\ \A x \in Things \cap T : OneAt(x)'
       /\ \A f \in Fibers \cap T : FiberOK(f)'
       /\ \A j \in Jobs \cap T : JobOK(j)'
  BY <1>9, <1>12, <1>13, <1>14, <1>16, <1>19 DEF Things
<1> HIDE DEF T
<1>21. \A j : SameJob(j) BY <1>1 DEF SameJob
<1> QED BY <1>3, <1>18, <1>20, <1>21, PoolFrom
----------------------------------------------------------------------------
(* The fiber on a thread.                                                   *)

\* What the step leaves of x, as far as the queue, the fibers and thread t go.
Untouched(x, t) ==
  /\ InQueue(x)' <=> InQueue(x)
  /\ InCbs(x)' <=> InCbs(x)
  /\ SameWith(x, t)
  /\ \A g \in Fibers : CbOf(x, g)' <=> CbOf(x, g)
  /\ x \in Fibers => waiting'[x] = waiting[x]

\* A step of thread t that touches the things in T.
LEMMA StepPool ==
  ASSUME PoolInv, NEW t \in Threads, OnlyThread(t), NEW T,
         \A x \in Things \ T : Untouched(x, t),
         \A g \in Fibers \ T : m_state'[g] = m_state[g] /\ m_cb'[g] = m_cb[g],
         \A g \in Fibers \ T : HeldBy(g, t) => pc'[t] = pc[t],
         \A x \in Things \cap T : OneAt(x)', \A g \in Fibers \cap T : FiberOK(g)',
         \A j \in Jobs \cap T : JobOK(j)',
         \A j \in Jobs \ T : SameJob(j),
         ThreadOK(t)', QueueOK'
  PROVE  PoolInv'
<1>1. ASSUME NEW x \in Things \ T PROVE Same(x)
  <2>1. Untouched(x, t) BY <1>1
  <2>2. \A u \in Threads : SameWith(x, u) BY <2>1, OtherThreads DEF Untouched
  <2> QED BY <2>1, <2>2, SameFrom DEF Untouched
<1>2. ASSUME NEW g \in Fibers \ T PROVE Still(g)
  <2>1. Untouched(g, t) BY <1>2 DEF Things
  <2>2. \A u \in Threads : SameWith(g, u) BY <2>1, OtherThreads DEF Untouched
  <2> QED BY <1>2, <2>2 DEF Still, OnlyThread, SameWith
<1>3. \A u \in Threads : ThreadOK(u)' BY OtherThreads
<1> QED BY <1>1, <1>2, <1>3, PoolFrom

\* What is known of the fiber in hand.
LEMMA InHandFact ==
  ASSUME IndInv, PoolInv, NEW t \in Threads, pc[t] \in InHand, NEW f, f = Cur(t)
  PROVE  /\ f \in Fibers /\ HeldBy(f, t) /\ HeldOK(f, pc[t]) /\ Held(f)
         /\ OneAt(f) /\ FiberOK(f)
         /\ \A u \in Threads \ {t} : ~HeldBy(f, u)
<1>1. f \in Fibers /\ HeldBy(f, t) BY DEF IndInv, HandInv, HeldBy
<1>2. OneAt(f) /\ FiberOK(f) BY <1>1 DEF PoolInv, Things
<1>3. HolderOK(f) BY <1>2 DEF FiberOK
<1> QED BY <1>1, <1>2, <1>3 DEF HolderOK, Held

\* The thread goes on with the fiber it has in hand, whose state may change.
LEMMA HandPool ==
  ASSUME IndInv, PoolInv, NEW t \in Threads, pc[t] \in InHand, NEW l \in InHand, Goto(t, l),
         UNCHANGED <<m_fibers, m_cb, waiting, slot, fired, submitted, done>>, NEW f, f = Cur(t),
         \A g \in Fibers \ {f} : m_state'[g] = m_state[g],
         (Placed(f)' <=> Placed(f)) => HeldOK(f, l)', m_state'[f] # "FREE"
  PROVE  PoolInv'
<1> USE DEF slot
<1>1. /\ f \in Fibers /\ HeldBy(f, t) /\ Held(f) /\ OneAt(f) /\ FiberOK(f)
      /\ \A u \in Threads \ {t} : ~HeldBy(f, u)
  BY InHandFact
<1>2. pc'[t] = l /\ OnlyThread(t) BY DEF Goto, OnlyThread, IndInv, Shape
<1>3. Cur(t)' = f BY DEF Cur
<1>4. "got" \notin InHand BY DEF InHand, OnStack
<1>5. \A x : SameWith(x, t)
    BY <1>2, <1>3, <1>4 DEF SameWith, GotBy, GotCbBy, FiredBy, HeldBy, SpareOf
<1>6. \A x : /\ (InQueue(x)' <=> InQueue(x))
             /\ (InCbs(x)' <=> InCbs(x))
             /\ \A g \in Fibers : CbOf(x, g)' <=> CbOf(x, g)
  BY DEF InQueue, InCbs, CbOf
<1>7. \A x : Untouched(x, t)
  BY <1>5, <1>6 DEF Untouched
<1>8. \A u \in Threads : SameWith(f, u) BY <1>2, <1>5, OtherThreads
<1>9. Same(f) BY <1>6, <1>8, SameFrom
<1>10. Placed(f)' <=> Placed(f) BY <1>9 DEF Placed, Same
<1>11. HolderOK(f)' /\ Held(f)'
  <2>1. HeldBy(f, t)' /\ \A u \in Threads \ {t} : ~HeldBy(f, u)' BY <1>1, <1>8 DEF SameWith
  <2>2. HeldOK(f, pc[t])' BY <1>2, <1>10
  <2> QED BY <2>1, <2>2, OneHolder
<1>12. FiberOK(f)' /\ OneAt(f)' BY <1>1, <1>9, <1>11, FiberHeld
<1>13. \A g \in Fibers \ {f} : ~HeldBy(g, t) BY DEF HeldBy
<1>14. ThreadOK(t)' BY <1>2, <1>4 DEF PoolInv, ThreadOK, InHand, OnStack
<1>16. QueueOK' BY DEF PoolInv, QueueOK, Proper
<1>17. \A j : SameJob(j) BY DEF SameJob
<1>18. f \notin Jobs BY <1>1
<1>19. /\ \A x \in Things \ {f} : Untouched(x, t)
       /\ \A x \in Things \cap {f} : OneAt(x)'
       /\ \A g \in Fibers \cap {f} : FiberOK(g)'
       /\ \A j \in Jobs \cap {f} : JobOK(j)'
  BY <1>7, <1>12, <1>18
<1> QED BY <1>2, <1>13, <1>14, <1>16, <1>17, <1>19, StepPool

LEMMA YieldPool ==
  ASSUME IndInv, PoolInv, NEW t \in Threads, YieldToReady(t) \/ YieldToHold(t) \/ SwapOut(t) \/ Post(t)
  PROVE  PoolInv'
<1> USE DEF counters, fibers, slot, idler, rest, flags, owner, jobs, threads
<1>1. {"exec", "reg", "switch", "post", "settle"} \subseteq InHand BY DEF InHand, OnStack
<1>2. m_state \in [Fibers -> FiberStates] BY DEF IndInv, Shape
<1>3. CASE YieldToReady(t)
  <2>1. /\ pc[t] = "exec" /\ m_cb[Cur(t)] \in Jobs /\ Goto(t, "switch")
        /\ m_state' = [m_state EXCEPT ![Cur(t)] = "READY"]
        /\ UNCHANGED <<m_fibers, m_cb, waiting, slot, fired, submitted, done>>
    BY <1>3 DEF YieldToReady
  <2>2. PICK f \in Fibers : f = Cur(t) /\ HeldOK(f, pc[t]) BY <1>1, <2>1, InHandFact
  <2>3. ((Placed(f)' <=> Placed(f)) => HeldOK(f, "switch")') /\ m_state'[f] # "FREE"
    BY <1>2, <2>1, <2>2 DEF HeldOK
  <2> QED BY <1>1, <1>2, <2>1, <2>2, <2>3, HandPool
<1>4. CASE YieldToHold(t)
  <2>1. /\ pc[t] = "reg" /\ Goto(t, "switch")
        /\ m_state' = [m_state EXCEPT ![Cur(t)] = "HOLD"]
        /\ UNCHANGED <<m_fibers, m_cb, waiting, slot, fired, submitted, done>>
    BY <1>4 DEF YieldToHold
  <2>2. PICK f \in Fibers : f = Cur(t) /\ HeldOK(f, pc[t]) BY <1>1, <2>1, InHandFact
  <2>3. ((Placed(f)' <=> Placed(f)) => HeldOK(f, "switch")') /\ m_state'[f] # "FREE"
    BY <1>2, <2>1, <2>2 DEF HeldOK
  <2> QED BY <1>1, <1>2, <2>1, <2>2, <2>3, HandPool
<1>5. CASE SwapOut(t) \/ Post(t)
  <2>1. PICK l \in {"post", "settle"} :
             /\ pc[t] \in {"switch", "post"} /\ Goto(t, l)
             /\ UNCHANGED <<m_fibers, m_state, m_cb, waiting, slot, fired, submitted, done>>
    BY <1>5 DEF SwapOut, Post, PostBy
  <2>2. PICK f \in Fibers : f = Cur(t) /\ HeldOK(f, pc[t]) BY <1>1, <2>1, InHandFact
  <2>3. ((Placed(f)' <=> Placed(f)) => HeldOK(f, l)') /\ m_state'[f] # "FREE"
    BY <2>1, <2>2 DEF HeldOK, Finished
  <2> QED BY <1>1, <2>1, <2>2, <2>3, HandPool
<1> QED BY <1>3, <1>4, <1>5

\* addEvent()'s assertion holds, and the job registers.
LEMMA RegisterPool ==
  ASSUME IndInv, PoolInv, NEW t \in Threads, NEW w \in Waits, Register(t, w)
  PROVE  PoolInv' /\ failed' = failed
<1> USE DEF counters, fibers, slot, idler, rest, flags, owner, jobs, threads
<1>1. {"exec", "reg"} \subseteq InHand BY DEF InHand, OnStack
<1>2. pc[t] = "exec" /\ m_cb[Cur(t)] \in Jobs BY DEF Register
<1>3. PICK f \in Fibers : /\ f = Cur(t) /\ HeldOK(f, pc[t]) /\ HeldBy(f, t) /\ OneAt(f)
                          /\ \A u \in Threads \ {t} : ~HeldBy(f, u)
  BY <1>1, <1>2, InHandFact
<1>4. m_state[f] = "EXEC" /\ ~Placed(f) /\ m_cb[f] \in Jobs BY <1>2, <1>3 DEF HeldOK
<1>5. /\ waiting' = [waiting EXCEPT ![f] = w] /\ Goto(t, "reg")
      /\ UNCHANGED <<m_fibers, m_state, m_cb, slot, fired, submitted, done, failed>>
  BY <1>3, <1>4 DEF Register
<1>6. waiting'[f] # "no" /\ \A g \in Fibers : g # f => waiting'[g] = waiting[g]
  BY <1>5 DEF IndInv, Shape
<1>7. pc'[t] = "reg" /\ OnlyThread(t) BY <1>5 DEF Goto, OnlyThread, IndInv, Shape
<1>8. \A x : SameWith(x, t)
  BY <1>1, <1>2, <1>5, <1>7 DEF SameWith, GotBy, GotCbBy, FiredBy, HeldBy, SpareOf, Cur
<1>9. \A x : /\ (InQueue(x)' <=> InQueue(x))
             /\ (InCbs(x)' <=> InCbs(x))
             /\ \A g \in Fibers : CbOf(x, g)' <=> CbOf(x, g)
  BY <1>5 DEF InQueue, InCbs, CbOf
<1>10. \A x \in Things \ {f} : Untouched(x, t) BY <1>6, <1>8, <1>9 DEF Untouched
<1>11. \A u \in Threads : SameWith(f, u) BY <1>7, <1>8, OtherThreads
<1>12. Parked(f)' BY <1>6 DEF Parked
<1>13. GoesTo(f, "wait", None)
  <2>1. \A m \in Kinds, c \in Whom : At(f, m, c)' <=> At(f, m, c) \/ (m = "wait" /\ c = None)
    BY <1>9, <1>11, <1>12 DEF At, SameWith
  <2> QED BY <1>4, <2>1, ArrivesGoes DEF Kinds, Whom
<1>14. Placed(f)' BY <1>13 DEF Placed, GoesTo, Kinds, Whom
<1>15. HolderOK(f)' /\ Held(f)'
  <2>1. HeldBy(f, t)' /\ \A u \in Threads \ {t} : ~HeldBy(f, u)' BY <1>3, <1>11 DEF SameWith
  <2>2. HeldOK(f, pc[t])' BY <1>4, <1>5, <1>7, <1>14 DEF HeldOK
  <2> QED BY <2>1, <2>2, OneHolder
<1>16. TokenOK(f, "wait", None)' BY <1>4, <1>5, <1>15 DEF TokenOK
<1>17. FiberOK(f)' /\ OneAt(f)' BY <1>4, <1>5, <1>13, <1>15, <1>16, FiberGoes DEF Kinds, Whom
<1>18. \A g \in Fibers \ {f} : ~HeldBy(g, t) BY <1>3 DEF HeldBy
<1>19. ThreadOK(t)' BY <1>1, <1>2, <1>5, <1>7 DEF PoolInv, ThreadOK, InHand, OnStack
<1>20. QueueOK' BY <1>5 DEF PoolInv, QueueOK, Proper
<1>21. \A j : SameJob(j) BY <1>5 DEF SameJob
<1>22. /\ \A x \in Things \cap {f} : OneAt(x)'
       /\ \A g \in Fibers \cap {f} : FiberOK(g)'
       /\ \A j \in Jobs \cap {f} : JobOK(j)'
       /\ \A g \in Fibers \ {f} : m_state'[g] = m_state[g] /\ m_cb'[g] = m_cb[g]
  BY <1>5, <1>17
<1>23. PoolInv' BY <1>7, <1>10, <1>18, <1>19, <1>20, <1>21, <1>22, StepPool
<1> QED BY <1>5, <1>23

\* swapIn() finds a fiber that nobody runs and that has not ended.
LEMMA SwapInPool ==
  ASSUME IndInv, PoolInv, NEW t \in Threads, SwapIn(t)
  PROVE  PoolInv' /\ failed' = failed
<1> USE DEF counters, fibers, slot, idler, rest, flags, owner, jobs, threads
<1>1. pc[t] = "got" /\ ft[t].fiber # None BY DEF SwapIn
<1>2. PICK f \in Fibers : f = ft[t].fiber BY <1>1 DEF IndInv, Shape, Entries
<1>3. At(f, "got", t) /\ OneAt(f) BY <1>1, <1>2 DEF At, GotBy, PoolInv, Things
<1>4. TokenOK(f, "got", t) BY <1>2, <1>3 DEF PoolInv, FiberOK, Kinds, Whom
<1>5. m_state[f] # "EXEC" /\ m_cb[f] \in Jobs /\ ~Held(f) BY <1>4 DEF TokenOK
<1>6. \A u \in Threads : ~HeldBy(f, u) BY <1>5 DEF Held
<1>7. Holders(f) = {} BY <1>6 DEF Holders, HeldBy
<1>8. /\ m_state' = [m_state EXCEPT ![f] = "EXEC"] /\ Goto(t, "exec")
      /\ UNCHANGED <<m_fibers, m_cb, waiting, slot, fired, submitted, done, failed>>
  <2>1. Over \notin Jobs OBVIOUS
  <2> QED BY <1>2, <1>5, <1>7, <2>1 DEF SwapIn
<1>9. pc'[t] = "exec" /\ OnlyThread(t) BY <1>8 DEF Goto, OnlyThread, IndInv, Shape
<1>10. \A x \in Things : /\ GotBy(x, t) <=> f = x
                         /\ ~GotCbBy(x, t) /\ ~GotCbBy(x, t)' /\ ~GotBy(x, t)'
                         /\ HeldBy(x, t)' <=> f = x
                         /\ ~HeldBy(x, t)
                         /\ FiredBy(x, t)' <=> FiredBy(x, t)
                         /\ SpareOf(x, t)' <=> SpareOf(x, t)
                         /\ x # None
  BY <1>1, <1>2, <1>8, <1>9 DEF GotBy, GotCbBy, HeldBy, FiredBy, SpareOf, InHand, OnStack, Cur, PoolInv,
     ThreadOK, Proper, Things
<1>11. \A x \in Things : /\ InQueue(x)' <=> InQueue(x)
                         /\ InCbs(x)' <=> InCbs(x)
                         /\ \A g \in Fibers : CbOf(x, g)' <=> CbOf(x, g)
                         /\ x \in Fibers => waiting'[x] = waiting[x]
                         /\ Parked(x)' <=> Parked(x)
  BY <1>8 DEF InQueue, InCbs, CbOf, Parked
<1>12. ASSUME NEW x \in Things, x # f PROVE Untouched(x, t)
  BY <1>10, <1>11, <1>12 DEF SameWith, Untouched
<1>13. Vanishes(f)
  <2>1. \A m \in Kinds, c \in Whom : At(f, m, c)' <=> At(f, m, c) /\ ~(m = "got" /\ c = t)
    BY <1>2, <1>9, <1>10, <1>11, OtherThreads DEF At, SameWith, Whom, Kinds, Things
  <2> QED BY <1>3, <2>1 DEF Vanishes, OneAt, Kinds, Whom
<1>14. m_state'[f] = "EXEC" /\ \A g \in Fibers : g # f => m_state'[g] = m_state[g]
  BY <1>2, <1>8 DEF IndInv, Shape
<1>15. HolderOK(f)' /\ Held(f)'
  <2>1. HeldBy(f, t)' BY <1>10 DEF Things
  <2>2. \A u \in Threads \ {t} : ~HeldBy(f, u)' BY <1>6, <1>9, OtherThreads DEF SameWith
  <2>3. ~Placed(f)' BY <1>13 DEF Placed, Vanishes
  <2>4. HeldOK(f, pc[t])' BY <1>5, <1>8, <1>9, <1>14, <2>3 DEF HeldOK, Live
  <2> QED BY <2>1, <2>2, <2>4, OneHolder
<1>16. FiberOK(f)' /\ OneAt(f)' BY <1>13, <1>14, <1>15, FiberOut
<1>17. \A g \in Fibers \ {f} : ~HeldBy(g, t) BY <1>1 DEF HeldBy, InHand, OnStack
<1>18. ThreadOK(t)' BY <1>1, <1>8, <1>9 DEF PoolInv, ThreadOK, InHand, OnStack
<1>20. QueueOK' BY <1>8 DEF PoolInv, QueueOK, Proper
<1>21. \A j : SameJob(j) BY <1>8 DEF SameJob
<1>22. /\ \A x \in Things \ {f} : Untouched(x, t)
       /\ \A g \in Fibers \ {f} : m_state'[g] = m_state[g] /\ m_cb'[g] = m_cb[g] /\ ~HeldBy(g, t)
       /\ \A x \in Things \cap {f} : OneAt(x)'
       /\ \A g \in Fibers \cap {f} : FiberOK(g)'
       /\ \A j \in Jobs \cap {f} : JobOK(j)'
  BY <1>2, <1>8, <1>12, <1>14, <1>16, <1>17
<1>23. PoolInv' BY <1>9, <1>18, <1>20, <1>21, <1>22, StepPool
<1> QED BY <1>8, <1>23

\* schedule() of a new job, as a callback or in a fiber of its own.
LEMMA SchedulePool ==
  ASSUME IndInv, PoolInv, NEW j, NEW pin \in Pins, Schedule(j, pin)
  PROVE  PoolInv'
<1> USE DEF counters, fibers, slot, idler, rest, flags, owner, jobs, threads
<1>1. /\ j \in Jobs /\ j \notin submitted /\ submitted' = submitted \cup {j}
      /\ UNCHANGED <<pc, ft, cb_fiber, fired, waiting, done>>
  BY DEF Schedule
<1>2. ~Placed(j) /\ j \in Unfinished' BY <1>1 DEF PoolInv, JobOK, Unfinished
<1>3. \A i : i # j => SameJob(i) BY <1>1 DEF SameJob
<1>4. OnlyThread(Caller) BY <1>1 DEF OnlyThread
<1>5. \A u \in Threads : \A x : SameWith(x, u)
  BY <1>1 DEF SameWith, GotBy, GotCbBy, FiredBy, HeldBy, SpareOf, Cur
<1>6. \A x : Parked(x)' <=> Parked(x) BY <1>1 DEF Parked
<1>7. Caller \in Threads /\ ThreadOK(Caller)' BY <1>1 DEF PoolInv, ThreadOK, Proper, Threads
<1>8. pin \in Threads \cup {None} /\ m_fibers \in Seq(Entries) /\ QueueOK
  BY DEF Threads, IndInv, Shape, PoolInv
<1>9. \A x \in Things : x # None BY DEF Things
<1>10. CASE m_fibers' = Append(m_fibers, Task(None, j, pin)) /\ UNCHANGED fibers
  <2> DEFINE e == Task(None, j, pin)
  <2>1. e \in Entries /\ e.fiber = None /\ e.cb = j BY <1>1, <1>8 DEF Task, Entries
  <2>2. Proper(e) /\ ~InCbs(j) BY <1>1, <1>2, <2>1 DEF Proper, Placed, At, Kinds, Whom
  <2> HIDE DEF e
  <2>3. /\ \A x \in Things : (InQueue(x)' <=> InQueue(x)) /\ (InCbs(x)' <=> InCbs(x) \/ x = j)
        /\ QueueOK'
    <3>1. m_fibers' = Append(m_fibers, e) BY <1>10 DEF e
    <3> QED BY <1>8, <1>9, <2>1, <2>2, <3>1, QueueAppend
  <2>4. \A x : \A g \in Fibers : CbOf(x, g)' <=> CbOf(x, g) BY <1>10 DEF CbOf
  <2>5. \A x \in Things \ {j} : Untouched(x, Caller)
    BY <1>1, <1>5, <1>7, <2>3, <2>4 DEF Untouched
  <2>6. GoesTo(j, "cb", None)
    <3>1. \A m \in Kinds, c \in Whom : At(j, m, c)' <=> At(j, m, c) \/ (m = "cb" /\ c = None)
      BY <1>1, <1>5, <1>6, <2>3, <2>4 DEF At, SameWith, Things
    <3> QED BY <1>2, <3>1, ArrivesGoes DEF Kinds, Whom
  <2>7. JobOK(j)' /\ OneAt(j)' BY <1>1, <1>2, <2>6, JobGoes DEF Kinds, Whom
  <2>8. /\ \A x \in Things \cap {j} : OneAt(x)'
        /\ \A g \in Fibers \cap {j} : FiberOK(g)'
        /\ \A i \in Jobs \cap {j} : JobOK(i)'
    BY <1>1, <2>7
  <2> QED BY <1>1, <1>3, <1>4, <1>7, <1>10, <2>3, <2>5, <2>8, StepPool
<1>11. CASE \E f \in Fibers : /\ m_state[f] = "FREE" /\ m_state' = [m_state EXCEPT ![f] = "INIT"]
                              /\ m_cb' = [m_cb EXCEPT ![f] = j]
                              /\ m_fibers' = Append(m_fibers, Task(f, None, pin))
  <2>0. PICK f \in Fibers : /\ m_state[f] = "FREE" /\ m_state' = [m_state EXCEPT ![f] = "INIT"]
                            /\ m_cb' = [m_cb EXCEPT ![f] = j]
                            /\ m_fibers' = Append(m_fibers, Task(f, None, pin))
    BY <1>11
  <2> DEFINE e == Task(f, None, pin)
  <2>1. e \in Entries /\ e.fiber = f /\ e.cb = None BY <1>8 DEF Task, Entries
  <2>2. ~Placed(f) /\ m_cb[f] = None /\ ~Held(f) BY <2>0 DEF PoolInv, FiberOK
  <2>3. Proper(e) /\ ~InQueue(f) BY <2>1, <2>2 DEF Proper, Placed, At, Kinds, Whom
  <2> HIDE DEF e
  <2>4. /\ \A x \in Things : (InQueue(x)' <=> InQueue(x) \/ x = f) /\ (InCbs(x)' <=> InCbs(x))
        /\ QueueOK'
    <3>1. m_fibers' = Append(m_fibers, e) BY <2>0 DEF e
    <3> QED BY <1>8, <1>9, <2>1, <2>3, <3>1, QueueAppend
  <2>5. /\ m_cb'[f] = j /\ m_state'[f] = "INIT"
        /\ \A g \in Fibers : g # f => m_cb'[g] = m_cb[g] /\ m_state'[g] = m_state[g]
    BY <2>0 DEF IndInv, Shape
  <2>6. \A x \in Things, g \in Fibers : CbOf(x, g)' <=> CbOf(x, g) \/ (x = j /\ g = f)
    BY <1>9, <2>2, <2>5 DEF CbOf
  <2>7. \A x \in Things \ {j, f} : Untouched(x, Caller)
    BY <1>1, <1>5, <1>7, <2>4, <2>6 DEF Untouched
  <2>8. j # f BY <1>1
  <2>9. GoesTo(j, "relay", f)
    <3>1. \A m \in Kinds, c \in Whom : At(j, m, c)' <=> At(j, m, c) \/ (m = "relay" /\ c = f)
      BY <1>1, <1>5, <1>6, <2>4, <2>6, <2>8 DEF At, SameWith, Things
    <3> QED BY <1>2, <3>1, ArrivesGoes DEF Kinds, Whom
  <2>10. GoesTo(f, "run", None)
    <3>1. \A m \in Kinds, c \in Whom : At(f, m, c)' <=> At(f, m, c) \/ (m = "run" /\ c = None)
      BY <1>1, <1>5, <1>6, <2>4, <2>6, <2>8 DEF At, SameWith, Things
    <3> QED BY <2>2, <3>1, ArrivesGoes DEF Kinds, Whom
  <2>11. JobOK(j)' /\ OneAt(j)' BY <1>1, <1>2, <2>9, JobGoes DEF Kinds, Whom
  <2>12. HolderOK(f)' /\ ~Held(f)'
    <3>1. \A u \in Threads : ~HeldBy(f, u)' BY <1>5, <2>2 DEF Held, SameWith
    <3> QED BY <3>1, NoHolder
  <2>15. TokenOK(f, "run", None)' BY <1>1, <2>5, <2>12 DEF TokenOK
  <2>13. FiberOK(f)' /\ OneAt(f)' BY <2>5, <2>10, <2>12, <2>15, FiberGoes DEF Kinds, Whom
  <2>14. /\ \A x \in Things \cap {j, f} : OneAt(x)'
         /\ \A g \in Fibers \cap {j, f} : FiberOK(g)'
         /\ \A i \in Jobs \cap {j, f} : JobOK(i)'
         /\ \A g \in Fibers \ {j, f} : m_state'[g] = m_state[g] /\ m_cb'[g] = m_cb[g]
    BY <1>1, <2>5, <2>11, <2>13
  <2> QED BY <1>1, <1>3, <1>4, <1>7, <2>4, <2>7, <2>14, StepPool
<1> QED BY <1>10, <1>11 DEF Schedule

\* The function of the fiber on the thread ends: a job is done.
LEMMA FinishPool ==
  ASSUME IndInv, PoolInv, NEW t \in Threads, NEW s \in Finished, Finish(t, s)
  PROVE  PoolInv'
<1> USE DEF counters, fibers, slot, idler, rest, flags, owner, jobs, threads
<1>1. pc[t] = "exec" /\ {"exec", "switch"} \subseteq InHand BY DEF Finish, InHand, OnStack
<1>2. PICK f \in Fibers : /\ f = Cur(t) /\ HeldBy(f, t) /\ HeldOK(f, "exec")
                          /\ \A u \in Threads \ {t} : ~HeldBy(f, u)
  BY <1>1, InHandFact
<1>3. m_state[f] = "EXEC" /\ Live(f) /\ ~Placed(f) BY <1>2 DEF HeldOK
<1>4. PICK j \in Jobs : j = m_cb[f] BY <1>2, <1>3 DEF Finish, Live
<1>5. /\ done' = done \cup {j} /\ m_state' = [m_state EXCEPT ![f] = s]
      /\ m_cb' = [m_cb EXCEPT ![f] = Over] /\ Goto(t, "switch")
      /\ UNCHANGED <<m_fibers, waiting, slot, fired, submitted>>
  <2>1. {j} \ {None} = {j} OBVIOUS
  <2> QED BY <1>2, <1>4, <2>1 DEF Finish
<1>6. pc'[t] = "switch" /\ OnlyThread(t) BY <1>5 DEF Goto, OnlyThread, IndInv, Shape
<1>7. \A x : SameWith(x, t)
  BY <1>1, <1>5, <1>6 DEF SameWith, GotBy, GotCbBy, FiredBy, HeldBy, SpareOf, Cur
<1>8. /\ m_cb'[f] = Over /\ m_state'[f] = s
      /\ \A g \in Fibers : g # f => m_cb'[g] = m_cb[g] /\ m_state'[g] = m_state[g]
  BY <1>5 DEF IndInv, Shape
<1>9. \A x \in Things : Over # x BY DEF Things
<1>10. \A x \in Things, g \in Fibers : CbOf(x, g)' <=> CbOf(x, g) /\ ~(x = j /\ g = f)
  BY <1>4, <1>8, <1>9 DEF CbOf
<1>11. \A x : (InQueue(x)' <=> InQueue(x)) /\ (InCbs(x)' <=> InCbs(x)) BY <1>5 DEF InQueue, InCbs
<1>12. \A u \in Threads : \A x : SameWith(x, u) BY <1>6, <1>7, OtherThreads
<1>13. \A x : Parked(x)' <=> Parked(x) BY <1>5 DEF Parked
<1>14. \A x \in Things \ {j, f} : Untouched(x, t) BY <1>5, <1>7, <1>10, <1>11 DEF Untouched
<1>15. At(j, "relay", f) /\ OneAt(j) BY <1>4 DEF At, CbOf, PoolInv, Things
<1>16. Vanishes(j)
  <2>1. \A m \in Kinds, c \in Whom : At(j, m, c)' <=> At(j, m, c) /\ ~(m = "relay" /\ c = f)
    BY <1>10, <1>11, <1>12, <1>13 DEF At, SameWith, Things
  <2> QED BY <1>15, <2>1 DEF Vanishes, OneAt, Kinds, Whom
<1>17. Vanishes(f)
  <2>1. \A m \in Kinds, c \in Whom : At(f, m, c)' <=> At(f, m, c)
    BY <1>4, <1>10, <1>11, <1>12, <1>13 DEF At, SameWith, Things
  <2> QED BY <1>3, <2>1 DEF Vanishes, Placed
<1>18. JobOK(j)' /\ OneAt(j)'
  <2>1. j \in Unfinished BY <1>15 DEF PoolInv, JobOK, Placed, Kinds, Whom
  <2> QED BY <1>5, <1>16, <2>1 DEF JobOK, OneAt, Vanishes, Placed, Unfinished
<1>19. HolderOK(f)' /\ Held(f)'
  <2>1. HeldBy(f, t)' /\ \A u \in Threads \ {t} : ~HeldBy(f, u)' BY <1>2, <1>12 DEF SameWith
  <2>2. ~Placed(f)' BY <1>17 DEF Placed, Vanishes
  <2>3. HeldOK(f, pc[t])' BY <1>6, <1>8, <2>2 DEF HeldOK
  <2> QED BY <2>1, <2>3, OneHolder
<1>20. FiberOK(f)' /\ OneAt(f)' BY <1>8, <1>17, <1>19, FiberOut DEF Finished
<1>21. \A g \in Fibers \ {j, f} : ~HeldBy(g, t) BY <1>2 DEF HeldBy
<1>22. ThreadOK(t)' BY <1>1, <1>5, <1>6 DEF PoolInv, ThreadOK, InHand, OnStack
<1>23. QueueOK' BY <1>5 DEF PoolInv, QueueOK, Proper
<1>24. \A i : i # j => SameJob(i) BY <1>5 DEF SameJob
<1>25. /\ \A x \in Things \cap {j, f} : OneAt(x)'
       /\ \A g \in Fibers \cap {j, f} : FiberOK(g)'
       /\ \A i \in Jobs \cap {j, f} : JobOK(i)'
       /\ \A g \in Fibers \ {j, f} : m_state'[g] = m_state[g] /\ m_cb'[g] = m_cb[g]
  BY <1>4, <1>8, <1>18, <1>20
<1> QED BY <1>6, <1>14, <1>21, <1>22, <1>23, <1>24, <1>25, StepPool

\* The callback of a timer queues the fiber it is to wake, and ends.
LEMMA RelayPool ==
  ASSUME IndInv, PoolInv, NEW t \in Threads, Relay(t)
  PROVE  PoolInv'
<1> USE DEF counters, fibers, slot, idler, rest, flags, owner, jobs, threads
<1>1. pc[t] = "exec" /\ {"exec", "switch"} \subseteq InHand BY DEF Relay, InHand, OnStack
<1>2. PICK f \in Fibers : /\ f = Cur(t) /\ HeldBy(f, t) /\ HeldOK(f, "exec")
                          /\ \A u \in Threads \ {t} : ~HeldBy(f, u)
  BY <1>1, InHandFact
<1>3. m_state[f] = "EXEC" /\ ~Placed(f) BY <1>2 DEF HeldOK
<1>4. PICK w \in Fibers : w = m_cb[f] BY <1>2 DEF Relay
<1> DEFINE e == Task(w, None, None)
<1>5. /\ m_fibers' = Append(m_fibers, e) /\ m_state' = [m_state EXCEPT ![f] = "TERM"]
      /\ m_cb' = [m_cb EXCEPT ![f] = Over] /\ Goto(t, "switch")
      /\ UNCHANGED <<waiting, slot, fired, submitted, done>>
  BY <1>2, <1>4 DEF Relay
<1>6. pc'[t] = "switch" /\ OnlyThread(t) BY <1>5 DEF Goto, OnlyThread, IndInv, Shape
<1>7. \A x : SameWith(x, t)
  BY <1>1, <1>5, <1>6 DEF SameWith, GotBy, GotCbBy, FiredBy, HeldBy, SpareOf, Cur
<1>8. /\ m_cb'[f] = Over /\ m_state'[f] = "TERM"
      /\ \A g \in Fibers : g # f => m_cb'[g] = m_cb[g] /\ m_state'[g] = m_state[g]
  BY <1>5 DEF IndInv, Shape
<1>9. \A x \in Things : Over # x /\ x # None BY DEF Things
<1>10. \A x \in Things, g \in Fibers : CbOf(x, g)' <=> CbOf(x, g) /\ ~(x = w /\ g = f)
  BY <1>4, <1>8, <1>9 DEF CbOf
<1>11. At(w, "relay", f) /\ OneAt(w) /\ FiberOK(w) BY <1>4 DEF At, CbOf, PoolInv, Things
<1>12. f # w /\ ~InQueue(w)
  <2>1. InQueue(w) => At(w, "run", None) BY DEF At
  <2>2. Placed(w) BY <1>11 DEF Placed, Kinds, Whom
  <2> QED BY <1>3, <1>11, <2>1, <2>2 DEF OneAt, Kinds, Whom
<1>13. e \in Entries /\ e.fiber = w /\ e.cb = None /\ Proper(e) BY DEF Task, Entries, Threads, Proper
<1> HIDE DEF e
<1>14. /\ \A x \in Things : (InQueue(x)' <=> InQueue(x) \/ x = w) /\ (InCbs(x)' <=> InCbs(x))
       /\ QueueOK'
  <2>1. m_fibers \in Seq(Entries) /\ QueueOK BY DEF IndInv, Shape, PoolInv
  <2> QED BY <1>5, <1>9, <1>12, <1>13, <2>1, QueueAppend
<1>15. \A u \in Threads : \A x : SameWith(x, u) BY <1>6, <1>7, OtherThreads
<1>16. \A x : Parked(x)' <=> Parked(x) BY <1>5 DEF Parked
<1>17. \A x \in Things \ {w, f} : Untouched(x, t) BY <1>5, <1>7, <1>10, <1>14 DEF Untouched
<1>18. Moves(w, "relay", f, "run", None)
    BY <1>10, <1>14, <1>15, <1>16 DEF Moves, At, SameWith, Things
<1>19. Vanishes(f)
  <2>1. \A m \in Kinds, c \in Whom : At(f, m, c)' <=> At(f, m, c)
    BY <1>10, <1>12, <1>14, <1>15, <1>16 DEF At, SameWith, Things
  <2> QED BY <1>3, <2>1 DEF Vanishes, Placed
<1>20. FiberOK(w)' /\ OneAt(w)'
  <2>1. ~HeldBy(w, t) BY <1>2, <1>12 DEF HeldBy
  <2>2. Still(w) BY <1>6, <1>8, <1>12, <1>15, <2>1 DEF Still, SameWith, OnlyThread
  <2> QED BY <1>11, <1>18, <2>2, FiberMoves DEF Wakeups, Whom
<1>21. HolderOK(f)' /\ Held(f)'
  <2>1. HeldBy(f, t)' /\ \A u \in Threads \ {t} : ~HeldBy(f, u)' BY <1>2, <1>15 DEF SameWith
  <2>2. ~Placed(f)' BY <1>19 DEF Placed, Vanishes
  <2>3. HeldOK(f, pc[t])' BY <1>6, <1>8, <2>2 DEF HeldOK, Finished
  <2> QED BY <2>1, <2>3, OneHolder
<1>22. FiberOK(f)' /\ OneAt(f)' BY <1>8, <1>19, <1>21, FiberOut
<1>23. \A g \in Fibers \ {w, f} : ~HeldBy(g, t) BY <1>2 DEF HeldBy
<1>24. ThreadOK(t)' BY <1>1, <1>5, <1>6 DEF PoolInv, ThreadOK, InHand, OnStack
<1>25. \A i : SameJob(i) BY <1>5 DEF SameJob
<1>26. /\ \A x \in Things \cap {w, f} : OneAt(x)'
       /\ \A g \in Fibers \cap {w, f} : FiberOK(g)'
       /\ \A i \in Jobs \cap {w, f} : JobOK(i)'
       /\ \A g \in Fibers \ {w, f} : m_state'[g] = m_state[g] /\ m_cb'[g] = m_cb[g]
  BY <1>8, <1>20, <1>22
<1> QED BY <1>6, <1>14, <1>17, <1>23, <1>24, <1>25, <1>26, StepPool

\* Thread t has let go of fiber f.
Released(f, t) ==
  /\ f \in Fibers /\ OneAt(f) /\ FiberOK(f) /\ Held(f)
  /\ OnlyThread(t) /\ ThreadOK(t)'
  /\ \A x \in Things \ {f} : SameWith(x, t) /\ ~HeldBy(x, t)
  /\ ~GotBy(f, t) /\ ~GotBy(f, t)' /\ ~GotCbBy(f, t) /\ ~GotCbBy(f, t)'
  /\ FiredBy(f, t)' <=> FiredBy(f, t)
  /\ \A u \in Threads : ~HeldBy(f, u)'
  /\ ~SpareOf(f, t)
  /\ SpareOf(f, t)' <=> cb_fiber'[t] = f

\* The thread lets go of the fiber in hand and goes back to the scan; it may
\* drop a cb_fiber that was in use.
LEMMA Release ==
  ASSUME IndInv, PoolInv, NEW t \in Threads, pc[t] \in InHand, NEW f, f = Cur(t),
         Goto(t, "scan"), ft' = [ft EXCEPT ![t] = NoTask], fired' = fired,
         \A u \in Threads \ {t} : cb_fiber'[u] = cb_fiber[u],
         cb_fiber'[t] = cb_fiber[t] \/ (ft[t].fiber = None /\ cb_fiber'[t] = None)
  PROVE  Released(f, t) /\ HeldOK(f, pc[t])
<1>1. /\ f \in Fibers /\ HeldBy(f, t) /\ HeldOK(f, pc[t]) /\ Held(f) /\ OneAt(f) /\ FiberOK(f)
      /\ \A u \in Threads \ {t} : ~HeldBy(f, u)
  BY InHandFact
<1>3. pc'[t] = "scan" /\ ft'[t].fiber = None /\ ft'[t].cb = None
  BY DEF Goto, IndInv, Shape, NoTask, Task
<1>5. OnlyThread(t) BY DEF OnlyThread, Goto, IndInv, Shape
<1>6. "got" \notin InHand /\ "scan" \notin InHand /\ "fire" \notin InHand BY DEF InHand, OnStack
<1>7. ThreadOK(t)' BY <1>3, <1>6 DEF PoolInv, ThreadOK
<1>8. \A x \in Things : x # None BY DEF Things
<1>9. ~SpareOf(f, t)
  <2>1. SpareOf(f, t) => At(f, "spare", t) BY DEF At
  <2>2. At(f, "spare", t) => TokenOK(f, "spare", t) BY <1>1 DEF FiberOK, Kinds, Whom
  <2> QED BY <1>1, <2>1, <2>2 DEF TokenOK
<1>10. f = IF ft[t].fiber # None THEN ft[t].fiber ELSE cb_fiber[t] BY DEF Cur
<1>11. ASSUME NEW x \in Things \ {f} PROVE SameWith(x, t) /\ ~HeldBy(x, t)
  <2>1. ~HeldBy(x, t) /\ ~HeldBy(x, t)' BY <1>3, <1>6 DEF HeldBy
  <2>2. SpareOf(x, t)' <=> SpareOf(x, t) BY <1>3, <1>6, <1>8, <1>10, <1>11 DEF SpareOf
  <2>3. ~GotBy(x, t) /\ ~GotBy(x, t)' /\ ~GotCbBy(x, t) /\ ~GotCbBy(x, t)' BY <1>3, <1>6 DEF GotBy, GotCbBy
  <2> QED BY <2>1, <2>2, <2>3 DEF SameWith, FiredBy
<1>12. ~GotBy(f, t) /\ ~GotBy(f, t)' /\ ~GotCbBy(f, t) /\ ~GotCbBy(f, t)' BY <1>3, <1>6 DEF GotBy, GotCbBy
<1>13. ~HeldBy(f, t)' /\ (FiredBy(f, t)' <=> FiredBy(f, t))
  BY <1>3, <1>6 DEF HeldBy, FiredBy
<1>14. SpareOf(f, t)' <=> cb_fiber'[t] = f
  BY <1>3, <1>6 DEF SpareOf
<1>15. \A u \in Threads : ~HeldBy(f, u)' BY <1>1, <1>5, <1>13, OtherThreads DEF SameWith
<1> QED BY <1>1, <1>5, <1>7, <1>9, <1>11, <1>12, <1>13, <1>14, <1>15 DEF Released

\* setState(HOLD): the fiber waits to be woken, or has been woken already.
LEMMA HoldPool ==
  ASSUME IndInv, PoolInv, NEW t \in Threads, Hold(t)
  PROVE  PoolInv'
<1> USE DEF counters, fibers, slot, idler, rest, flags, owner, jobs, threads
<1>1. pc[t] = "hold" /\ "hold" \in InHand BY DEF Hold, HoldLeaving, InHand
<1>2. PICK f : f = Cur(t) OBVIOUS
<1>3. /\ Goto(t, "scan") /\ ft' = [ft EXCEPT ![t] = NoTask]
      /\ \A u \in Threads \ {t} : cb_fiber'[u] = cb_fiber[u]
      /\ cb_fiber'[t] = IF ft[t].fiber = None THEN None ELSE cb_fiber[t]
      /\ m_state' = [m_state EXCEPT ![f] = "HOLD"]
      /\ UNCHANGED <<m_fibers, m_cb, waiting, fired, submitted, done>>
  BY <1>2 DEF Hold, HoldLeaving, IndInv, Shape
<1>4. Released(f, t) /\ HeldOK(f, "hold")
  <2>1. cb_fiber'[t] = cb_fiber[t] \/ (ft[t].fiber = None /\ cb_fiber'[t] = None) BY <1>3
  <2>2. pc[t] \in InHand BY <1>1
  <2>3. Released(f, t) /\ HeldOK(f, pc[t]) BY <1>2, <1>3, <2>1, <2>2, Release
  <2> QED BY <1>1, <2>3
<1> USE DEF Released
<1>17. ~SpareOf(f, t)'
  <2>1. CASE ft[t].fiber = None BY <1>3, <1>4, <2>1
  <2>2. CASE ft[t].fiber # None
    <3>1. cb_fiber[t] = f => SpareOf(f, t) BY <2>2 DEF SpareOf
    <3> QED BY <1>3, <1>4, <2>2, <3>1
  <2> QED BY <2>1, <2>2
<1>5. m_cb[f] \in Jobs /\ Placed(f) BY <1>4 DEF HeldOK
<1>6. m_state'[f] = "HOLD" /\ \A g \in Fibers : g # f => m_state'[g] = m_state[g]
  BY <1>3, <1>4 DEF IndInv, Shape
<1>7. \A x : /\ (InQueue(x)' <=> InQueue(x)) /\ (InCbs(x)' <=> InCbs(x))
             /\ \A g \in Fibers : CbOf(x, g)' <=> CbOf(x, g)
             /\ Parked(x)' <=> Parked(x)
  BY <1>3 DEF InQueue, InCbs, CbOf, Parked
<1>8. \A x \in Things \ {f} : Untouched(x, t) BY <1>3, <1>4, <1>7 DEF Untouched
<1>9. Same(f) BY <1>4, <1>7, <1>17, OtherThreads DEF Same, At, SameWith
<1>10. HolderOK(f)' /\ ~Held(f)' BY <1>4, NoHolder
<1>11. ASSUME NEW k \in Kinds, NEW a \in Whom, At(f, k, a)' PROVE TokenOK(f, k, a)'
  <2>1. At(f, k, a) /\ TokenOK(f, k, a) BY <1>4, <1>9, <1>11 DEF Same, FiberOK
  <2>2. k # "spare" BY <1>4, <2>1 DEF TokenOK
  <2> QED BY <1>3, <1>5, <1>6, <1>10, <2>2 DEF TokenOK
<1>12. Placed(f)' BY <1>5, <1>9 DEF Placed, Same
<1>13. FiberOK(f)' /\ OneAt(f)'
  <2>1. OneAt(f)' BY <1>4, <1>9 DEF OneAt, Same
  <2> QED BY <1>6, <1>10, <1>11, <1>12, <2>1 DEF FiberOK
<1>14. QueueOK' BY <1>3 DEF PoolInv, QueueOK, Proper
<1>15. \A i : SameJob(i) BY <1>3 DEF SameJob
<1>16. /\ \A x \in Things \cap {f} : OneAt(x)'
       /\ \A g \in Fibers \cap {f} : FiberOK(g)'
       /\ \A i \in Jobs \cap {f} : JobOK(i)'
       /\ \A g \in Fibers \ {f} : m_state'[g] = m_state[g] /\ m_cb'[g] = m_cb[g]
       /\ \A g \in Fibers \ {f} : ~HeldBy(g, t)
  BY <1>3, <1>4, <1>6, <1>13 DEF Things
<1> QED BY <1>4, <1>8, <1>14, <1>15, <1>16, StepPool

\* What run() does with the fiber that came back: queue it, drop it or reset it
\* for the next callback, or go on to park it.
LEMMA SettlePool ==
  ASSUME IndInv, PoolInv, NEW t \in Threads, Settle(t)
  PROVE  PoolInv'
<1> USE DEF counters, fibers, slot, idler, rest, flags, owner, jobs, threads
<1>1. pc[t] = "settle" /\ {"settle", "hold"} \subseteq InHand BY DEF Settle, InHand
<1>2. PICK f \in Fibers : f = Cur(t) /\ HeldOK(f, "settle") BY <1>1, InHandFact
<1>3. \/ m_state[f] \in Finished /\ m_cb[f] = Over /\ ~Placed(f)
      \/ m_state[f] = "READY" /\ m_cb[f] \in Jobs /\ ~Placed(f)
      \/ m_state[f] = "HOLD" /\ m_cb[f] \in Jobs /\ Placed(f)
  BY <1>2 DEF HeldOK
<1>4. "READY" \notin Finished /\ "HOLD" \notin Finished /\ "FREE" \notin Finished BY DEF Finished
<1>5. CASE m_state[f] = "HOLD"
  <2>1. Goto(t, "hold") /\ UNCHANGED <<m_fibers, m_state, m_cb, waiting, slot, fired, submitted, done>>
    BY <1>2, <1>4, <1>5 DEF Settle
  <2>2. ((Placed(f)' <=> Placed(f)) => HeldOK(f, "hold")') /\ m_state'[f] # "FREE"
    BY <1>3, <1>4, <1>5, <2>1 DEF HeldOK
  <2> QED BY <1>1, <1>2, <2>1, <2>2, HandPool
<1>6. CASE m_state[f] = "READY"
  <2> DEFINE e == Task(f, None, None)
  <2>1. /\ Goto(t, "scan") /\ ft' = [ft EXCEPT ![t] = NoTask] /\ m_fibers' = Append(m_fibers, e)
        /\ \A u \in Threads \ {t} : cb_fiber'[u] = cb_fiber[u]
        /\ cb_fiber'[t] = IF ft[t].fiber = None THEN None ELSE cb_fiber[t]
        /\ UNCHANGED <<m_state, m_cb, waiting, fired, submitted, done>>
    BY <1>2, <1>6 DEF Settle, IndInv, Shape
  <2>2. Released(f, t) BY <1>1, <1>2, <2>1, Release
  <2> USE DEF Released
  <2>3. ~SpareOf(f, t)'
    <3>1. CASE ft[t].fiber = None BY <2>1, <2>2, <3>1
    <3>2. CASE ft[t].fiber # None
      <4>1. cb_fiber[t] = f => SpareOf(f, t) BY <3>2 DEF SpareOf
      <4> QED BY <2>1, <2>2, <3>2, <4>1
    <3> QED BY <3>1, <3>2
  <2>4. e \in Entries /\ e.fiber = f /\ e.cb = None /\ Proper(e) BY DEF Task, Entries, Threads, Proper
  <2>5. ~Placed(f) /\ m_cb[f] \in Jobs BY <1>3, <1>4, <1>6
  <2>15. ~InQueue(f)
    <3>1. InQueue(f) => At(f, "run", None) BY DEF At
    <3> QED BY <2>5, <3>1 DEF Placed, Kinds, Whom
  <2> HIDE DEF e
  <2>6. /\ \A x \in Things : (InQueue(x)' <=> InQueue(x) \/ x = f) /\ (InCbs(x)' <=> InCbs(x))
        /\ QueueOK'
    <3>1. m_fibers \in Seq(Entries) /\ QueueOK BY DEF IndInv, Shape, PoolInv
    <3>2. \A x \in Things : x # None BY DEF Things
    <3> QED BY <2>1, <2>4, <2>15, <3>1, <3>2, QueueAppend
  <2>7. \A x : (\A g \in Fibers : CbOf(x, g)' <=> CbOf(x, g)) /\ (Parked(x)' <=> Parked(x))
    BY <2>1 DEF CbOf, Parked
  <2>8. \A x \in Things \ {f} : Untouched(x, t) BY <2>1, <2>2, <2>6, <2>7 DEF Untouched
  <2>10. GoesTo(f, "run", None)
    <3>1. \A m \in Kinds, c \in Whom : At(f, m, c)' <=> At(f, m, c) \/ (m = "run" /\ c = None)
      BY <2>2, <2>3, <2>6, <2>7, OtherThreads DEF At, SameWith, Things
    <3> QED BY <2>5, <3>1, ArrivesGoes DEF Kinds, Whom
  <2>16. HolderOK(f)' /\ ~Held(f)' BY <2>2, NoHolder
  <2>11. TokenOK(f, "run", None)' BY <1>6, <2>1, <2>5, <2>16 DEF TokenOK
  <2>12. FiberOK(f)' /\ OneAt(f)' BY <1>6, <2>1, <2>10, <2>11, <2>16, FiberGoes DEF Kinds, Whom
  <2>13. \A i : SameJob(i) BY <2>1 DEF SameJob
  <2>14. /\ \A x \in Things \cap {f} : OneAt(x)'
         /\ \A g \in Fibers \cap {f} : FiberOK(g)'
         /\ \A i \in Jobs \cap {f} : JobOK(i)'
         /\ \A g \in Fibers \ {f} : m_state'[g] = m_state[g] /\ m_cb'[g] = m_cb[g]
         /\ \A g \in Fibers \ {f} : ~HeldBy(g, t)
    BY <2>1, <2>2, <2>12 DEF Things
  <2> QED BY <2>2, <2>6, <2>8, <2>13, <2>14, StepPool
<1>7. CASE m_state[f] \in Finished
  <2>1. /\ Goto(t, "scan") /\ ft' = [ft EXCEPT ![t] = NoTask]
        /\ UNCHANGED <<m_fibers, cb_fiber, waiting, fired, submitted, done>>
    BY <1>2, <1>4, <1>7 DEF Settle
  <2>2. IF ft[t].fiber = None
        THEN m_state' = [m_state EXCEPT ![f] = "INIT"] /\ m_cb' = [m_cb EXCEPT ![f] = None]
        ELSE UNCHANGED <<m_state, m_cb>>
    BY <1>2, <1>4, <1>7 DEF Settle
  <2>3. /\ ft[t].fiber = None => m_state'[f] = "INIT" /\ m_cb'[f] = None
        /\ ft[t].fiber # None => m_state'[f] = m_state[f] /\ m_cb'[f] = m_cb[f]
        /\ \A g \in Fibers : g # f => m_state'[g] = m_state[g] /\ m_cb'[g] = m_cb[g]
    BY <2>2 DEF IndInv, Shape
  <2>4. Released(f, t) BY <1>1, <1>2, <2>1, Release
  <2> USE DEF Released
  <2>13. ~Placed(f) /\ m_cb[f] = Over BY <1>3, <1>4, <1>7
  <2>5. \A x : (InQueue(x)' <=> InQueue(x)) /\ (InCbs(x)' <=> InCbs(x)) BY <2>1 DEF InQueue, InCbs
  <2>6. \A x \in Things, g \in Fibers : CbOf(x, g)' <=> CbOf(x, g)
    <3>1. \A x \in Things : x # None /\ x # Over BY DEF Things
    <3> QED BY <2>3, <2>13, <3>1 DEF CbOf
  <2>7. \A x \in Things \ {f} : Untouched(x, t) BY <2>1, <2>4, <2>5, <2>6 DEF Untouched
  <2>8. Parked(f)' <=> Parked(f) BY <2>1 DEF Parked
  <2>14. HolderOK(f)' /\ ~Held(f)' BY <2>4, NoHolder
  <2>9. FiberOK(f)' /\ OneAt(f)'
    <3>1. CASE ft[t].fiber = None
      <4>1. SpareOf(f, t)' BY <1>2, <2>1, <2>4, <3>1 DEF Cur
      <4>2. \A m \in Kinds, c \in Whom : At(f, m, c)' <=> At(f, m, c) \/ (m = "spare" /\ c = t)
        BY <2>4, <2>5, <2>6, <2>8, <4>1, OtherThreads DEF At, SameWith, Things
      <4>3. GoesTo(f, "spare", t) BY <2>13, <4>2, ArrivesGoes DEF Kinds, Whom
      <4>4. TokenOK(f, "spare", t)' /\ m_state'[f] # "FREE" BY <2>3, <2>14, <3>1 DEF TokenOK
      <4> QED BY <2>14, <4>3, <4>4, FiberGoes DEF Kinds, Whom
    <3>2. CASE ft[t].fiber # None
      <4>1. ~SpareOf(f, t)'
        <5>1. cb_fiber[t] = f => SpareOf(f, t) BY <3>2 DEF SpareOf
        <5> QED BY <2>1, <2>4, <5>1
      <4>2. \A m \in Kinds, c \in Whom : At(f, m, c)' <=> At(f, m, c)
        BY <2>4, <2>5, <2>6, <2>8, <4>1, OtherThreads DEF At, SameWith, Things
      <4>3. Vanishes(f) BY <2>13, <4>2 DEF Vanishes, Placed
      <4>4. m_state'[f] # "FREE" /\ ~Live(f)' BY <1>4, <1>7, <2>3, <2>13, <3>2 DEF Live
      <4> QED BY <2>14, <4>3, <4>4, FiberOut
    <3> QED BY <3>1, <3>2
  <2>10. QueueOK' BY <2>1 DEF PoolInv, QueueOK, Proper
  <2>11. \A i : SameJob(i) BY <2>1 DEF SameJob
  <2>12. /\ \A x \in Things \cap {f} : OneAt(x)'
         /\ \A g \in Fibers \cap {f} : FiberOK(g)'
         /\ \A i \in Jobs \cap {f} : JobOK(i)'
         /\ \A g \in Fibers \ {f} : m_state'[g] = m_state[g] /\ m_cb'[g] = m_cb[g]
         /\ \A g \in Fibers \ {f} : ~HeldBy(g, t)
    BY <2>3, <2>4, <2>9 DEF Things
  <2> QED BY <2>4, <2>7, <2>10, <2>11, <2>12, StepPool
<1> QED BY <1>3, <1>5, <1>6, <1>7

\* A popped callback gets a fiber that nobody uses.
LEMMA SwapInCbPool ==
  ASSUME IndInv, PoolInv, NEW t \in Threads, SwapInCb(t)
  PROVE  PoolInv' /\ failed' = failed
<1> USE DEF counters, fibers, slot, idler, rest, flags, owner, jobs, threads
<1>1. pc[t] = "got" /\ ft[t].fiber = None /\ Proper(ft[t]) BY DEF SwapInCb, PoolInv, ThreadOK
<1>2. PICK c \in Things : c = ft[t].cb BY <1>1 DEF Proper, IndInv, Shape, Entries, Things
<1>3. At(c, "gotcb", t) /\ OneAt(c) BY <1>1, <1>2 DEF At, GotCbBy, PoolInv
<1>4. PICK f \in Fibers :
        /\ IF cb_fiber[t] # None THEN f = cb_fiber[t] ELSE m_state[f] = "FREE"
        /\ IF m_state[f] \notin Finished \cup {"INIT", "FREE"} THEN Fail("reset")
           ELSE /\ m_state' = [m_state EXCEPT ![f] = "EXEC"]
                /\ m_cb' = [m_cb EXCEPT ![f] = ft[t].cb]
                /\ cb_fiber' = [cb_fiber EXCEPT ![t] = f]
                /\ ft' = [ft EXCEPT ![t] = NoTask]
                /\ Goto(t, "exec")
                /\ UNCHANGED <<m_fibers, counters, waiting, idler, rest>>
  BY DEF SwapInCb
<1>5. "got" \notin InHand /\ "exec" \in InHand /\ "fire" \notin InHand BY DEF InHand, OnStack
<1>6. /\ m_state[f] \in {"INIT", "FREE"} /\ m_cb[f] = None /\ ~Held(f) /\ OneAt(f)
      /\ \A k \in Kinds, a \in Whom : At(f, k, a) => k = "spare" /\ a = t
  <2>1. OneAt(f) BY DEF PoolInv, Things
  <2>2. CASE cb_fiber[t] # None
    <3>1. At(f, "spare", t) BY <1>1, <1>4, <1>5, <2>2 DEF At, SpareOf
    <3>2. TokenOK(f, "spare", t) BY <3>1 DEF PoolInv, FiberOK, Kinds, Whom
    <3> QED BY <2>1, <3>1, <3>2 DEF TokenOK, OneAt, Kinds, Whom
  <2>3. CASE cb_fiber[t] = None
    <3>1. m_state[f] = "FREE" BY <1>4, <2>3
    <3> QED BY <2>1, <3>1 DEF PoolInv, FiberOK, Placed
  <2> QED BY <2>2, <2>3
<1>7. /\ m_state' = [m_state EXCEPT ![f] = "EXEC"] /\ m_cb' = [m_cb EXCEPT ![f] = c]
      /\ cb_fiber' = [cb_fiber EXCEPT ![t] = f] /\ ft' = [ft EXCEPT ![t] = NoTask] /\ Goto(t, "exec")
      /\ UNCHANGED <<m_fibers, waiting, fired, submitted, done, failed>>
  BY <1>2, <1>4, <1>6
<1>8. /\ pc'[t] = "exec" /\ ft'[t].fiber = None /\ cb_fiber'[t] = f /\ OnlyThread(t)
  BY <1>7 DEF Goto, OnlyThread, IndInv, Shape, NoTask, Task
<1>9. /\ m_state'[f] = "EXEC" /\ m_cb'[f] = c
      /\ \A g \in Fibers : g # f => m_state'[g] = m_state[g] /\ m_cb'[g] = m_cb[g]
  BY <1>7 DEF IndInv, Shape
<1>10. f # c BY <1>3, <1>6 DEF Kinds, Whom
<1>11. \A x \in Things : /\ x # None
                         /\ ~GotBy(x, t) /\ ~GotBy(x, t)' /\ ~GotCbBy(x, t)' /\ ~HeldBy(x, t)
                         /\ GotCbBy(x, t) <=> x = c
                         /\ HeldBy(x, t)' <=> x = f
                         /\ FiredBy(x, t)' <=> FiredBy(x, t)
                         /\ ~SpareOf(x, t)'
  BY <1>1, <1>2, <1>5, <1>7, <1>8 DEF GotBy, GotCbBy, HeldBy, FiredBy, SpareOf, Cur, Things
<1>12. \A x \in Things : x # f => ~SpareOf(x, t) BY <1>4, <1>11 DEF SpareOf
<1>13. \A x : (InQueue(x)' <=> InQueue(x)) /\ (InCbs(x)' <=> InCbs(x)) BY <1>7 DEF InQueue, InCbs
<1>14. \A x \in Things, g \in Fibers : CbOf(x, g)' <=> CbOf(x, g) \/ (x = c /\ g = f)
  BY <1>6, <1>9, <1>11 DEF CbOf
<1>15. \A x \in Things \ {c, f} : Untouched(x, t)
  BY <1>7, <1>11, <1>12, <1>13, <1>14 DEF Untouched, SameWith
<1>16. \A x : Parked(x)' <=> Parked(x) BY <1>7 DEF Parked
<1>17. Moves(c, "gotcb", t, "relay", f)
  BY <1>8, <1>10, <1>11, <1>12, <1>13, <1>14, <1>16, OtherThreads DEF Moves, At, SameWith, Things
<1>18. GoesTo(c, "relay", f) BY <1>3, <1>17, MovesGoes DEF Kinds, Whom
<1>19. Vanishes(f)
  <2>1. \A m \in Kinds, a \in Whom : At(f, m, a)' <=> At(f, m, a) /\ ~(m = "spare" /\ a = t)
    BY <1>8, <1>10, <1>11, <1>13, <1>14, <1>16, OtherThreads DEF At, SameWith, Things
  <2> QED BY <1>6, <2>1 DEF Vanishes
<1>20. ASSUME c \in Fibers PROVE FiberOK(c)' /\ OneAt(c)'
  <2>1. ~HeldBy(c, t) /\ ~HeldBy(c, t)' BY <1>10, <1>11
  <2>2. Still(c) BY <1>8, <1>9, <1>10, <1>20, <2>1, OtherThreads DEF Still, SameWith, OnlyThread
  <2>3. FiberOK(c) BY <1>20 DEF PoolInv
  <2> QED BY <1>3, <1>17, <1>20, <2>2, <2>3, FiberMoves DEF Wakeups, Whom
<1>21. ASSUME c \in Jobs PROVE JobOK(c)' /\ OneAt(c)'
  <2>1. c \in Unfinished' BY <1>3, <1>7, <1>21 DEF PoolInv, JobOK, Placed, Kinds, Whom, Unfinished
  <2> QED BY <1>18, <1>21, <2>1, JobGoes DEF Kinds, Whom
<1>22. HolderOK(f)' /\ Held(f)'
  <2>1. HeldBy(f, t)' BY <1>11 DEF Things
  <2>2. \A u \in Threads \ {t} : ~HeldBy(f, u)' BY <1>6, <1>8, OtherThreads DEF SameWith, Held
  <2>3. ~Placed(f)' BY <1>19 DEF Placed, Vanishes
  <2>4. HeldOK(f, pc[t])' BY <1>8, <1>9, <2>3 DEF HeldOK, Live, Things
  <2> QED BY <2>1, <2>2, <2>4, OneHolder
<1>23. FiberOK(f)' /\ OneAt(f)' BY <1>9, <1>19, <1>22, FiberOut
<1>24. ThreadOK(t)' BY <1>1, <1>5, <1>7, <1>8 DEF PoolInv, ThreadOK
<1>25. QueueOK' BY <1>7 DEF PoolInv, QueueOK, Proper
<1>26. \A i : SameJob(i) BY <1>7 DEF SameJob
<1>27. /\ \A x \in Things \cap {c, f} : OneAt(x)'
       /\ \A g \in Fibers \cap {c, f} : FiberOK(g)'
       /\ \A i \in Jobs \cap {c, f} : JobOK(i)'
       /\ \A g \in Fibers \ {c, f} : m_state'[g] = m_state[g] /\ m_cb'[g] = m_cb[g]
       /\ \A g \in Fibers \ {c, f} : ~HeldBy(g, t)
  BY <1>9, <1>11, <1>20, <1>21, <1>23 DEF Things
<1> QED BY <1>7, <1>8, <1>15, <1>24, <1>25, <1>26, <1>27, StepPool
----------------------------------------------------------------------------
(* Idle threads wake parked fibers.                                         *)

\* A function onto a finite set from as many numbers hits nothing twice.
LEMMA OrderOnce ==
  ASSUME NEW S, IsFiniteSet(S), NEW k, k = Cardinality(S), NEW cbs \in [1..k -> S], Range(cbs) = S
  PROVE  /\ \A x \in S : \E i \in 1..k : cbs[i] = x
         /\ \A i, l \in 1..k : cbs[i] = cbs[l] => i = l
<1>1. k \in Nat BY FS_CardinalityType
<1>2. \A x \in S : \E i \in 1..k : cbs[i] = x BY DEF Range
<1>3. cbs \in Surjection(1..k, S) BY <1>2 DEF Surjection
<1>4. IsFiniteSet(1..k) /\ Cardinality(1..k) = Cardinality(S)
  <2>1. k \in Int /\ 1 \in Int BY <1>1
  <2>2. IsFiniteSet(1..k) /\ Cardinality(1..k) = IF 1 > k THEN 0 ELSE k - 1 + 1
    BY <2>1, FS_Interval, Zenon
  <2>3. Cardinality(1..k) = k BY <1>1, <2>2
  <2> QED BY <2>2, <2>3
<1>5. cbs \in Injection(1..k, S) BY <1>3, <1>4, FS_SurjSameCardinalityImpliesInj
<1> QED BY <1>2, <1>5 DEF Injection, IsInjective

LEMMA SeqOfTuple ==
  ASSUME NEW R, NEW k \in Nat, NEW q \in [1..k -> R]
  PROVE  q \in Seq(R) /\ Len(q) = k
OBVIOUS

\* The elements of a concatenation.
LEMMA ConcatElements ==
  ASSUME NEW R, NEW s \in Seq(R), NEW k \in Nat, NEW q \in Seq(R), Len(q) = k
  PROVE  /\ Len(s) \in Nat /\ DOMAIN s = 1..Len(s) /\ DOMAIN (s \o q) = 1..(Len(s) + k)
         /\ \A i \in 1..Len(s) : (s \o q)[i] = s[i]
         /\ \A i \in (Len(s) + 1)..(Len(s) + k) : (s \o q)[i] = q[i - Len(s)]
<1> DEFINE n == Len(s)
           r == s \o q
<1>1. /\ r \in Seq(R) /\ Len(r) = Len(s) + Len(q)
      /\ \A i \in 1..(Len(s) + Len(q)) : r[i] = IF i <= Len(s) THEN s[i] ELSE q[i - Len(s)]
  BY ConcatProperties, Zenon
<1>2. n \in Nat /\ DOMAIN s = 1..n OBVIOUS
<1> HIDE DEF r, n
<1>3. r \in Seq(R) /\ Len(r) = n + k /\ \A i \in 1..(n + k) : r[i] = IF i <= n THEN s[i] ELSE q[i - n]
  BY <1>1 DEF n
<1>4. DOMAIN r = 1..(n + k) BY <1>3
<1>5. \A i \in 1..n : r[i] = s[i] BY <1>2, <1>3
<1>6. \A i \in (n + 1)..(n + k) : r[i] = q[i - n] BY <1>2, <1>3
<1> QED BY <1>2, <1>4, <1>5, <1>6 DEF r, n

\* schedule(cbs.begin(), cbs.end()) for the callbacks of the fibers in S: the
\* new entries, at the places N, hold each of them once.
Appended(S, N, c) ==
  /\ \A i \in N : c[i] \in S
  /\ \A x \in S : \E i \in N : c[i] = x
  /\ \A i, l \in N : c[i] = c[l] => i = l
  /\ DOMAIN m_fibers' = DOMAIN m_fibers \cup N
  /\ \A i \in DOMAIN m_fibers : m_fibers'[i] = m_fibers[i]
  /\ \A i \in N : m_fibers'[i].fiber = None /\ m_fibers'[i].cb = c[i]

LEMMA QueueConcat ==
  ASSUME NEW S \in SUBSET Fibers, NEW N, NEW c, Appended(S, N, c)
  PROVE  /\ \A x : x # None => (InQueue(x)' <=> InQueue(x))
         /\ \A x : x # None => (InCbs(x)' <=> InCbs(x) \/ x \in S)
         /\ QueueOK /\ (\A x \in S : ~InCbs(x)) => QueueOK'
<1> USE DEF Appended
<1>1. \A i \in N : c[i] \in S /\ c[i] # None OBVIOUS
<1>2. ASSUME NEW x, x # None PROVE InQueue(x)' <=> InQueue(x)
  BY <1>2 DEF InQueue
<1>3. ASSUME NEW x, x # None PROVE InCbs(x)' <=> InCbs(x) \/ x \in S
  BY <1>1, <1>3 DEF InCbs
<1>4. ASSUME QueueOK, \A x \in S : ~InCbs(x) PROVE QueueOK'
  <2>1. ASSUME NEW i \in DOMAIN m_fibers' PROVE Proper(m_fibers'[i])
    BY <1>1, <1>4 DEF QueueOK, Proper
  <2>2. ASSUME NEW i \in DOMAIN m_fibers', NEW l \in DOMAIN m_fibers', i # l
        PROVE /\ m_fibers'[i].fiber # None => m_fibers'[i].fiber # m_fibers'[l].fiber
              /\ m_fibers'[i].cb # None => m_fibers'[i].cb # m_fibers'[l].cb
    <3>1. CASE i \notin N /\ l \notin N BY <1>4, <2>2, <3>1 DEF QueueOK
    <3>2. CASE i \notin N /\ l \in N BY <1>1, <1>4, <3>2 DEF InCbs
    <3>3. CASE i \in N /\ l \notin N BY <1>1, <1>4, <3>3 DEF InCbs
    <3>4. CASE i \in N /\ l \in N BY <2>2, <3>4
    <3> QED BY <3>1, <3>2, <3>3, <3>4
  <2> QED BY <2>1, <2>2 DEF QueueOK, Proper
<1> QED BY <1>2, <1>3, <1>4

\* listExpiredCb() takes fibers that are registered with a timer.
LEMMA ExpirePool ==
  ASSUME IndInv, PoolInv, NEW t \in Threads, NEW due \in SUBSET Fibers, Expire(t, due)
  PROVE  PoolInv'
<1> USE DEF counters, fibers, slot, idler, rest, flags, owner, jobs, threads
<1>1. /\ pc[t] = "poll" /\ Goto(t, "fire") /\ fired' = [fired EXCEPT ![t] = due]
      /\ waiting' = [f \in Fibers |-> IF f \in due THEN "no" ELSE waiting[f]]
      /\ \A f \in due : waiting[f] = "timer"
      /\ UNCHANGED <<m_fibers, m_state, m_cb, ft, cb_fiber, submitted, done>>
  BY DEF Expire
<1>2. {"poll", "fire"} \cap (InHand \cup {"got"}) = {} BY DEF InHand, OnStack
<1>3. pc'[t] = "fire" /\ fired'[t] = due /\ OnlyThread(t)
  BY <1>1 DEF Goto, OnlyThread, IndInv, Shape
<1>4. fired[t] = {} BY <1>1 DEF PoolInv, ThreadOK
<1>5. \A x : /\ ~GotBy(x, t) /\ ~GotBy(x, t)' /\ ~GotCbBy(x, t) /\ ~GotCbBy(x, t)'
             /\ ~HeldBy(x, t) /\ ~HeldBy(x, t)'
             /\ SpareOf(x, t)' <=> SpareOf(x, t)
             /\ FiredBy(x, t)' <=> x \in due
             /\ ~FiredBy(x, t)
  BY <1>1, <1>2, <1>3, <1>4 DEF GotBy, GotCbBy, HeldBy, SpareOf, FiredBy
<1>6. \A x : /\ (InQueue(x)' <=> InQueue(x)) /\ (InCbs(x)' <=> InCbs(x))
             /\ \A g \in Fibers : CbOf(x, g)' <=> CbOf(x, g)
  BY <1>1 DEF InQueue, InCbs, CbOf
<1>7. \A f \in Fibers : waiting'[f] = IF f \in due THEN "no" ELSE waiting[f] BY <1>1
<1>8. \A x \in Things \ due : Untouched(x, t)
  BY <1>5, <1>6, <1>7 DEF Untouched, SameWith
<1>9. ASSUME NEW f \in due PROVE FiberOK(f)' /\ OneAt(f)'
  <2>1. f \in Fibers BY <1>9
  <2>2. Parked(f) /\ ~Parked(f)' BY <1>1, <1>7, <1>9, <2>1 DEF Parked
  <2>3. At(f, "wait", None) /\ OneAt(f) /\ FiberOK(f) BY <2>1, <2>2 DEF At, PoolInv, Things
  <2>4. Moves(f, "wait", None, "fired", t)
    BY <1>3, <1>5, <1>6, <1>9, <2>2, OtherThreads DEF Moves, At, SameWith
  <2>5. Still(f) BY <1>1, <1>3, <1>5, OtherThreads DEF Still, SameWith, OnlyThread
  <2> QED BY <2>1, <2>3, <2>4, <2>5, FiberMoves DEF Wakeups, Whom
<1>10. ThreadOK(t)' BY <1>1, <1>2, <1>3 DEF PoolInv, ThreadOK
<1>11. QueueOK' BY <1>1 DEF PoolInv, QueueOK, Proper
<1>12. \A i : SameJob(i) BY <1>1 DEF SameJob
<1>13. /\ \A x \in Things \cap due : OneAt(x)'
       /\ \A g \in Fibers \cap due : FiberOK(g)'
       /\ \A i \in Jobs \cap due : JobOK(i)'
       /\ \A g \in Fibers \ due : m_state'[g] = m_state[g] /\ m_cb'[g] = m_cb[g]
       /\ \A g \in Fibers \ due : ~HeldBy(g, t)
  BY <1>1, <1>5, <1>9
<1> QED BY <1>3, <1>8, <1>10, <1>11, <1>12, <1>13, StepPool

\* The expired callbacks go into the queue together.
LEMMA ScheduleExpiredPool ==
  ASSUME IndInv, PoolInv, NEW t \in Threads, ScheduleExpired(t)
  PROVE  PoolInv'
<1> USE DEF counters, fibers, slot, idler, rest, flags, owner, jobs, threads
<1>1. PICK due \in SUBSET Fibers : due = fired[t] BY DEF IndInv, Shape
<1>2. /\ pc[t] = "fire" /\ Goto(t, "events") /\ fired' = [fired EXCEPT ![t] = {}]
      /\ UNCHANGED <<m_state, m_cb, waiting, ft, cb_fiber, submitted, done>>
  BY DEF ScheduleExpired
<1>3. {"events", "fire"} \cap (InHand \cup {"got"}) = {} BY DEF InHand, OnStack
<1>4. pc'[t] = "events" /\ fired'[t] = {} /\ OnlyThread(t)
  BY <1>2 DEF Goto, OnlyThread, IndInv, Shape
<1>5. \A x : /\ ~GotBy(x, t) /\ ~GotBy(x, t)' /\ ~GotCbBy(x, t) /\ ~GotCbBy(x, t)'
             /\ ~HeldBy(x, t) /\ ~HeldBy(x, t)'
             /\ SpareOf(x, t)' <=> SpareOf(x, t)
             /\ FiredBy(x, t) <=> x \in due
             /\ ~FiredBy(x, t)'
  BY <1>1, <1>2, <1>3, <1>4 DEF GotBy, GotCbBy, HeldBy, SpareOf, FiredBy
<1>6. \A f \in due : At(f, "fired", t) /\ OneAt(f) /\ FiberOK(f) BY <1>5 DEF At, PoolInv, Things
<1>7. \A f \in due : ~InCbs(f)
  <2>1. \A x : InCbs(x) => At(x, "cb", None) BY DEF At
  <2> QED BY <1>6, <2>1 DEF OneAt, Kinds, Whom
<1>8. /\ \A x \in Things : InQueue(x)' <=> InQueue(x)
      /\ \A x \in Things : InCbs(x)' <=> InCbs(x) \/ x \in due
      /\ QueueOK'
  <2>1. PICK cbs \in [1..Cardinality(due) -> due] :
          /\ Range(cbs) = due
          /\ m_fibers' = m_fibers \o [i \in DOMAIN cbs |-> Task(None, cbs[i], None)]
    BY <1>1 DEF ScheduleExpired
  <2>2. m_fibers \in Seq(Entries) /\ QueueOK BY DEF IndInv, Shape, PoolInv
  <2>5. PICK k \in Nat : k = Cardinality(due) BY FS_Subset, FS_CardinalityType
  <2>6. PICK n \in Nat : n = Len(m_fibers) BY <2>2
  <2>7. PICK q : q = [i \in 1..k |-> Task(None, cbs[i], None)] OBVIOUS
  <2>8. q \in Seq(Entries) /\ Len(q) = k
    <3>1. \A f \in Fibers : Task(None, f, None) \in Entries BY DEF Task, Entries
    <3>2. q \in [1..k -> Entries] BY <2>5, <2>7, <3>1
    <3> QED BY <3>2, SeqOfTuple
  <2>9. m_fibers' = m_fibers \o q BY <2>1, <2>5, <2>7
  <2>10. /\ DOMAIN m_fibers = 1..n /\ DOMAIN m_fibers' = 1..(n + k)
         /\ \A i \in 1..n : m_fibers'[i] = m_fibers[i]
         /\ \A i \in (n + 1)..(n + k) : m_fibers'[i] = q[i - n]
    BY <2>2, <2>6, <2>8, <2>9, ConcatElements
  <2>11. \A i \in (n + 1)..(n + k) :
           i - n \in 1..k /\ m_fibers'[i].fiber = None /\ m_fibers'[i].cb = cbs[i - n]
    <3> SUFFICES ASSUME NEW i \in (n + 1)..(n + k)
                 PROVE i - n \in 1..k /\ m_fibers'[i].fiber = None /\ m_fibers'[i].cb = cbs[i - n]
        OBVIOUS
    <3>1. i - n \in 1..k OBVIOUS
    <3>2. m_fibers'[i] = Task(None, cbs[i - n], None) BY <2>7, <2>10, <3>1
    <3> QED BY <3>1, <3>2 DEF Task
  <2>12. /\ \A x \in due : \E i \in 1..k : cbs[i] = x
         /\ \A i, l \in 1..k : cbs[i] = cbs[l] => i = l
    <3>1. IsFiniteSet(due) /\ Range(cbs) = due /\ cbs \in [1..k -> due] BY <2>1, <2>5, FS_Subset
    <3> QED BY <2>5, <3>1, OrderOnce
  <2>13. PICK N : N = (n + 1)..(n + k) OBVIOUS
  <2>14. PICK c : c = [i \in N |-> cbs[i - n]] OBVIOUS
  <2>15. \A i \in N : c[i] \in due BY <2>5, <2>11, <2>13, <2>14
  <2>16. \A x \in due : \E i \in N : c[i] = x
    <3> SUFFICES ASSUME NEW x \in due PROVE \E i \in N : c[i] = x OBVIOUS
    <3>1. PICK i \in 1..k : cbs[i] = x BY <2>12
    <3>2. n + i \in N /\ (n + i) - n = i BY <2>13
    <3>3. c[n + i] = x BY <2>14, <3>1, <3>2
    <3> QED BY <3>2, <3>3
  <2>17. \A i, l \in N : c[i] = c[l] => i = l
    <3> SUFFICES ASSUME NEW i \in N, NEW l \in N, c[i] = c[l] PROVE i = l OBVIOUS
    <3>1. i - n = l - n BY <2>11, <2>12, <2>13, <2>14
    <3> QED BY <2>13, <3>1
  <2>18. DOMAIN m_fibers' = DOMAIN m_fibers \cup N BY <2>10, <2>13
  <2>19. /\ \A i \in DOMAIN m_fibers : m_fibers'[i] = m_fibers[i]
         /\ \A i \in N : m_fibers'[i].fiber = None /\ m_fibers'[i].cb = c[i]
    BY <2>10, <2>11, <2>13, <2>14
  <2>20. Appended(due, N, c) BY <2>15, <2>16, <2>17, <2>18, <2>19 DEF Appended
  <2>3. /\ \A x : x # None => (InQueue(x)' <=> InQueue(x))
        /\ \A x : x # None => (InCbs(x)' <=> InCbs(x) \/ x \in due)
        /\ QueueOK'
    <3>1. /\ \A x : x # None => (InQueue(x)' <=> InQueue(x))
          /\ \A x : x # None => (InCbs(x)' <=> InCbs(x) \/ x \in due)
          /\ QueueOK /\ (\A x \in due : ~InCbs(x)) => QueueOK'
      BY <2>20, QueueConcat
    <3> QED BY <1>7, <2>2, <3>1
  <2>4. \A x \in Things : x # None BY DEF Things
  <2> QED BY <2>3, <2>4
<1>9. \A x : \A g \in Fibers : CbOf(x, g)' <=> CbOf(x, g) BY <1>2 DEF CbOf
<1>10. \A x \in Things \ due : Untouched(x, t)
  BY <1>2, <1>5, <1>8, <1>9 DEF Untouched, SameWith
<1>11. ASSUME NEW f \in due PROVE FiberOK(f)' /\ OneAt(f)'
  <2>1. f \in Fibers /\ f \in Things BY <1>11 DEF Things
  <2>2. Parked(f)' <=> Parked(f) BY <1>2 DEF Parked
  <2>3. Moves(f, "fired", t, "cb", None)
    BY <1>4, <1>5, <1>8, <1>9, <1>11, <2>1, <2>2, OtherThreads DEF Moves, At, SameWith
  <2>5. Still(f) BY <1>2, <1>4, <1>5, OtherThreads DEF Still, SameWith, OnlyThread
  <2> QED BY <1>6, <1>11, <2>1, <2>3, <2>5, FiberMoves DEF Wakeups, Whom
<1>12. ThreadOK(t)' BY <1>2, <1>3, <1>4 DEF PoolInv, ThreadOK
<1>13. \A i : SameJob(i) BY <1>2 DEF SameJob
<1>14. /\ \A x \in Things \cap due : OneAt(x)'
       /\ \A g \in Fibers \cap due : FiberOK(g)'
       /\ \A i \in Jobs \cap due : JobOK(i)'
       /\ \A g \in Fibers \ due : m_state'[g] = m_state[g] /\ m_cb'[g] = m_cb[g]
       /\ \A g \in Fibers \ due : ~HeldBy(g, t)
  BY <1>2, <1>5, <1>11
<1> QED BY <1>4, <1>8, <1>10, <1>12, <1>13, <1>14, StepPool

\* triggerEvent() queues a fiber that is registered with an event.
LEMMA TriggerPool ==
  ASSUME IndInv, PoolInv, NEW t \in Threads, NEW f \in Fibers, Trigger(t, f)
  PROVE  PoolInv'
<1> USE DEF counters, fibers, slot, idler, rest, flags, owner, jobs, threads
<1> DEFINE e == Task(f, None, None)
<1>1. /\ pc[t] \in {"poll", "events"} /\ Goto(t, "trig") /\ m_fibers' = Append(m_fibers, e)
      /\ waiting' = [waiting EXCEPT ![f] = "no"] /\ waiting[f] = "event"
      /\ UNCHANGED <<m_state, m_cb, ft, cb_fiber, fired, submitted, done>>
  BY DEF Trigger
<1>2. {"poll", "events", "trig"} \cap (InHand \cup {"got"}) = {} BY DEF InHand, OnStack
<1>3. pc'[t] = "trig" /\ OnlyThread(t) BY <1>1 DEF Goto, OnlyThread, IndInv, Shape
<1>4. \A x : /\ SameWith(x, t) /\ ~HeldBy(x, t) /\ ~HeldBy(x, t)'
  BY <1>1, <1>2, <1>3 DEF SameWith, GotBy, GotCbBy, HeldBy, SpareOf, FiredBy
<1>5. \A x : \A g \in Fibers : CbOf(x, g)' <=> CbOf(x, g) BY <1>1 DEF CbOf
<1>6. waiting'[f] = "no" /\ \A g \in Fibers : g # f => waiting'[g] = waiting[g]
  BY <1>1 DEF IndInv, Shape
<1>7. Parked(f) /\ ~Parked(f)' BY <1>1, <1>6 DEF Parked
<1>8. At(f, "wait", None) /\ OneAt(f) /\ FiberOK(f) BY <1>7 DEF At, PoolInv, Things
<1>9. ~InQueue(f)
  <2>1. InQueue(f) => At(f, "run", None) BY DEF At
  <2> QED BY <1>8, <2>1 DEF OneAt, Kinds, Whom
<1>10. e \in Entries /\ e.fiber = f /\ e.cb = None /\ Proper(e) BY DEF Task, Entries, Threads, Proper
<1> HIDE DEF e
<1>11. /\ \A x \in Things : (InQueue(x)' <=> InQueue(x) \/ x = f) /\ (InCbs(x)' <=> InCbs(x))
       /\ QueueOK'
  <2>1. m_fibers \in Seq(Entries) /\ QueueOK BY DEF IndInv, Shape, PoolInv
  <2>2. \A x \in Things : x # None BY DEF Things
  <2> QED BY <1>1, <1>9, <1>10, <2>1, <2>2, QueueAppend
<1>12. \A x \in Things \ {f} : Untouched(x, t) BY <1>4, <1>5, <1>6, <1>11 DEF Untouched
<1>13. Moves(f, "wait", None, "run", None)
  BY <1>3, <1>4, <1>5, <1>7, <1>11, OtherThreads DEF Moves, At, SameWith, Things
<1>14. FiberOK(f)' /\ OneAt(f)'
  <2>1. Still(f) BY <1>1, <1>3, <1>4, OtherThreads DEF Still, SameWith, OnlyThread
  <2> QED BY <1>8, <1>13, <2>1, FiberMoves DEF Wakeups, Whom
<1>15. ThreadOK(t)' BY <1>1, <1>2, <1>3 DEF PoolInv, ThreadOK
<1>16. \A i : SameJob(i) BY <1>1 DEF SameJob
<1>17. /\ \A x \in Things \cap {f} : OneAt(x)'
       /\ \A g \in Fibers \cap {f} : FiberOK(g)'
       /\ \A i \in Jobs \cap {f} : JobOK(i)'
       /\ \A g \in Fibers \ {f} : m_state'[g] = m_state[g] /\ m_cb'[g] = m_cb[g]
       /\ \A g \in Fibers \ {f} : ~HeldBy(g, t)
  BY <1>1, <1>4, <1>14
<1> QED BY <1>3, <1>11, <1>12, <1>15, <1>16, <1>17, StepPool
----------------------------------------------------------------------------
(* Every step.                                                              *)

\* The steps of a thread that has nothing popped and nothing in hand.
LEMMA IdleQuiet ==
  ASSUME IndInv, NEW t \in Threads,
         \/ GoIdle(t) \/ Exit(t) \/ ReadTimers(t) \/ ReadPending(t) \/ ReadQueue(t)
         \/ DropPending(t) \/ LeaveIdle(t)
  PROVE  Quiet /\ failed' = failed
<1> USE DEF counters, fibers, slot, idler, rest, flags, owner, jobs, threads
<1>1. pc \in [Threads -> PCs] BY DEF IndInv, Shape
<1>2. \A l \in {"scan", "idle", "exited", "poll", "events", "trig"} : Empty(l) /\ l # "fire"
  BY DEF Empty, InHand, OnStack
<1>3. CASE GoIdle(t) \/ Exit(t) \/ DropPending(t) \/ LeaveIdle(t)
  <2>1. PICK l \in {"scan", "idle", "exited", "events"} :
          /\ pc[t] \in {"scan", "poll", "events", "trig"} /\ Goto(t, l)
          /\ UNCHANGED <<m_fibers, fibers, slot, fired, submitted, done, failed>>
    BY <1>3 DEF GoIdle, Exit, DropPending, DropPendingBy, LeaveIdle
  <2>2. \A u \in Threads : pc'[u] = pc[u] \/ (Empty(pc[u]) /\ Empty(pc'[u]) /\ pc[u] # "fire")
    BY <1>1, <1>2, <2>1 DEF Goto
  <2> QED BY <2>1, <2>2 DEF Quiet
<1>4. CASE Pass(t) \/ \E b \in BOOLEAN : Answer(t, b)
  <2>1. /\ UNCHANGED <<m_fibers, fibers, slot, fired, submitted, done, failed>>
        /\ pc' = pc \/ (pc[t] = "idle" /\ \E l \in {"poll", "scan"} : pc' = [pc EXCEPT ![t] = l])
    BY <1>4 DEF Pass, Answer
  <2>2. \A u \in Threads : pc'[u] = pc[u] \/ (Empty(pc[u]) /\ Empty(pc'[u]) /\ pc[u] # "fire")
    BY <1>1, <1>2, <2>1
  <2> QED BY <2>1, <2>2 DEF Quiet
<1>5. CASE ReadTimers(t) \/ ReadPending(t) \/ ReadQueue(t)
  <2>1. CanStop \in BOOLEAN BY DEF CanStop, IndInv, Shape
  <2> QED BY <1>4, <1>5, <2>1 DEF ReadTimers, ReadPending, ReadQueue
<1> QED BY <1>3, <1>5

\* start(), stop() and m_rootFiber->call().
LEMMA OwnerQuiet ==
  ASSUME IndInv, MainStep \/ Ended \/ UNCHANGED vars
  PROVE  Quiet
<1> USE DEF vars, counters, fibers, slot, idler, rest, flags, owner, jobs, threads
<1>1. pc \in [Threads -> PCs] BY DEF IndInv, Shape
<1>2. Empty("off") /\ Empty("scan") /\ Caller \in Threads BY DEF Empty, InHand, OnStack, Threads
<1>3. /\ UNCHANGED <<m_fibers, fibers, slot, fired, submitted, done>>
      /\ \A u \in Threads : pc'[u] = pc[u] \/ (pc[u] = "off" /\ pc'[u] = "scan")
  <2>1. CASE Start BY <2>1 DEF Start, IndInv, OffInv
  <2>2. CASE CallRoot BY <1>1, <1>2, <2>2 DEF CallRoot, Goto, Fail, IndInv, OffInv
  <2>3. CASE StopBegin \/ StopSignal \/ StopJoin \/ Ended \/ UNCHANGED vars
    BY <2>3 DEF StopBegin, StopSignal, StopJoin, StopWhen, Ended
  <2> QED BY <2>1, <2>2, <2>3 DEF MainStep
<1>4. \A u \in Threads : pc'[u] = pc[u] \/ (Empty(pc[u]) /\ Empty(pc'[u]) /\ pc[u] # "fire")
  BY <1>2, <1>3
<1> QED BY <1>3, <1>4 DEF Quiet

\* What a running job does.
LEMMA BodyPool ==
  ASSUME IndInv, PoolInv, NEW t \in Threads, Body(t)
  PROVE  PoolInv' /\ failed' = failed
<1> USE DEF counters, fibers, slot, idler, rest, flags, owner, jobs, threads
<1>1. ASSUME NEW s \in Finished, Finish(t, s) PROVE PoolInv' /\ failed' = failed
  <2>1. failed' = failed BY <1>1 DEF Finish
  <2> QED BY <1>1, <2>1, FinishPool
<1>2. CASE Relay(t)
  <2>1. failed' = failed BY <1>2 DEF Relay
  <2> QED BY <1>2, <2>1, RelayPool
<1>3. CASE YieldToReady(t) \/ YieldToHold(t)
  <2>1. failed' = failed BY <1>3 DEF YieldToReady, YieldToHold
  <2> QED BY <1>3, <2>1, YieldPool
<1>4. ASSUME NEW w \in Waits, Register(t, w) PROVE PoolInv' /\ failed' = failed
  BY <1>4, RegisterPool
<1>5. ASSUME NEW j \in Jobs, NEW pin \in Pins, Spawn(t, j, pin) PROVE PoolInv' /\ failed' = failed
  <2>1. Schedule(j, pin) /\ failed' = failed BY <1>5 DEF Spawn, Schedule
  <2> QED BY <2>1, SchedulePool
<1> QED BY <1>1, <1>2, <1>3, <1>4, <1>5 DEF Body

\* A step of a thread.
LEMMA ThreadPool ==
  ASSUME IndInv, PoolInv, NEW t \in Threads, ThreadStep(t), doubled' = {}
  PROVE  PoolInv' /\ failed' = failed
<1> USE DEF counters, fibers, slot, idler, rest, flags, owner, jobs, threads
<1>1. CASE Take(t)
  <2>1. failed' = failed BY <1>1 DEF Take, TakeLeaving
  <2> QED BY <1>1, <2>1, TakePool
<1>2. CASE SwapIn(t) BY <1>2, SwapInPool
<1>3. CASE SwapInCb(t) BY <1>3, SwapInCbPool
<1>4. CASE Body(t) BY <1>4, BodyPool
<1>5. CASE SwapOut(t) \/ Post(t)
  <2>1. failed' = failed BY <1>5 DEF SwapOut, Post, PostBy
  <2> QED BY <1>5, <2>1, YieldPool
<1>6. CASE Settle(t)
  <2>1. failed' = failed BY <1>6 DEF Settle
  <2> QED BY <1>6, <2>1, SettlePool
<1>7. CASE Hold(t)
  <2>1. failed' = failed BY <1>7 DEF Hold, HoldLeaving
  <2> QED BY <1>7, <2>1, HoldPool
<1>8. CASE ScheduleExpired(t)
  <2>1. failed' = failed BY <1>8 DEF ScheduleExpired
  <2> QED BY <1>8, <2>1, ScheduleExpiredPool
<1>9. CASE \/ GoIdle(t) \/ Exit(t) \/ ReadTimers(t) \/ ReadPending(t) \/ ReadQueue(t)
           \/ DropPending(t) \/ LeaveIdle(t)
  BY <1>9, IdleQuiet, QuietPool
<1> QED BY <1>1, <1>2, <1>3, <1>4, <1>5, <1>6, <1>7, <1>8, <1>9 DEF ThreadStep

LEMMA NextPool ==
  ASSUME IndInv, PoolInv, doubled' = {}, Next \/ UNCHANGED vars
  PROVE  PoolInv' /\ (failed' = failed \/ CallRoot)
<1> USE DEF counters, fibers, slot, idler, rest, flags, owner, jobs, threads
<1>1. ASSUME NEW j \in Jobs, NEW pin \in Pins, Submit(j, pin) PROVE PoolInv' /\ failed' = failed
  <2>1. Schedule(j, pin) /\ failed' = failed BY <1>1 DEF Submit, Schedule
  <2> QED BY <2>1, SchedulePool
<1>2. ASSUME NEW f \in Fibers, Wake(f) PROVE PoolInv' /\ failed' = failed
  <2>1. PICK t \in Threads : Trigger(t, f) \/ \E due \in SUBSET Fibers : f \in due /\ Expire(t, due)
    BY <1>2 DEF Wake
  <2>2. CASE Trigger(t, f)
    <3>1. failed' = failed BY <2>2 DEF Trigger
    <3> QED BY <2>2, <3>1, TriggerPool
  <2>3. ASSUME NEW due \in SUBSET Fibers, Expire(t, due) PROVE PoolInv' /\ failed' = failed
    <3>1. failed' = failed BY <2>3 DEF Expire
    <3> QED BY <2>3, <3>1, ExpirePool
  <2> QED BY <2>1, <2>2, <2>3
<1>3. ASSUME NEW f \in Fibers, ScheduleAgain(f) PROVE FALSE BY <1>3 DEF ScheduleAgain
<1>4. CASE MainStep \/ Ended \/ UNCHANGED vars
  <2>1. failed' = failed \/ CallRoot
    BY <1>4 DEF MainStep, Ended, vars, Start, StopBegin, StopSignal, StopJoin, StopWhen
  <2> QED BY <1>4, <2>1, OwnerQuiet, QuietPool
<1> QED BY <1>1, <1>2, <1>3, <1>4, ThreadPool DEF Next
----------------------------------------------------------------------------
(* One place for every job and every fiber.                                 *)

LEMMA AtMostOne ==
  ASSUME NEW S, \A p, q \in S : p = q
  PROVE  Cardinality(S) = IF S = {} THEN 0 ELSE 1
<1>1. CASE S = {} BY <1>1, FS_EmptySet
<1>2. CASE S # {}
  <2>1. PICK p : p \in S BY <1>2
  <2>2. S = {p} BY <2>1
  <2> QED BY <1>2, <2>2, FS_Singleton
<1> QED BY <1>1, <1>2

LEMMA JobPlaces ==
  ASSUME IndInv, PoolInv, NEW j \in Jobs
  PROVE  Cardinality(Places(j)) = IF j \in Unfinished THEN 1 ELSE 0
<1>1. OneAt(j) /\ JobOK(j) /\ QueueOK BY DEF PoolInv, Things
<1>2. /\ \A i \in DOMAIN m_fibers : m_fibers[i].cb = j => At(j, "cb", None)
      /\ \A t \in Threads : pc[t] = "got" /\ ft[t].cb = j => At(j, "gotcb", t)
      /\ \A f \in Fibers : m_cb[f] = j => At(j, "relay", f)
  BY DEF At, InCbs, GotCbBy, CbOf
<1>3. \A i, k \in DOMAIN m_fibers : m_fibers[i].cb = j /\ m_fibers[k].cb = j => i = k
  BY <1>1 DEF QueueOK
<1>4. \A p, q \in Places(j) : p = q
  BY <1>1, <1>2, <1>3 DEF Places, OneAt, Kinds, Whom
<1>5. ASSUME Placed(j) PROVE Places(j) # {}
  <2>1. PICK k \in Kinds, a \in Whom : At(j, k, a) BY <1>5 DEF Placed
  <2>2. j \notin Fibers /\ j # None OBVIOUS
  <2>3. ~InQueue(j)
    <3>1. \A i \in DOMAIN m_fibers : m_fibers[i] \in Entries BY DEF IndInv, Shape
    <3> QED BY <2>2, <3>1 DEF InQueue, Entries
  <2>4. \A t \in Threads : ~GotBy(j, t) /\ ~FiredBy(j, t) /\ ~SpareOf(j, t)
    BY <2>2 DEF GotBy, FiredBy, SpareOf, IndInv, Shape, Entries
  <2>5. ~Parked(j) BY <2>2 DEF Parked
  <2>6. InCbs(j) \/ (\E t \in Threads : GotCbBy(j, t)) \/ \E f \in Fibers : CbOf(j, f)
    BY <2>1, <2>3, <2>4, <2>5 DEF At
  <2>7. /\ \A i \in DOMAIN m_fibers : m_fibers[i].cb = j => <<"queued", i>> \in Places(j)
        /\ \A t \in Threads : pc[t] = "got" /\ ft[t].cb = j => <<"got", t>> \in Places(j)
        /\ \A f \in Fibers : m_cb[f] = j => <<"fiber", f>> \in Places(j)
    BY DEF Places
  <2> HIDE DEF Places
  <2>8. CASE InCbs(j) BY <2>7, <2>8 DEF InCbs
  <2>9. CASE \E t \in Threads : GotCbBy(j, t) BY <2>7, <2>9 DEF GotCbBy
  <2>10. CASE \E f \in Fibers : CbOf(j, f) BY <2>7, <2>10 DEF CbOf
  <2> QED BY <2>6, <2>8, <2>9, <2>10
<1>6. Places(j) # {} => Placed(j) BY <1>2 DEF Places, Placed, Kinds, Whom
<1> HIDE DEF Places
<1> QED BY <1>1, <1>4, <1>5, <1>6, AtMostOne DEF JobOK

LEMMA FiberPlaces ==
  ASSUME IndInv, PoolInv, NEW f \in Fibers
  PROVE  /\ \A p, q \in Holders(f) : p = q
         /\ \A p, q \in Resumers(f) : p = q
         /\ Live(f) /\ Holders(f) = {} => Resumers(f) # {}
<1>1. OneAt(f) /\ FiberOK(f) /\ QueueOK BY DEF PoolInv, Things
<1>2. \A t : t \in Holders(f) <=> t \in Threads /\ HeldBy(f, t) BY DEF Holders, HeldBy
<1>3. \A p, q \in Holders(f) : p = q BY <1>1, <1>2 DEF FiberOK, HolderOK
<1>4. /\ \A i \in DOMAIN m_fibers : m_fibers[i].fiber = f => At(f, "run", None)
      /\ \A i \in DOMAIN m_fibers : m_fibers[i].cb = f => At(f, "cb", None)
      /\ \A t \in Threads : pc[t] = "got" /\ ft[t].cb = f => At(f, "gotcb", t)
      /\ \A t \in Threads : pc[t] = "got" /\ ft[t].fiber = f => At(f, "got", t)
      /\ \A g \in Fibers : m_cb[g] = f => At(f, "relay", g)
      /\ \A t \in Threads : f \in fired[t] => At(f, "fired", t)
  BY DEF At, InQueue, InCbs, GotBy, GotCbBy, CbOf, FiredBy
<1>5. waiting[f] # "no" => At(f, "wait", None) BY DEF At, Parked
<1>6. /\ \A i, k \in DOMAIN m_fibers : m_fibers[i].fiber = f /\ m_fibers[k].fiber = f => i = k
      /\ \A i, k \in DOMAIN m_fibers : m_fibers[i].cb = f /\ m_fibers[k].cb = f => i = k
  BY <1>1 DEF QueueOK
<1>7. \A k, l \in Kinds, a, b \in Whom : At(f, k, a) /\ At(f, l, b) => k = l /\ a = b
  BY <1>1 DEF OneAt
<1>8. {"run", "cb", "got", "gotcb", "relay", "fired", "wait"} \subseteq Kinds BY DEF Kinds
<1>9. None \in Whom /\ Threads \subseteq Whom /\ Fibers \subseteq Whom BY DEF Whom
<1>10. ASSUME NEW p \in Resumers(f), NEW q \in Resumers(f) PROVE p = q
  <2> DEFINE Is(r) ==
        \/ \E i \in DOMAIN m_fibers : r = <<"queued", i>> /\ m_fibers[i].fiber = f
        \/ \E i \in DOMAIN m_fibers : r = <<"waking", i>> /\ m_fibers[i].cb = f
        \/ \E t \in Threads : r = <<"waking", t>> /\ pc[t] = "got" /\ ft[t].cb = f
        \/ \E t \in Threads : r = <<"got", t>> /\ pc[t] = "got" /\ ft[t].fiber = f
        \/ \E g \in Fibers : r = <<"relay", g>> /\ m_cb[g] = f
        \/ \E t \in Threads : r = <<"fired", t>> /\ f \in fired[t]
        \/ r = <<"waiting", f>> /\ waiting[f] # "no"
  <2>1. Is(p) /\ Is(q) BY DEF Resumers
  <2>2. CASE \E i \in DOMAIN m_fibers : p = <<"queued", i>> /\ m_fibers[i].fiber = f
    BY <1>4, <1>5, <1>6, <1>7, <1>8, <1>9, <2>1, <2>2
  <2>3. CASE \E i \in DOMAIN m_fibers : p = <<"waking", i>> /\ m_fibers[i].cb = f
    BY <1>4, <1>5, <1>6, <1>7, <1>8, <1>9, <2>1, <2>3
  <2>4. CASE \E t \in Threads : p = <<"waking", t>> /\ pc[t] = "got" /\ ft[t].cb = f
    BY <1>4, <1>5, <1>7, <1>8, <1>9, <2>1, <2>4
  <2>5. CASE \E t \in Threads : p = <<"got", t>> /\ pc[t] = "got" /\ ft[t].fiber = f
    BY <1>4, <1>5, <1>7, <1>8, <1>9, <2>1, <2>5
  <2>6. CASE \E g \in Fibers : p = <<"relay", g>> /\ m_cb[g] = f
    BY <1>4, <1>5, <1>7, <1>8, <1>9, <2>1, <2>6
  <2>7. CASE \E t \in Threads : p = <<"fired", t>> /\ f \in fired[t]
    BY <1>4, <1>5, <1>7, <1>8, <1>9, <2>1, <2>7
  <2>8. CASE p = <<"waiting", f>> /\ waiting[f] # "no"
    BY <1>4, <1>5, <1>7, <1>8, <1>9, <2>1, <2>8
  <2> QED BY <2>1, <2>2, <2>3, <2>4, <2>5, <2>6, <2>7, <2>8
<1>11. ASSUME Live(f), Holders(f) = {} PROVE Resumers(f) # {}
  <2>10. ~Held(f) BY <1>2, <1>11 DEF Held
  <2>1. PICK k \in Kinds, a \in Whom : At(f, k, a) BY <1>1, <1>11, <2>10 DEF FiberOK, Placed
  <2>2. TokenOK(f, k, a) BY <1>1, <2>1 DEF FiberOK
  <2>3. k # "spare" BY <1>11, <2>2 DEF TokenOK, Live
  <2>5. \/ InQueue(f) \/ InCbs(f) \/ Parked(f) \/ \E g \in Fibers : CbOf(f, g)
        \/ \E t \in Threads : GotBy(f, t) \/ GotCbBy(f, t) \/ FiredBy(f, t)
    BY <2>1, <2>3 DEF At
  <2>6. /\ \A i \in DOMAIN m_fibers : m_fibers[i].fiber = f => <<"queued", i>> \in Resumers(f)
        /\ \A i \in DOMAIN m_fibers : m_fibers[i].cb = f => <<"waking", i>> \in Resumers(f)
        /\ \A t \in Threads : pc[t] = "got" /\ ft[t].cb = f => <<"waking", t>> \in Resumers(f)
        /\ \A t \in Threads : pc[t] = "got" /\ ft[t].fiber = f => <<"got", t>> \in Resumers(f)
        /\ \A g \in Fibers : m_cb[g] = f => <<"relay", g>> \in Resumers(f)
        /\ \A t \in Threads : f \in fired[t] => <<"fired", t>> \in Resumers(f)
        /\ waiting[f] # "no" => <<"waiting", f>> \in Resumers(f)
    BY DEF Resumers
  <2> HIDE DEF Resumers
  <2>7. CASE InQueue(f) \/ InCbs(f) BY <2>6, <2>7 DEF InQueue, InCbs
  <2>8. CASE Parked(f) \/ \E g \in Fibers : CbOf(f, g) BY <2>6, <2>8 DEF Parked, CbOf
  <2>9. CASE \E t \in Threads : GotBy(f, t) \/ GotCbBy(f, t) \/ FiredBy(f, t)
    BY <2>6, <2>9 DEF GotBy, GotCbBy, FiredBy
  <2> QED BY <2>5, <2>7, <2>8, <2>9
<1> QED BY <1>3, <1>10, <1>11

LEMMA OnePlaceFromPool == IndInv /\ PoolInv => OnePlace
<1> SUFFICES ASSUME IndInv, PoolInv PROVE OnePlace OBVIOUS
<1>1. ASSUME NEW f \in Fibers
      PROVE /\ Cardinality(Holders(f)) <= 1
            /\ Cardinality(Resumers(f)) <= 1
            /\ Live(f) /\ Holders(f) = {} => Resumers(f) # {}
  <2> HIDE DEF Holders, Resumers, Live
  <2>1. /\ \A p, q \in Holders(f) : p = q
        /\ \A p, q \in Resumers(f) : p = q
        /\ Live(f) /\ Holders(f) = {} => Resumers(f) # {}
    BY FiberPlaces
  <2>2. Cardinality(Holders(f)) = IF Holders(f) = {} THEN 0 ELSE 1 BY <2>1, AtMostOne
  <2>3. Cardinality(Resumers(f)) = IF Resumers(f) = {} THEN 0 ELSE 1 BY <2>1, AtMostOne
  <2> QED BY <2>1, <2>2, <2>3
<1>2. \A j \in Jobs : Cardinality(Places(j)) = IF j \in Unfinished THEN 1 ELSE 0 BY JobPlaces
<1> QED BY <1>1, <1>2 DEF OnePlace

\* The pool invariant, until a fiber is in two hands.
OrderInv == IndInv /\ (doubled = {} => PoolInv)

\* A fiber that has been in two hands stays on record.
LEMMA DoubledStays ==
  ASSUME Next \/ UNCHANGED vars
  PROVE  doubled \subseteq doubled'
<1> USE DEF vars, counters, fibers, slot, idler, rest, flags, owner, jobs, threads
<1>1. CASE \E j \in Jobs, pin \in Pins : Submit(j, pin) BY <1>1 DEF Submit, Schedule
<1>2. CASE \E f \in Fibers : ScheduleAgain(f) \/ Wake(f)
  BY <1>2 DEF ScheduleAgain, Wake, Trigger, Expire
<1>3. ASSUME NEW t \in Threads, ThreadStep(t) PROVE doubled \subseteq doubled'
  <2>1. CASE Take(t) \/ GoIdle(t) \/ Exit(t)
    BY <2>1 DEF Take, TakeLeaving, GoIdle, Exit
  <2>2. CASE SwapIn(t) \/ SwapInCb(t) \/ SwapOut(t) \/ Post(t) \/ Settle(t) \/ Hold(t)
    BY <2>2 DEF SwapIn, SwapInCb, SwapOut, Post, PostBy, Settle, Hold, HoldLeaving, Fail
  <2>3. CASE Body(t)
    BY <2>3 DEF Body, Finish, Relay, YieldToReady, Register, YieldToHold, Spawn, Schedule, Fail
  <2>4. CASE ReadTimers(t) \/ ReadPending(t) \/ ReadQueue(t)
    BY <2>4 DEF ReadTimers, ReadPending, ReadQueue, Answer, Pass
  <2>5. CASE ScheduleExpired(t) \/ DropPending(t) \/ LeaveIdle(t)
    BY <2>5 DEF ScheduleExpired, DropPending, DropPendingBy, LeaveIdle
  <2> QED BY <1>3, <2>1, <2>2, <2>3, <2>4, <2>5 DEF ThreadStep
<1>4. CASE MainStep \/ Ended \/ UNCHANGED vars
  BY <1>4 DEF MainStep, Ended, Start, StopBegin, StopSignal, CallRoot, StopJoin, StopWhen, Fail
<1> QED BY <1>1, <1>2, <1>3, <1>4 DEF Next

LEMMA OrderInit == Init => OrderInv
BY InitInv, PoolInit DEF OrderInv

LEMMA OrderStep == OrderInv /\ [Next]_vars => OrderInv'
<1> SUFFICES ASSUME OrderInv, [Next]_vars PROVE OrderInv' OBVIOUS
<1>1. IndInv' BY NextInv DEF OrderInv
<1>2. ASSUME doubled' = {} PROVE PoolInv'
  <2>1. doubled = {} BY <1>2, DoubledStays
  <2> QED BY <1>2, <2>1, NextPool DEF OrderInv
<1> QED BY <1>1, <1>2 DEF OrderInv

\* No job is lost and none runs twice, for any number of threads, fibers and
\* jobs: until a Fiber is scheduled twice, or popped by one thread while another
\* still has it, every unfinished job is in one place, a finished one in none,
\* a fiber is in at most one hand, and a live fiber that no thread holds will
\* be resumed through exactly one reference. Wake-ups that come before the
\* fiber has parked, jobs that come while stop() runs, any number of calls of
\* stop() and both kinds of scheduler are included.
THEOREM OnePlaceTheorem == Spec => []OnePlace
<1>1. OrderInv => OnePlace BY OnePlaceFromPool DEF OrderInv, OnePlace
<1> QED BY OrderInit, OrderStep, <1>1, PTL DEF Spec
----------------------------------------------------------------------------
(* The owner, and the assertions.                                           *)

\* A step that is neither an answer of stopping(), nor the end of a run(), nor
\* one of the owner's.
Works(t) ==
  /\ UNCHANGED <<idleTerm, main, m_rootFiber, stops, m_stopping, m_autoStop>>
  /\ \/ pc' = pc
     \/ pc[t] \notin {"off", "exited"} /\ \E l \in PCs \ {"off", "exited"} : Goto(t, l)

Answers(t) == Asking(t) /\ \E b \in BOOLEAN : Answer(t, b) /\ (b => CanStop)

LEMMA ThreadFootprint ==
  ASSUME IndInv, NEW t \in Threads, ThreadStep(t)
  PROVE  Works(t) \/ Exit(t) \/ Answers(t)
<1> USE DEF counters, fibers, slot, idler, rest, flags, owner, jobs, threads
<1>1. {"scan", "idle", "got", "exec", "reg", "switch", "post", "settle", "hold", "events"}
        \subseteq PCs \ {"off", "exited"}
  BY DEF PCs, Active, InHand, OnStack, Idling
<1>2. CASE Take(t) \/ GoIdle(t) \/ SwapIn(t) \/ SwapInCb(t)
  BY <1>1, <1>2 DEF Take, TakeLeaving, GoIdle, SwapIn, SwapInCb, Fail, Works
<1>3. CASE Body(t)
  BY <1>1, <1>3 DEF Body, Finish, Relay, YieldToReady, Register, YieldToHold, Spawn, Schedule, Fail, Works
<1>4. CASE SwapOut(t) \/ Post(t) \/ Settle(t) \/ Hold(t)
  BY <1>1, <1>4 DEF SwapOut, Post, PostBy, Settle, Hold, HoldLeaving, Works
<1>5. CASE ScheduleExpired(t) \/ DropPending(t) \/ LeaveIdle(t)
  BY <1>1, <1>5 DEF ScheduleExpired, DropPending, DropPendingBy, LeaveIdle, Works
<1>6. CASE ReadTimers(t) \/ ReadPending(t) \/ ReadQueue(t)
  <2>1. CASE Pass(t) BY <2>1 DEF Pass, Works
  <2>2. CASE Asking(t) /\ Answer(t, FALSE) BY <2>2 DEF Answers
  <2>3. CASE Asking(t) /\ Answer(t, CanStop)
    <3>1. CanStop \in BOOLEAN BY DEF CanStop, IndInv, Shape
    <3> QED BY <2>3, <3>1 DEF Answers
  <2> QED BY <1>6, <2>1, <2>2, <2>3 DEF ReadTimers, ReadPending, ReadQueue
<1> QED BY <1>2, <1>3, <1>4, <1>5, <1>6 DEF ThreadStep

LEMMA Footprint ==
  ASSUME IndInv, Next \/ UNCHANGED vars
  PROVE  MainStep \/ \E t \in Threads : Works(t) \/ Exit(t) \/ Answers(t)
<1> USE DEF vars, counters, fibers, slot, idler, rest, flags, owner, jobs, threads
<1>1. Caller \in Threads BY DEF Threads
<1>2. CASE (\E j \in Jobs, pin \in Pins : Submit(j, pin)) \/ Ended \/ UNCHANGED vars
  BY <1>1, <1>2 DEF Submit, Schedule, Ended, Works
<1>3. CASE \E f \in Fibers : ScheduleAgain(f) BY <1>1, <1>3 DEF ScheduleAgain, Works
<1>4. CASE \E f \in Fibers : Wake(f)
  <2>1. {"fire", "trig"} \subseteq PCs \ {"off", "exited"} BY DEF PCs, Idling
  <2> QED BY <1>4, <2>1 DEF Wake, Trigger, Expire, Works
<1>5. CASE \E t \in Threads : ThreadStep(t) BY <1>5, ThreadFootprint
<1> QED BY <1>2, <1>3, <1>4, <1>5 DEF Next

\* run() is on the caller only while stop() is in m_rootFiber->call().
CallerInv ==
  /\ pc[Caller] \notin {"off", "exited"} => m_rootFiber = "EXEC" /\ main = "root"
  /\ main \notin {"new", "running"} => stops > 0
  /\ ~UseCaller => m_rootFiber = None

\* A root fiber that has ended is called again only by a second stop().
RootInv == m_rootFiber = "TERM" => stops > 1 \/ (main \in {"join", "stopped"} /\ stops > 0)

LEMMA CallerInit == Init => CallerInv /\ RootInv
BY DEF Init, CallerInv, RootInv, Threads

LEMMA CallerStep ==
  ASSUME IndInv, CallerInv, Next \/ UNCHANGED vars
  PROVE  CallerInv' /\ (RootInv => RootInv') /\ stops' >= stops
<1> USE DEF counters, fibers, slot, idler, rest, flags, owner, jobs, threads
<1>1. Caller \in Threads /\ pc \in [Threads -> PCs] /\ stops \in Nat /\ MaxStops \in Nat
  BY DEF Threads, IndInv, Shape
<1>2. ASSUME NEW t \in Threads, Works(t) PROVE CallerInv' /\ (RootInv => RootInv') /\ stops' >= stops
  <2>1. UNCHANGED <<main, m_rootFiber, stops>> BY <1>2 DEF Works
  <2>2. pc'[Caller] = pc[Caller] \/ pc[Caller] \notin {"off", "exited"} BY <1>1, <1>2 DEF Works, Goto
  <2> QED BY <1>1, <2>1, <2>2 DEF CallerInv, RootInv
<1>3. ASSUME NEW t \in Threads, Exit(t) PROVE CallerInv' /\ (RootInv => RootInv') /\ stops' >= stops
  <2>1. pc[t] = "scan" /\ pc' = [pc EXCEPT ![t] = "exited"] /\ stops' = stops BY <1>3 DEF Exit, Goto
  <2>2. CASE t = Caller
    <3>1. m_rootFiber' = "TERM" /\ main' = "join" /\ pc'[Caller] = "exited" BY <1>1, <1>3, <2>1, <2>2 DEF Exit
    <3>2. m_rootFiber = "EXEC" /\ main = "root" BY <2>1, <2>2 DEF CallerInv
    <3> QED BY <1>1, <2>1, <3>1, <3>2 DEF CallerInv, RootInv
  <2>3. CASE t # Caller
    <3>1. UNCHANGED <<m_rootFiber, main>> /\ pc'[Caller] = pc[Caller] BY <1>1, <1>3, <2>1, <2>3 DEF Exit
    <3> QED BY <1>1, <2>1, <3>1 DEF CallerInv, RootInv
  <2> QED BY <2>2, <2>3
<1>4. ASSUME NEW t \in Threads, Answers(t) PROVE CallerInv' /\ (RootInv => RootInv') /\ stops' >= stops
  <2>1. UNCHANGED <<m_rootFiber, stops>> BY <1>4 DEF Answers, Answer
  <2>2. CASE pc[t] = "idle"
    <3>1. main' = main /\ (pc'[Caller] = pc[Caller] \/ pc[Caller] = "idle")
      BY <1>1, <1>4, <2>2 DEF Answers, Answer
    <3> QED BY <1>1, <2>1, <3>1 DEF CallerInv, RootInv
  <2>3. CASE pc[t] # "idle"
    <3>1. t = Caller /\ main \in {"early", "peek"} /\ pc' = pc
      BY <1>4, <2>3 DEF Answers, Answer, Asking
    <3> QED BY <1>1, <2>1, <3>1 DEF CallerInv, RootInv
  <2> QED BY <2>2, <2>3
<1>5. CASE MainStep
  <2>1. CASE Start BY <1>1, <2>1 DEF Start, CallerInv, RootInv, IndInv, OffInv
  <2>2. CASE StopBegin
    <3>1. /\ stops < MaxStops /\ stops' = stops + 1 /\ UNCHANGED <<pc, m_rootFiber>>
          /\ main \in {"running", "stopped"} /\ main' \in {"early", "signal"}
      BY <2>2 DEF StopBegin
    <3> QED BY <1>1, <3>1 DEF CallerInv, RootInv
  <2>3. CASE StopSignal \/ StopJoin
    BY <1>1, <2>3 DEF StopSignal, StopJoin, StopWhen, CallerInv, RootInv
  <2>4. CASE CallRoot
    <3>1. CASE m_rootFiber = "TERM"
      <4>1. UNCHANGED <<pc, m_rootFiber, main, stops>> BY <2>4, <3>1 DEF CallRoot, Fail
      <4> QED BY <1>1, <4>1 DEF CallerInv, RootInv
    <3>2. CASE m_rootFiber = "INIT"
      BY <1>1, <2>4, <3>2 DEF CallRoot, Goto, CallerInv, RootInv
    <3> QED BY <2>4, <3>1, <3>2 DEF CallRoot
  <2> QED BY <1>5, <2>1, <2>2, <2>3, <2>4 DEF MainStep
<1> QED BY <1>2, <1>3, <1>4, <1>5, Footprint

\* No assertion fails, for any number of threads, fibers and jobs, until a
\* fiber is in two hands: swapIn() never finds a fiber that is running, whose
\* stack is in use or that has ended, reset() never finds one that has not, and
\* addEvent() records a fiber in state EXEC, also when wake-ups come early.
\* m_rootFiber->call() resumes a finished root fiber only in a second stop().
THEOREM AssertsTheorem == Spec => []AssertsHold
<1> DEFINE I == OrderInv /\ CallerInv /\ RootInv /\ AssertsHold
<1>1. Init => I BY OrderInit, CallerInit DEF Init, AssertsHold
<1>2. I /\ [Next]_vars => I'
  <2> SUFFICES ASSUME I, [Next]_vars PROVE I' OBVIOUS
  <2>1. OrderInv' BY OrderStep
  <2>2. CallerInv' /\ RootInv' /\ stops' >= stops BY CallerStep DEF OrderInv
  <2>3. ASSUME doubled' = {} PROVE failed' = {} \/ (failed' = {"root never reach"} /\ stops' > 1)
    <3>1. doubled = {} BY <2>3, DoubledStays
    <3>2. failed' = failed \/ CallRoot BY <2>3, <3>1, NextPool DEF OrderInv
    <3>3. stops \in Nat /\ stops' \in Nat BY <2>1 DEF OrderInv, IndInv, Shape
    <3>4. CASE failed' = failed
      <4>1. failed = {} \/ (failed = {"root never reach"} /\ stops > 1) BY <3>1 DEF AssertsHold
      <4>2. stops > 1 => stops' > 1 BY <2>2, <3>3
      <4> QED BY <3>4, <4>1, <4>2
    <3>5. CASE CallRoot
      <4>1. failed = {} /\ main = "root" /\ stops' = stops BY <3>5 DEF CallRoot, Alive, Fail, owner
      <4>2. CASE m_rootFiber = "TERM"
        <5>1. stops > 1 BY <4>1, <4>2 DEF RootInv
        <5>2. failed' = {"root never reach"} BY <3>5, <4>1, <4>2 DEF CallRoot, Fail
        <5> QED BY <4>1, <5>1, <5>2
      <4>3. CASE m_rootFiber # "TERM" BY <3>5, <4>1, <4>3 DEF CallRoot
      <4> QED BY <4>2, <4>3
    <3> QED BY <3>2, <3>4, <3>5
  <2> QED BY <2>1, <2>2, <2>3 DEF AssertsHold
<1> QED BY <1>1, <1>2, PTL DEF Spec
----------------------------------------------------------------------------
(* stop(), when jobs do not wait for timers or events and callers hand in   *)
(* none while it runs.                                                      *)

\* No fiber has registered or parked.
NoWait ==
  /\ \A f \in Fibers : m_state[f] # "HOLD" /\ waiting[f] = "no"
  /\ \A t \in Threads : pc[t] # "reg"

LEMMA NoWaitStep ==
  ASSUME IndInv, PoolInv, NoWait, Waits = {} \/ MaxYields = 0, Next \/ UNCHANGED vars
  PROVE  NoWait'
<1> USE DEF vars, counters, fibers, slot, idler, rest, flags, owner, jobs, threads
<1>1. \A t, w : ~(w \in Waits /\ Register(t, w))
  <2>1. fuel \in 0..MaxYields BY DEF IndInv, Shape
  <2>2. MaxYields = 0 => ~(fuel > 0) BY <2>1
  <2> QED BY <2>2 DEF Register
<1>2. /\ m_state \in [Fibers -> FiberStates] /\ waiting \in [Fibers -> {"no", "timer", "event"}]
      /\ pc \in [Threads -> PCs]
  BY DEF IndInv, Shape
<1>3. ASSUME NEW t \in Threads, pc[t] \in {"settle", "hold"}
      PROVE pc[t] = "settle" /\ m_state[Cur(t)] \in Finished \cup {"READY"}
  <2>1. pc[t] \in InHand BY <1>3 DEF InHand
  <2>2. PICK f : f = Cur(t) OBVIOUS
  <2>3. f \in Fibers /\ HeldOK(f, pc[t]) BY <2>1, <2>2, InHandFact
  <2> QED BY <1>3, <2>2, <2>3 DEF HeldOK, NoWait
<1>4. ASSUME NEW j, NEW pin, Schedule(j, pin) PROVE NoWait'
  BY <1>2, <1>4 DEF Schedule, NoWait
<1>5. ASSUME NEW t \in Threads, ThreadStep(t) PROVE NoWait'
  <2>1. CASE Take(t) \/ GoIdle(t) \/ Exit(t) \/ SwapOut(t) \/ Post(t) \/ ScheduleExpired(t) \/ DropPending(t)
             \/ LeaveIdle(t)
    BY <1>2, <2>1 DEF Take, TakeLeaving, GoIdle, Exit, SwapOut, Post, PostBy, ScheduleExpired, DropPending,
       DropPendingBy, LeaveIdle, NoWait, Goto
  <2>2. CASE SwapIn(t) BY <1>2, <2>2 DEF SwapIn, Fail, NoWait, Goto
  <2>3. CASE SwapInCb(t) BY <1>2, <2>3 DEF SwapInCb, Fail, NoWait, Goto
  <2>4. CASE Body(t)
    <3>1. ASSUME NEW s \in Finished, Finish(t, s) PROVE NoWait' BY <1>2, <3>1 DEF Finish, NoWait, Finished, Goto
    <3>2. CASE Relay(t) BY <1>2, <3>2 DEF Relay, NoWait, Goto
    <3>3. CASE YieldToReady(t) BY <1>2, <3>3 DEF YieldToReady, NoWait, Goto
    <3>4. CASE YieldToHold(t) BY <3>4 DEF YieldToHold, NoWait
    <3> QED BY <1>1, <1>4, <2>4, <3>1, <3>2, <3>3, <3>4 DEF Body, Spawn
  <2>5. CASE Settle(t)
    <3>1. pc[t] = "settle" BY <2>5 DEF Settle
    <3>2. m_state[Cur(t)] \in Finished \cup {"READY"} BY <1>3, <3>1
    <3> QED BY <1>2, <2>5, <3>2 DEF Settle, NoWait, Goto
  <2>6. CASE Hold(t) BY <1>3, <2>6 DEF Hold, HoldLeaving
  <2>7. CASE ReadTimers(t) \/ ReadPending(t) \/ ReadQueue(t)
    BY <1>2, <2>7 DEF ReadTimers, ReadPending, ReadQueue, Pass, Answer, NoWait
  <2> QED BY <1>5, <2>1, <2>2, <2>3, <2>4, <2>5, <2>6, <2>7 DEF ThreadStep
<1>6. ASSUME NEW f \in Fibers, Wake(f) PROVE FALSE
  BY <1>6 DEF Wake, Trigger, Expire, NoWait
<1>7. ASSUME NEW f \in Fibers, ScheduleAgain(f) PROVE NoWait' BY <1>7 DEF ScheduleAgain, NoWait
<1>8. CASE MainStep
  BY <1>2, <1>8 DEF MainStep, Start, StopBegin, StopSignal, CallRoot, Fail, StopJoin, StopWhen, NoWait, Goto
<1>9. CASE Ended \/ UNCHANGED vars BY <1>9 DEF Ended, NoWait
<1> QED BY <1>4, <1>5, <1>6, <1>7, <1>8, <1>9 DEF Next, Submit

\* A queued fiber is in nobody's hands, and its state is not EXEC.
LEMMA QueuedFree ==
  ASSUME IndInv, PoolInv, NoWait, NEW i \in DOMAIN m_fibers, NEW f \in Fibers, f = m_fibers[i].fiber
  PROVE  Holders(f) = {} /\ m_state[f] # "EXEC"
<1>1. At(f, "run", None) BY DEF At, InQueue
<1>2. Placed(f) /\ FiberOK(f) /\ TokenOK(f, "run", None) BY <1>1 DEF Placed, PoolInv, FiberOK, Kinds, Whom
<1>3. ASSUME NEW t \in Threads, HeldBy(f, t) PROVE FALSE
  <2>1. HeldOK(f, pc[t]) /\ pc[t] \in InHand BY <1>2, <1>3 DEF FiberOK, HolderOK, HeldBy
  <2> QED BY <1>2, <2>1 DEF HeldOK, NoWait, InHand, OnStack
<1>4. ~Held(f) BY <1>3 DEF Held
<1>5. Holders(f) = {} BY <1>3 DEF Holders, HeldBy
<1> QED BY <1>2, <1>4, <1>5 DEF TokenOK

\* No thread is active when CanStop holds.
LEMMA NobodyActive ==
  ASSUME IndInv, CanStop
  PROVE  m_fibers = <<>> /\ \A t \in Threads : pc[t] \notin Active
<1>1. m_activateThreadCount = 0 /\ m_fibers = <<>> BY DEF CanStop
<1>2. Cardinality({t \in Threads : pc[t] \in Active}) = 0 BY <1>1 DEF IndInv, CountersExact, Num
<1>3. IsFiniteSet({t \in Threads : pc[t] \in Active}) BY ThreadsFinite, FS_Subset
<1>4. {t \in Threads : pc[t] \in Active} = {} BY <1>2, <1>3, FS_EmptySet
<1> QED BY <1>1, <1>4

\* A thread that scans finds no fiber in the queue that is in other hands.
FreeQueue ==
  (\E t \in Threads : pc[t] = "scan") =>
    \A i \in DOMAIN m_fibers : \A f \in Fibers : f = m_fibers[i].fiber => Holders(f) = {}

LEMMA NoDouble ==
  ASSUME FreeQueue, ~DoubleSchedule, doubled = {}, Next \/ UNCHANGED vars
  PROVE  doubled' = {}
<1> USE DEF vars, counters, fibers, slot, idler, rest, flags, owner, jobs, threads
<1>1. CASE \E j \in Jobs, pin \in Pins : Submit(j, pin) BY <1>1 DEF Submit, Schedule
<1>2. CASE \E f \in Fibers : ScheduleAgain(f) \/ Wake(f)
  BY <1>2 DEF ScheduleAgain, Wake, Trigger, Expire
<1>3. ASSUME NEW t \in Threads, ThreadStep(t) PROVE doubled' = {}
  <2>1. CASE Take(t)
    <3>1. PICK i \in DOMAIN m_fibers : doubled' = doubled \cup {f \in Fibers : f = m_fibers[i].fiber /\ Holders(f) # {}}
      BY <2>1 DEF Take, TakeLeaving
    <3>2. \A f \in Fibers : f = m_fibers[i].fiber => Holders(f) = {}
      BY <2>1 DEF FreeQueue, Take, TakeLeaving
    <3> QED BY <3>1, <3>2
  <2>2. CASE \/ SwapIn(t) \/ SwapInCb(t) \/ SwapOut(t) \/ Post(t) \/ Settle(t) \/ Hold(t)
             \/ GoIdle(t) \/ Exit(t)
    BY <2>2 DEF SwapIn, SwapInCb, SwapOut, Post, PostBy, Settle, Hold, HoldLeaving, Fail, GoIdle, Exit
  <2>3. CASE Body(t)
    BY <2>3 DEF Body, Finish, Relay, YieldToReady, Register, YieldToHold, Spawn, Schedule, Fail
  <2>4. CASE ReadTimers(t) \/ ReadPending(t) \/ ReadQueue(t)
    BY <2>4 DEF ReadTimers, ReadPending, ReadQueue, Answer, Pass
  <2>5. CASE ScheduleExpired(t) \/ DropPending(t) \/ LeaveIdle(t)
    BY <2>5 DEF ScheduleExpired, DropPending, DropPendingBy, LeaveIdle
  <2> QED BY <1>3, <2>1, <2>2, <2>3, <2>4, <2>5 DEF ThreadStep
<1>4. CASE MainStep \/ Ended \/ UNCHANGED vars
  BY <1>4 DEF MainStep, Ended, Start, StopBegin, StopSignal, CallRoot, StopJoin, StopWhen, Fail
<1> QED BY <1>1, <1>2, <1>3, <1>4 DEF Next

\* With an empty queue a job that is not done is on a thread: just popped, or
\* in a fiber that the thread has in hand.
LEMMA JobHasThread ==
  ASSUME IndInv, PoolInv, NoWait, m_fibers = <<>>, NEW j \in Unfinished
  PROVE  \E t \in Threads : pc[t] = "got" \/ (pc[t] \in InHand /\ m_cb[Cur(t)] \in Jobs)
<1>1. j \in Jobs BY DEF Unfinished, IndInv, Shape
<1>2. Placed(j) BY <1>1 DEF PoolInv, JobOK
<1>3. PICK k \in Kinds, a \in Whom : At(j, k, a) BY <1>2 DEF Placed
<1>4. j \notin Fibers /\ j # None BY <1>1
<1>5. \A x : ~InQueue(x) /\ ~InCbs(x) BY DEF InQueue, InCbs
<1>6. \A t \in Threads : ~FiredBy(j, t) /\ ~SpareOf(j, t) /\ ~GotBy(j, t)
  BY <1>4 DEF FiredBy, SpareOf, GotBy, IndInv, Shape, Entries
<1>7. ~Parked(j) BY <1>4 DEF Parked
<1>8. (\E t \in Threads : GotCbBy(j, t)) \/ \E f \in Fibers : CbOf(j, f) BY <1>3, <1>5, <1>6, <1>7 DEF At
<1>9. CASE \E t \in Threads : GotCbBy(j, t) BY <1>9 DEF GotCbBy
<1>10. ASSUME NEW f \in Fibers, CbOf(j, f)
       PROVE \E t \in Threads : pc[t] = "got" \/ (pc[t] \in InHand /\ m_cb[Cur(t)] \in Jobs)
  <2>1. m_cb[f] = j /\ FiberOK(f) BY <1>10 DEF CbOf, PoolInv
  <2>2. Placed(f) \/ Held(f) BY <1>1, <2>1 DEF FiberOK, Live
  <2>3. CASE Held(f) BY <1>1, <2>1, <2>3 DEF Held, HeldBy
  <2>4. CASE ~Held(f)
    <3>1. PICK l \in Kinds, b \in Whom : At(f, l, b) BY <2>2, <2>4 DEF Placed
    <3>2. TokenOK(f, l, b) BY <2>1, <3>1 DEF FiberOK
    <3>3. j # None BY <1>4
    <3>4. l \in {"run", "got"} BY <2>1, <2>4, <3>2, <3>3 DEF TokenOK, NoWait, Kinds
    <3>5. b \in Threads /\ GotBy(f, b) BY <1>5, <3>1, <3>4 DEF At
    <3> QED BY <3>5 DEF GotBy
  <2> QED BY <2>3, <2>4
<1> QED BY <1>8, <1>9, <1>10
----------------------------------------------------------------------------
(* stop() with jobs that yield.                                             *)

HasEntry(e) == \E i \in DOMAIN m_fibers : m_fibers[i] = e

\* push_back, erase, and the list of expired callbacks.
LEMMA EntryAppend ==
  ASSUME NEW e \in Entries, m_fibers \in Seq(Entries), m_fibers' = Append(m_fibers, e)
  PROVE  \A x : HasEntry(x)' <=> HasEntry(x) \/ x = e
<1> DEFINE n == Len(m_fibers)
<1>1. /\ n \in Nat /\ DOMAIN m_fibers = 1..n /\ DOMAIN m_fibers' = 1..(n + 1)
      /\ \A i \in 1..n : m_fibers'[i] = m_fibers[i]
      /\ m_fibers'[n + 1] = e
  OBVIOUS
<1> HIDE DEF n
<1> QED BY <1>1 DEF HasEntry

LEMMA EntryRemove ==
  ASSUME m_fibers \in Seq(Entries), NEW i \in DOMAIN m_fibers, m_fibers' = RemoveAt(m_fibers, i)
  PROVE  \A x : HasEntry(x) <=> HasEntry(x)' \/ x = m_fibers[i]
<1>1. PICK n \in Nat : n = Len(m_fibers) OBVIOUS
<1>2. PICK q : q = m_fibers' OBVIOUS
<1>3. DOMAIN m_fibers = 1..n /\ i \in 1..n BY <1>1
<1>4. /\ q \in Seq(Entries) /\ Len(q) = n - 1
      /\ \A k \in 1..(n - 1) : q[k] = IF k < i THEN m_fibers[k] ELSE m_fibers[k + 1]
  BY <1>1, <1>2, <1>3, RemoveAtElements
<1>5. DOMAIN q = 1..(n - 1) BY <1>4
<1>6. ASSUME NEW k \in 1..(n - 1) PROVE \E m \in 1..n : m_fibers[m] = q[k]
  <2>1. k \in 1..n /\ k + 1 \in 1..n BY <1>1
  <2> QED BY <1>4, <2>1
<1>7. ASSUME NEW m \in 1..n, m # i PROVE \E k \in 1..(n - 1) : q[k] = m_fibers[m]
  <2>1. CASE m < i
    <3>1. m \in 1..(n - 1) BY <1>3, <2>1
    <3> QED BY <1>4, <2>1, <3>1
  <2>2. CASE m > i
    <3>1. m - 1 \in 1..(n - 1) /\ ~(m - 1 < i) /\ (m - 1) + 1 = m BY <1>3, <2>2
    <3>2. q[m - 1] = m_fibers[m] BY <1>4, <3>1
    <3> QED BY <3>1, <3>2
  <2> QED BY <1>3, <1>7, <2>1, <2>2
<1>8. \A x : HasEntry(x)' <=> \E k \in 1..(n - 1) : q[k] = x BY <1>2, <1>5 DEF HasEntry
<1>9. \A x : HasEntry(x) <=> \E m \in 1..n : m_fibers[m] = x BY <1>3 DEF HasEntry
<1> QED BY <1>3, <1>6, <1>7, <1>8, <1>9

LEMMA EntryConcat ==
  ASSUME m_fibers \in Seq(Entries), NEW k \in Nat, NEW q \in [1..k -> Entries],
         \A i \in 1..k : q[i].thread = None, m_fibers' = m_fibers \o q
  PROVE  \A x : x.thread # None => (HasEntry(x)' <=> HasEntry(x))
<1>1. q \in Seq(Entries) /\ Len(q) = k BY SeqOfTuple
<1>2. PICK n \in Nat : n = Len(m_fibers) OBVIOUS
<1>3. /\ DOMAIN m_fibers = 1..n /\ DOMAIN m_fibers' = 1..(n + k)
      /\ \A i \in 1..n : m_fibers'[i] = m_fibers[i]
      /\ \A i \in (n + 1)..(n + k) : m_fibers'[i] = q[i - n]
  BY <1>1, <1>2, ConcatElements
<1>4. \A i \in (n + 1)..(n + k) : m_fibers'[i].thread = None
  <2>1. \A i \in (n + 1)..(n + k) : i - n \in 1..k BY <1>2
  <2> QED BY <1>3, <2>1
<1>5. \A i : i \in 1..(n + k) <=> i \in 1..n \/ i \in (n + 1)..(n + k) BY <1>2
<1> QED BY <1>3, <1>4, <1>5 DEF HasEntry

\* Jobs may yield and go anywhere; none waits, none is handed in from outside
\* once stop() runs.
Floating == Waits = {} /\ Pins \subseteq {None} /\ ~LateSubmit /\ ~DoubleSchedule

\* Thread t is in its run().
InRun(t) == pc[t] \notin {"off", "exited"}

\* Nothing is pinned.
NoPins == \A e \in Entries : HasEntry(e) => e.thread = None

\* A queue that is not empty has a thread to come: one in run(), the caller
\* before m_rootFiber->call(), or those start() will create.
LeaveInv ==
  /\ main \in {"new", "running"} =>
       ~m_autoStop /\ (\A t \in Threads : ~idleTerm[t]) /\ (UseCaller => m_rootFiber = "INIT")
  /\ main = "running" => \A t \in Workers : InRun(t)
  /\ main = "early" => Workers = {}
  /\ main = "stopped" => \A t \in Workers : pc[t] = "exited"
  /\ m_fibers # <<>> =>
       \/ \E t \in Threads : InRun(t)
       \/ main = "new"
       \/ UseCaller /\ m_rootFiber = "INIT" /\ main \in {"running", "early", "signal", "peek", "root"}

LEMMA NoPinsStep ==
  ASSUME IndInv, IndInv', NoPins, Pins \subseteq {None}, Next \/ UNCHANGED vars
  PROVE  NoPins'
<1> USE DEF vars, counters, fibers, slot, idler, rest, flags, owner, jobs, threads
<1>1. m_fibers \in Seq(Entries) /\ m_fibers' \in Seq(Entries) BY DEF IndInv, Shape
<1>2. ASSUME m_fibers' = m_fibers PROVE NoPins' BY <1>2 DEF NoPins, HasEntry
<1>3. ASSUME NEW f \in Fibers \cup {None}, NEW c \in Jobs \cup Fibers \cup {None},
             m_fibers' = Append(m_fibers, Task(f, c, None))
      PROVE NoPins'
  <2>1. Task(f, c, None) \in Entries /\ Task(f, c, None).thread = None BY DEF Task, Entries
  <2>2. PICK e \in Entries : e = Task(f, c, None) /\ e.thread = None BY <2>1
  <2>3. \A x : HasEntry(x)' <=> HasEntry(x) \/ x = e BY <1>1, <1>3, <2>2, EntryAppend
  <2> QED BY <2>2, <2>3 DEF NoPins
<1>4. ASSUME NEW j, NEW pin \in Pins, Schedule(j, pin) PROVE NoPins'
  <2>1. pin = None /\ j \in Jobs BY <1>4 DEF Schedule
  <2>2. \E f \in Fibers \cup {None}, c \in Jobs \cup Fibers \cup {None} : m_fibers' = Append(m_fibers, Task(f, c, None))
    BY <1>4, <2>1 DEF Schedule
  <2> QED BY <1>3, <2>2
<1>5. ASSUME NEW t \in Threads, Take(t) PROVE NoPins'
  <2>1. PICK i \in DOMAIN m_fibers : m_fibers' = RemoveAt(m_fibers, i) BY <1>5 DEF Take, TakeLeaving
  <2>2. \A x : HasEntry(x) <=> HasEntry(x)' \/ x = m_fibers[i] BY <1>1, <2>1, EntryRemove
  <2> QED BY <2>2 DEF NoPins
<1>6. ASSUME NEW t \in Threads, ScheduleExpired(t) PROVE NoPins'
  <2>1. PICK cbs \in [1..Cardinality(fired[t]) -> fired[t]] :
          m_fibers' = m_fibers \o [i \in DOMAIN cbs |-> Task(None, cbs[i], None)]
    BY <1>6 DEF ScheduleExpired
  <2>2. Cardinality(fired[t]) \in Nat /\ fired[t] \subseteq Fibers
    <3>1. fired[t] \subseteq Fibers BY DEF IndInv, Shape
    <3>2. IsFiniteSet(fired[t]) BY <3>1, ThreadsFinite, FS_Subset
    <3> QED BY <3>1, <3>2, FS_CardinalityType
  <2>3. PICK k \in Nat : k = Cardinality(fired[t]) BY <2>2
  <2>4. PICK q : q = [i \in 1..k |-> Task(None, cbs[i], None)] OBVIOUS
  <2>5. q \in [1..k -> Entries] /\ \A i \in 1..k : q[i].thread = None
    BY <2>1, <2>2, <2>3, <2>4 DEF Task, Entries
  <2>6. m_fibers' = m_fibers \o q BY <2>1, <2>3, <2>4
  <2>7. \A x : x.thread # None => (HasEntry(x)' <=> HasEntry(x)) BY <1>1, <2>5, <2>6, EntryConcat
  <2> QED BY <2>7 DEF NoPins
<1>7. ASSUME NEW t \in Threads, pc[t] \in InHand, NEW f, f = Cur(t) PROVE f \in Fibers
  BY <1>7 DEF IndInv, HandInv
<1>8. ASSUME NEW t \in Threads, ThreadStep(t) PROVE NoPins'
  <2>1. CASE Body(t)
    <3>1. CASE Relay(t)
      <4>1. m_cb[Cur(t)] \in Fibers /\ m_fibers' = Append(m_fibers, Task(m_cb[Cur(t)], None, None))
        BY <3>1 DEF Relay
      <4> QED BY <1>3, <4>1
    <3>2. CASE \E j \in Jobs, pin \in Pins : Spawn(t, j, pin) BY <1>4, <3>2 DEF Spawn
    <3>3. CASE \/ \E s \in Finished : Finish(t, s)
               \/ YieldToReady(t) \/ YieldToHold(t) \/ \E w \in Waits : Register(t, w)
      BY <1>2, <3>3 DEF Finish, YieldToReady, YieldToHold, Register, Fail
    <3> QED BY <2>1, <3>1, <3>2, <3>3 DEF Body
  <2>2. CASE Settle(t)
    <3>1. PICK f : f = Cur(t) OBVIOUS
    <3>2. f \in Fibers BY <1>7, <2>2, <3>1 DEF Settle, InHand
    <3>3. m_fibers' = m_fibers \/ m_fibers' = Append(m_fibers, Task(f, None, None))
      BY <2>2, <3>1 DEF Settle
    <3> QED BY <1>2, <1>3, <3>2, <3>3
  <2>3. CASE \/ GoIdle(t) \/ Exit(t) \/ SwapIn(t) \/ SwapInCb(t) \/ SwapOut(t) \/ Post(t)
             \/ Hold(t) \/ DropPending(t) \/ LeaveIdle(t)
    BY <1>2, <2>3 DEF GoIdle, Exit, SwapIn, SwapInCb, SwapOut, Post, PostBy, Hold, HoldLeaving,
       DropPending, DropPendingBy, LeaveIdle, Fail
  <2>4. CASE ReadTimers(t) \/ ReadPending(t) \/ ReadQueue(t)
    BY <1>2, <2>4 DEF ReadTimers, ReadPending, ReadQueue, Pass, Answer
  <2> QED BY <1>5, <1>6, <1>8, <2>1, <2>2, <2>3, <2>4 DEF ThreadStep
<1>9. ASSUME NEW f \in Fibers, ScheduleAgain(f) \/ Wake(f) PROVE NoPins'
  BY <1>2, <1>3, <1>9 DEF ScheduleAgain, Wake, Trigger, Expire
<1>10. CASE MainStep \/ Ended \/ UNCHANGED vars
  BY <1>2, <1>10 DEF MainStep, Start, StopBegin, StopSignal, CallRoot, Fail, StopJoin, StopWhen, Ended
<1> QED BY <1>4, <1>8, <1>9, <1>10 DEF Next, Submit

\* What comes to an empty queue comes from a thread in run() or from a caller
\* before stop().
LEMMA QueueGrows ==
  ASSUME IndInv, ~DoubleSchedule, ~LateSubmit, m_fibers = <<>>, Next \/ UNCHANGED vars
  PROVE  \/ m_fibers' = <<>>
         \/ main \in {"new", "running"}
         \/ \E t \in Threads : InRun(t) /\ InRun(t)'
<1> USE DEF vars, counters, fibers, slot, idler, rest, flags, owner, jobs, threads
<1>1. CASE \E j \in Jobs, pin \in Pins : Submit(j, pin) BY <1>1 DEF Submit
<1>2. pc \in [Threads -> PCs] BY DEF IndInv, Shape
<1>3. ASSUME NEW t \in Threads, ThreadStep(t) PROVE m_fibers' = <<>> \/ (InRun(t) /\ InRun(t)')
  <2>1. CASE Body(t)
    BY <1>2, <2>1 DEF Body, Finish, Relay, YieldToReady, YieldToHold, Register, Fail, Spawn, Schedule, Goto, InRun
  <2>2. CASE Settle(t) BY <1>2, <2>2 DEF Settle, Goto, InRun
  <2>3. CASE \/ GoIdle(t) \/ Exit(t) \/ SwapIn(t) \/ SwapInCb(t) \/ SwapOut(t) \/ Post(t)
             \/ Hold(t) \/ DropPending(t) \/ LeaveIdle(t)
    BY <2>3 DEF GoIdle, Exit, SwapIn, SwapInCb, SwapOut, Post, PostBy, Hold, HoldLeaving,
       DropPending, DropPendingBy, LeaveIdle, Fail
  <2>4. CASE ReadTimers(t) \/ ReadPending(t) \/ ReadQueue(t)
    BY <2>4 DEF ReadTimers, ReadPending, ReadQueue, Pass, Answer
  <2>5. CASE ScheduleExpired(t) BY <1>2, <2>5 DEF ScheduleExpired, Goto, InRun
  <2>6. CASE Take(t) BY <2>6 DEF Take, TakeLeaving
  <2> QED BY <1>3, <2>1, <2>2, <2>3, <2>4, <2>5, <2>6 DEF ThreadStep
<1>4. ASSUME NEW f \in Fibers, ScheduleAgain(f) PROVE FALSE BY <1>4 DEF ScheduleAgain
<1>5. ASSUME NEW f \in Fibers, Wake(f)
      PROVE m_fibers' = <<>> \/ \E t \in Threads : InRun(t) /\ InRun(t)'
  BY <1>2, <1>5 DEF Wake, Trigger, Expire, Goto, InRun
<1>6. CASE MainStep \/ Ended \/ UNCHANGED vars
  BY <1>6 DEF MainStep, Start, StopBegin, StopSignal, CallRoot, Fail, StopJoin, StopWhen, Ended
<1> QED BY <1>1, <1>3, <1>4, <1>5, <1>6 DEF Next

\* A thread leaves run() only when the queue is empty.
LEMMA EmptyAtExit ==
  ASSUME IndInv, PoolInv, NoWait, NoPins, NEW t \in Threads, Exit(t)
  PROVE  m_fibers = <<>> /\ m_fibers' = <<>>
<1>1. m_fibers \in Seq(Entries) BY DEF IndInv, Shape
<1>2. ASSUME NEW i \in DOMAIN m_fibers PROVE FALSE
  <2>1. m_fibers[i] \in Entries /\ ~Eligible(m_fibers[i], t) BY <1>1 DEF Exit, NothingFor
  <2>2. m_fibers[i].thread = None BY <2>1 DEF NoPins, HasEntry
  <2>3. m_fibers[i].fiber # None /\ m_state[m_fibers[i].fiber] = "EXEC" BY <2>1, <2>2 DEF Eligible
  <2>4. PICK f \in Fibers : f = m_fibers[i].fiber BY <2>1, <2>3 DEF Entries
  <2> QED BY <2>3, <2>4, QueuedFree
<1>3. m_fibers = <<>>
  <2>1. Len(m_fibers) \in Nat /\ DOMAIN m_fibers = 1..Len(m_fibers) BY <1>1
  <2>2. Len(m_fibers) = 0
    <3>1. Len(m_fibers) > 0 => 1 \in DOMAIN m_fibers BY <2>1
    <3> QED BY <1>2, <2>1, <3>1
  <2> QED BY <1>1, <2>2, EmptySeq
<1> QED BY <1>3 DEF Exit

LEMMA LeaveStep ==
  ASSUME IndInv, PoolInv, NoWait, CallerInv, NoPins, LeaveInv, ~LateSubmit, ~DoubleSchedule,
         Next \/ UNCHANGED vars
  PROVE  LeaveInv'
<1> USE DEF counters, fibers, slot, idler, rest, flags, owner, jobs, threads
<1>1. /\ Caller \in Threads /\ Workers \subseteq Threads /\ Caller \notin Workers /\ pc \in [Threads -> PCs]
      /\ idleTerm \in [Threads -> BOOLEAN]
  BY DEF Threads, IndInv, Shape
<1>2. ASSUME NEW t \in Threads, Works(t) PROVE LeaveInv'
  <2>1. UNCHANGED <<idleTerm, main, m_rootFiber, m_autoStop>> BY <1>2 DEF Works
  <2>2. \A u \in Threads : /\ InRun(u)' <=> InRun(u)
                           /\ pc'[u] = "exited" <=> pc[u] = "exited"
    BY <1>1, <1>2 DEF Works, Goto, InRun
  <2>3. ASSUME m_fibers' # <<>>
        PROVE \/ \E u \in Threads : InRun(u)'
              \/ main' = "new"
              \/ UseCaller /\ m_rootFiber' = "INIT" /\ main' \in {"running", "early", "signal", "peek", "root"}
    <3>1. CASE m_fibers # <<>> BY <2>1, <2>2, <3>1 DEF LeaveInv
    <3>2. CASE m_fibers = <<>>
      <4>1. main \in {"new", "running"} \/ \E u \in Threads : InRun(u) /\ InRun(u)'
        BY <2>3, <3>2, QueueGrows
      <4>2. ASSUME main = "running" PROVE (\E u \in Threads : InRun(u)) \/ (UseCaller /\ m_rootFiber = "INIT")
        BY <1>1, <4>2, SomeThread DEF LeaveInv
      <4> QED BY <2>1, <2>2, <4>1, <4>2
    <3> QED BY <3>1, <3>2
  <2> QED BY <1>1, <2>1, <2>2, <2>3 DEF LeaveInv
<1>3. ASSUME NEW t \in Threads, Exit(t) PROVE LeaveInv'
  <2>1. /\ idleTerm[t] /\ pc' = [pc EXCEPT ![t] = "exited"] /\ UNCHANGED <<idleTerm, m_autoStop>>
        /\ main' = IF t = Caller THEN "join" ELSE main
    BY <1>3 DEF Exit, Goto
  <2>2. m_fibers' = <<>> BY <1>3, EmptyAtExit
  <2>3. main \notin {"new", "running"} BY <2>1 DEF LeaveInv
  <2>4. main' = "stopped" => \A u \in Workers : pc'[u] = "exited" BY <1>1, <2>1 DEF LeaveInv
  <2> QED BY <2>1, <2>2, <2>3, <2>4 DEF LeaveInv
<1>4. ASSUME NEW t \in Threads, Answers(t) PROVE LeaveInv'
  <2>1. PICK b \in BOOLEAN : Asking(t) /\ Answer(t, b) /\ (b => CanStop) BY <1>4 DEF Answers
  <2>2. UNCHANGED <<m_autoStop, m_rootFiber, m_fibers>> BY <2>1 DEF Answer
  <2>3. b => m_fibers = <<>> /\ main \notin {"new", "running"} BY <2>1 DEF CanStop, LeaveInv
  <2>4. CASE pc[t] = "idle"
    <3>1. /\ main' = main /\ idleTerm' = [idleTerm EXCEPT ![t] = b]
          /\ pc' = [pc EXCEPT ![t] = IF ~b /\ IOM THEN "poll" ELSE "scan"]
      BY <2>1, <2>4 DEF Answer
    <3>2. \A u \in Threads : (InRun(u)' <=> InRun(u)) /\ (pc'[u] = "exited" <=> pc[u] = "exited")
      BY <1>1, <2>4, <3>1 DEF InRun
    <3>3. main \in {"new", "running"} => \A u \in Threads : ~idleTerm'[u]
      BY <1>1, <2>3, <3>1 DEF LeaveInv
    <3> QED BY <1>1, <2>2, <3>1, <3>2, <3>3 DEF LeaveInv
  <2>5. CASE pc[t] # "idle"
    <3>1. /\ main \in {"early", "peek"} /\ UNCHANGED <<pc, idleTerm>>
          /\ main = "early" => main' = IF b THEN "stopped" ELSE "signal"
          /\ main = "peek" => main' = IF b THEN "join" ELSE "root"
      BY <2>1, <2>5 DEF Answer, Asking
    <3>2. main' \notin {"new", "running", "early"} BY <3>1
    <3>3. main' = "stopped" => Workers = {} BY <3>1 DEF LeaveInv
    <3>4. \A u \in Threads : InRun(u)' <=> InRun(u) BY <3>1 DEF InRun
    <3> QED BY <2>2, <2>3, <3>1, <3>2, <3>3, <3>4 DEF LeaveInv
  <2> QED BY <2>4, <2>5
<1>5. CASE MainStep
  <2>1. CASE Start
    <3>1. /\ main = "new" /\ main' = "running" /\ UNCHANGED <<idleTerm, m_autoStop, m_rootFiber>>
          /\ \A u \in Workers : pc'[u] = "scan"
      BY <1>1, <2>1 DEF Start
    <3>2. \A u \in Workers : InRun(u)' BY <3>1 DEF InRun
    <3> QED BY <1>1, <3>1, <3>2, SomeThread DEF LeaveInv
  <2>2. CASE StopBegin
    <3>1. /\ main \in {"running", "stopped"} /\ main' \in {"early", "signal"}
          /\ UNCHANGED <<pc, idleTerm, m_fibers, m_rootFiber>> /\ (main' = "early" => Workers = {})
      BY <2>2 DEF StopBegin
    <3>2. \A u \in Threads : InRun(u)' <=> InRun(u) BY <3>1 DEF InRun
    <3>3. main = "stopped" /\ m_fibers # <<>> => \E u \in Threads : InRun(u) BY DEF LeaveInv
    <3> QED BY <3>1, <3>2, <3>3 DEF LeaveInv
  <2>3. CASE StopSignal
    <3>1. /\ main = "signal" /\ UNCHANGED <<pc, idleTerm, m_fibers, m_rootFiber>>
          /\ main' = IF UseCaller THEN "peek" ELSE "join"
      BY <2>3 DEF StopSignal
    <3>2. \A u \in Threads : InRun(u)' <=> InRun(u) BY <3>1 DEF InRun
    <3> QED BY <3>1, <3>2 DEF LeaveInv
  <2>4. CASE CallRoot
    <3>1. main = "root" /\ UNCHANGED <<main, idleTerm, m_autoStop, m_fibers>> BY <2>4 DEF CallRoot, Fail
    <3>2. \/ UNCHANGED <<pc, m_rootFiber>>
          \/ pc' = [pc EXCEPT ![Caller] = "scan"]
      BY <2>4 DEF CallRoot, Fail, Goto
    <3>3. CASE UNCHANGED <<pc, m_rootFiber>>
      <4>1. \A u \in Threads : InRun(u)' <=> InRun(u) BY <3>3 DEF InRun
      <4> QED BY <3>1, <3>3, <4>1 DEF LeaveInv
    <3>4. CASE pc' = [pc EXCEPT ![Caller] = "scan"]
      <4>1. InRun(Caller)' BY <1>1, <3>4 DEF InRun
      <4> QED BY <1>1, <3>1, <4>1 DEF LeaveInv
    <3> QED BY <3>2, <3>3, <3>4
  <2>5. CASE StopJoin
    <3>1. /\ main = "join" /\ main' = "stopped" /\ UNCHANGED <<pc, idleTerm, m_autoStop, m_fibers>>
          /\ \A u \in Workers : pc[u] = "exited"
      BY <2>5 DEF StopJoin, StopWhen
    <3>2. \A u \in Threads : ~InRun(u) BY <3>1 DEF InRun, CallerInv, Threads
    <3>3. m_fibers = <<>> BY <3>1, <3>2 DEF LeaveInv
    <3> QED BY <3>1, <3>3 DEF LeaveInv
  <2> QED BY <1>5, <2>1, <2>2, <2>3, <2>4, <2>5 DEF MainStep
<1> QED BY <1>2, <1>3, <1>4, <1>5, Footprint

\* stop() returns only when every job has finished, the queue is empty and
\* every thread has left run(), for any number of threads and jobs, both
\* schedulers and any number of calls, when jobs yield but do not wait, no job is
\* pinned and none is handed in from outside during stop(). A yielding job is
\* neither queued nor counted as active for a while, and stopping() may then
\* answer TRUE; what saves it is that its own thread has still to queue it and
\* does not leave run() before the queue is empty. With timers or events this
\* is false as soon as there are two threads.
THEOREM CompleteTheorem == ASSUME Floating PROVE Spec => []StopComplete
<1> DEFINE I == IndInv /\ PoolInv /\ doubled = {} /\ NoWait /\ CallerInv /\ NoPins /\ LeaveInv
<1>1. Init => I
  <2> SUFFICES ASSUME Init PROVE I OBVIOUS
  <2>1. IndInv /\ PoolInv /\ CallerInv BY InitInv, PoolInit, CallerInit
  <2>2. doubled = {} /\ NoWait BY DEF Init, NoWait
  <2>3. NoPins /\ LeaveInv BY DEF Init, NoPins, HasEntry, LeaveInv
  <2> QED BY <2>1, <2>2, <2>3
<1>2. I /\ [Next]_vars => I'
  <2> SUFFICES ASSUME I, [Next]_vars PROVE I' OBVIOUS
  <2>1. IndInv' BY NextInv
  <2>2. Waits = {} /\ Pins \subseteq {None} /\ ~LateSubmit /\ ~DoubleSchedule BY DEF Floating
  <2>3. doubled' = {}
    <3>1. FreeQueue BY QueuedFree DEF FreeQueue
    <3> QED BY <2>2, <3>1, NoDouble
  <2>4. PoolInv' BY <2>3, NextPool
  <2>5. NoWait' BY <2>2, NoWaitStep
  <2>6. CallerInv' BY CallerStep
  <2>7. NoPins' BY <2>1, <2>2, NoPinsStep
  <2>8. LeaveInv' BY <2>2, LeaveStep
  <2> QED BY <2>1, <2>3, <2>4, <2>5, <2>6, <2>7, <2>8
<1>3. I => StopComplete
  <2> SUFFICES ASSUME I, main = "stopped"
               PROVE /\ Unfinished = {} /\ m_fibers = <<>>
                     /\ \A f \in Fibers : waiting[f] = "no"
                     /\ \A t \in Threads : pc[t] \in {"off", "exited"}
      BY DEF StopComplete
  <2>1. \A t \in Threads : pc[t] \in {"off", "exited"} BY DEF LeaveInv, CallerInv, Threads
  <2>2. m_fibers = <<>> BY <2>1 DEF LeaveInv, InRun
  <2>3. \A f \in Fibers : waiting[f] = "no" BY DEF NoWait
  <2>4. Unfinished = {} BY <2>1, <2>2, JobHasThread DEF InHand, OnStack
  <2> QED BY <2>1, <2>2, <2>3, <2>4
<1> QED BY <1>1, <1>2, <1>3, PTL DEF Spec
----------------------------------------------------------------------------
(* stop() with jobs that are pinned and run to their end once started.      *)

Straight == ~DoubleSchedule /\ MaxYields = 0 /\ ~LateSubmit

\* Someone relies on an answer that the scheduler may stop.
Final == (\E t \in Threads : idleTerm[t]) \/ main = "stopped" \/ (main = "join" /\ UseCaller)

\* No fiber has yielded or parked.
NoPark == NoWait /\ \A f \in Fibers : m_state[f] # "READY"

EndInv ==
  /\ main \in {"new", "running"} => ~m_autoStop
  /\ Final => Unfinished = {} /\ main \notin {"new", "running"}
  /\ \A t \in Threads : pc[t] = "exited" => idleTerm[t]
  /\ main = "early" => Workers = {}
  /\ main = "stopped" => \A t \in Workers : pc[t] = "exited"

LEMMA NoParkStep ==
  ASSUME IndInv, PoolInv, NoPark, MaxYields = 0, Next \/ UNCHANGED vars
  PROVE  NoPark'
<1> USE DEF vars, counters, fibers, slot, idler, rest, flags, owner, jobs, threads
<1> DEFINE NoReady == \A f \in Fibers : m_state[f] # "READY"
<1>1. ~(fuel > 0) BY DEF IndInv, Shape
<1>2. m_state \in [Fibers -> FiberStates] BY DEF IndInv, Shape
<1>3. NoWait' BY NoWaitStep DEF NoPark
<1>4. NoReady BY DEF NoPark
<1>5. ASSUME NEW j, NEW pin, Schedule(j, pin) PROVE NoReady' BY <1>2, <1>4, <1>5 DEF Schedule
<1>6. ASSUME NEW t \in Threads, ThreadStep(t) PROVE NoReady'
  <2>1. CASE Take(t) \/ GoIdle(t) \/ Exit(t) \/ SwapOut(t) \/ Post(t) \/ ScheduleExpired(t) \/ DropPending(t)
             \/ LeaveIdle(t)
    BY <1>4, <2>1 DEF Take, TakeLeaving, GoIdle, Exit, SwapOut, Post, PostBy, ScheduleExpired, DropPending,
       DropPendingBy, LeaveIdle
  <2>2. CASE SwapIn(t) BY <1>2, <1>4, <2>2 DEF SwapIn, Fail
  <2>3. CASE SwapInCb(t) BY <1>2, <1>4, <2>3 DEF SwapInCb, Fail
  <2>4. CASE Body(t)
    <3>1. ASSUME NEW s \in Finished, Finish(t, s) PROVE NoReady' BY <1>2, <1>4, <3>1 DEF Finish, Finished
    <3>2. CASE Relay(t) BY <1>2, <1>4, <3>2 DEF Relay
    <3>3. CASE YieldToReady(t) BY <1>1, <3>3 DEF YieldToReady
    <3>4. ASSUME NEW w \in Waits, Register(t, w) PROVE NoReady' BY <1>1, <3>4 DEF Register
    <3>5. CASE YieldToHold(t) BY <1>2, <1>4, <3>5 DEF YieldToHold
    <3> QED BY <1>5, <2>4, <3>1, <3>2, <3>3, <3>4, <3>5 DEF Body, Spawn
  <2>5. CASE Settle(t) BY <1>2, <1>4, <2>5 DEF Settle
  <2>6. CASE Hold(t) BY <1>2, <1>4, <2>6 DEF Hold, HoldLeaving
  <2>7. CASE ReadTimers(t) \/ ReadPending(t) \/ ReadQueue(t)
    BY <1>4, <2>7 DEF ReadTimers, ReadPending, ReadQueue, Pass, Answer
  <2> QED BY <1>6, <2>1, <2>2, <2>3, <2>4, <2>5, <2>6, <2>7 DEF ThreadStep
<1>7. ASSUME NEW f \in Fibers, Wake(f) \/ ScheduleAgain(f) PROVE NoReady'
  BY <1>4, <1>7 DEF Wake, Trigger, Expire, ScheduleAgain
<1>8. ASSUME MainStep \/ Ended \/ UNCHANGED vars PROVE NoReady'
  BY <1>4, <1>8 DEF MainStep, Start, StopBegin, StopSignal, CallRoot, Fail, StopJoin, StopWhen, Ended
<1>9. NoReady' BY <1>5, <1>6, <1>7, <1>8 DEF Next, Submit
<1> QED BY <1>3, <1>9 DEF NoPark

\* An empty queue and no active thread: all jobs are done.
LEMMA AllDone ==
  ASSUME IndInv, PoolInv, NoPark, CanStop
  PROVE  Unfinished = {}
<1>1. m_fibers = <<>> /\ \A t \in Threads : pc[t] \notin Active BY NobodyActive
<1>2. ASSUME NEW t \in Threads, pc[t] \in InHand, m_cb[Cur(t)] \in Jobs PROVE FALSE
  <2>1. PICK f : f = Cur(t) OBVIOUS
  <2>2. f \in Fibers /\ HeldOK(f, pc[t]) BY <1>2, <2>1, InHandFact
  <2>3. pc[t] \in {"settle", "hold"} BY <1>1, <1>2 DEF InHand, Active, OnStack
  <2>4. m_cb[f] # Over BY <1>2, <2>1
  <2> QED BY <2>2, <2>3, <2>4 DEF HeldOK, NoPark, NoWait
<1>3. NoWait BY DEF NoPark
<1>4. \A t \in Threads : pc[t] # "got" BY <1>1 DEF Active
<1> QED BY <1>1, <1>2, <1>3, <1>4, JobHasThread

\* With every job done nothing is queued and no job is running.
LEMMA NothingLeft ==
  ASSUME IndInv, PoolInv, Unfinished = {}
  PROVE  /\ m_fibers = <<>>
         /\ \A t \in Threads : pc[t] = "exec" => m_cb[Cur(t)] \notin Jobs
<1>1. ASSUME NEW j \in Jobs, Placed(j) PROVE FALSE BY <1>1 DEF PoolInv, JobOK
<1>2. ASSUME NEW f \in Fibers, m_cb[f] \in Jobs PROVE FALSE
  <2>1. At(m_cb[f], "relay", f) BY DEF At, CbOf
  <2> QED BY <1>1, <1>2, <2>1 DEF Placed, Kinds, Whom
<1>3. ASSUME NEW t \in Threads, pc[t] = "exec" PROVE m_cb[Cur(t)] \notin Jobs
  BY <1>2, <1>3 DEF IndInv, HandInv, InHand, OnStack
<1>4. ASSUME NEW i \in DOMAIN m_fibers PROVE FALSE
  <2>1. m_fibers[i] \in Entries /\ Proper(m_fibers[i]) BY DEF IndInv, Shape, PoolInv, QueueOK
  <2>2. CASE m_fibers[i].fiber # None
    <3>1. PICK f \in Fibers : f = m_fibers[i].fiber BY <2>1, <2>2 DEF Entries
    <3>2. At(f, "run", None) BY <3>1 DEF At, InQueue
    <3>3. TokenOK(f, "run", None) BY <3>2 DEF PoolInv, FiberOK, Kinds, Whom
    <3> QED BY <1>2, <3>3 DEF TokenOK
  <2>3. CASE m_fibers[i].fiber = None
    <3>1. PICK x \in Jobs \cup Fibers : x = m_fibers[i].cb BY <2>1, <2>3 DEF Entries, Proper
    <3>2. At(x, "cb", None) BY <3>1 DEF At, InCbs
    <3>3. CASE x \in Jobs BY <1>1, <3>2, <3>3 DEF Placed, Kinds, Whom
    <3>4. CASE x \in Fibers
      <4>1. TokenOK(x, "cb", None) BY <3>2, <3>4 DEF PoolInv, FiberOK, Kinds, Whom
      <4> QED BY <1>2, <3>4, <4>1 DEF TokenOK
    <3> QED BY <3>3, <3>4
  <2> QED BY <2>2, <2>3
<1>5. m_fibers \in Seq(Entries) BY DEF IndInv, Shape
<1>6. m_fibers = <<>>
  <2>1. Len(m_fibers) \in Nat /\ DOMAIN m_fibers = 1..Len(m_fibers) BY <1>5
  <2>2. Len(m_fibers) = 0
    <3>1. Len(m_fibers) > 0 => 1 \in DOMAIN m_fibers BY <2>1
    <3> QED BY <1>4, <2>1, <3>1
  <2> QED BY <1>5, <2>2, EmptySeq
<1> QED BY <1>3, <1>6

\* What is done stays done.
LEMMA StillDone ==
  ASSUME IndInv, PoolInv, ~LateSubmit, Unfinished = {}, main \notin {"new", "running"},
         Next \/ UNCHANGED vars
  PROVE  Unfinished' = {}
<1> USE DEF vars, counters, fibers, slot, idler, rest, flags, owner, jobs, threads
<1>1. ASSUME NEW j, NEW pin, Submit(j, pin) PROVE FALSE BY <1>1 DEF Submit
<1>2. ASSUME NEW t \in Threads, NEW j, NEW pin, Spawn(t, j, pin) PROVE FALSE
  BY <1>2, NothingLeft DEF Spawn
<1>3. submitted' = submitted /\ done \subseteq done'
  <2>1. ASSUME NEW t \in Threads, ThreadStep(t) PROVE submitted' = submitted /\ done \subseteq done'
    <3>1. CASE Take(t) \/ GoIdle(t) \/ Exit(t) \/ SwapOut(t) \/ Post(t) \/ ScheduleExpired(t)
               \/ DropPending(t) \/ LeaveIdle(t) \/ SwapIn(t) \/ SwapInCb(t) \/ Settle(t) \/ Hold(t)
      BY <3>1 DEF Take, TakeLeaving, GoIdle, Exit, SwapOut, Post, PostBy, ScheduleExpired, DropPending,
         DropPendingBy, LeaveIdle, SwapIn, SwapInCb, Fail, Settle, Hold, HoldLeaving
    <3>2. CASE Body(t)
      BY <1>2, <3>2 DEF Body, Finish, Relay, YieldToReady, Register, Fail, YieldToHold
    <3>3. CASE ReadTimers(t) \/ ReadPending(t) \/ ReadQueue(t)
      BY <3>3 DEF ReadTimers, ReadPending, ReadQueue, Pass, Answer
    <3> QED BY <2>1, <3>1, <3>2, <3>3 DEF ThreadStep
  <2>2. CASE \E f \in Fibers : ScheduleAgain(f) \/ Wake(f)
    BY <2>2 DEF ScheduleAgain, Wake, Trigger, Expire
  <2>3. CASE MainStep
    BY <2>3 DEF MainStep, Start, StopBegin, StopSignal, CallRoot, Fail, StopJoin, StopWhen
  <2>4. CASE Ended \/ UNCHANGED vars BY <2>4 DEF Ended
  <2> QED BY <1>1, <2>1, <2>2, <2>3, <2>4 DEF Next
<1> QED BY <1>3 DEF Unfinished

LEMMA StopStep ==
  ASSUME IndInv, PoolInv, NoPark, CallerInv, EndInv, ~LateSubmit, Next \/ UNCHANGED vars
  PROVE  EndInv'
<1> USE DEF counters, fibers, slot, idler, rest, flags, owner, jobs, threads
<1>1. /\ Caller \in Threads /\ Workers \subseteq Threads /\ Caller \notin Workers /\ pc \in [Threads -> PCs]
      /\ idleTerm \in [Threads -> BOOLEAN]
  BY DEF Threads, IndInv, Shape
<1>2. Final => Unfinished' = {} BY StillDone DEF EndInv
<1>3. ASSUME NEW t \in Threads, Works(t) PROVE EndInv'
  <2>1. UNCHANGED <<idleTerm, main, m_autoStop>> BY <1>3 DEF Works
  <2>2. \A u \in Threads : pc'[u] = "exited" <=> pc[u] = "exited" BY <1>1, <1>3 DEF Works, Goto
  <2>3. Final' <=> Final BY <2>1 DEF Final
  <2> QED BY <1>1, <1>2, <2>1, <2>2, <2>3 DEF EndInv
<1>4. ASSUME NEW t \in Threads, Exit(t) PROVE EndInv'
  <2>1. /\ idleTerm[t] /\ pc' = [pc EXCEPT ![t] = "exited"] /\ UNCHANGED <<idleTerm, m_autoStop>>
        /\ main' = IF t = Caller THEN "join" ELSE main
    BY <1>4 DEF Exit, Goto
  <2>2. Final BY <2>1 DEF Final
  <2>3. main' \notin {"new", "running"} /\ Unfinished' = {} BY <1>2, <2>1, <2>2 DEF EndInv
  <2>4. \A u \in Threads : pc'[u] = "exited" => idleTerm'[u] BY <1>1, <2>1 DEF EndInv
  <2>5. main' = "stopped" => \A u \in Workers : pc'[u] = "exited" BY <1>1, <2>1 DEF EndInv
  <2>6. main' = "early" => Workers = {} BY <2>1 DEF EndInv
  <2> QED BY <2>3, <2>4, <2>5, <2>6 DEF EndInv
<1>5. ASSUME NEW t \in Threads, Answers(t) PROVE EndInv'
  <2>1. PICK b \in BOOLEAN : Asking(t) /\ Answer(t, b) /\ (b => CanStop) BY <1>5 DEF Answers
  <2>2. UNCHANGED <<m_autoStop, submitted, done>> BY <2>1 DEF Answer
  <2>3. b => Unfinished' = {} /\ main \notin {"new", "running"}
    BY <2>1, <2>2, AllDone DEF Unfinished, CanStop, EndInv
  <2>4. CASE pc[t] = "idle"
    <3>1. /\ main' = main /\ idleTerm' = [idleTerm EXCEPT ![t] = b]
          /\ pc' = [pc EXCEPT ![t] = IF ~b /\ IOM THEN "poll" ELSE "scan"]
      BY <2>1, <2>4 DEF Answer
    <3>2. \A u \in Threads : (pc'[u] = "exited" <=> pc[u] = "exited") /\ (pc[u] = "exited" => idleTerm'[u])
      BY <1>1, <2>4, <3>1 DEF EndInv
    <3>3. Final' => Final \/ b BY <1>1, <3>1 DEF Final
    <3> QED BY <1>1, <1>2, <2>2, <2>3, <3>1, <3>2, <3>3 DEF EndInv
  <2>5. CASE pc[t] # "idle"
    <3>1. /\ main \in {"early", "peek"} /\ UNCHANGED <<pc, idleTerm>>
          /\ main = "early" => main' = IF b THEN "stopped" ELSE "signal"
          /\ main = "peek" => main' = IF b THEN "join" ELSE "root"
      BY <2>1, <2>5 DEF Answer, Asking
    <3>2. Final' => Final \/ b BY <3>1 DEF Final
    <3>3. main' \notin {"new", "running", "early"} BY <3>1
    <3>4. main' = "stopped" => Workers = {} BY <3>1 DEF EndInv
    <3> QED BY <1>2, <2>3, <3>1, <3>2, <3>3, <3>4 DEF EndInv
  <2> QED BY <2>4, <2>5
<1>6. CASE MainStep
  <2>1. CASE Start
    <3>1. main = "new" /\ main' = "running" /\ UNCHANGED <<idleTerm, m_autoStop>> BY <2>1 DEF Start
    <3>2. ~Final' BY <3>1 DEF EndInv, Final
    <3>3. \A u \in Threads : pc'[u] # "exited" BY <1>1, <2>1, <3>1 DEF Start, IndInv, OffInv
    <3> QED BY <3>1, <3>2, <3>3 DEF EndInv
  <2>2. CASE StopBegin
    <3>1. main' \in {"early", "signal"} /\ UNCHANGED <<pc, idleTerm>> /\ (main' = "early" => Workers = {})
      BY <2>2 DEF StopBegin
    <3>2. Final' => Final BY <3>1 DEF Final
    <3> QED BY <1>2, <3>1, <3>2 DEF EndInv
  <2>3. CASE StopSignal
    <3>1. UNCHANGED <<pc, idleTerm>> /\ main' = IF UseCaller THEN "peek" ELSE "join" BY <2>3 DEF StopSignal
    <3>2. Final' => Final BY <3>1 DEF Final
    <3> QED BY <1>2, <3>1, <3>2 DEF EndInv
  <2>4. CASE CallRoot
    <3>1. /\ main = "root" /\ UNCHANGED <<main, idleTerm, m_autoStop>>
          /\ pc' = pc \/ (m_rootFiber = "INIT" /\ pc' = [pc EXCEPT ![Caller] = "scan"])
      BY <2>4 DEF CallRoot, Fail, Goto
    <3>2. Final' => Final BY <3>1 DEF Final
    <3>3. \A u \in Threads : pc'[u] = "exited" => pc[u] = "exited" BY <1>1, <3>1
    <3> QED BY <1>2, <3>1, <3>2, <3>3 DEF EndInv
  <2>5. CASE StopJoin
    <3>1. /\ main = "join" /\ main' = "stopped" /\ UNCHANGED <<pc, idleTerm, m_autoStop>>
          /\ \A u \in Workers : pc[u] = "exited"
      BY <2>5 DEF StopJoin, StopWhen
    <3>2. Final
      <4>1. CASE UseCaller BY <3>1, <4>1 DEF Final
      <4>2. CASE ~UseCaller
        <5>1. PICK u \in Workers : TRUE BY <4>2, SomeThread
        <5> QED BY <1>1, <3>1, <5>1 DEF EndInv, Final
      <4> QED BY <4>1, <4>2
    <3> QED BY <1>2, <3>1, <3>2 DEF EndInv
  <2> QED BY <1>6, <2>1, <2>2, <2>3, <2>4, <2>5 DEF MainStep
<1> QED BY <1>3, <1>4, <1>5, <1>6, Footprint

\* No thread leaves run() while a job is unfinished that might be pinned to
\* it: a thread that left leaves no entry behind that only it may take, for any
\* number of threads, jobs and pins, when jobs do not yield or wait and none is
\* handed in from outside during stop(). Without the first condition it is
\* false: while a yielding job is neither queued nor counted, another thread may
\* leave, and the job may then schedule one that is pinned to that thread.
THEOREM OrphanTheorem == ASSUME Straight PROVE Spec => []NoOrphan
<1> DEFINE I == IndInv /\ PoolInv /\ doubled = {} /\ NoPark /\ CallerInv /\ EndInv
<1>1. Init => I
  <2> SUFFICES ASSUME Init PROVE I OBVIOUS
  <2>1. IndInv /\ PoolInv /\ CallerInv BY InitInv, PoolInit, CallerInit
  <2>2. NoPark /\ doubled = {} BY DEF Init, NoPark, NoWait
  <2>3. EndInv BY DEF Init, EndInv, Final, Threads
  <2> QED BY <2>1, <2>2, <2>3
<1>2. I /\ [Next]_vars => I'
  <2> SUFFICES ASSUME I, [Next]_vars PROVE I' OBVIOUS
  <2>1. ~DoubleSchedule /\ MaxYields = 0 /\ ~LateSubmit BY DEF Straight
  <2>2. NoWait BY DEF NoPark
  <2>3. IndInv' BY NextInv
  <2>4. doubled' = {}
    <3>1. FreeQueue BY <2>2, QueuedFree DEF FreeQueue
    <3> QED BY <2>1, <3>1, NoDouble
  <2>5. PoolInv' BY <2>4, NextPool
  <2>6. NoPark' BY <2>1, NoParkStep
  <2>7. CallerInv' BY CallerStep
  <2>8. EndInv' BY <2>1, StopStep
  <2> QED BY <2>3, <2>4, <2>5, <2>6, <2>7, <2>8
<1>3. I => NoOrphan
  <2> SUFFICES ASSUME I, NEW i \in DOMAIN m_fibers, m_fibers[i].thread # None,
                      pc[m_fibers[i].thread] = "exited"
               PROVE FALSE
      BY DEF NoOrphan
  <2>1. m_fibers[i].thread \in Threads
    <3>1. m_fibers \in Seq(Entries) BY DEF IndInv, Shape
    <3>2. m_fibers[i] \in Entries BY <3>1
    <3> QED BY <3>2 DEF Entries
  <2>2. Unfinished = {} BY <2>1 DEF EndInv, Final
  <2>3. m_fibers = <<>> BY <2>2, NothingLeft
  <2> QED BY <2>3
<1> QED BY <1>1, <1>2, <1>3, PTL DEF Spec
----------------------------------------------------------------------------
(* stop() with a single thread in run().                                    *)

\* One thread, the caller's or a worker; its jobs may do what they like, but
\* only an IOManager has timers and events to wait for.
Alone ==
  /\ IF UseCaller THEN Workers = {} ELSE \E w : Workers = {w}
  /\ IOM \/ Waits = {}
  /\ ~LateSubmit /\ ~DoubleSchedule

LEMMA OneRunner ==
  ASSUME Alone, CallerInv, NEW t \in Threads, NEW u \in Threads, InRun(t), InRun(u)
  PROVE  t = u
BY DEF Alone, CallerInv, InRun, Threads

\* While stop() asks stopping() nobody is in run().
LEMMA OwnerAsks ==
  ASSUME IndInv, Alone, CallerInv, main = "early" => Workers = {}, main \in {"early", "peek"},
         main = "peek" => UseCaller, NEW t \in Threads
  PROVE  t = Caller /\ ~InRun(t)
BY SomeThread DEF Alone, CallerInv, InRun, Threads

\* What an asker has read is still so.
LookInv ==
  /\ \A t \in Threads : look[t] > 0 => Asking(t) /\ NoTimers
  /\ \A t \in Threads : look[t] > 1 => m_pendingEventCount = 0
  /\ main = "early" => Workers = {}
  /\ main = "peek" => UseCaller

\* Nothing is left to do.
Rest ==
  /\ m_fibers = <<>> /\ Unfinished = {}
  /\ \A f \in Fibers : waiting[f] = "no"
  /\ \A t \in Threads : pc[t] \in {"off", "scan", "exited"}

AloneInv ==
  /\ main \in {"new", "running"} => ~m_autoStop
  /\ Final => Rest /\ main \notin {"new", "running"} /\ \A t \in Threads : pc[t] = "scan" => idleTerm[t]
  /\ \A t \in Threads : pc[t] = "exited" => idleTerm[t]
  /\ main = "stopped" => \A t \in Workers : pc[t] = "exited"
  /\ m_rootFiber = "INIT" => ~idleTerm[Caller]

\* The steps of a thread that is in run(), other than those of stopping().
LEMMA RunSteps ==
  ASSUME NEW t \in Threads, ThreadStep(t)
  PROVE  \/ InRun(t) /\ pc[t] # "idle"
         \/ Asking(t) /\ (ReadTimers(t) \/ ReadPending(t) \/ ReadQueue(t))
<1>1. CASE Take(t) \/ GoIdle(t) \/ Exit(t) \/ SwapIn(t) \/ SwapInCb(t) \/ SwapOut(t) \/ Post(t) \/ Settle(t)
           \/ Hold(t) \/ ScheduleExpired(t) \/ DropPending(t) \/ LeaveIdle(t)
  BY <1>1 DEF Take, TakeLeaving, GoIdle, Exit, SwapIn, SwapInCb, SwapOut, Post, PostBy, Settle, Hold,
     HoldLeaving, ScheduleExpired, DropPending, DropPendingBy, LeaveIdle, InRun
<1>2. CASE Body(t)
  BY <1>2 DEF Body, Finish, Relay, YieldToReady, Register, YieldToHold, Spawn, InRun
<1>3. CASE ReadTimers(t) \/ ReadPending(t) \/ ReadQueue(t)
  BY <1>3 DEF ReadTimers, ReadPending, ReadQueue
<1> QED BY <1>1, <1>2, <1>3 DEF ThreadStep

\* While a thread is inside stopping() nobody else does anything.
LEMMA AskerAlone ==
  ASSUME IndInv, Alone, CallerInv, LookInv, NEW t \in Threads, Asking(t), NEW u \in Threads, ThreadStep(u)
  PROVE  u = t /\ (ReadTimers(t) \/ ReadPending(t) \/ ReadQueue(t))
<1>1. CASE main \in {"early", "peek"}
  <2>1. \A x \in Threads : x = Caller /\ ~InRun(x) BY <1>1, OwnerAsks DEF LookInv
  <2> QED BY <2>1, RunSteps
<1>2. CASE main \notin {"early", "peek"}
  <2>1. pc[t] = "idle" /\ InRun(t) BY <1>2 DEF Asking, InRun
  <2>2. Asking(u) => InRun(u) BY <1>2 DEF Asking, InRun
  <2>3. u = t BY <2>1, <2>2, RunSteps, OneRunner
  <2> QED BY <2>1, <2>3, RunSteps
<1> QED BY <1>1, <1>2

LEMMA LookStep ==
  ASSUME IndInv, Alone, CallerInv, LookInv, Next \/ UNCHANGED vars
  PROVE  LookInv'
<1> USE DEF vars, counters, fibers, slot, idler, rest, flags, owner, jobs, threads
<1>1. /\ look \in [Threads -> 0..2] /\ pc \in [Threads -> PCs] /\ Caller \in Threads
  BY DEF IndInv, Shape, Threads
<1>2. ASSUME UNCHANGED <<look, pc, main, waiting, m_pendingEventCount>> PROVE LookInv'
  BY <1>2 DEF LookInv, Asking, NoTimers
<1>3. (main' = "early" => Workers = {}) /\ (main' = "peek" => UseCaller)
  <2>1. CASE MainStep
    BY <2>1 DEF MainStep, Start, StopBegin, StopSignal, CallRoot, Fail, StopJoin, StopWhen, LookInv
  <2>2. ASSUME NEW t \in Threads, Works(t) \/ Exit(t) PROVE main' = main \/ main' = "join"
    BY <2>2 DEF Works, Exit
  <2>3. ASSUME NEW t \in Threads, Answers(t) PROVE main' = main \/ main' \notin {"early", "peek"}
    BY <2>3 DEF Answers, Answer, Asking
  <2> QED BY <2>1, <2>2, <2>3, Footprint DEF LookInv
<1>4. ASSUME NEW u \in Threads, ThreadStep(u) PROVE LookInv'
  <2>1. CASE \E t \in Threads : look[t] > 0
    <3>1. PICK t \in Threads : look[t] > 0 BY <2>1
    <3>2. Asking(t) /\ NoTimers BY <3>1 DEF LookInv
    <3>3. ReadTimers(t) \/ ReadPending(t) \/ ReadQueue(t) BY <1>4, <3>2, AskerAlone
    <3>4. \A x \in Threads : look[x] > 0 => x = t
      <4>1. ASSUME NEW x \in Threads, look[x] > 0 PROVE x = t
        <5>1. Asking(x) BY <4>1 DEF LookInv
        <5>2. u = x BY <1>4, <5>1, AskerAlone
        <5>3. u = t BY <1>4, <3>2, AskerAlone
        <5> QED BY <5>2, <5>3
      <4> QED BY <4>1
    <3>5. waiting' = waiting /\ m_pendingEventCount' = m_pendingEventCount
      BY <3>3 DEF ReadTimers, ReadPending, ReadQueue, Pass, Answer
    <3>6. CASE Pass(t)
      <4>1. look' = [look EXCEPT ![t] = @ + 1] /\ pc' = pc /\ main' = main BY <3>6 DEF Pass
      <4>2. look'[t] > 1 => m_pendingEventCount = 0
        BY <1>1, <3>1, <3>3, <4>1 DEF ReadTimers, ReadPending, ReadQueue, Answer
      <4>3. \A x \in Threads : look'[x] > 0 => x = t BY <1>1, <3>4, <4>1
      <4>4. NoTimers' /\ Asking(t)' BY <3>2, <3>5, <4>1 DEF NoTimers, Asking
      <4>5. \A x \in Threads : look'[x] > 1 => x = t BY <1>1, <3>4, <4>1
      <4> QED BY <1>3, <3>5, <4>2, <4>3, <4>4, <4>5 DEF LookInv
    <3>7. CASE \E b : Answer(t, b)
      <4>1. look' = [look EXCEPT ![t] = 0] BY <3>7 DEF Answer
      <4>2. \A x \in Threads : look'[x] = 0 BY <1>1, <3>4, <4>1
      <4> QED BY <1>3, <4>2 DEF LookInv
    <3> QED BY <3>3, <3>6, <3>7 DEF ReadTimers, ReadPending, ReadQueue
  <2>2. CASE \A t \in Threads : look[t] = 0
    <3>1. CASE ReadTimers(u) /\ NoTimers
      <4>1. look' = [look EXCEPT ![u] = 1] /\ UNCHANGED <<pc, main, waiting>> /\ Asking(u)
        BY <1>1, <2>2, <3>1 DEF ReadTimers, Pass
      <4>2. \A x \in Threads : look'[x] = IF x = u THEN 1 ELSE 0 BY <1>1, <2>2, <4>1
      <4>3. NoTimers' /\ Asking(u)' BY <3>1, <4>1 DEF NoTimers, Asking
      <4> QED BY <1>3, <4>2, <4>3 DEF LookInv
    <3>2. CASE ~(ReadTimers(u) /\ NoTimers)
      <4>1. \A x \in Threads : look'[x] = 0
        <5>1. CASE ReadTimers(u) \/ ReadPending(u) \/ ReadQueue(u)
          <6>1. Answer(u, FALSE) \/ Answer(u, CanStop)
            <7>1. look[u] = 0 BY <2>2
            <7>2. CASE ReadTimers(u) BY <3>2, <7>2 DEF ReadTimers
            <7>3. CASE ReadPending(u) BY <7>1, <7>3 DEF ReadPending
            <7>4. CASE ReadQueue(u) BY <7>4 DEF ReadQueue
            <7> QED BY <5>1, <7>2, <7>3, <7>4
          <6> QED BY <1>1, <2>2, <6>1 DEF Answer
        <5>2. CASE Take(u) \/ GoIdle(u) \/ Exit(u) \/ SwapIn(u) \/ SwapInCb(u) \/ SwapOut(u) \/ Post(u)
                   \/ Settle(u) \/ Hold(u) \/ ScheduleExpired(u) \/ DropPending(u) \/ LeaveIdle(u)
          BY <2>2, <5>2 DEF Take, TakeLeaving, GoIdle, Exit, SwapIn, SwapInCb, Fail, SwapOut, Post, PostBy,
             Settle, Hold, HoldLeaving, ScheduleExpired, DropPending, DropPendingBy, LeaveIdle
        <5>3. CASE Body(u)
          BY <2>2, <5>3 DEF Body, Finish, Relay, YieldToReady, Register, YieldToHold, Spawn, Schedule, Fail
        <5> QED BY <1>4, <5>1, <5>2, <5>3 DEF ThreadStep
      <4> QED BY <1>3, <4>1 DEF LookInv
    <3> QED BY <3>1, <3>2
  <2> QED BY <1>1, <2>1, <2>2
<1>5. ASSUME NEW f \in Fibers, Wake(f) PROVE LookInv'
  <2>1. PICK u \in Threads : pc[u] \in {"poll", "events"} BY <1>5 DEF Wake, Trigger, Expire
  <2>2. InRun(u) BY <2>1 DEF InRun
  <2>3. ASSUME NEW t \in Threads, Asking(t) PROVE FALSE
    <3>1. CASE main \in {"early", "peek"} BY <2>2, <3>1, OwnerAsks DEF LookInv
    <3>2. CASE main \notin {"early", "peek"}
      <4>1. pc[t] = "idle" /\ InRun(t) BY <2>3, <3>2 DEF Asking, InRun
      <4> QED BY <2>1, <2>2, <4>1, OneRunner
    <3> QED BY <3>1, <3>2
  <2>4. \A t \in Threads : look[t] = 0 BY <1>1, <2>3 DEF LookInv
  <2>5. look' = look BY <1>5 DEF Wake, Trigger, Expire
  <2> QED BY <1>3, <2>4, <2>5 DEF LookInv
<1>6. CASE MainStep
  <2>1. look' = look /\ waiting' = waiting /\ m_pendingEventCount' = m_pendingEventCount
    BY <1>6 DEF MainStep, Start, StopBegin, StopSignal, CallRoot, Fail, StopJoin, StopWhen
  <2>2. ASSUME NEW t \in Threads, Asking(t) PROVE Asking(t)'
    <3>1. CASE Start
      <4>1. main = "new" BY <3>1 DEF Start
      <4> QED BY <2>2, <4>1 DEF Asking, IndInv, OffInv
    <3>2. CASE StopBegin \/ StopSignal \/ StopJoin
      BY <2>2, <3>2 DEF StopBegin, StopSignal, StopJoin, StopWhen, Asking
    <3>3. CASE CallRoot
      <4>1. main = "root" /\ main' = main /\ m_rootFiber \in {"INIT", "TERM"} BY <3>3 DEF CallRoot, Fail
      <4>2. pc[t] = "idle" BY <2>2, <4>1 DEF Asking
      <4>3. t # Caller BY <4>1, <4>2 DEF CallerInv
      <4>4. pc'[t] = pc[t] BY <1>1, <3>3, <4>3 DEF CallRoot, Fail, Goto
      <4> QED BY <4>2, <4>4 DEF Asking
    <3> QED BY <1>6, <3>1, <3>2, <3>3 DEF MainStep
  <2> QED BY <1>3, <2>1, <2>2 DEF LookInv, NoTimers
<1>7. CASE (\E j \in Jobs, pin \in Pins : Submit(j, pin)) \/ (\E f \in Fibers : ScheduleAgain(f))
           \/ Ended \/ UNCHANGED vars
  BY <1>2, <1>7 DEF Submit, Schedule, ScheduleAgain, Ended
<1> QED BY <1>4, <1>5, <1>6, <1>7 DEF Next

\* Nothing queued, popped, in hand, expired or waiting: all jobs are done.
LEMMA NothingToDo ==
  ASSUME IndInv, PoolInv, m_fibers = <<>>, \A f \in Fibers : waiting[f] = "no",
         \A t \in Threads : pc[t] \notin InHand \cup {"got", "fire"}
  PROVE  Unfinished = {}
<1>1. \A x : ~InQueue(x) /\ ~InCbs(x) BY DEF InQueue, InCbs
<1>2. \A x : \A t \in Threads : ~GotBy(x, t) /\ ~GotCbBy(x, t) /\ ~HeldBy(x, t) BY DEF GotBy, GotCbBy, HeldBy
<1>3. \A x : \A t \in Threads : ~FiredBy(x, t) BY DEF FiredBy, PoolInv, ThreadOK
<1>4. \A x : ~Parked(x) /\ ~Held(x) BY <1>2 DEF Parked, Held
<1>5. ASSUME NEW f \in Fibers, NEW k \in Kinds, NEW a \in Whom, At(f, k, a)
      PROVE  (k = "spare" /\ m_cb[f] = None) \/ (k = "relay" /\ a \in Fibers /\ m_cb[a] = f /\ m_cb[f] \in Jobs)
  <2>1. TokenOK(f, k, a) BY <1>5 DEF PoolInv, FiberOK
  <2> QED BY <1>1, <1>2, <1>3, <1>4, <1>5, <2>1 DEF At, TokenOK, CbOf
<1>6. ASSUME NEW g \in Fibers, m_cb[g] \in Fibers PROVE FALSE
  <2>1. Placed(g) BY <1>4, <1>6 DEF PoolInv, FiberOK, Live
  <2>2. m_cb[g] \notin Jobs /\ m_cb[g] # None BY <1>6
  <2> QED BY <1>5, <2>1, <2>2 DEF Placed
<1>7. ASSUME NEW f \in Fibers, m_cb[f] \in Jobs PROVE FALSE
  <2>1. Placed(f) BY <1>4, <1>7 DEF PoolInv, FiberOK, Live
  <2>2. m_cb[f] # None BY <1>7
  <2> QED BY <1>5, <1>6, <2>1, <2>2 DEF Placed
<1>8. ASSUME NEW j \in Unfinished PROVE FALSE
  <2>1. j \in Jobs BY <1>8 DEF Unfinished, IndInv, Shape
  <2>2. PICK k \in Kinds, a \in Whom : At(j, k, a) BY <1>8, <2>1 DEF PoolInv, JobOK, Placed
  <2>3. j \notin Fibers /\ j # None BY <2>1
  <2>4. \A t \in Threads : ~SpareOf(j, t) BY <2>3 DEF SpareOf, IndInv, Shape
  <2>5. a \in Fibers /\ m_cb[a] = j BY <1>1, <1>2, <1>3, <1>4, <2>2, <2>4 DEF At, CbOf
  <2> QED BY <1>7, <2>1, <2>5
<1> QED BY <1>8

\* An answer TRUE is right when only one thread is in run().
LEMMA RightAnswer ==
  ASSUME IndInv, PoolInv, Alone, CallerInv, LookInv, Waits = {} => NoWait, NEW t \in Threads,
         Asking(t), look[t] = (IF IOM THEN 2 ELSE 0), CanStop
  PROVE  /\ m_fibers = <<>> /\ Unfinished = {}
         /\ \A f \in Fibers : waiting[f] = "no"
         /\ \A u \in Threads : u # t => pc[u] \in {"off", "exited"}
         /\ pc[t] \in {"idle", "off", "exited"}
<1>1. \A u \in Threads : u # t => pc[u] \in {"off", "exited"}
  <2>1. CASE main \in {"early", "peek"} BY <2>1, OwnerAsks DEF LookInv, InRun
  <2>2. CASE main \notin {"early", "peek"}
    <3>1. InRun(t) BY <2>2 DEF Asking, InRun
    <3> QED BY <3>1, OneRunner DEF InRun
  <2> QED BY <2>1, <2>2
<1>2. pc[t] \in {"idle", "off", "exited"}
  <2>1. CASE main \in {"early", "peek"} BY <2>1, OwnerAsks DEF LookInv, InRun
  <2> QED BY <2>1 DEF Asking
<1>3. ASSUME NEW f \in Fibers PROVE waiting[f] = "no"
  <2>1. CASE ~IOM BY <2>1 DEF Alone, NoWait
  <2>2. CASE IOM
    <3>1. NoTimers /\ m_pendingEventCount = 0 BY <2>2 DEF LookInv
    <3>2. Num(Fibers, waiting, {"event"}) + Num(Threads, pc, {"trig"}) = 0 BY <3>1 DEF IndInv, CountersExact
    <3>3. IsFiniteSet({x \in Fibers : waiting[x] \in {"event"}}) /\ IsFiniteSet({x \in Threads : pc[x] \in {"trig"}})
      BY ThreadsFinite, FS_Subset
    <3>4. Num(Fibers, waiting, {"event"}) \in Nat /\ Num(Threads, pc, {"trig"}) \in Nat
      BY <3>3, FS_CardinalityType DEF Num
    <3>5. Cardinality({x \in Fibers : waiting[x] \in {"event"}}) = 0 BY <3>2, <3>4 DEF Num
    <3>6. {x \in Fibers : waiting[x] \in {"event"}} = {} BY <3>3, <3>5, FS_EmptySet
    <3>7. waiting[f] \in {"no", "timer", "event"} BY DEF IndInv, Shape
    <3> QED BY <3>1, <3>6, <3>7 DEF NoTimers
  <2> QED BY <2>1, <2>2
<1>4. m_fibers = <<>> BY DEF CanStop
<1>5. \A u \in Threads : pc[u] \notin InHand \cup {"got", "fire"} BY <1>1, <1>2 DEF InHand, OnStack
<1>6. Unfinished = {} BY <1>3, <1>4, <1>5, NothingToDo
<1> QED BY <1>1, <1>2, <1>3, <1>4, <1>6

LEMMA AloneStep ==
  ASSUME IndInv, PoolInv, Alone, CallerInv, LookInv, Waits = {} => NoWait, AloneInv,
         Next \/ UNCHANGED vars
  PROVE  AloneInv'
<1> USE DEF vars, counters, fibers, slot, idler, rest, flags, owner, jobs, threads
<1>1. /\ Caller \in Threads /\ Workers \subseteq Threads /\ Caller \notin Workers /\ pc \in [Threads -> PCs]
      /\ idleTerm \in [Threads -> BOOLEAN] /\ ~LateSubmit /\ ~DoubleSchedule
  BY DEF Threads, IndInv, Shape, Alone
<1>2. ASSUME NEW t \in Threads, Works(t), Final => Rest' PROVE AloneInv'
  <2>1. UNCHANGED <<idleTerm, main, m_rootFiber, m_autoStop>> BY <1>2 DEF Works
  <2>2. \A u \in Threads : pc'[u] = "exited" <=> pc[u] = "exited" BY <1>1, <1>2 DEF Works, Goto
  <2>3. Final' <=> Final BY <2>1 DEF Final
  <2>4. ASSUME Final PROVE \A u \in Threads : pc'[u] = "scan" => idleTerm[u]
    <3>1. \A u \in Threads : pc'[u] = "scan" => pc[u] \notin {"off", "exited"}
      BY <1>1, <1>2 DEF Works, Goto
    <3> QED BY <2>4, <3>1 DEF AloneInv, Rest
  <2> QED BY <1>1, <1>2, <2>1, <2>2, <2>3, <2>4 DEF AloneInv
<1>3. ASSUME NEW t \in Threads, Exit(t) PROVE AloneInv'
  <2>1. /\ idleTerm[t] /\ pc' = [pc EXCEPT ![t] = "exited"] /\ UNCHANGED <<idleTerm, m_autoStop>>
        /\ main' = (IF t = Caller THEN "join" ELSE main) /\ UNCHANGED <<m_fibers, waiting, submitted, done>>
        /\ m_rootFiber' = IF t = Caller THEN "TERM" ELSE m_rootFiber
    BY <1>3 DEF Exit, Goto
  <2>2. Final BY <2>1 DEF Final
  <2>3. Rest' BY <1>1, <2>1, <2>2 DEF Rest, AloneInv, Unfinished
  <2>4. main' \notin {"new", "running"} BY <2>1, <2>2 DEF AloneInv
  <2>5. \A u \in Threads : (pc'[u] = "exited" => idleTerm'[u]) /\ (pc'[u] = "scan" => idleTerm'[u])
    BY <1>1, <2>1, <2>2 DEF AloneInv
  <2>6. main' = "stopped" => \A u \in Workers : pc'[u] = "exited" BY <1>1, <2>1 DEF AloneInv
  <2>7. m_rootFiber' = "INIT" => ~idleTerm'[Caller] BY <2>1 DEF AloneInv
  <2> QED BY <2>3, <2>4, <2>5, <2>6, <2>7 DEF AloneInv
<1>4. ASSUME NEW t \in Threads, Asking(t), NEW b \in BOOLEAN, Answer(t, b),
             b => CanStop /\ look[t] = IF IOM THEN 2 ELSE 0
      PROVE  AloneInv'
  <2>1. UNCHANGED <<m_autoStop, m_rootFiber, m_fibers, waiting, submitted, done>> BY <1>4 DEF Answer
  <2>2. b => main \notin {"new", "running"} BY <1>4 DEF CanStop, AloneInv
  <2>3. ASSUME b
        PROVE /\ m_fibers = <<>> /\ Unfinished = {}
              /\ \A f \in Fibers : waiting[f] = "no"
              /\ \A u \in Threads : u # t => pc[u] \in {"off", "exited"}
              /\ pc[t] \in {"idle", "off", "exited"}
    BY <1>4, <2>3, RightAnswer
  <2>4. CASE pc[t] = "idle"
    <3>1. /\ main' = main /\ idleTerm' = [idleTerm EXCEPT ![t] = b]
          /\ pc' = [pc EXCEPT ![t] = IF ~b /\ IOM THEN "poll" ELSE "scan"]
      BY <1>4, <2>4 DEF Answer
    <3>2. ~Final BY <2>4 DEF AloneInv, Rest
    <3>3. Final' => b BY <1>1, <3>1, <3>2 DEF Final
    <3>4. b => Rest' BY <1>1, <2>1, <2>3, <3>1 DEF Rest, Unfinished
    <3>5. b => \A u \in Threads : pc'[u] = "scan" => idleTerm'[u] BY <1>1, <2>3, <3>1
    <3>6. \A u \in Threads : pc'[u] = "exited" => idleTerm'[u] BY <1>1, <2>4, <3>1 DEF AloneInv
    <3>7. main' = "stopped" => \A u \in Workers : pc'[u] = "exited" BY <3>1, <3>2 DEF Final
    <3>8. m_rootFiber' = "INIT" => ~idleTerm'[Caller]
      BY <1>1, <2>1, <2>4, <3>1 DEF AloneInv, CallerInv
    <3> QED BY <2>1, <2>2, <3>1, <3>3, <3>4, <3>5, <3>6, <3>7, <3>8 DEF AloneInv
  <2>5. CASE pc[t] # "idle"
    <3>1. /\ main \in {"early", "peek"} /\ UNCHANGED <<pc, idleTerm>>
          /\ main = "early" => main' = IF b THEN "stopped" ELSE "signal"
          /\ main = "peek" => main' = IF b THEN "join" ELSE "root"
      BY <1>4, <2>5 DEF Answer, Asking
    <3>2. Final' => Final \/ b BY <3>1 DEF Final
    <3>3. (Final => Rest') /\ (b => Rest')
      BY <2>1, <2>3, <2>5, <3>1 DEF AloneInv, Rest, Unfinished
    <3>4. b => \A u \in Threads : pc'[u] # "scan" BY <1>1, <2>3, <2>5, <3>1
    <3>5. main' = "stopped" => Workers = {} BY <3>1 DEF LookInv
    <3> QED BY <2>1, <3>1, <3>2, <3>3, <3>4, <3>5 DEF AloneInv
  <2> QED BY <2>4, <2>5
<1>5. ASSUME NEW t \in Threads, ThreadStep(t), Final, ~Exit(t)
      PROVE  Asking(t) /\ (ReadTimers(t) \/ ReadPending(t) \/ ReadQueue(t))
  <2>1. Rest /\ (pc[t] = "scan" => idleTerm[t]) BY <1>5 DEF AloneInv
  <2>2. pc[t] \in {"off", "scan", "exited"} BY <2>1 DEF Rest
  <2>3. CASE Take(t) BY <2>1, <2>3 DEF Take, Rest
  <2>4. CASE \/ SwapIn(t) \/ SwapInCb(t) \/ SwapOut(t) \/ Post(t) \/ Settle(t) \/ Hold(t) \/ GoIdle(t)
             \/ ScheduleExpired(t) \/ DropPending(t) \/ LeaveIdle(t)
    BY <2>1, <2>2, <2>4 DEF GoIdle, SwapIn, SwapInCb, SwapOut, Post, PostBy, Settle, Hold, HoldLeaving,
       ScheduleExpired, DropPending, DropPendingBy, LeaveIdle
  <2>5. CASE Body(t)
    BY <2>2, <2>5 DEF Body, Finish, Relay, YieldToReady, Register, YieldToHold, Spawn
  <2>6. CASE ReadTimers(t) \/ ReadPending(t) \/ ReadQueue(t) BY <2>6 DEF ReadTimers, ReadPending, ReadQueue
  <2> QED BY <1>5, <2>3, <2>4, <2>5, <2>6 DEF ThreadStep
<1>6. ASSUME NEW t \in Threads, ThreadStep(t) PROVE AloneInv'
  <2>1. CASE Exit(t) BY <1>3, <2>1
  <2>2. CASE ReadTimers(t) \/ ReadPending(t) \/ ReadQueue(t)
    <3>1. CASE Pass(t)
      <4>1. Works(t) BY <3>1 DEF Pass, Works
      <4>2. Rest => Rest' BY <3>1 DEF Pass, Rest, Unfinished
      <4> QED BY <1>2, <4>1, <4>2 DEF AloneInv
    <3>2. CASE Asking(t) /\ Answer(t, FALSE) BY <1>4, <3>2
    <3>3. CASE ReadQueue(t)
      <4>1. Asking(t) /\ Answer(t, CanStop) /\ look[t] = IF IOM THEN 2 ELSE 0 BY <3>3 DEF ReadQueue
      <4>2. PICK b \in BOOLEAN : b = CanStop
        <5>1. CanStop \in BOOLEAN BY DEF CanStop, IndInv, Shape
        <5> QED BY <5>1
      <4> QED BY <1>4, <4>1, <4>2
    <3> QED BY <2>2, <3>1, <3>2, <3>3 DEF ReadTimers, ReadPending
  <2>3. CASE ~Exit(t) /\ ~(ReadTimers(t) \/ ReadPending(t) \/ ReadQueue(t))
    <3>1. ~Final BY <1>5, <1>6, <2>3
    <3>2. CASE Works(t) BY <1>2, <3>1, <3>2
    <3>3. CASE ~Works(t)
      <4>1. Answers(t) BY <1>6, <2>3, <3>3, ThreadFootprint
      <4>2. InRun(t) /\ pc[t] # "idle" BY <1>6, <2>3, RunSteps
      <4>3. main \in {"early", "peek"} BY <4>1, <4>2 DEF Answers, Asking
      <4> QED BY <4>2, <4>3, OwnerAsks DEF LookInv
    <3> QED BY <3>2, <3>3
  <2> QED BY <2>1, <2>2, <2>3
<1>7. ASSUME NEW j \in Jobs, NEW pin \in Pins, Submit(j, pin) PROVE AloneInv'
  <2>1. main \in {"new", "running"} BY <1>1, <1>7 DEF Submit
  <2>2. ~Final BY <2>1 DEF AloneInv
  <2>3. Works(Caller) BY <1>7 DEF Submit, Schedule, Works
  <2> QED BY <1>1, <1>2, <2>2, <2>3
<1>8. ASSUME NEW f \in Fibers, ScheduleAgain(f) \/ Wake(f) PROVE AloneInv'
  <2>1. PICK t \in Threads : Trigger(t, f) \/ \E due \in SUBSET Fibers : Expire(t, due)
    BY <1>1, <1>8 DEF ScheduleAgain, Wake
  <2>2. pc[t] \in {"poll", "events"} BY <2>1 DEF Trigger, Expire
  <2>3. ~Final BY <2>2 DEF AloneInv, Rest
  <2>4. Works(t)
    <3>1. {"fire", "trig"} \subseteq PCs \ {"off", "exited"} BY DEF PCs, Idling
    <3> QED BY <2>1, <3>1 DEF Trigger, Expire, Works
  <2> QED BY <1>2, <2>3, <2>4
<1>9. CASE Ended \/ UNCHANGED vars
  <2>1. Works(Caller) /\ (Rest => Rest') BY <1>9 DEF Ended, Works, Rest, Unfinished
  <2> QED BY <1>1, <1>2, <2>1 DEF AloneInv
<1>10. CASE MainStep
  <2>1. UNCHANGED <<idleTerm, m_fibers, waiting, submitted, done>>
    BY <1>10 DEF MainStep, Start, StopBegin, StopSignal, CallRoot, Fail, StopJoin, StopWhen
  <2>2. ASSUME pc' = pc PROVE Rest => Rest' BY <2>1, <2>2 DEF Rest, Unfinished
  <2>3. CASE Start
    <3>1. main = "new" /\ main' = "running" /\ UNCHANGED <<m_autoStop, m_rootFiber>> BY <2>3 DEF Start
    <3>2. ~Final' BY <2>1, <3>1 DEF AloneInv, Final
    <3>3. \A u \in Threads : pc'[u] # "exited" BY <1>1, <2>3, <3>1 DEF Start, IndInv, OffInv
    <3> QED BY <2>1, <3>1, <3>2, <3>3 DEF AloneInv
  <2>4. CASE StopBegin \/ StopSignal
    <3>1. /\ main' \in {"early", "signal"} \/ (main' = IF UseCaller THEN "peek" ELSE "join")
          /\ UNCHANGED <<pc, m_rootFiber>>
      BY <2>4 DEF StopBegin, StopSignal
    <3>2. Final' => Final BY <2>1, <3>1 DEF Final
    <3>3. Rest => Rest' BY <2>2, <3>1
    <3> QED BY <2>1, <3>1, <3>2, <3>3 DEF AloneInv
  <2>5. CASE CallRoot
    <3>1. main = "root" /\ UNCHANGED <<main, m_autoStop>> BY <2>5 DEF CallRoot, Fail
    <3>2. CASE m_rootFiber = "TERM"
      <4>1. UNCHANGED <<pc, m_rootFiber>> BY <2>5, <3>2 DEF CallRoot, Fail
      <4>2. Final' => Final BY <2>1, <3>1 DEF Final
      <4>3. Rest => Rest' BY <2>2, <4>1
      <4> QED BY <2>1, <3>1, <4>1, <4>2, <4>3 DEF AloneInv
    <3>3. CASE m_rootFiber = "INIT"
      <4>1. m_rootFiber' = "EXEC" /\ pc' = [pc EXCEPT ![Caller] = "scan"] BY <2>5, <3>3 DEF CallRoot, Goto
      <4>2. Threads = {Caller}
        <5>1. UseCaller BY <3>3 DEF CallerInv
        <5> QED BY <5>1 DEF Alone, Threads
      <4>3. ~Final /\ ~Final' BY <2>1, <3>1, <3>3, <4>2 DEF AloneInv, Final
      <4>4. \A u \in Threads : pc'[u] = "exited" => pc[u] = "exited" BY <1>1, <4>1
      <4> QED BY <2>1, <3>1, <4>1, <4>3, <4>4 DEF AloneInv
    <3> QED BY <2>5, <3>2, <3>3 DEF CallRoot
  <2>6. CASE StopJoin
    <3>1. /\ main = "join" /\ main' = "stopped" /\ UNCHANGED <<pc, m_autoStop, m_rootFiber>>
          /\ \A u \in Workers : pc[u] = "exited"
      BY <2>6 DEF StopJoin, StopWhen
    <3>2. Final
      <4>1. CASE UseCaller BY <3>1, <4>1 DEF Final
      <4>2. CASE ~UseCaller
        <5>1. PICK u \in Workers : TRUE BY <4>2, SomeThread
        <5> QED BY <1>1, <3>1, <5>1 DEF AloneInv, Final
      <4> QED BY <4>1, <4>2
    <3>3. Rest' BY <2>2, <3>1, <3>2 DEF AloneInv
    <3> QED BY <2>1, <3>1, <3>2, <3>3 DEF AloneInv
  <2> QED BY <1>10, <2>3, <2>4, <2>5, <2>6 DEF MainStep
<1> QED BY <1>6, <1>7, <1>8, <1>9, <1>10 DEF Next

\* With one thread in run(), the caller's or one worker, stop() returns only
\* when every job has finished, no timer or event is left behind and the thread
\* has left run(), whatever the jobs do: they may yield, wait for timers and
\* events and schedule pinned jobs. stopping() reads the timers, the pending
\* events and the queue one after the other, but nobody else is there to change
\* them in between.
THEOREM AloneTheorem == ASSUME Alone PROVE Spec => []StopComplete
<1> DEFINE I == /\ IndInv /\ PoolInv /\ doubled = {} /\ CallerInv /\ LookInv /\ AloneInv
                /\ Waits = {} => NoWait
<1>1. Init => I
  <2> SUFFICES ASSUME Init PROVE I OBVIOUS
  <2>1. IndInv /\ PoolInv /\ CallerInv BY InitInv, PoolInit, CallerInit
  <2>2. doubled = {} /\ NoWait BY DEF Init, NoWait
  <2>3. LookInv /\ AloneInv BY DEF Init, LookInv, AloneInv, Final, Threads
  <2> QED BY <2>1, <2>2, <2>3
<1>2. I /\ [Next]_vars => I'
  <2> SUFFICES ASSUME I, [Next]_vars PROVE I' OBVIOUS
  <2>1. IndInv' BY NextInv
  <2>2. doubled' = {}
    <3>1. FreeQueue
      <4>1. ASSUME NEW t \in Threads, pc[t] = "scan", NEW u \in Threads, pc[u] \in InHand PROVE FALSE
        <5>1. InRun(t) /\ InRun(u) BY <4>1 DEF InRun, InHand, OnStack
        <5>2. t = u BY <5>1, OneRunner
        <5> QED BY <4>1, <5>2 DEF InHand, OnStack
      <4> QED BY <4>1 DEF FreeQueue, Holders
    <3> QED BY <3>1, NoDouble DEF Alone
  <2>3. PoolInv' BY <2>2, NextPool
  <2>4. Waits = {} => NoWait' BY NoWaitStep
  <2>5. CallerInv' BY CallerStep
  <2>6. LookInv' BY LookStep
  <2>7. AloneInv' BY AloneStep
  <2> QED BY <2>1, <2>2, <2>3, <2>4, <2>5, <2>6, <2>7
<1>3. I => StopComplete
  <2> SUFFICES ASSUME I, main = "stopped"
               PROVE /\ Unfinished = {} /\ m_fibers = <<>>
                     /\ \A f \in Fibers : waiting[f] = "no"
                     /\ \A t \in Threads : pc[t] \in {"off", "exited"}
      BY DEF StopComplete
  <2>1. Final BY DEF Final
  <2>2. Rest BY <2>1 DEF AloneInv
  <2>3. \A t \in Threads : pc[t] \in {"off", "exited"} BY DEF AloneInv, CallerInv, Threads
  <2> QED BY <2>2, <2>3 DEF Rest
<1> QED BY <1>1, <1>2, <1>3, PTL DEF Spec
----------------------------------------------------------------------------
(* The pool of jobs.                                                        *)

Popped(e) == \E t \in Threads : pc[t] = "got" /\ ft[t] = e

\* The entries with a pin, queued or popped.
Marked == {e \in Entries : e.thread # None /\ (HasEntry(e) \/ Popped(e))}

\* The variables of JobPool that the refinement mapping computes.
Running == [t \in Threads |-> OnThread(t)]
Waiters == {m_cb[f] : f \in {f \in Fibers : waiting[f] # "no"}}

\* A popped entry is one for the thread that popped it.
PinInv == \A t \in Threads : pc[t] = "got" => ft[t].thread \in {None, t}

ByMarks == {p \in Jobs \X Threads : \E e \in Marked : e.thread = p[2] /\ Carries(e, p[1])}

LEMMA PinnedMarked == IndInv => Pinned = ByMarks
<1> SUFFICES ASSUME IndInv PROVE Pinned = ByMarks OBVIOUS
<1>1. \A i \in DOMAIN m_fibers : m_fibers[i] \in Entries
  <2>1. m_fibers \in Seq(Entries) BY DEF IndInv, Shape
  <2> QED BY <2>1
<1>2. \A t \in Threads : ft[t] \in Entries BY DEF IndInv, Shape
<1>3. None \notin Threads BY DEF Threads
<1> SUFFICES ASSUME NEW p \in Jobs \X Threads
             PROVE p \in Pinned <=> \E e \in Marked : e.thread = p[2] /\ Carries(e, p[1])
    BY DEF Pinned, ByMarks
<1>4. p[2] \in Threads OBVIOUS
<1>5. ASSUME NEW i \in DOMAIN m_fibers, m_fibers[i].thread = p[2], Carries(m_fibers[i], p[1])
      PROVE  \E e \in Marked : e.thread = p[2] /\ Carries(e, p[1])
  <2>1. m_fibers[i] \in Marked BY <1>1, <1>3, <1>4, <1>5 DEF Marked, HasEntry
  <2> QED BY <1>5, <2>1
<1>6. ASSUME NEW t \in Threads, pc[t] = "got", ft[t].thread = p[2], Carries(ft[t], p[1])
      PROVE  \E e \in Marked : e.thread = p[2] /\ Carries(e, p[1])
  <2>1. ft[t] \in Marked BY <1>2, <1>3, <1>4, <1>6 DEF Marked, Popped
  <2> QED BY <1>6, <2>1
<1>7. ASSUME NEW e \in Marked, e.thread = p[2], Carries(e, p[1]) PROVE p \in Pinned
  <2>1. CASE HasEntry(e) BY <1>7, <2>1 DEF HasEntry, Pinned
  <2>2. CASE Popped(e) BY <1>7, <2>2 DEF Popped, Pinned
  <2> QED BY <1>7, <2>1, <2>2 DEF Marked
<1> QED BY <1>5, <1>6, <1>7 DEF Pinned

\* A fiber without an entry.
Loose(f) == ~InQueue(f) /\ \A t \in Threads : ~GotBy(f, t)

LEMMA LooseMarked ==
  ASSUME NEW f, Loose(f), NEW e \in Marked
  PROVE  e.fiber # f
BY DEF Loose, Marked, HasEntry, Popped, InQueue, GotBy

LEMMA CarriesKept ==
  ASSUME \A f \in Fibers : m_cb'[f] = m_cb[f] \/ Loose(f), NEW e \in Marked, NEW j
  PROVE  Carries(e, j)' <=> Carries(e, j)
<1>1. e.fiber \in Fibers \cup {None} BY DEF Marked, Entries
<1>2. e.fiber # None => m_cb'[e.fiber] = m_cb[e.fiber] BY <1>1, LooseMarked
<1> QED BY <1>2 DEF Carries

\* Pins stay when the marked entries do, and the fibers in entries keep their jobs.
LEMMA PinnedKept ==
  ASSUME IndInv, IndInv', Marked' = Marked,
         \A f \in Fibers : m_cb'[f] = m_cb[f] \/ Loose(f)
  PROVE  Pinned' = Pinned
<1>1. \A e \in Marked : \A j : Carries(e, j)' <=> Carries(e, j) BY CarriesKept
<1>2. Pinned = ByMarks BY PinnedMarked
<1>3. (Pinned = ByMarks)' BY PinnedMarked, PTL
<1>4. ByMarks' = ByMarks BY <1>1 DEF ByMarks
<1> QED BY <1>2, <1>3, <1>4

\* Nothing popped changes.
SameGot ==
  \A t \in Threads : (pc'[t] = "got" <=> pc[t] = "got") /\ (pc[t] = "got" => ft'[t] = ft[t])

LEMMA MarkedKept ==
  ASSUME SameGot, \A e \in Entries : e.thread # None => (HasEntry(e)' <=> HasEntry(e))
  PROVE  Marked' = Marked
<1>1. \A e : Popped(e)' <=> Popped(e) BY DEF SameGot, Popped
<1> QED BY <1>1 DEF Marked

\* A fiber without a token is in no entry and waits for nothing.
LEMMA Unplaced ==
  ASSUME NEW f \in Fibers, ~Placed(f)
  PROVE  Loose(f) /\ waiting[f] = "no"
<1>1. ~At(f, "run", None) /\ ~At(f, "wait", None) /\ \A t \in Threads : ~At(f, "got", t)
  BY DEF Placed, Kinds, Whom
<1> QED BY <1>1 DEF At, Loose, Parked

\* What is known of fibers and their jobs.
LEMMA JobFacts ==
  ASSUME IndInv, PoolInv
  PROVE  /\ \A f, g \in Fibers : m_cb[f] \in Jobs /\ m_cb[g] = m_cb[f] => g = f
         /\ \A f \in Fibers : m_cb[f] \in Jobs => m_cb[f] \in submitted \ done
         /\ \A f \in Fibers : waiting[f] # "no" => m_cb[f] \in Jobs
         /\ \A t, u \in Threads : HeldBy(Cur(t), u) /\ HeldBy(Cur(t), t) => u = t
         /\ \A t \in Threads : pc[t] \in InHand => Cur(t) \in Fibers
<1>1. \A f \in Fibers : \A j : m_cb[f] = j => At(j, "relay", f) BY DEF At, CbOf
<1>2. ASSUME NEW f \in Fibers, NEW g \in Fibers, m_cb[f] \in Jobs, m_cb[g] = m_cb[f] PROVE g = f
  <2>1. OneAt(m_cb[f]) /\ At(m_cb[f], "relay", f) /\ At(m_cb[f], "relay", g)
    BY <1>1, <1>2 DEF PoolInv, Things
  <2> QED BY <2>1 DEF OneAt, Kinds, Whom
<1>3. ASSUME NEW f \in Fibers, m_cb[f] \in Jobs PROVE m_cb[f] \in submitted \ done
  <2>1. At(m_cb[f], "relay", f) /\ JobOK(m_cb[f]) BY <1>1, <1>3 DEF PoolInv
  <2>2. Placed(m_cb[f]) BY <2>1 DEF Placed, Kinds, Whom
  <2> QED BY <2>1, <2>2 DEF JobOK, Unfinished
<1>4. ASSUME NEW f \in Fibers, waiting[f] # "no" PROVE m_cb[f] \in Jobs
  <2>1. At(f, "wait", None) BY <1>4 DEF At, Parked
  <2>2. TokenOK(f, "wait", None) BY <2>1 DEF PoolInv, FiberOK, Kinds, Whom
  <2> QED BY <2>2 DEF TokenOK
<1>5. ASSUME NEW t \in Threads, pc[t] \in InHand
      PROVE  Cur(t) \in Fibers /\ \A u \in Threads : HeldBy(Cur(t), u) => u = t
  <2>1. PICK f : f = Cur(t) OBVIOUS
  <2>2. f \in Fibers /\ \A u \in Threads \ {t} : ~HeldBy(f, u) BY <1>5, <2>1, InHandFact
  <2> QED BY <2>1, <2>2
<1>6. \A t \in Threads : HeldBy(Cur(t), t) => pc[t] \in InHand BY DEF HeldBy
<1> QED BY <1>2, <1>3, <1>4, <1>5, <1>6

\* A step of the pool, or none.
Mapped == [Pool!Next]_(Pool!vars)

LEMMA Stutters ==
  ASSUME submitted' = submitted, done' = done, Running' = Running, Waiters' = Waiters,
         Pinned' = Pinned
  PROVE  Mapped
BY DEF Mapped, Pool!vars, Running, Waiters

LEMMA WaitersKept ==
  ASSUME \A f \in Fibers : waiting'[f] = waiting[f] /\ (waiting[f] # "no" => m_cb'[f] = m_cb[f])
  PROVE  Waiters' = Waiters
BY DEF Waiters

LEMMA WaitersGone ==
  ASSUME IndInv, PoolInv, NEW D \in SUBSET Fibers, m_cb' = m_cb,
         \A f \in D : waiting[f] # "no" /\ waiting'[f] = "no",
         \A f \in Fibers \ D : waiting'[f] = waiting[f]
  PROVE  /\ Waiters' = Waiters \ {m_cb[f] : f \in D}
         /\ {m_cb[f] : f \in D} \subseteq Jobs
<1>1. \A f, g \in Fibers : m_cb[f] \in Jobs /\ m_cb[g] = m_cb[f] => g = f BY JobFacts
<1>2. \A f \in Fibers : waiting[f] # "no" => m_cb[f] \in Jobs BY JobFacts
<1>3. ASSUME NEW x, x \in Waiters' PROVE x \in Waiters \ {m_cb[f] : f \in D}
  <2>1. PICK f \in Fibers : waiting'[f] # "no" /\ x = m_cb[f] BY <1>3 DEF Waiters
  <2>2. f \notin D /\ waiting[f] # "no" BY <2>1
  <2>3. \A g \in D : m_cb[g] # x BY <1>1, <1>2, <2>1, <2>2
  <2> QED BY <2>1, <2>2, <2>3 DEF Waiters
<1>4. ASSUME NEW x, x \in Waiters, x \notin {m_cb[f] : f \in D} PROVE x \in Waiters'
  <2>1. PICK f \in Fibers : waiting[f] # "no" /\ x = m_cb[f] BY <1>4 DEF Waiters
  <2>2. f \notin D BY <1>4, <2>1
  <2> QED BY <2>1, <2>2 DEF Waiters
<1> QED BY <1>2, <1>3, <1>4

\* The steps of thread t that pop nothing and let go of nothing popped.
LEMMA ThreadMaps ==
  ASSUME IndInv, IndInv', PoolInv, NEW t \in Threads, OnlyThread(t), pc[t] # "got", pc'[t] # "got",
         \A e \in Entries : e.thread # None => (HasEntry(e)' <=> HasEntry(e)),
         \A g \in Fibers : m_cb'[g] = m_cb[g] \/ (HeldBy(g, t) /\ ~Placed(g))
  PROVE  /\ Pinned' = Pinned
         /\ Running' = [Running EXCEPT ![t] = OnThread(t)']
<1>1. SameGot BY DEF SameGot, OnlyThread
<1>2. Marked' = Marked BY <1>1, MarkedKept
<1>3. \A g \in Fibers : HeldBy(g, t) => \A u \in Threads \ {t} : ~HeldBy(g, u)
  <2>1. \A g : HeldBy(g, t) => g = Cur(t) /\ pc[t] \in InHand BY DEF HeldBy
  <2> QED BY <2>1, JobFacts
<1>4. Pinned' = Pinned
  <2>1. \A g \in Fibers : m_cb'[g] = m_cb[g] \/ Loose(g) BY Unplaced
  <2> QED BY <1>2, <2>1, PinnedKept
<1>5. ASSUME NEW u \in Threads \ {t} PROVE OnThread(u)' = OnThread(u)
  <2>1. pc'[u] = pc[u] /\ Cur(u)' = Cur(u) BY DEF OnlyThread, Cur
  <2>2. ASSUME pc[u] \in OnStack PROVE m_cb'[Cur(u)] = m_cb[Cur(u)]
    <3>1. pc[u] \in InHand BY <2>2 DEF InHand
    <3>2. Cur(u) \in Fibers /\ HeldBy(Cur(u), u) BY <3>1, JobFacts DEF HeldBy
    <3>3. PICK g \in Fibers : g = Cur(u) BY <3>2
    <3> QED BY <1>3, <3>2, <3>3
  <2> QED BY <2>1, <2>2 DEF OnThread
<1>6. Running' = [Running EXCEPT ![t] = OnThread(t)'] BY <1>5 DEF Running
<1> QED BY <1>4, <1>6

\* Steps without a job.
LEMMA QuietMaps ==
  ASSUME IndInv, IndInv', Quiet
  PROVE  Mapped
<1> USE DEF Quiet, fibers, slot
<1>1. SameGot BY DEF SameGot, Empty
<1>2. Marked' = Marked
  <2>1. \A e : HasEntry(e)' <=> HasEntry(e) BY DEF HasEntry
  <2> QED BY <1>1, <2>1, MarkedKept
<1>3. Pinned' = Pinned BY <1>2, PinnedKept
<1>4. ASSUME NEW u \in Threads PROVE OnThread(u)' = OnThread(u)
  <2>1. pc[u] \in OnStack <=> pc'[u] \in OnStack BY DEF Empty, InHand
  <2> QED BY <2>1 DEF OnThread, Cur
<1>5. Running' = Running BY <1>4 DEF Running
<1>6. Waiters' = Waiters BY DEF Waiters
<1> QED BY <1>3, <1>5, <1>6, Stutters

\* The job that is on the stack of thread t.
LEMMA OnStackFacts ==
  ASSUME IndInv, PoolInv, NEW t \in Threads, pc[t] \in OnStack, NEW f, f = Cur(t)
  PROVE  /\ f \in Fibers /\ HeldBy(f, t) /\ HeldOK(f, pc[t])
         /\ \A g \in Fibers : HeldBy(g, t) <=> g = f
         /\ m_cb[f] \in Jobs =>
              /\ Running[t] = m_cb[f] /\ m_cb[f] # None
              /\ waiting[f] = "no" => m_cb[f] \notin Waiters
<1>1. pc[t] \in InHand BY DEF InHand
<1>2. f \in Fibers /\ HeldBy(f, t) /\ HeldOK(f, pc[t]) BY <1>1, InHandFact
<1>3. \A g \in Fibers : HeldBy(g, t) <=> g = f BY <1>1 DEF HeldBy
<1>4. ASSUME m_cb[f] \in Jobs PROVE Running[t] = m_cb[f] /\ m_cb[f] # None
  BY <1>4 DEF Running, OnThread
<1>5. ASSUME m_cb[f] \in Jobs, waiting[f] = "no" PROVE m_cb[f] \notin Waiters
  <2>1. \A g \in Fibers : m_cb[g] = m_cb[f] => g = f BY <1>2, <1>5, JobFacts
  <2> QED BY <1>5, <2>1 DEF Waiters
<1> QED BY <1>2, <1>3, <1>4, <1>5

\* The job returns.
LEMMA FinishMaps ==
  ASSUME IndInv, IndInv', PoolInv, NEW t \in Threads, NEW s, Finish(t, s)
  PROVE  Mapped
<1> USE DEF counters, fibers, slot, idler, rest, flags, owner, jobs, threads
<1>1. PICK f : f = Cur(t) OBVIOUS
<1>2. pc[t] = "exec" /\ "exec" \in OnStack BY DEF Finish, OnStack
<1>3. /\ f \in Fibers /\ HeldBy(f, t) /\ HeldOK(f, pc[t])
      /\ \A g \in Fibers : HeldBy(g, t) <=> g = f
  BY <1>1, <1>2, OnStackFacts
<1>4. m_cb[f] \in Jobs /\ waiting[f] = "no" /\ ~Placed(f)
  <2>1. Live(f) /\ ~Placed(f) BY <1>2, <1>3 DEF HeldOK
  <2>2. m_cb[f] \in Jobs \/ m_cb[f] = None BY <1>1 DEF Finish
  <2> QED BY <1>3, <2>1, <2>2, Unplaced DEF Live
<1>5. Running[t] = m_cb[f] /\ m_cb[f] # None /\ m_cb[f] \notin Waiters
  BY <1>1, <1>2, <1>4, OnStackFacts
<1>6. /\ done' = done \cup {m_cb[f]} /\ m_cb' = [m_cb EXCEPT ![f] = Over] /\ Goto(t, "switch")
      /\ UNCHANGED <<m_fibers, waiting, slot, fired, submitted>>
  BY <1>1, <1>5 DEF Finish
<1>7. m_cb'[f] = Over /\ \A g \in Fibers : g # f => m_cb'[g] = m_cb[g]
  BY <1>3, <1>6 DEF IndInv, Shape
<1>8. pc'[t] = "switch" /\ OnlyThread(t) /\ Cur(t)' = f
  BY <1>1, <1>6 DEF Goto, OnlyThread, IndInv, Shape, Cur
<1>9. \A e : HasEntry(e)' <=> HasEntry(e) BY <1>6 DEF HasEntry
<1>10. OnThread(t)' = None BY <1>7, <1>8 DEF OnThread
<1>11. Pinned' = Pinned /\ Running' = [Running EXCEPT ![t] = None]
  BY <1>2, <1>3, <1>4, <1>7, <1>8, <1>9, <1>10, ThreadMaps
<1>12. Waiters' = Waiters
  <2>1. \A g \in Fibers : waiting'[g] = waiting[g] /\ (waiting[g] # "no" => m_cb'[g] = m_cb[g])
    BY <1>4, <1>6, <1>7
  <2> QED BY <2>1, WaitersKept
<1>13. Pool!Finish(t) BY <1>5, <1>6, <1>11, <1>12 DEF Pool!Finish, Running, Waiters
<1> QED BY <1>13 DEF Mapped, Pool!Next

\* The callback of a sleep, which is no job of the pool, schedules its fiber.
LEMMA RelayMaps ==
  ASSUME IndInv, IndInv', PoolInv, NEW t \in Threads, Relay(t)
  PROVE  Mapped
<1> USE DEF counters, fibers, slot, idler, rest, flags, owner, jobs, threads
<1>1. PICK f : f = Cur(t) OBVIOUS
<1>2. pc[t] = "exec" /\ "exec" \in OnStack BY DEF Relay, OnStack
<1>3. /\ f \in Fibers /\ HeldBy(f, t) /\ HeldOK(f, pc[t])
      /\ \A g \in Fibers : HeldBy(g, t) <=> g = f
  BY <1>1, <1>2, OnStackFacts
<1>4. m_cb[f] \in Fibers /\ waiting[f] = "no" /\ ~Placed(f)
  <2>1. ~Placed(f) BY <1>2, <1>3 DEF HeldOK
  <2> QED BY <1>1, <1>3, <2>1, Unplaced DEF Relay
<1>5. PICK e \in Entries : e = Task(m_cb[f], None, None) BY <1>4 DEF Task, Entries
<1>6. /\ m_fibers' = Append(m_fibers, e) /\ m_cb' = [m_cb EXCEPT ![f] = Over] /\ Goto(t, "switch")
      /\ UNCHANGED <<waiting, slot, fired, submitted, done>>
  BY <1>1, <1>5 DEF Relay
<1>7. m_cb'[f] = Over /\ \A g \in Fibers : g # f => m_cb'[g] = m_cb[g]
  BY <1>3, <1>6 DEF IndInv, Shape
<1>8. pc'[t] = "switch" /\ OnlyThread(t) /\ Cur(t)' = f
  BY <1>1, <1>6 DEF Goto, OnlyThread, IndInv, Shape, Cur
<1>9. \A x : x.thread # None => (HasEntry(x)' <=> HasEntry(x))
  <2>1. m_fibers \in Seq(Entries) /\ e.thread = None BY <1>5 DEF IndInv, Shape, Task
  <2> QED BY <1>6, <2>1, EntryAppend
<1>10. OnThread(t)' = None /\ OnThread(t) = None BY <1>1, <1>4, <1>7, <1>8 DEF OnThread
<1>11. Pinned' = Pinned /\ Running' = [Running EXCEPT ![t] = None]
  BY <1>2, <1>3, <1>4, <1>7, <1>8, <1>9, <1>10, ThreadMaps
<1>12. Running' = Running BY <1>10, <1>11 DEF Running
<1>13. Waiters' = Waiters
  <2>1. \A g \in Fibers : waiting'[g] = waiting[g] /\ (waiting[g] # "no" => m_cb'[g] = m_cb[g])
    BY <1>4, <1>6, <1>7
  <2> QED BY <2>1, WaitersKept
<1> QED BY <1>6, <1>11, <1>12, <1>13, Stutters

\* The job registers with a timer or an event.
LEMMA RegisterMaps ==
  ASSUME IndInv, IndInv', PoolInv, NEW t \in Threads, NEW w \in Waits, Register(t, w)
  PROVE  Mapped
<1> USE DEF counters, fibers, slot, idler, rest, flags, owner, jobs, threads
<1>1. PICK f : f = Cur(t) OBVIOUS
<1>2. pc[t] = "exec" /\ "exec" \in OnStack /\ "reg" \in OnStack BY DEF Register, OnStack
<1>3. /\ f \in Fibers /\ HeldBy(f, t) /\ HeldOK(f, pc[t])
  BY <1>1, <1>2, OnStackFacts
<1>4. m_cb[f] \in Jobs /\ waiting[f] = "no" /\ m_state[f] = "EXEC"
  BY <1>1, <1>2, <1>3 DEF HeldOK, Register
<1>5. Running[t] = m_cb[f] /\ m_cb[f] # None /\ m_cb[f] \notin Waiters
  BY <1>1, <1>2, <1>4, OnStackFacts
<1>6. /\ waiting' = [waiting EXCEPT ![f] = w] /\ Goto(t, "reg")
      /\ UNCHANGED <<m_fibers, m_cb, slot, fired, submitted, done>>
  BY <1>1, <1>4 DEF Register
<1>7. w # "no" /\ waiting'[f] = w /\ \A g \in Fibers : g # f => waiting'[g] = waiting[g]
  BY <1>3, <1>6 DEF IndInv, Shape
<1>8. pc'[t] = "reg" /\ OnlyThread(t) /\ Cur(t)' = f
  BY <1>1, <1>6 DEF Goto, OnlyThread, IndInv, Shape, Cur
<1>9. \A e : HasEntry(e)' <=> HasEntry(e) BY <1>6 DEF HasEntry
<1>10. OnThread(t)' = OnThread(t) BY <1>1, <1>2, <1>6, <1>8 DEF OnThread
<1>11. Pinned' = Pinned /\ Running' = [Running EXCEPT ![t] = OnThread(t)]
  BY <1>2, <1>6, <1>8, <1>9, <1>10, ThreadMaps
<1>12. Running' = Running BY <1>11 DEF Running
<1>13. Waiters' = Waiters \cup {m_cb[f]} BY <1>3, <1>6, <1>7 DEF Waiters
<1>14. Pool!Wait(t) BY <1>5, <1>6, <1>11, <1>12, <1>13 DEF Pool!Wait, Running, Waiters
<1> QED BY <1>14 DEF Mapped, Pool!Next

\* The two yields, which leave the stack where it is, and the way back to run().
LEMMA YieldMaps ==
  ASSUME IndInv, IndInv', PoolInv, NEW t \in Threads,
         YieldToReady(t) \/ YieldToHold(t) \/ SwapOut(t) \/ Post(t)
  PROVE  Mapped
<1> USE DEF counters, fibers, slot, idler, rest, flags, owner, jobs, threads
<1>1. PICK l \in {"switch", "post", "settle"} :
        /\ Goto(t, l) /\ UNCHANGED <<m_fibers, m_cb, waiting, slot, fired, submitted, done>>
        /\ \/ pc[t] \in {"exec", "reg"} /\ l = "switch"
           \/ pc[t] = "switch" /\ l = "post"
           \/ pc[t] = "post" /\ l = "settle"
  BY DEF YieldToReady, YieldToHold, SwapOut, Post, PostBy
<1>2. pc'[t] = l /\ OnlyThread(t) /\ Cur(t)' = Cur(t)
  BY <1>1 DEF Goto, OnlyThread, IndInv, Shape, Cur
<1>3. \A e : HasEntry(e)' <=> HasEntry(e) BY <1>1 DEF HasEntry
<1>4. Pinned' = Pinned /\ Running' = [Running EXCEPT ![t] = OnThread(t)']
  BY <1>1, <1>2, <1>3, ThreadMaps
<1>5. Waiters' = Waiters BY <1>1 DEF Waiters
<1>6. OnThread(t)' = IF pc[t] = "switch" THEN None ELSE OnThread(t)
  BY <1>1, <1>2 DEF OnThread, OnStack
<1>7. CASE OnThread(t)' = OnThread(t)
  <2>1. Running' = Running BY <1>4, <1>7 DEF Running
  <2> QED BY <1>1, <1>4, <1>5, <2>1, Stutters
<1>8. CASE OnThread(t)' # OnThread(t)
  <2>1. Running[t] # None /\ Running' = [Running EXCEPT ![t] = None]
    BY <1>4, <1>6, <1>8 DEF Running
  <2>2. Pool!Pause(t) BY <1>1, <1>4, <1>5, <2>1 DEF Pool!Pause, Running, Waiters
  <2> QED BY <2>2 DEF Mapped, Pool!Next
<1> QED BY <1>7, <1>8

\* What run() does with a fiber that is off the stack.
LEMMA SettleMaps ==
  ASSUME IndInv, IndInv', PoolInv, NEW t \in Threads, Settle(t) \/ Hold(t)
  PROVE  Mapped
<1> USE DEF counters, fibers, slot, idler, rest, flags, owner, jobs, threads
<1>1. PICK f : f = Cur(t) OBVIOUS
<1>2. pc[t] \in {"settle", "hold"} BY DEF Settle, Hold, HoldLeaving
<1>3. f \in Fibers /\ HeldBy(f, t) /\ HeldOK(f, pc[t])
  BY <1>1, <1>2, InHandFact DEF InHand, OnStack
<1>4. PICK e \in Entries : e = Task(f, None, None) BY <1>3 DEF Task, Entries
<1>5. PICK l \in {"scan", "hold"} :
        /\ Goto(t, l) /\ m_fibers' \in {m_fibers, Append(m_fibers, e)}
        /\ m_cb' = m_cb \/ (m_cb' = [m_cb EXCEPT ![f] = None] /\ m_state[f] \in Finished)
        /\ \E x : cb_fiber' = [cb_fiber EXCEPT ![t] = x]
        /\ \E x : ft' = [ft EXCEPT ![t] = x]
        /\ UNCHANGED <<waiting, fired, submitted, done>>
  <2>1. cb_fiber = [cb_fiber EXCEPT ![t] = cb_fiber[t]] /\ ft = [ft EXCEPT ![t] = ft[t]]
    BY DEF IndInv, Shape
  <2>2. CASE Hold(t) BY <2>2 DEF Hold, HoldLeaving
  <2>3. CASE Settle(t)
    <3>1. CASE m_state[f] \in Finished \cup {"READY"}
      BY <1>1, <1>4, <2>1, <2>3, <3>1 DEF Settle
    <3>2. CASE m_state[f] \notin Finished \cup {"READY"}
      BY <1>1, <2>1, <2>3, <3>2 DEF Settle
    <3> QED BY <3>1, <3>2
  <2> QED BY <2>2, <2>3
<1>6. pc'[t] = l /\ OnlyThread(t) BY <1>5 DEF Goto, OnlyThread, IndInv, Shape
<1>7. \A g \in Fibers : m_cb'[g] = m_cb[g] \/ (g = f /\ HeldBy(g, t) /\ ~Placed(g) /\ waiting[g] = "no")
  <2>1. m_state[f] \in Finished => ~Placed(f) BY <1>2, <1>3 DEF HeldOK, Finished
  <2>2. m_state[f] \in Finished => waiting[f] = "no" BY <1>3, <2>1, Unplaced
  <2> QED BY <1>3, <1>5, <2>1, <2>2 DEF IndInv, Shape
<1>8. \A x : x.thread # None => (HasEntry(x)' <=> HasEntry(x))
  <2>1. m_fibers \in Seq(Entries) /\ e.thread = None BY <1>4 DEF IndInv, Shape, Task
  <2>2. CASE m_fibers' = m_fibers BY <2>2 DEF HasEntry
  <2>3. CASE m_fibers' = Append(m_fibers, e) BY <2>1, <2>3, EntryAppend
  <2> QED BY <1>5, <2>2, <2>3
<1>9. OnThread(t)' = None /\ OnThread(t) = None BY <1>2, <1>6 DEF OnThread, OnStack
<1>10. Pinned' = Pinned /\ Running' = [Running EXCEPT ![t] = None]
  BY <1>2, <1>6, <1>7, <1>8, <1>9, ThreadMaps
<1>11. Running' = Running BY <1>9, <1>10 DEF Running
<1>12. Waiters' = Waiters
  <2>1. \A g \in Fibers : waiting'[g] = waiting[g] /\ (waiting[g] # "no" => m_cb'[g] = m_cb[g])
    BY <1>5, <1>7
  <2> QED BY <2>1, WaitersKept
<1> QED BY <1>5, <1>10, <1>11, <1>12, Stutters

\* The other threads keep what they run.
LEMMA OthersRun ==
  ASSUME IndInv, PoolInv, NEW t \in Threads, OnlyThread(t),
         \A g \in Fibers : m_cb'[g] = m_cb[g] \/ \A u \in Threads : ~HeldBy(g, u)
  PROVE  Running' = [Running EXCEPT ![t] = OnThread(t)']
<1>1. ASSUME NEW u \in Threads \ {t} PROVE OnThread(u)' = OnThread(u)
  <2>1. pc'[u] = pc[u] /\ Cur(u)' = Cur(u) BY DEF OnlyThread, Cur
  <2>2. ASSUME pc[u] \in OnStack PROVE m_cb'[Cur(u)] = m_cb[Cur(u)]
    <3>1. pc[u] \in InHand BY <2>2 DEF InHand
    <3>2. Cur(u) \in Fibers /\ HeldBy(Cur(u), u) BY <3>1, JobFacts DEF HeldBy
    <3>3. PICK g \in Fibers : g = Cur(u) BY <3>2
    <3> QED BY <3>2, <3>3
  <2> QED BY <2>1, <2>2 DEF OnThread
<1> QED BY <1>1 DEF Running

\* Only the entry that t has popped is about j.
OnlyPopped(t, j) ==
  \A e \in Marked : Carries(e, j) =>
    ~HasEntry(e) /\ \A u \in Threads \ {t} : ~(pc[u] = "got" /\ ft[u] = e)

\* Thread t swaps in what it has popped, and the pin is gone.
LEMMA PinsDropped ==
  ASSUME IndInv, IndInv', NEW t \in Threads, pc[t] = "got", pc'[t] # "got", OnlyThread(t),
         m_fibers' = m_fibers, \A f \in Fibers : m_cb'[f] = m_cb[f] \/ Loose(f),
         NEW j, \A x \in Jobs : Carries(ft[t], x) <=> x = j, OnlyPopped(t, j)
  PROVE  /\ Pinned' = Pinned \ ({j} \X Threads)
         /\ \A u \in Threads : <<j, u>> \in Pinned => ft[t].thread = u
<1>1. Pinned = ByMarks BY PinnedMarked
<1>2. (Pinned = ByMarks)' BY PinnedMarked, PTL
<1>3. \A e : HasEntry(e)' <=> HasEntry(e) BY DEF HasEntry
<1>4. \A e : Popped(e)' <=> \E u \in Threads \ {t} : pc[u] = "got" /\ ft[u] = e
  BY DEF Popped, OnlyThread
<1>5. Marked' \subseteq Marked BY <1>3, <1>4 DEF Marked, Popped
<1>6. \A e \in Marked : e \in Marked' \/ e = ft[t] BY <1>3, <1>4 DEF Marked, Popped
<1>7. \A e \in Marked' : ~Carries(e, j)
  BY <1>3, <1>4, <1>5 DEF OnlyPopped, Marked
<1>8. ASSUME NEW p \in Pinned' PROVE p \in Pinned \ ({j} \X Threads)
  <2>1. PICK e \in Marked' : e.thread = p[2] /\ Carries(e, p[1])' /\ p \in Jobs \X Threads
    BY <1>2, <1>8 DEF ByMarks
  <2>2. e \in Marked /\ Carries(e, p[1]) BY <1>5, <2>1, CarriesKept
  <2>3. p[1] # j BY <1>7, <2>1, <2>2
  <2> QED BY <1>1, <2>1, <2>2, <2>3 DEF ByMarks
<1>9. ASSUME NEW p \in Pinned, p \notin {j} \X Threads PROVE p \in Pinned'
  <2>1. PICK e \in Marked : e.thread = p[2] /\ Carries(e, p[1]) /\ p \in Jobs \X Threads
    BY <1>1 DEF ByMarks
  <2>2. p[1] # j /\ p[1] \in Jobs BY <1>9, <2>1
  <2>3. e \in Marked' BY <1>6, <2>1, <2>2
  <2>4. Carries(e, p[1])' BY <2>1, CarriesKept
  <2> QED BY <1>2, <2>1, <2>3, <2>4 DEF ByMarks
<1>10. ASSUME NEW u \in Threads, <<j, u>> \in Pinned PROVE ft[t].thread = u
  <2>1. PICK e \in Marked : e.thread = u /\ Carries(e, j) BY <1>1, <1>10 DEF ByMarks
  <2>2. e = ft[t] BY <1>6, <1>7, <2>1
  <2> QED BY <2>1, <2>2
<1> QED BY <1>8, <1>9, <1>10

\* The pop.
LEMMA TakeMaps ==
  ASSUME IndInv, IndInv', PoolInv, NEW t \in Threads, Take(t)
  PROVE  Mapped
<1> USE DEF counters, fibers, slot, idler, rest, flags, owner, jobs, threads
<1>1. PICK i \in DOMAIN m_fibers :
        /\ pc[t] = "scan" /\ ft' = [ft EXCEPT ![t] = m_fibers[i]]
        /\ m_fibers' = RemoveAt(m_fibers, i) /\ Goto(t, "got")
        /\ UNCHANGED <<m_cb, waiting, cb_fiber, fired, submitted, done>>
  BY DEF Take, TakeLeaving
<1>2. pc'[t] = "got" /\ ft'[t] = m_fibers[i] /\ OnlyThread(t)
  BY <1>1 DEF Goto, OnlyThread, IndInv, Shape
<1>3. \A x : HasEntry(x) <=> HasEntry(x)' \/ x = m_fibers[i]
  BY <1>1, EntryRemove DEF IndInv, Shape
<1>4. \A x : Popped(x)' <=> Popped(x) \/ x = m_fibers[i]
  BY <1>1, <1>2 DEF Popped, OnlyThread
<1>5. Marked' = Marked BY <1>3, <1>4 DEF Marked
<1>6. Pinned' = Pinned BY <1>1, <1>5, PinnedKept
<1>7. OnThread(t)' = None /\ OnThread(t) = None BY <1>1, <1>2 DEF OnThread, OnStack
<1>8. Running' = [Running EXCEPT ![t] = None] BY <1>1, <1>2, <1>7, OthersRun
<1>9. Running' = Running BY <1>7, <1>8 DEF Running
<1>10. Waiters' = Waiters BY <1>1 DEF Waiters
<1> QED BY <1>1, <1>6, <1>9, <1>10, Stutters

\* swapIn() of a fiber: its job starts or goes on.
LEMMA SwapInMaps ==
  ASSUME IndInv, IndInv', PoolInv, PinInv, NEW t \in Threads, SwapIn(t)
  PROVE  Mapped
<1> USE DEF counters, fibers, slot, idler, rest, flags, owner, jobs, threads
<1>1. pc[t] = "got" /\ ft[t].fiber # None /\ Proper(ft[t]) BY DEF SwapIn, PoolInv, ThreadOK
<1>2. PICK f \in Fibers : f = ft[t].fiber BY <1>1 DEF IndInv, Shape, Entries
<1>3. At(f, "got", t) /\ OneAt(f) BY <1>1, <1>2 DEF At, GotBy, PoolInv, Things
<1>4. TokenOK(f, "got", t) BY <1>2, <1>3 DEF PoolInv, FiberOK, Kinds, Whom
<1>5. PICK j \in Jobs : j = m_cb[f] BY <1>4 DEF TokenOK
<1>6. waiting[f] = "no"
  <2>1. ~At(f, "wait", None) BY <1>3 DEF OneAt, Kinds, Whom
  <2> QED BY <2>1 DEF At, Parked
<1>7. failed' = failed BY SwapInPool
<1>8. /\ Goto(t, "exec") /\ UNCHANGED <<m_fibers, m_cb, waiting, slot, fired, submitted, done>>
  <2>1. \A why : Alive /\ Fail(why) => failed' # failed BY DEF Fail, Alive
  <2> QED BY <1>7, <2>1 DEF SwapIn
<1>9. pc'[t] = "exec" /\ OnlyThread(t) /\ Cur(t)' = f
  BY <1>1, <1>2, <1>8 DEF Goto, OnlyThread, IndInv, Shape, Cur
<1>10. \A g \in Fibers : m_cb[g] = j => g = f BY <1>5, JobFacts
<1>11. j \in submitted \ done BY <1>5, JobFacts
<1>12. OneAt(j) /\ At(j, "relay", f) BY <1>5 DEF PoolInv, Things, At, CbOf
<1>13. ~InCbs(j) /\ \A u \in Threads : ~GotCbBy(j, u)
  <2>1. ~At(j, "cb", None) /\ \A u \in Threads : ~At(j, "gotcb", u)
    BY <1>12 DEF OneAt, Kinds, Whom
  <2> QED BY <2>1 DEF At
<1>14. ~InQueue(f) /\ \A u \in Threads : ~HeldBy(f, u) /\ (GotBy(f, u) => u = t)
  <2>1. ~At(f, "run", None) /\ \A u \in Threads : At(f, "got", u) => u = t
    BY <1>3 DEF OneAt, Kinds, Whom
  <2>2. ~Held(f) BY <1>4 DEF TokenOK
  <2> QED BY <2>1, <2>2 DEF At, Held
<1>15. OnlyPopped(t, j)
  <2> SUFFICES ASSUME NEW e \in Marked, Carries(e, j)
               PROVE ~HasEntry(e) /\ \A u \in Threads \ {t} : ~(pc[u] = "got" /\ ft[u] = e)
      BY DEF OnlyPopped
  <2>1. e.fiber \in Fibers \cup {None} BY DEF Marked, Entries
  <2>2. e.cb = j \/ e.fiber = f BY <1>10, <2>1 DEF Carries
  <2> QED BY <1>13, <1>14, <2>2 DEF HasEntry, InQueue, InCbs, GotBy, GotCbBy
<1>16. \A x \in Jobs : Carries(ft[t], x) <=> x = j
  BY <1>1, <1>2, <1>5 DEF Carries, Proper
<1>17. \A g \in Fibers : m_cb'[g] = m_cb[g] BY <1>8
<1>18. /\ Pinned' = Pinned \ ({j} \X Threads)
       /\ \A u \in Threads : <<j, u>> \in Pinned => ft[t].thread = u
  BY <1>1, <1>8, <1>9, <1>15, <1>16, <1>17, PinsDropped
<1>19. \A u \in Threads : <<j, u>> \in Pinned => u = t
  <2>1. ft[t].thread \in {None, t} BY <1>1 DEF PinInv
  <2>2. None \notin Threads BY DEF Threads
  <2> QED BY <1>18, <2>1, <2>2
<1>20. Running' = [Running EXCEPT ![t] = j]
  <2>1. OnThread(t)' = j BY <1>5, <1>8, <1>9 DEF OnThread, OnStack
  <2> QED BY <1>9, <1>17, <2>1, OthersRun
<1>21. Running[t] = None /\ \A u \in Threads : Running[u] # j
  <2>1. ASSUME NEW u \in Threads, OnThread(u) = j PROVE FALSE
    <3>1. pc[u] \in InHand /\ m_cb[Cur(u)] = j BY <2>1 DEF OnThread, InHand
    <3>2. Cur(u) \in Fibers /\ HeldBy(Cur(u), u) BY <3>1, JobFacts DEF HeldBy
    <3>3. Cur(u) = f BY <1>10, <3>1, <3>2
    <3> QED BY <1>14, <3>2, <3>3
  <2> QED BY <1>1, <2>1 DEF Running, OnThread, OnStack
<1>22. j \notin Waiters BY <1>5, <1>6, <1>10 DEF Waiters
<1>23. Waiters' = Waiters BY <1>8 DEF Waiters
<1>24. Pool!Run(t, j)
  BY <1>8, <1>11, <1>18, <1>19, <1>20, <1>21, <1>22, <1>23 DEF Pool!Run, Running, Waiters
<1> QED BY <1>24 DEF Mapped, Pool!Next

\* swapIn() of cb_fiber: a job starts, or the callback of a sleep does.
LEMMA SwapInCbMaps ==
  ASSUME IndInv, IndInv', PoolInv, PinInv, NEW t \in Threads, SwapInCb(t)
  PROVE  Mapped
<1> USE DEF counters, fibers, slot, idler, rest, flags, owner, jobs, threads
<1>1. pc[t] = "got" /\ ft[t].fiber = None /\ Proper(ft[t]) BY DEF SwapInCb, PoolInv, ThreadOK
<1>2. PICK c \in Things : c = ft[t].cb BY <1>1 DEF Proper, IndInv, Shape, Entries, Things
<1>3. At(c, "gotcb", t) /\ OneAt(c) BY <1>1, <1>2 DEF At, GotCbBy, PoolInv
<1>4. PICK f \in Fibers :
        /\ IF cb_fiber[t] # None THEN f = cb_fiber[t] ELSE m_state[f] = "FREE"
        /\ IF m_state[f] \notin Finished \cup {"INIT", "FREE"} THEN Fail("reset")
           ELSE /\ m_state' = [m_state EXCEPT ![f] = "EXEC"]
                /\ m_cb' = [m_cb EXCEPT ![f] = ft[t].cb]
                /\ cb_fiber' = [cb_fiber EXCEPT ![t] = f]
                /\ ft' = [ft EXCEPT ![t] = NoTask]
                /\ Goto(t, "exec")
                /\ UNCHANGED <<m_fibers, counters, waiting, idler, rest>>
  BY DEF SwapInCb
<1>5. "got" \notin InHand BY DEF InHand, OnStack
<1>6. ~Held(f) /\ \A k \in Kinds, a \in Whom : At(f, k, a) => k = "spare" /\ a = t
  <2>1. OneAt(f) BY DEF PoolInv, Things
  <2>2. CASE cb_fiber[t] # None
    <3>1. At(f, "spare", t) BY <1>1, <1>4, <1>5, <2>2 DEF At, SpareOf
    <3>2. TokenOK(f, "spare", t) BY <3>1 DEF PoolInv, FiberOK, Kinds, Whom
    <3> QED BY <2>1, <3>1, <3>2 DEF TokenOK, OneAt, Kinds, Whom
  <2>3. CASE cb_fiber[t] = None
    <3>1. m_state[f] = "FREE" BY <1>4, <2>3
    <3> QED BY <2>1, <3>1 DEF PoolInv, FiberOK, Placed
  <2> QED BY <2>2, <2>3
<1>7. Loose(f) /\ waiting[f] = "no" /\ \A u \in Threads : ~HeldBy(f, u)
  <2>1. ~At(f, "run", None) /\ ~At(f, "wait", None) /\ \A u \in Threads : ~At(f, "got", u)
    BY <1>6 DEF Kinds, Whom
  <2> QED BY <1>6, <2>1 DEF At, Loose, Held, Parked
<1>8. failed' = failed BY SwapInCbPool
<1>9. /\ m_cb' = [m_cb EXCEPT ![f] = c] /\ cb_fiber' = [cb_fiber EXCEPT ![t] = f]
      /\ ft' = [ft EXCEPT ![t] = NoTask] /\ Goto(t, "exec")
      /\ UNCHANGED <<m_fibers, waiting, fired, submitted, done>>
  <2>1. Alive /\ Fail("reset") => failed' # failed BY DEF Fail, Alive
  <2> QED BY <1>2, <1>4, <1>8, <2>1 DEF SwapInCb
<1>10. m_cb'[f] = c /\ \A g \in Fibers : g # f => m_cb'[g] = m_cb[g] BY <1>9 DEF IndInv, Shape
<1>11. pc'[t] = "exec" /\ OnlyThread(t) /\ Cur(t)' = f
  BY <1>9 DEF Goto, OnlyThread, IndInv, Shape, Cur, NoTask, Task
<1>12. /\ ~InCbs(c) /\ \A g \in Fibers : m_cb[g] # c
       /\ \A u \in Threads : GotCbBy(c, u) => u = t
  <2>1. /\ ~At(c, "cb", None) /\ \A g \in Fibers : ~At(c, "relay", g)
        /\ \A u \in Threads : At(c, "gotcb", u) => u = t
    BY <1>3 DEF OneAt, Kinds, Whom
  <2> QED BY <2>1 DEF At, CbOf
<1>13. OnlyPopped(t, c)
  <2> SUFFICES ASSUME NEW e \in Marked, Carries(e, c)
               PROVE ~HasEntry(e) /\ \A u \in Threads \ {t} : ~(pc[u] = "got" /\ ft[u] = e)
      BY DEF OnlyPopped
  <2>1. e.fiber \in Fibers \cup {None} BY DEF Marked, Entries
  <2>2. e.cb = c BY <1>12, <2>1 DEF Carries
  <2> QED BY <1>12, <2>2 DEF HasEntry, InCbs, GotCbBy
<1>14. \A x \in Jobs : Carries(ft[t], x) <=> x = c BY <1>1, <1>2 DEF Carries
<1>15. /\ Pinned' = Pinned \ ({c} \X Threads)
       /\ \A u \in Threads : <<c, u>> \in Pinned => ft[t].thread = u
  BY <1>1, <1>7, <1>9, <1>10, <1>11, <1>13, <1>14, PinsDropped
<1>16. Running' = [Running EXCEPT ![t] = OnThread(t)'] BY <1>7, <1>10, <1>11, OthersRun
<1>17. OnThread(t)' = IF c \in Jobs THEN c ELSE None BY <1>10, <1>11 DEF OnThread, OnStack
<1>18. Running[t] = None BY <1>1 DEF Running, OnThread, OnStack
<1>19. Waiters' = Waiters
  <2>1. \A g \in Fibers : waiting'[g] = waiting[g] /\ (waiting[g] # "no" => m_cb'[g] = m_cb[g])
    BY <1>7, <1>9, <1>10
  <2> QED BY <2>1, WaitersKept
<1>20. CASE c \in Jobs
  <2>1. c \in submitted \ done
    <3>1. Placed(c) BY <1>3 DEF Placed, Kinds, Whom
    <3> QED BY <1>20, <3>1 DEF PoolInv, JobOK, Unfinished
  <2>2. \A u \in Threads : <<c, u>> \in Pinned => u = t
    <3>1. ft[t].thread \in {None, t} BY <1>1 DEF PinInv
    <3>2. None \notin Threads BY DEF Threads
    <3> QED BY <1>15, <3>1, <3>2
  <2>3. \A u \in Threads : Running[u] # c
    <3>1. ASSUME NEW u \in Threads, OnThread(u) = c PROVE FALSE
      <4>1. pc[u] \in InHand /\ m_cb[Cur(u)] = c BY <1>20, <3>1 DEF OnThread, InHand
      <4>2. Cur(u) \in Fibers BY <4>1, JobFacts
      <4> QED BY <1>12, <4>1, <4>2
    <3> QED BY <3>1 DEF Running
  <2>4. c \notin Waiters BY <1>12 DEF Waiters
  <2>5. Pool!Run(t, c)
    BY <1>9, <1>15, <1>16, <1>17, <1>18, <1>19, <1>20, <2>1, <2>2, <2>3, <2>4
    DEF Pool!Run, Running, Waiters
  <2> QED BY <1>20, <2>5 DEF Mapped, Pool!Next
<1>21. CASE c \notin Jobs
  <2>1. Pinned' = Pinned BY <1>15, <1>21 DEF Pinned
  <2>2. Running' = Running BY <1>16, <1>17, <1>18, <1>21 DEF Running
  <2> QED BY <1>9, <1>19, <2>1, <2>2, Stutters
<1> QED BY <1>20, <1>21

\* schedule() of a new job.
LEMMA ScheduleMaps ==
  ASSUME IndInv, IndInv', PoolInv, NEW j, NEW pin \in Pins, Schedule(j, pin)
  PROVE  Mapped
<1> USE DEF counters, fibers, slot, idler, rest, flags, owner, jobs, threads
<1>1. /\ j \in Jobs \ submitted /\ submitted' = submitted \cup {j}
      /\ UNCHANGED <<waiting, pc, ft, cb_fiber, fired, done>>
  BY DEF Schedule
<1>2. pin \in Threads \cup {None} /\ None \notin Threads BY DEF Threads
<1>3. PICK e \in Entries :
        /\ m_fibers' = Append(m_fibers, e) /\ e.thread = pin
        /\ \A x \in Jobs : Carries(e, x)' <=> x = j
        /\ \A g \in Fibers : \/ m_cb'[g] = m_cb[g]
                             \/ Loose(g) /\ waiting[g] = "no" /\ \A u \in Threads : ~HeldBy(g, u)
  <2>1. CASE m_fibers' = Append(m_fibers, Task(None, j, pin)) /\ UNCHANGED fibers
    <3>1. PICK e \in Entries : e = Task(None, j, pin) BY <1>1, <1>2 DEF Task, Entries
    <3>2. e.thread = pin /\ \A x \in Jobs : Carries(e, x)' <=> x = j
      BY <3>1 DEF Task, Carries
    <3> QED BY <2>1, <3>1, <3>2
  <2>2. ASSUME NEW f \in Fibers, m_state[f] = "FREE", m_cb' = [m_cb EXCEPT ![f] = j],
               m_fibers' = Append(m_fibers, Task(f, None, pin))
        PROVE  \E e \in Entries :
                 /\ m_fibers' = Append(m_fibers, e) /\ e.thread = pin
                 /\ \A x \in Jobs : Carries(e, x)' <=> x = j
                 /\ \A g \in Fibers : \/ m_cb'[g] = m_cb[g]
                                      \/ Loose(g) /\ waiting[g] = "no" /\ \A u \in Threads : ~HeldBy(g, u)
    <3>1. PICK e \in Entries : e = Task(f, None, pin) BY <1>2 DEF Task, Entries
    <3>2. m_cb'[f] = j /\ \A g \in Fibers : g # f => m_cb'[g] = m_cb[g]
      BY <2>2 DEF IndInv, Shape
    <3>3. e.thread = pin /\ \A x \in Jobs : Carries(e, x)' <=> x = j
      BY <3>1, <3>2 DEF Task, Carries
    <3>4. ~Placed(f) /\ ~Held(f) BY <2>2 DEF PoolInv, FiberOK
    <3>5. Loose(f) /\ waiting[f] = "no" /\ \A u \in Threads : ~HeldBy(f, u)
      BY <3>4, Unplaced DEF Held
    <3> QED BY <2>2, <3>1, <3>2, <3>3, <3>4, <3>5
  <2> QED BY <2>1, <2>2 DEF Schedule
<1>4. \A x : HasEntry(x)' <=> HasEntry(x) \/ x = e BY <1>3, EntryAppend DEF IndInv, Shape
<1>5. Marked' = Marked \cup (IF pin = None THEN {} ELSE {e})
  <2>1. \A x : Popped(x)' <=> Popped(x) BY <1>1 DEF Popped
  <2> QED BY <1>3, <1>4, <2>1 DEF Marked
<1>6. PICK P : P = IF pin = None THEN {} ELSE {<<j, pin>>} OBVIOUS
<1>7. Pinned' = Pinned \cup P
  <2>1. Pinned = ByMarks BY PinnedMarked
  <2>2. (Pinned = ByMarks)' BY PinnedMarked, PTL
  <2>3. \A x \in Marked : \A i : Carries(x, i)' <=> Carries(x, i) BY <1>3, CarriesKept
  <2>4. ASSUME NEW p \in Jobs \X Threads
        PROVE  p \in ByMarks' <=> p \in ByMarks \/ p \in P
    <3>1. p[1] \in Jobs /\ p[2] \in Threads /\ p = <<p[1], p[2]>> OBVIOUS
    <3>2. p \in ByMarks' <=> \/ \E x \in Marked : x.thread = p[2] /\ Carries(x, p[1])'
                             \/ pin # None /\ e.thread = p[2] /\ Carries(e, p[1])'
      BY <1>5 DEF ByMarks
    <3>3. (pin # None /\ e.thread = p[2] /\ Carries(e, p[1])') <=> p \in P
      BY <1>3, <1>6, <3>1
    <3> QED BY <2>3, <3>2, <3>3 DEF ByMarks
  <2>5. P \subseteq Jobs \X Threads BY <1>1, <1>2, <1>6
  <2> QED BY <2>1, <2>2, <2>4, <2>5 DEF ByMarks
<1>8. Running' = Running
  <2>1. PICK t \in Threads : t = Caller BY DEF Threads
  <2>2. OnlyThread(t) BY <1>1 DEF OnlyThread
  <2>3. Running' = [Running EXCEPT ![t] = OnThread(t)'] BY <1>3, <2>2, OthersRun
  <2>4. OnThread(t)' = OnThread(t)
    <3>1. Cur(t)' = Cur(t) /\ pc'[t] = pc[t] BY <1>1 DEF Cur
    <3>2. ASSUME pc[t] \in OnStack PROVE m_cb'[Cur(t)] = m_cb[Cur(t)]
      <4>1. Cur(t) \in Fibers /\ HeldBy(Cur(t), t) BY <3>2, JobFacts DEF HeldBy, InHand
      <4> QED BY <1>3, <4>1
    <3> QED BY <3>1, <3>2 DEF OnThread
  <2> QED BY <2>3, <2>4 DEF Running
<1>9. Waiters' = Waiters
  <2>1. \A g \in Fibers : waiting'[g] = waiting[g] /\ (waiting[g] # "no" => m_cb'[g] = m_cb[g])
    BY <1>1, <1>3
  <2> QED BY <2>1, WaitersKept
<1>10. P \subseteq {j} \X Threads /\ P \in SUBSET (Jobs \X Threads) BY <1>1, <1>2, <1>6
<1>11. Pool!Submit(j, P) BY <1>1, <1>7, <1>8, <1>9, <1>10 DEF Pool!Submit, Running, Waiters
<1> QED BY <1>1, <1>10, <1>11 DEF Mapped, Pool!Next

\* What fibers wait for happens.
LEMMA WakeMaps ==
  ASSUME IndInv, IndInv', PoolInv, NEW f \in Fibers, Wake(f)
  PROVE  Mapped
<1> USE DEF counters, fibers, slot, idler, rest, flags, owner, jobs, threads
<1>1. PICK t \in Threads : Trigger(t, f) \/ \E due \in SUBSET Fibers : f \in due /\ Expire(t, due)
  BY DEF Wake
<1>2. PICK e \in Entries : e = Task(f, None, None) BY DEF Task, Entries
<1>3. PICK D \in SUBSET Fibers :
        /\ \A g \in D : waiting[g] # "no" /\ waiting'[g] = "no"
        /\ \A g \in Fibers \ D : waiting'[g] = waiting[g]
        /\ m_fibers' \in {m_fibers, Append(m_fibers, e)}
        /\ pc[t] \in {"poll", "events"} /\ \E l \in {"fire", "trig"} : Goto(t, l)
        /\ \E x : fired' = [fired EXCEPT ![t] = x]
        /\ UNCHANGED <<m_cb, ft, cb_fiber, submitted, done>>
  <2>1. CASE Trigger(t, f)
    <3>1. waiting[f] # "no" /\ waiting'[f] = "no" /\ \A g \in Fibers \ {f} : waiting'[g] = waiting[g]
      BY <2>1 DEF Trigger, IndInv, Shape
    <3>2. fired = [fired EXCEPT ![t] = fired[t]] BY DEF IndInv, Shape
    <3>3. /\ m_fibers' = Append(m_fibers, e) /\ pc[t] \in {"poll", "events"} /\ Goto(t, "trig")
          /\ UNCHANGED <<m_cb, ft, cb_fiber, submitted, done, fired>>
      BY <1>2, <2>1 DEF Trigger
    <3>4. {f} \in SUBSET Fibers OBVIOUS
    <3> QED BY <3>1, <3>2, <3>3, <3>4
  <2>2. ASSUME NEW due \in SUBSET Fibers, Expire(t, due)
        PROVE  /\ \A g \in due : waiting[g] # "no" /\ waiting'[g] = "no"
               /\ \A g \in Fibers \ due : waiting'[g] = waiting[g]
               /\ m_fibers' = m_fibers /\ pc[t] = "poll" /\ Goto(t, "fire")
               /\ fired' = [fired EXCEPT ![t] = due]
               /\ UNCHANGED <<m_cb, ft, cb_fiber, submitted, done>>
    BY <2>2 DEF Expire
  <2> QED BY <1>1, <2>1, <2>2
<1>4. pc'[t] \in {"fire", "trig"} /\ OnlyThread(t) BY <1>3 DEF Goto, OnlyThread, IndInv, Shape
<1>5. \A x : x.thread # None => (HasEntry(x)' <=> HasEntry(x))
  <2>1. m_fibers \in Seq(Entries) /\ e.thread = None BY <1>2 DEF IndInv, Shape, Task
  <2>2. CASE m_fibers' = m_fibers BY <2>2 DEF HasEntry
  <2>3. CASE m_fibers' = Append(m_fibers, e) BY <2>1, <2>3, EntryAppend
  <2> QED BY <1>3, <2>2, <2>3
<1>6. OnThread(t)' = None /\ OnThread(t) = None BY <1>3, <1>4 DEF OnThread, OnStack
<1>7. Pinned' = Pinned /\ Running' = [Running EXCEPT ![t] = None]
  BY <1>3, <1>4, <1>5, <1>6, ThreadMaps
<1>8. Running' = Running BY <1>6, <1>7 DEF Running
<1>9. PICK S : S = {m_cb[g] : g \in D} OBVIOUS
<1>10. Waiters' = Waiters \ S /\ S \subseteq Jobs BY <1>3, <1>9, WaitersGone
<1>11. Pool!Occur(S) BY <1>3, <1>7, <1>8, <1>10 DEF Pool!Occur, Running, Waiters
<1> QED BY <1>10, <1>11 DEF Mapped, Pool!Next

\* Expired callbacks are queued without a pin.
LEMMA ScheduleExpiredMaps ==
  ASSUME IndInv, IndInv', PoolInv, NEW t \in Threads, ScheduleExpired(t)
  PROVE  Mapped
<1> USE DEF counters, fibers, slot, idler, rest, flags, owner, jobs, threads
<1>1. PICK due \in SUBSET Fibers : due = fired[t] BY DEF IndInv, Shape
<1>2. /\ pc[t] = "fire" /\ Goto(t, "events") /\ fired' = [fired EXCEPT ![t] = {}]
      /\ UNCHANGED <<m_cb, waiting, ft, cb_fiber, submitted, done>>
  BY DEF ScheduleExpired
<1>3. pc'[t] = "events" /\ OnlyThread(t) BY <1>2 DEF Goto, OnlyThread, IndInv, Shape
<1>4. \A x : x.thread # None => (HasEntry(x)' <=> HasEntry(x))
  <2>1. PICK k \in Nat : k = Cardinality(due) BY FS_Subset, FS_CardinalityType
  <2>2. PICK cbs \in [1..k -> due] :
          m_fibers' = m_fibers \o [i \in DOMAIN cbs |-> Task(None, cbs[i], None)]
    BY <1>1, <2>1 DEF ScheduleExpired
  <2>3. PICK q : q = [i \in 1..k |-> Task(None, cbs[i], None)] OBVIOUS
  <2>4. m_fibers' = m_fibers \o q BY <2>2, <2>3
  <2>5. q \in [1..k -> Entries] /\ \A i \in 1..k : q[i].thread = None
    BY <2>2, <2>3 DEF Task, Entries
  <2> QED BY <2>4, <2>5, EntryConcat DEF IndInv, Shape
<1>5. OnThread(t)' = None /\ OnThread(t) = None BY <1>2, <1>3 DEF OnThread, OnStack
<1>6. Pinned' = Pinned /\ Running' = [Running EXCEPT ![t] = None]
  BY <1>2, <1>3, <1>4, <1>5, ThreadMaps
<1>7. Running' = Running BY <1>5, <1>6 DEF Running
<1>8. Waiters' = Waiters BY <1>2 DEF Waiters
<1> QED BY <1>2, <1>6, <1>7, <1>8, Stutters

\* Nothing but the pop brings a thread to the swapIn() behind it.
LEMMA PinStep ==
  ASSUME IndInv, PinInv, Next \/ UNCHANGED vars
  PROVE  PinInv'
<1> USE DEF vars, counters, fibers, slot, idler, rest, flags, owner, jobs, threads
<1> DEFINE Fewer == \A u \in Threads : pc'[u] = "got" => pc[u] = "got" /\ ft'[u] = ft[u]
<1>1. Fewer => PinInv' BY DEF PinInv
<1>2. pc \in [Threads -> PCs] /\ ft \in [Threads -> Entries] BY DEF IndInv, Shape
<1>3. ASSUME NEW t \in Threads, NEW l, l # "got", Goto(t, l), pc[t] # "got" \/ ft' = ft,
             \A u \in Threads \ {t} : ft'[u] = ft[u]
      PROVE  Fewer
  BY <1>2, <1>3 DEF Goto
<1>4. ASSUME NEW t \in Threads, Take(t) PROVE PinInv'
  <2>1. PICK i \in DOMAIN m_fibers :
          Goto(t, "got") /\ ft' = [ft EXCEPT ![t] = m_fibers[i]] /\ FirstFor(t, i)
    BY <1>4 DEF Take, TakeLeaving
  <2>2. m_fibers[i].thread \in {None, t} BY <2>1 DEF FirstFor, Eligible
  <2> QED BY <1>2, <2>1, <2>2 DEF Goto, PinInv
<1>5. ASSUME NEW t \in Threads, ThreadStep(t), ~Take(t) PROVE Fewer
  <2>1. CASE SwapIn(t) \/ SwapInCb(t)
    <3>1. CASE pc' = pc /\ ft' = ft BY <3>1
    <3>2. CASE Goto(t, "exec") /\ (ft' = ft \/ ft' = [ft EXCEPT ![t] = NoTask])
      BY <1>2, <3>2 DEF Goto
    <3> QED BY <2>1, <3>1, <3>2 DEF SwapIn, SwapInCb, Fail
  <2>2. CASE Body(t)
    <3>1. ft' = ft /\ (pc' = pc \/ \E l \in {"switch", "reg"} : Goto(t, l))
      BY <2>2 DEF Body, Finish, Relay, YieldToReady, Register, YieldToHold, Spawn, Schedule, Fail
    <3> QED BY <1>3, <3>1
  <2>3. CASE SwapOut(t) \/ Post(t) \/ Settle(t) \/ Hold(t)
    <3>1. /\ pc[t] # "got" /\ \E l \in {"post", "settle", "scan", "hold"} : Goto(t, l)
          /\ ft' = ft \/ ft' = [ft EXCEPT ![t] = NoTask]
      BY <2>3 DEF SwapOut, Post, PostBy, Settle, Hold, HoldLeaving
    <3> QED BY <1>2, <1>3, <3>1
  <2>4. CASE ScheduleExpired(t)
    <3>1. ft' = ft /\ Goto(t, "events") BY <2>4 DEF ScheduleExpired
    <3> QED BY <1>3, <3>1
  <2>5. CASE \/ GoIdle(t) \/ Exit(t) \/ ReadTimers(t) \/ ReadPending(t) \/ ReadQueue(t)
             \/ DropPending(t) \/ LeaveIdle(t)
    <3>1. Quiet BY <2>5, IdleQuiet
    <3> QED BY <3>1 DEF Quiet, Empty
  <2> QED BY <1>5, <2>1, <2>2, <2>3, <2>4, <2>5 DEF ThreadStep
<1>6. CASE MainStep \/ Ended \/ UNCHANGED vars
  <2>1. Quiet BY <1>6, OwnerQuiet
  <2>2. Fewer BY <2>1 DEF Quiet, Empty
  <2> QED BY <1>1, <2>2
<1>7. CASE (\E j \in Jobs, pin \in Pins : Submit(j, pin)) \/ (\E f \in Fibers : ScheduleAgain(f))
  <2>1. pc' = pc /\ ft' = ft BY <1>7 DEF Submit, Schedule, ScheduleAgain
  <2> QED BY <1>1, <2>1
<1>8. CASE \E f \in Fibers : Wake(f)
  <2>1. PICK t \in Threads : ft' = ft /\ \E l \in {"trig", "fire"} : Goto(t, l)
    BY <1>8 DEF Wake, Trigger, Expire
  <2>2. Fewer BY <1>3, <2>1
  <2> QED BY <1>1, <2>2
<1> QED BY <1>1, <1>4, <1>5, <1>6, <1>7, <1>8 DEF Next

\* Every step of the scheduler is one of the pool, or none, as long as no fiber
\* is in two hands.
LEMMA StepMaps ==
  ASSUME IndInv, PoolInv, PinInv, doubled' = {}, Next \/ UNCHANGED vars
  PROVE  Mapped
<1>1. IndInv' BY NextInv
<1>2. ASSUME NEW j \in Jobs, NEW pin \in Pins, Submit(j, pin) PROVE Mapped
  <2>1. Schedule(j, pin) BY <1>2 DEF Submit
  <2> QED BY <1>1, <2>1, ScheduleMaps
<1>3. ASSUME NEW f \in Fibers, Wake(f) PROVE Mapped BY <1>1, <1>3, WakeMaps
<1>4. ASSUME NEW f \in Fibers, ScheduleAgain(f) PROVE FALSE BY <1>4 DEF ScheduleAgain
<1>5. CASE MainStep \/ Ended \/ UNCHANGED vars
  <2>1. Quiet BY <1>5, OwnerQuiet
  <2> QED BY <1>1, <2>1, QuietMaps
<1>6. ASSUME NEW t \in Threads, Body(t) PROVE Mapped
  <2>1. ASSUME NEW s \in Finished, Finish(t, s) PROVE Mapped BY <1>1, <2>1, FinishMaps
  <2>2. CASE Relay(t) BY <1>1, <2>2, RelayMaps
  <2>3. CASE YieldToReady(t) \/ YieldToHold(t) BY <1>1, <2>3, YieldMaps
  <2>4. ASSUME NEW w \in Waits, Register(t, w) PROVE Mapped BY <1>1, <2>4, RegisterMaps
  <2>5. ASSUME NEW j \in Jobs, NEW pin \in Pins, Spawn(t, j, pin) PROVE Mapped
    <3>1. Schedule(j, pin) BY <2>5 DEF Spawn
    <3> QED BY <1>1, <3>1, ScheduleMaps
  <2> QED BY <1>6, <2>1, <2>2, <2>3, <2>4, <2>5 DEF Body
<1>7. ASSUME NEW t \in Threads, ThreadStep(t) PROVE Mapped
  <2>1. CASE Take(t) BY <1>1, <2>1, TakeMaps
  <2>2. CASE SwapIn(t) BY <1>1, <2>2, SwapInMaps
  <2>3. CASE SwapInCb(t) BY <1>1, <2>3, SwapInCbMaps
  <2>4. CASE SwapOut(t) \/ Post(t) BY <1>1, <2>4, YieldMaps
  <2>5. CASE Settle(t) \/ Hold(t) BY <1>1, <2>5, SettleMaps
  <2>6. CASE ScheduleExpired(t) BY <1>1, <2>6, ScheduleExpiredMaps
  <2>7. CASE \/ GoIdle(t) \/ Exit(t) \/ ReadTimers(t) \/ ReadPending(t) \/ ReadQueue(t)
             \/ DropPending(t) \/ LeaveIdle(t)
    <3>1. Quiet BY <2>7, IdleQuiet
    <3> QED BY <1>1, <3>1, QuietMaps
  <2> QED BY <1>6, <1>7, <2>1, <2>2, <2>3, <2>4, <2>5, <2>6, <2>7 DEF ThreadStep
<1> QED BY <1>2, <1>3, <1>4, <1>5, <1>7 DEF Next

\* The scheduler implements JobPool, for any number of threads, fibers and
\* jobs, with yields, sleeps and events, wake-ups that come before the fiber has
\* parked, jobs that schedule jobs, and jobs that come while stop() runs: a job
\* runs on one thread at a time, goes on only after what it waits for has
\* happened, starts on the thread it is pinned to, and never runs again once it
\* has returned. It does so up to the step by which a fiber is scheduled twice, or
\* popped while another thread still has it.
THEOREM PoolTheorem == Spec => IsJobPool
<1>1. Init => Pool!Init
  <2> SUFFICES ASSUME Init PROVE Pool!Init OBVIOUS
  <2>1. Pinned = {} BY DEF Init, Pinned
  <2>2. [t \in Threads |-> OnThread(t)] = [t \in Threads |-> None]
    BY DEF Init, OnThread, OnStack
  <2>3. {m_cb[f] : f \in {f \in Fibers : waiting[f] # "no"}} = {} BY DEF Init
  <2> QED BY <2>1, <2>2, <2>3 DEF Init, Pool!Init
<1>2. Init => OrderInv /\ PinInv
  <2>1. Init => PinInv BY DEF Init, PinInv
  <2> QED BY <2>1, OrderInit
<1>3. OrderInv /\ PinInv /\ [Next]_vars => (OrderInv /\ PinInv)'
  BY OrderStep, PinStep DEF OrderInv
<1>4. OrderInv /\ PinInv /\ [Next]_vars => [doubled' = {} => Pool!Next \/ UNCHANGED Pool!vars]_vars
  <2> SUFFICES ASSUME OrderInv, PinInv, [Next]_vars, doubled' = {}
               PROVE Pool!Next \/ UNCHANGED Pool!vars
      OBVIOUS
  <2>1. doubled = {} BY DoubledStays
  <2>2. Mapped BY <2>1, StepMaps DEF OrderInv
  <2> QED BY <2>2 DEF Mapped
<1> QED BY <1>1, <1>2, <1>3, <1>4, PTL DEF Spec, IsJobPool
=============================================================================
