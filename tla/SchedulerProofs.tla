-------------------------- MODULE SchedulerProofs --------------------------
(* Proofs about Scheduler, for every set of workers, fibers and jobs, every *)
(* bound and every setting of the switches.                                 *)
EXTENDS Scheduler, FiniteSetTheorems, SequenceTheorems, TLAPS

\* 1 when v counts for P, 0 otherwise.
Bit(v, P) == IF v \in P THEN 1 ELSE 0

\* g and h agree on S except perhaps at a.
AgreeBut(S, g, h, a) == \A x \in S \ {a} : h[x] = g[x]

\* What changing a function at one point does to a count over its domain.
LEMMA NumMove ==
  ASSUME NEW S, IsFiniteSet(S), NEW g, NEW h, NEW a \in S, NEW P,
         AgreeBut(S, g, h, a)
  PROVE  /\ Num(S, g, P) \in Nat
         /\ Num(S, h, P) = Num(S, g, P) + Bit(h[a], P) - Bit(g[a], P)
<1> DEFINE G == {x \in S : g[x] \in P}
           H == {x \in S : h[x] \in P}
<1>1. IsFiniteSet(G) /\ IsFiniteSet(H)
  BY FS_Subset
<1>2. Cardinality(G) \in Nat /\ Cardinality(H) \in Nat
  BY <1>1, FS_CardinalityType
<1>7. Num(S, g, P) = Cardinality(G) /\ Num(S, h, P) = Cardinality(H)
  BY DEF Num
<1> HIDE DEF G, H, AgreeBut
<1>4. CASE h[a] \in P /\ g[a] \notin P
  <2>1. H = G \cup {a} /\ a \notin G
    BY <1>4 DEF G, H, AgreeBut
  <2>2. Cardinality(H) = Cardinality(G) + 1
    BY <2>1, <1>1, FS_AddElement
  <2> QED  BY <2>2, <1>2, <1>4, <1>7 DEF Bit
<1>5. CASE h[a] \notin P /\ g[a] \in P
  <2>1. G = H \cup {a} /\ a \notin H
    BY <1>5 DEF G, H, AgreeBut
  <2>2. Cardinality(G) = Cardinality(H) + 1
    BY <2>1, <1>1, FS_AddElement
  <2> QED  BY <2>2, <1>2, <1>5, <1>7 DEF Bit
<1>6. CASE (h[a] \in P) <=> (g[a] \in P)
  <2>1. H = G
    BY <1>6 DEF G, H, AgreeBut
  <2> QED  BY <2>1, <1>2, <1>6, <1>7 DEF Bit
<1> QED  BY <1>4, <1>5, <1>6

\* Erasing an entry of the queue leaves a queue of entries.
LEMMA RemoveAtType ==
  ASSUME NEW S, NEW s \in Seq(S), NEW i \in 1..Len(s)
  PROVE  RemoveAt(s, i) \in Seq(S)
<1>1. SubSeq(s, 1, i - 1) \in Seq(S) /\ SubSeq(s, i + 1, Len(s)) \in Seq(S)
  BY SubSeqProperties
<1> QED  BY <1>1, ConcatProperties DEF RemoveAt

\* A thread past the dispatch and before its next scan has a fiber in hand.
HandInv == \A t \in Threads : pc[t] \in InHand => Cur(t) \in Fibers

\* No thread runs before start(), nor the caller before m_rootFiber->call().
OffInv ==
  /\ main = "new" => \A t \in Threads : pc[t] = "off"
  /\ m_rootFiber = "INIT" => pc[Caller] = "off"

\* Everything TypeOK says except that the counters are natural numbers.
Shape ==
  /\ m_fibers \in Seq(Entries)
  /\ m_stopping \in BOOLEAN /\ m_autoStop \in BOOLEAN
  /\ m_rootFiber \in {None, "INIT", "EXEC", "TERM"}
  /\ m_state \in [Fibers -> FiberStates]
  /\ m_cb \in [Fibers -> Jobs \cup Fibers \cup {None, Over}]
  /\ waiting \in [Fibers -> {"no", "timer", "event"}]
  /\ pc \in [Threads -> PCs]
  /\ ft \in [Threads -> Entries]
  /\ cb_fiber \in [Threads -> Fibers \cup {None}]
  /\ idleTerm \in [Threads -> BOOLEAN]
  /\ look \in [Threads -> 0..2]
  /\ fired \in [Threads -> SUBSET Fibers]
  /\ main \in MainPCs /\ stops \in 0..MaxStops /\ fuel \in 0..MaxYields
  /\ submitted \subseteq Jobs /\ done \subseteq Jobs
  /\ failed \subseteq Failures /\ doubled \subseteq Fibers

IndInv == Shape /\ CountersExact /\ HandInv /\ OffInv

\* The sets that are counted are finite.
LEMMA ThreadsFinite == IsFiniteSet(Threads) /\ IsFiniteSet(Fibers) /\ Caller \in Threads
BY ConfigAssumption, FS_AddElement DEF Threads

\* What a step of thread t to label l does to a count of threads.
LEMMA PcMove ==
  ASSUME NEW t \in Threads, NEW l, NEW P, Shape, Goto(t, l)
  PROVE  /\ Num(Threads, pc, P) \in Nat
         /\ Num(Threads, pc', P) = Num(Threads, pc, P) + Bit(l, P) - Bit(pc[t], P)
<1>1. pc'[t] = l /\ AgreeBut(Threads, pc, pc', t)
  BY DEF Shape, Goto, AgreeBut
<1>2. IsFiniteSet(Threads)
  BY ThreadsFinite
<1>3. /\ Num(Threads, pc, P) \in Nat
      /\ Num(Threads, pc', P) = Num(Threads, pc, P) + Bit(pc'[t], P) - Bit(pc[t], P)
  BY <1>1, <1>2, NumMove
<1> QED  BY <1>1, <1>3

\* The counts CountersExact speaks of are natural numbers.
LEMMA NumNat ==
  ASSUME Shape
  PROVE  /\ Num(Threads, pc, Active) \in Nat /\ Num(Threads, pc, Idling) \in Nat
         /\ Num(Threads, pc, {"trig"}) \in Nat /\ Num(Fibers, waiting, {"event"}) \in Nat
<1>1. \A S, g, P : IsFiniteSet(S) => Num(S, g, P) \in Nat
  <2> SUFFICES ASSUME NEW S, NEW g, NEW P, IsFiniteSet(S)
               PROVE  Num(S, g, P) \in Nat
    OBVIOUS
  <2>1. IsFiniteSet({x \in S : g[x] \in P})
    BY FS_Subset
  <2> QED  BY <2>1, FS_CardinalityType DEF Num
<1> QED  BY <1>1, ThreadsFinite

\* The initial state satisfies the invariant: nothing runs and nothing waits.
LEMMA InitInv == Init => IndInv
<1> SUFFICES ASSUME Init PROVE IndInv
  OBVIOUS
<1>1. Shape
  <2>1. NoTask \in Entries
    BY DEF NoTask, Task, Entries
  <2>2. MaxYields \in 0..MaxYields /\ 0 \in 0..MaxStops
    BY ConfigAssumption
  <2>3. UseCaller \in BOOLEAN
    BY ConfigAssumption
  <2>4. "FREE" \in FiberStates /\ "off" \in PCs /\ "new" \in MainPCs
    BY DEF FiberStates, PCs, MainPCs
  <2>5. m_fibers \in Seq(Entries) /\ m_rootFiber \in {None, "INIT", "EXEC", "TERM"}
    BY <2>3 DEF Init
  <2>6. /\ m_stopping \in BOOLEAN /\ m_autoStop \in BOOLEAN
        /\ submitted \subseteq Jobs /\ done \subseteq Jobs /\ failed \subseteq Failures
        /\ doubled \subseteq Fibers
        /\ main \in MainPCs /\ stops \in 0..MaxStops /\ fuel \in 0..MaxYields
    BY <2>2, <2>4, Zenon DEF Init
  <2>7. /\ idleTerm \in [Threads -> BOOLEAN] /\ fired \in [Threads -> SUBSET Fibers]
        /\ ft \in [Threads -> Entries] /\ cb_fiber \in [Threads -> Fibers \cup {None}]
        /\ look \in [Threads -> 0..2] /\ pc \in [Threads -> PCs]
        /\ m_state \in [Fibers -> FiberStates]
        /\ m_cb \in [Fibers -> Jobs \cup Fibers \cup {None, Over}]
        /\ waiting \in [Fibers -> {"no", "timer", "event"}]
    BY <2>1, <2>4 DEF Init, Over
  <2> QED  BY <2>5, <2>6, <2>7 DEF Shape
<1>2. HandInv /\ OffInv
  BY ThreadsFinite DEF Init, HandInv, OffInv, InHand, OnStack
<1>3. CountersExact
  <2>1. \A P : "off" \notin P => {t \in Threads : pc[t] \in P} = {}
    BY DEF Init
  <2>2. {f \in Fibers : waiting[f] \in {"event"}} = {}
    BY DEF Init
  <2>3. Cardinality({}) = 0
    BY FS_EmptySet
  <2>4. "off" \notin Active /\ "off" \notin Idling /\ "off" \notin {"trig"}
    BY DEF Active, OnStack, Idling
  <2>5. Num(Threads, pc, Active) = 0 /\ Num(Threads, pc, Idling) = 0
        /\ Num(Threads, pc, {"trig"}) = 0 /\ Num(Fibers, waiting, {"event"}) = 0
    BY <2>1, <2>2, <2>3, <2>4 DEF Num
  <2> QED  BY <2>5 DEF CountersExact, Init
<1> QED  BY <1>1, <1>2, <1>3 DEF IndInv
\* A step of thread t to label l keeps the counters exact when each changes by
\* what the move adds to and takes from its count.
LEMMA CountersStep ==
  ASSUME Shape, CountersExact, NEW t \in Threads, NEW l, Goto(t, l), waiting' = waiting,
         m_activateThreadCount' = m_activateThreadCount + Bit(l, Active) - Bit(pc[t], Active),
         m_idleThreadCount' = m_idleThreadCount + Bit(l, Idling) - Bit(pc[t], Idling),
         m_pendingEventCount' = m_pendingEventCount + Bit(l, {"trig"}) - Bit(pc[t], {"trig"})
  PROVE  CountersExact'
<1>1. /\ Num(Threads, pc', Active) = Num(Threads, pc, Active) + Bit(l, Active) - Bit(pc[t], Active)
      /\ Num(Threads, pc', Idling) = Num(Threads, pc, Idling) + Bit(l, Idling) - Bit(pc[t], Idling)
      /\ Num(Threads, pc', {"trig"})
           = Num(Threads, pc, {"trig"}) + Bit(l, {"trig"}) - Bit(pc[t], {"trig"})
  BY PcMove
<1>2. Bit(l, {"trig"}) \in Int /\ Bit(pc[t], {"trig"}) \in Int
  BY DEF Bit
<1> QED  BY <1>1, <1>2, NumNat DEF CountersExact

\* The step makes fiber f wait for v.
WaitsFor(f, v) == waiting' = [waiting EXCEPT ![f] = v]

\* What changing one fiber's registration does to the number of waiting fibers.
LEMMA WaitMove ==
  ASSUME Shape, NEW f \in Fibers, NEW v, NEW P, WaitsFor(f, v)
  PROVE  Num(Fibers, waiting', P) = Num(Fibers, waiting, P) + Bit(v, P) - Bit(waiting[f], P)
<1>1. waiting'[f] = v /\ AgreeBut(Fibers, waiting, waiting', f)
  BY DEF Shape, AgreeBut, WaitsFor
<1>2. IsFiniteSet(Fibers)
  BY ThreadsFinite
<1>3. Num(Fibers, waiting', P) = Num(Fibers, waiting, P) + Bit(waiting'[f], P) - Bit(waiting[f], P)
  BY <1>1, <1>2, NumMove
<1> QED  BY <1>1, <1>3

\* The same when the step also changes what fiber f waits for.
LEMMA WaitingStep ==
  ASSUME Shape, CountersExact, NEW t \in Threads, NEW l, Goto(t, l),
         NEW f \in Fibers, NEW v, WaitsFor(f, v),
         m_activateThreadCount' = m_activateThreadCount + Bit(l, Active) - Bit(pc[t], Active),
         m_idleThreadCount' = m_idleThreadCount + Bit(l, Idling) - Bit(pc[t], Idling),
         m_pendingEventCount' = m_pendingEventCount + Bit(l, {"trig"}) - Bit(pc[t], {"trig"})
                                + Bit(v, {"event"}) - Bit(waiting[f], {"event"})
  PROVE  CountersExact'
<1>1. /\ Num(Threads, pc', Active) = Num(Threads, pc, Active) + Bit(l, Active) - Bit(pc[t], Active)
      /\ Num(Threads, pc', Idling) = Num(Threads, pc, Idling) + Bit(l, Idling) - Bit(pc[t], Idling)
      /\ Num(Threads, pc', {"trig"})
           = Num(Threads, pc, {"trig"}) + Bit(l, {"trig"}) - Bit(pc[t], {"trig"})
  BY PcMove
<1>2. Num(Fibers, waiting', {"event"})
        = Num(Fibers, waiting, {"event"}) + Bit(v, {"event"}) - Bit(waiting[f], {"event"})
  BY WaitMove
<1>4. \A x, P : Bit(x, P) \in Int
  BY DEF Bit
<1> QED  BY <1>1, <1>2, <1>4, NumNat DEF CountersExact

\* An exact counter is a natural number: no decrement goes below zero.
LEMMA CountersNat ==
  ASSUME Shape, CountersExact
  PROVE  m_activateThreadCount \in Nat /\ m_idleThreadCount \in Nat /\ m_pendingEventCount \in Nat
BY NumNat DEF CountersExact

\* How each label counts, in the order active, idle, in triggerEvent().
Weighs(l, a, i, r) == Bit(l, Active) = a /\ Bit(l, Idling) = i /\ Bit(l, {"trig"}) = r

\* Which labels of run() count as active, idling and triggering.
LEMMA Weights ==
  /\ \A l \in {"off", "scan", "exited", "settle", "hold"} : Weighs(l, 0, 0, 0)
  /\ \A l \in {"got", "exec", "reg", "switch", "post"} : Weighs(l, 1, 0, 0)
  /\ \A l \in {"idle", "poll", "fire", "events"} : Weighs(l, 0, 1, 0)
  /\ Weighs("trig", 0, 1, 1)
  /\ Bit("no", {"event"}) = 0 /\ Bit("timer", {"event"}) = 0 /\ Bit("event", {"event"}) = 1
BY DEF Weighs, Bit, Active, OnStack, Idling

\* run() pops an entry and counts itself active.
LEMMA TakeInv ==
  ASSUME IndInv, NEW t \in Threads, Take(t)
  PROVE  IndInv'
<1> USE DEF IndInv, Take, TakeLeaving, counters, fibers, slot, idler, rest, flags, owner, jobs, threads
<1>1. Shape'
  <2> PICK i \in DOMAIN m_fibers : TakeLeaving(t, i, RemoveAt(m_fibers, i))
    OBVIOUS
  <2>1. i \in 1..Len(m_fibers) /\ m_fibers[i] \in Entries
    BY DEF Shape
  <2>2. RemoveAt(m_fibers, i) \in Seq(Entries)
    BY <2>1, RemoveAtType DEF Shape
  <2> QED  BY <2>1, <2>2 DEF Goto, Shape, PCs, Active
<1>2. CountersExact'
  <2>1. Goto(t, "got") /\ waiting' = waiting
    OBVIOUS
  <2> QED  BY <2>1, CountersStep, CountersNat, Weights DEF Weighs
<1>3. HandInv'
  BY DEF Goto, HandInv, Shape, Cur, InHand, OnStack
<1>4. OffInv'
  BY ThreadsFinite DEF Goto, OffInv, Shape
<1> QED  BY <1>1, <1>2, <1>3, <1>4

\* run() finds nothing and counts itself idle.
LEMMA GoIdleInv ==
  ASSUME IndInv, NEW t \in Threads, GoIdle(t)
  PROVE  IndInv'
<1> USE DEF IndInv, GoIdle, counters, fibers, slot, idler, rest, flags, owner, jobs, threads
<1>1. Shape'
  BY DEF Goto, Shape, FiberStates, PCs, Active, InHand, OnStack, Idling, MainPCs, Task, NoTask, Entries
<1>2. CountersExact'
  <2>1. Goto(t, "idle") /\ waiting' = waiting
    OBVIOUS
  <2> QED  BY <2>1, CountersStep, CountersNat, Weights DEF Weighs
<1>3. HandInv'
  BY DEF Goto, HandInv, Shape, Cur, InHand, OnStack
<1>4. OffInv'
  BY ThreadsFinite DEF Goto, OffInv, Shape
<1> QED  BY <1>1, <1>2, <1>3, <1>4

\* run() returns once its idle fiber has terminated.
LEMMA ExitInv ==
  ASSUME IndInv, NEW t \in Threads, Exit(t)
  PROVE  IndInv'
<1> USE DEF IndInv, Exit, counters, fibers, slot, idler, rest, flags, owner, jobs, threads
<1>1. Shape'
  BY DEF Goto, Shape, FiberStates, PCs, Active, InHand, OnStack, Idling, MainPCs, Task, NoTask, Entries
<1>2. CountersExact'
  <2>1. Goto(t, "exited") /\ waiting' = waiting
    OBVIOUS
  <2> QED  BY <2>1, CountersStep, CountersNat, Weights DEF Weighs
<1>3. HandInv'
  BY DEF Goto, HandInv, Shape, Cur, InHand, OnStack
<1>4. OffInv'
  BY ThreadsFinite DEF Goto, OffInv, Shape
<1> QED  BY <1>1, <1>2, <1>3, <1>4

\* The fiber's swapOut() puts run() back on the thread, still active.
LEMMA SwapOutInv ==
  ASSUME IndInv, NEW t \in Threads, SwapOut(t)
  PROVE  IndInv'
<1> USE DEF IndInv, SwapOut, counters, fibers, slot, idler, rest, flags, owner, jobs, threads
<1>1. Shape'
  BY DEF Goto, Shape, FiberStates, PCs, Active, InHand, OnStack, Idling, MainPCs, Task, NoTask, Entries
<1>2. CountersExact'
  <2>1. Goto(t, "post") /\ waiting' = waiting
    OBVIOUS
  <2> QED  BY <2>1, CountersStep, CountersNat, Weights DEF Weighs
<1>3. HandInv'
  BY DEF Goto, HandInv, Shape, Cur, InHand, OnStack
<1>4. OffInv'
  BY ThreadsFinite DEF Goto, OffInv, Shape
<1> QED  BY <1>1, <1>2, <1>3, <1>4

\* The job on the thread ends or throws.
LEMMA FinishInv ==
  ASSUME IndInv, NEW t \in Threads, NEW s \in Finished, Finish(t, s)
  PROVE  IndInv'
<1> USE DEF IndInv, Finish, Finished, counters, fibers, slot, idler, rest, flags, owner, jobs, threads
<1>1. Shape'
  BY DEF Goto, Shape, FiberStates, PCs, Active, InHand, OnStack, Idling, MainPCs, Over
<1>2. CountersExact'
  <2>1. Goto(t, "switch") /\ waiting' = waiting
    OBVIOUS
  <2> QED  BY <2>1, CountersStep, CountersNat, Weights DEF Weighs
<1>3. HandInv'
  BY DEF Goto, HandInv, Shape, Cur, InHand, OnStack
<1>4. OffInv'
  BY ThreadsFinite DEF Goto, OffInv, Shape
<1> QED  BY <1>1, <1>2, <1>3, <1>4

\* The callback of a hooked sleep queues the sleeping fiber.
LEMMA RelayInv ==
  ASSUME IndInv, NEW t \in Threads, Relay(t)
  PROVE  IndInv'
<1> USE DEF IndInv, Relay, counters, fibers, slot, idler, rest, flags, owner, jobs, threads
<1>1. Shape'
  <2>1. Task(m_cb[Cur(t)], None, None) \in Entries
    BY DEF Task, Entries
  <2>2. m_fibers' \in Seq(Entries)
    BY <2>1 DEF Shape
  <2> QED  BY <2>2 DEF Goto, Shape, FiberStates, PCs, Active, OnStack, Over
<1>2. CountersExact'
  <2>1. Goto(t, "switch") /\ waiting' = waiting
    OBVIOUS
  <2> QED  BY <2>1, CountersStep, CountersNat, Weights DEF Weighs
<1>3. HandInv'
  BY DEF Goto, HandInv, Shape, Cur, InHand, OnStack
<1>4. OffInv'
  BY ThreadsFinite DEF Goto, OffInv, Shape
<1> QED  BY <1>1, <1>2, <1>3, <1>4

\* The job yields to READY.
LEMMA YieldToReadyInv ==
  ASSUME IndInv, NEW t \in Threads, YieldToReady(t)
  PROVE  IndInv'
<1> USE DEF IndInv, YieldToReady, counters, fibers, slot, idler, rest, flags, owner, jobs, threads
<1>1. Shape'
  <2>1. fuel' \in 0..MaxYields
    BY ConfigAssumption DEF Shape
  <2> QED  BY <2>1 DEF Goto, Shape, FiberStates, PCs, Active, OnStack
<1>2. CountersExact'
  <2>1. Goto(t, "switch") /\ waiting' = waiting
    OBVIOUS
  <2> QED  BY <2>1, CountersStep, CountersNat, Weights DEF Weighs
<1>3. HandInv'
  BY DEF Goto, HandInv, Shape, Cur, InHand, OnStack
<1>4. OffInv'
  BY ThreadsFinite DEF Goto, OffInv, Shape
<1> QED  BY <1>1, <1>2, <1>3, <1>4

\* The job parks in HOLD.
LEMMA YieldToHoldInv ==
  ASSUME IndInv, NEW t \in Threads, YieldToHold(t)
  PROVE  IndInv'
<1> USE DEF IndInv, YieldToHold, counters, fibers, slot, idler, rest, flags, owner, jobs, threads
<1>1. Shape'
  BY DEF Goto, Shape, FiberStates, PCs, Active, InHand, OnStack, Idling, MainPCs, Task, NoTask, Entries
<1>2. CountersExact'
  <2>1. Goto(t, "switch") /\ waiting' = waiting
    OBVIOUS
  <2> QED  BY <2>1, CountersStep, CountersNat, Weights DEF Weighs
<1>3. HandInv'
  BY DEF Goto, HandInv, Shape, Cur, InHand, OnStack
<1>4. OffInv'
  BY ThreadsFinite DEF Goto, OffInv, Shape
<1> QED  BY <1>1, <1>2, <1>3, <1>4

\* run() counts itself inactive behind swapIn().
LEMMA PostInv ==
  ASSUME IndInv, NEW t \in Threads, Post(t)
  PROVE  IndInv'
<1> USE DEF IndInv, Post, PostBy, counters, fibers, slot, idler, rest, flags, owner, jobs, threads
<1>1. Shape'
  BY DEF Goto, Shape, FiberStates, PCs, Active, InHand, OnStack, Idling, MainPCs, Task, NoTask, Entries
<1>2. CountersExact'
  <2>1. Goto(t, "settle") /\ waiting' = waiting
    OBVIOUS
  <2> QED  BY <2>1, CountersStep, CountersNat, Weights DEF Weighs
<1>3. HandInv'
  BY DEF Goto, HandInv, Shape, Cur, InHand, OnStack
<1>4. OffInv'
  BY ThreadsFinite DEF Goto, OffInv, Shape
<1> QED  BY <1>1, <1>2, <1>3, <1>4

\* run() reads the state of the fiber that came back.
LEMMA SettleInv ==
  ASSUME IndInv, NEW t \in Threads, Settle(t)
  PROVE  IndInv'
<1> USE DEF IndInv, Settle, Finished, counters, fibers, slot, idler, rest, flags, owner, jobs, threads
<1>1. Shape'
  <2>1. Cur(t) \in Fibers
    BY DEF HandInv, InHand
  <2>2. Task(Cur(t), None, None) \in Entries /\ NoTask \in Entries
    BY <2>1 DEF Task, NoTask, Entries
  <2>3. ft' = ft \/ ft' = [ft EXCEPT ![t] = NoTask]
    OBVIOUS
  <2>7. ft' \in [Threads -> Entries]
    BY <2>2, <2>3 DEF Shape
  <2>5. m_fibers' = m_fibers \/ m_fibers' = Append(m_fibers, Task(Cur(t), None, None))
    OBVIOUS
  <2>8. m_fibers \in Seq(Entries) /\ Append(m_fibers, Task(Cur(t), None, None)) \in Seq(Entries)
    BY <2>2 DEF Shape
  <2>6. m_fibers' \in Seq(Entries)
    BY <2>5, <2>8, Zenon
  <2>4. m_state' \in [Fibers -> FiberStates] /\ cb_fiber' \in [Threads -> Fibers \cup {None}]
    BY DEF Shape, FiberStates
  <2>9. m_cb' \in [Fibers -> Jobs \cup Fibers \cup {None, Over}]
    BY DEF Shape
  <2> QED  BY <2>7, <2>4, <2>6, <2>9 DEF Goto, Shape, PCs, InHand
<1>2. CountersExact'
  <2>1. waiting' = waiting /\ (Goto(t, "scan") \/ Goto(t, "hold"))
    OBVIOUS
  <2> QED  BY <2>1, CountersStep, CountersNat, Weights DEF Weighs
<1>3. HandInv'
  BY DEF Goto, HandInv, Shape, Cur, InHand, OnStack
<1>4. OffInv'
  BY ThreadsFinite DEF Goto, OffInv, Shape
<1> QED  BY <1>1, <1>2, <1>3, <1>4

\* run() writes HOLD over whatever the state is by now.
LEMMA HoldInv ==
  ASSUME IndInv, NEW t \in Threads, Hold(t)
  PROVE  IndInv'
<1> USE DEF IndInv, Hold, HoldLeaving, counters, fibers, slot, idler, rest, flags, owner, jobs, threads
<1>1. Shape'
  BY DEF Goto, Shape, FiberStates, PCs, Active, InHand, OnStack, Idling, MainPCs, Task, NoTask, Entries
<1>2. CountersExact'
  <2>1. Goto(t, "scan") /\ waiting' = waiting
    OBVIOUS
  <2> QED  BY <2>1, CountersStep, CountersNat, Weights DEF Weighs
<1>3. HandInv'
  BY DEF Goto, HandInv, Shape, Cur, InHand, OnStack
<1>4. OffInv'
  BY ThreadsFinite DEF Goto, OffInv, Shape
<1> QED  BY <1>1, <1>2, <1>3, <1>4

\* idle() queues the expired callbacks.
LEMMA ScheduleExpiredInv ==
  ASSUME IndInv, NEW t \in Threads, ScheduleExpired(t)
  PROVE  IndInv'
<1> USE DEF IndInv, ScheduleExpired, counters, fibers, slot, idler, rest, flags, owner, jobs, threads
<1>1. Shape'
  <2>1. fired[t] \subseteq Fibers
    BY DEF Shape
  <2>2. Cardinality(fired[t]) \in Nat
    BY <2>1, ThreadsFinite, FS_Subset, FS_CardinalityType
  <2>3. PICK cbs \in [1..Cardinality(fired[t]) -> fired[t]] :
          m_fibers' = m_fibers \o [i \in DOMAIN cbs |-> Task(None, cbs[i], None)]
    OBVIOUS
  <2>4. \A f \in Fibers : Task(None, f, None) \in Entries
    BY DEF Task, Entries
  <2>5. [i \in DOMAIN cbs |-> Task(None, cbs[i], None)] \in [1..Cardinality(fired[t]) -> Entries]
    BY <2>1, <2>4
  <2>6. [i \in DOMAIN cbs |-> Task(None, cbs[i], None)] \in Seq(Entries)
    BY <2>2, <2>5, SeqDef, Zenon
  <2>7. m_fibers' \in Seq(Entries)
    BY <2>3, <2>6, ConcatProperties DEF Shape
  <2> QED  BY <2>7 DEF Goto, Shape, PCs, Idling
<1>2. CountersExact'
  <2>1. Goto(t, "events") /\ waiting' = waiting
    OBVIOUS
  <2> QED  BY <2>1, CountersStep, CountersNat, Weights DEF Weighs
<1>3. HandInv'
  BY DEF Goto, HandInv, Shape, Cur, InHand, OnStack
<1>4. OffInv'
  BY ThreadsFinite DEF Goto, OffInv, Shape
<1> QED  BY <1>1, <1>2, <1>3, <1>4

\* idle() counts a triggered event down, behind its triggerEvent().
LEMMA DropPendingInv ==
  ASSUME IndInv, NEW t \in Threads, DropPending(t)
  PROVE  IndInv'
<1> USE DEF IndInv, DropPending, DropPendingBy, counters, fibers, slot, idler, rest, flags, owner, jobs, threads
<1>1. Shape'
  BY DEF Goto, Shape, FiberStates, PCs, Active, InHand, OnStack, Idling, MainPCs, Task, NoTask, Entries
<1>2. CountersExact'
  <2>1. Goto(t, "events") /\ waiting' = waiting
    OBVIOUS
  <2> QED  BY <2>1, CountersStep, CountersNat, Weights DEF Weighs
<1>3. HandInv'
  BY DEF Goto, HandInv, Shape, Cur, InHand, OnStack
<1>4. OffInv'
  BY ThreadsFinite DEF Goto, OffInv, Shape
<1> QED  BY <1>1, <1>2, <1>3, <1>4

\* idle() swaps out and run() counts itself not idle.
LEMMA LeaveIdleInv ==
  ASSUME IndInv, NEW t \in Threads, LeaveIdle(t)
  PROVE  IndInv'
<1> USE DEF IndInv, LeaveIdle, counters, fibers, slot, idler, rest, flags, owner, jobs, threads
<1>1. Shape'
  BY DEF Goto, Shape, FiberStates, PCs, Active, InHand, OnStack, Idling, MainPCs, Task, NoTask, Entries
<1>2. CountersExact'
  <2>1. Goto(t, "scan") /\ waiting' = waiting
    OBVIOUS
  <2> QED  BY <2>1, CountersStep, CountersNat, Weights DEF Weighs
<1>3. HandInv'
  BY DEF Goto, HandInv, Shape, Cur, InHand, OnStack
<1>4. OffInv'
  BY ThreadsFinite DEF Goto, OffInv, Shape
<1> QED  BY <1>1, <1>2, <1>3, <1>4

\* listExpiredCb() takes the due callbacks out of the timers.
LEMMA ExpireInv ==
  ASSUME IndInv, NEW t \in Threads, NEW due \in SUBSET Fibers, Expire(t, due)
  PROVE  IndInv'
<1> USE DEF IndInv, Expire, counters, fibers, slot, idler, rest, flags, owner, jobs, threads
<1>1. Shape'
  BY DEF Goto, Shape, PCs, Idling
<1>2. CountersExact'
  <2>1. Goto(t, "fire")
    OBVIOUS
  <2>2. {x \in Fibers : waiting'[x] \in {"event"}} = {x \in Fibers : waiting[x] \in {"event"}}
    OBVIOUS
  <2>3. Num(Fibers, waiting', {"event"}) = Num(Fibers, waiting, {"event"})
    BY <2>2 DEF Num
  <2>4. \A P : /\ Num(Threads, pc, P) \in Nat
               /\ Num(Threads, pc', P) = Num(Threads, pc, P) + Bit("fire", P) - Bit("poll", P)
    BY <2>1, PcMove
  <2>5. \A P \in {Active, Idling, {"trig"}} : Bit("fire", P) = Bit("poll", P) /\ Bit("poll", P) \in Nat
    BY DEF Bit, Active, OnStack, Idling
  <2>6. \A P \in {Active, Idling, {"trig"}} : Num(Threads, pc', P) = Num(Threads, pc, P)
    <3> TAKE P \in {Active, Idling, {"trig"}}
    <3>1. Bit("fire", P) = Bit("poll", P) /\ Bit("poll", P) \in Nat
      BY <2>5
    <3>2. Num(Threads, pc', P) = Num(Threads, pc, P) + Bit("fire", P) - Bit("poll", P)
      BY <2>4
    <3>3. Num(Threads, pc, P) \in Nat
      BY <2>4
    <3> HIDE DEF IndInv, Expire
    <3> QED  BY <3>1, <3>2, <3>3
  <2> QED  BY <2>3, <2>6 DEF CountersExact
<1>3. HandInv'
  BY DEF Goto, HandInv, Shape, Cur, InHand, OnStack
<1>4. OffInv'
  BY ThreadsFinite DEF Goto, OffInv, Shape
<1> QED  BY <1>1, <1>2, <1>3, <1>4

\* A failed assertion stops the process where it is.
LEMMA FailInv ==
  ASSUME IndInv, NEW why \in Failures, Fail(why)
  PROVE  IndInv'
<1> USE DEF IndInv, Fail, counters, fibers, slot, idler, rest, flags, owner, jobs, threads
<1>1. Shape'
  BY DEF Shape
<1>2. CountersExact'
  BY DEF CountersExact
<1>3. HandInv' /\ OffInv'
  BY DEF HandInv, OffInv, Cur
<1> QED  BY <1>1, <1>2, <1>3

\* run() resumes a fiber, or trips over its state.
LEMMA SwapInInv ==
  ASSUME IndInv, NEW t \in Threads, SwapIn(t)
  PROVE  IndInv'
<1>1. {"swapIn", "two stacks", "never reach"} \subseteq Failures
  BY DEF Failures
<1>2. CASE \E why \in Failures : Fail(why)
  BY <1>2, FailInv
<1>3. CASE ~ \E why \in Failures : Fail(why)
  <2> DEFINE f == ft[t].fiber
  <2> USE DEF counters, fibers, slot, idler, rest, flags, owner, jobs, threads
  <2>1. /\ f # None /\ pc[t] = "got" /\ m_state' = [m_state EXCEPT ![f] = "EXEC"]
        /\ Goto(t, "exec")
        /\ UNCHANGED <<m_fibers, counters, m_cb, waiting, slot, idler, rest>>
    BY <1>1, <1>3 DEF SwapIn
  <2>2. Shape'
    BY <2>1 DEF IndInv, Goto, Shape, FiberStates, PCs, Active, OnStack
  <2>3. CountersExact'
    BY <2>1, CountersStep, CountersNat, Weights DEF IndInv, Weighs
  <2>4. HandInv'
    BY <2>1 DEF IndInv, Goto, HandInv, Shape, Entries, Cur, InHand, OnStack
  <2>5. OffInv'
    BY <2>1, ThreadsFinite DEF IndInv, Goto, OffInv, Shape
  <2> QED  BY <2>2, <2>3, <2>4, <2>5 DEF IndInv
<1> QED  BY <1>2, <1>3

\* run() starts a callback in a fiber of its own.
LEMMA SwapInCbInv ==
  ASSUME IndInv, NEW t \in Threads, SwapInCb(t)
  PROVE  IndInv'
<1>1. "reset" \in Failures
  BY DEF Failures
<1>2. CASE \E why \in Failures : Fail(why)
  BY <1>2, FailInv
<1>3. CASE ~ \E why \in Failures : Fail(why)
  <2> USE DEF counters, fibers, slot, idler, rest, flags, owner, jobs, threads
  <2> PICK f \in Fibers :
        /\ pc[t] = "got"
        /\ m_state' = [m_state EXCEPT ![f] = "EXEC"]
        /\ m_cb' = [m_cb EXCEPT ![f] = ft[t].cb]
        /\ cb_fiber' = [cb_fiber EXCEPT ![t] = f]
        /\ ft' = [ft EXCEPT ![t] = NoTask]
        /\ Goto(t, "exec")
        /\ UNCHANGED <<m_fibers, counters, waiting, idler, rest>>
    BY <1>1, <1>3 DEF SwapInCb
  <2>1. ft[t].cb \in Jobs \cup Fibers \cup {None} /\ NoTask \in Entries
    BY DEF IndInv, Shape, Entries, NoTask, Task
  <2>2. Shape'
    BY <2>1 DEF IndInv, Goto, Shape, FiberStates, PCs, Active, OnStack
  <2>3. CountersExact'
    BY CountersStep, CountersNat, Weights DEF IndInv, Weighs
  <2>4. HandInv'
    BY DEF IndInv, Goto, HandInv, Shape, NoTask, Task, Cur, InHand, OnStack
  <2>5. OffInv'
    BY ThreadsFinite DEF IndInv, Goto, OffInv, Shape
  <2> QED  BY <2>2, <2>3, <2>4, <2>5 DEF IndInv
<1> QED  BY <1>2, <1>3

\* A job registers with a timer or, counted as pending, with an event.
LEMMA RegisterInv ==
  ASSUME IndInv, NEW t \in Threads, NEW w \in Waits, Register(t, w)
  PROVE  IndInv'
<1>1. "addEvent" \in Failures /\ w \in {"timer", "event"}
  BY ConfigAssumption DEF Failures
<1>2. CASE \E why \in Failures : Fail(why)
  BY <1>2, FailInv
<1>3. CASE ~ \E why \in Failures : Fail(why)
  <2> DEFINE f == Cur(t)
  <2> USE DEF counters, fibers, slot, idler, rest, flags, owner, jobs, threads
  <2>1. /\ pc[t] = "exec" /\ fuel > 0 /\ fuel' = fuel - 1
        /\ waiting[f] = "no" /\ WaitsFor(f, w)
        /\ m_pendingEventCount' = m_pendingEventCount + (IF w = "event" THEN 1 ELSE 0)
        /\ Goto(t, "reg")
        /\ UNCHANGED <<m_fibers, m_activateThreadCount, m_idleThreadCount, m_state, m_cb,
                       slot, idler, flags, owner, submitted, done, failed, doubled>>
    BY <1>1, <1>3 DEF Register, WaitsFor
  <2>2. f \in Fibers
    BY <2>1 DEF IndInv, HandInv, InHand, OnStack
  <2>3. Shape'
    <3>1. fuel' \in 0..MaxYields
      BY <2>1, ConfigAssumption DEF IndInv, Shape
    <3> QED  BY <1>1, <2>1, <3>1 DEF IndInv, Goto, Shape, WaitsFor, PCs, Active, OnStack
  <2>4. CountersExact'
    <3>1. (IF w = "event" THEN 1 ELSE 0) = Bit(w, {"event"})
      BY <1>1 DEF Bit
    <3> HIDE DEF f
    <3> QED  BY <1>1, <2>1, <2>2, <3>1, WaitingStep, CountersNat, Weights DEF IndInv, Weighs
  <2>5. HandInv'
    BY <2>1 DEF IndInv, Goto, HandInv, Shape, Cur, InHand, OnStack
  <2>6. OffInv'
    BY <2>1, ThreadsFinite DEF IndInv, Goto, OffInv, Shape
  <2> QED  BY <2>3, <2>4, <2>5, <2>6 DEF IndInv
<1> QED  BY <1>2, <1>3

\* triggerEvent() queues the fiber; its event stays counted until the
\* decrement behind it.
LEMMA TriggerInv ==
  ASSUME IndInv, NEW t \in Threads, NEW f \in Fibers, Trigger(t, f)
  PROVE  IndInv'
<1> USE DEF IndInv, Trigger, counters, fibers, slot, idler, rest, flags, owner, jobs, threads
<1>1. Shape'
  <2>1. Task(f, None, None) \in Entries
    BY DEF Task, Entries
  <2>2. m_fibers' \in Seq(Entries)
    BY <2>1 DEF Shape
  <2> QED  BY <2>2 DEF Goto, Shape, PCs, Idling
<1>2. CountersExact'
  <2>1. Goto(t, "trig") /\ WaitsFor(f, "no") /\ waiting[f] = "event" /\ pc[t] \in {"poll", "events"}
    BY DEF WaitsFor
  <2> QED  BY <2>1, WaitingStep, CountersNat, Weights DEF Weighs
<1>3. HandInv'
  BY DEF Goto, HandInv, Shape, Cur, InHand, OnStack
<1>4. OffInv'
  BY ThreadsFinite DEF Goto, OffInv, Shape
<1> QED  BY <1>1, <1>2, <1>3, <1>4

\* What stopping() answers changes where the asker goes, and the idle count.
LEMMA AnswerInv ==
  ASSUME IndInv, NEW t \in Threads, NEW b \in BOOLEAN, Asking(t), Answer(t, b)
  PROVE  IndInv'
<1> USE DEF counters, fibers, slot, idler, rest, flags, owner, jobs, threads
<1>1. CASE pc[t] = "idle"
  <2> DEFINE l == IF ~b /\ IOM THEN "poll" ELSE "scan"
  <2>1. Goto(t, l) /\ main' = main /\ idleTerm' = [idleTerm EXCEPT ![t] = b]
    BY <1>1 DEF Answer, Goto
  <2>2. Shape'
    BY <2>1 DEF IndInv, Answer, Goto, Shape, PCs, Idling
  <2>3. CountersExact'
    <3>1. \/ l = "poll" /\ m_idleThreadCount' = m_idleThreadCount - 0
          \/ l = "scan" /\ m_idleThreadCount' = m_idleThreadCount - 1
      BY <1>1 DEF Answer
    <3>2. waiting' = waiting /\ m_activateThreadCount' = m_activateThreadCount
          /\ m_pendingEventCount' = m_pendingEventCount
      BY DEF Answer
    <3> HIDE DEF l
    <3> QED  BY <1>1, <2>1, <3>1, <3>2, CountersStep, CountersNat, Weights DEF IndInv, Weighs
  <2>4. HandInv'
    BY <2>1 DEF IndInv, Answer, Goto, HandInv, Shape, Cur, InHand, OnStack
  <2>5. OffInv'
    BY <1>1, <2>1, ThreadsFinite DEF IndInv, Answer, Goto, OffInv, Shape
  <2> QED  BY <2>2, <2>3, <2>4, <2>5 DEF IndInv
<1>2. CASE pc[t] # "idle"
  <2>1. /\ main \in {"early", "peek"} /\ main' \in {"stopped", "signal", "join", "root"}
        /\ UNCHANGED <<pc, idleTerm, counters>>
    BY <1>2 DEF Asking, Answer
  <2>2. Shape'
    BY <2>1 DEF IndInv, Answer, Shape, MainPCs
  <2>3. CountersExact'
    BY <2>1 DEF IndInv, Answer, CountersExact
  <2>4. HandInv' /\ OffInv'
    BY <2>1 DEF IndInv, Answer, HandInv, OffInv, Cur
  <2> QED  BY <2>2, <2>3, <2>4 DEF IndInv
<1> QED  BY <1>1, <1>2

\* One read inside stopping() let the asker on to the next.
LEMMA PassInv ==
  ASSUME IndInv, NEW t \in Threads, look[t] \in 0..1, Pass(t)
  PROVE  IndInv'
<1> USE DEF IndInv, Pass, counters, fibers, slot, idler, rest, flags, owner, jobs, threads
<1>1. Shape'
  BY DEF Shape
<1>2. CountersExact'
  BY DEF CountersExact
<1>3. HandInv' /\ OffInv'
  BY DEF HandInv, OffInv, Cur
<1> QED  BY <1>1, <1>2, <1>3

\* Each of the reads inside stopping().
LEMMA StoppingInv ==
  ASSUME IndInv, NEW t \in Threads, ReadTimers(t) \/ ReadPending(t) \/ ReadQueue(t)
  PROVE  IndInv'
<1>1. CanStop \in BOOLEAN
  BY DEF CanStop, IndInv, Shape
<1>2. ASSUME Asking(t), NEW b \in BOOLEAN, Answer(t, b)
      PROVE  IndInv'
  BY <1>2, AnswerInv, Zenon
<1>3. FALSE \in BOOLEAN
  BY Zenon
<1>4. ASSUME look[t] = 0 \/ look[t] = 1, Pass(t)
      PROVE  IndInv'
  BY <1>4, PassInv
<1>5. CASE ReadTimers(t)
  BY <1>2, <1>3, <1>4, <1>5, Zenon DEF ReadTimers
<1>6. CASE ReadPending(t)
  BY <1>2, <1>3, <1>4, <1>6, Zenon DEF ReadPending
<1>7. CASE ReadQueue(t)
  BY <1>1, <1>2, <1>7, Zenon DEF ReadQueue
<1> QED  BY <1>5, <1>6, <1>7

\* schedule() by any caller.
LEMMA ScheduleInv ==
  ASSUME IndInv, NEW j \in Jobs, NEW pin \in Pins, Schedule(j, pin)
  PROVE  IndInv'
<1> USE DEF IndInv, counters, fibers, slot, idler, rest, flags, owner, jobs, threads
<1>1. pin \in Threads \cup {None}
  BY ConfigAssumption DEF Threads
<1>2. Shape'
  <2>1. \A f \in Fibers : Task(f, None, pin) \in Entries
    BY <1>1 DEF Task, Entries
  <2>2. Task(None, j, pin) \in Entries
    BY <1>1 DEF Task, Entries
  <2>3. \/ m_fibers' = Append(m_fibers, Task(None, j, pin))
        \/ \E f \in Fibers : m_fibers' = Append(m_fibers, Task(f, None, pin))
    BY DEF Schedule
  <2>5. /\ Append(m_fibers, Task(None, j, pin)) \in Seq(Entries)
        /\ \A f \in Fibers : Append(m_fibers, Task(f, None, pin)) \in Seq(Entries)
    BY <2>1, <2>2 DEF Shape
  <2>4. m_fibers' \in Seq(Entries)
    BY <2>3, <2>5, Zenon
  <2>6. /\ m_state' \in [Fibers -> FiberStates]
        /\ m_cb' \in [Fibers -> Jobs \cup Fibers \cup {None, Over}]
    <3>1. CASE UNCHANGED fibers
      BY <3>1 DEF Shape
    <3>2. ASSUME NEW f \in Fibers, m_state' = [m_state EXCEPT ![f] = "INIT"],
                 m_cb' = [m_cb EXCEPT ![f] = j]
          PROVE  /\ m_state' \in [Fibers -> FiberStates]
                 /\ m_cb' \in [Fibers -> Jobs \cup Fibers \cup {None, Over}]
      BY <3>2 DEF Shape, FiberStates
    <3> QED  BY <3>1, <3>2 DEF Schedule
  <2> QED  BY <2>4, <2>6 DEF Schedule, Shape
<1>3. CountersExact'
  BY DEF Schedule, CountersExact
<1>4. HandInv' /\ OffInv'
  BY DEF Schedule, HandInv, OffInv, Cur
<1> QED  BY <1>2, <1>3, <1>4

\* A caller schedules a fiber a second time.
LEMMA ScheduleAgainInv ==
  ASSUME IndInv, NEW f \in Fibers, ScheduleAgain(f)
  PROVE  IndInv'
<1> USE DEF IndInv, counters, fibers, slot, idler, rest, flags, owner, jobs, threads
<1>1. Task(f, None, None) \in Entries
  BY DEF Task, Entries
<1>2. Shape'
  BY <1>1 DEF ScheduleAgain, Shape
<1>3. CountersExact'
  BY DEF ScheduleAgain, CountersExact
<1>4. HandInv' /\ OffInv'
  BY DEF ScheduleAgain, HandInv, OffInv, Cur
<1> QED  BY <1>2, <1>3, <1>4

\* start(): until now every thread was off, so the counts stay at zero.
LEMMA StartInv ==
  ASSUME IndInv, Start
  PROVE  IndInv'
<1> USE DEF IndInv, Start, counters, fibers, slot, idler, rest, flags, owner, jobs, threads
<1>1. \A t \in Threads : pc[t] = "off" /\ pc'[t] \in {"off", "scan"}
  BY DEF OffInv
<1>2. Shape'
  BY <1>1 DEF Shape, PCs, MainPCs
<1>3. CountersExact'
  <2>1. \A P : {"off", "scan"} \cap P = {} =>
               {t \in Threads : pc'[t] \in P} = {t \in Threads : pc[t] \in P}
    BY <1>1
  <2>2. {"off", "scan"} \cap Active = {} /\ {"off", "scan"} \cap Idling = {}
        /\ {"off", "scan"} \cap {"trig"} = {}
    BY DEF Active, OnStack, Idling
  <2>3. /\ Num(Threads, pc', Active) = Num(Threads, pc, Active)
        /\ Num(Threads, pc', Idling) = Num(Threads, pc, Idling)
        /\ Num(Threads, pc', {"trig"}) = Num(Threads, pc, {"trig"})
    BY <2>1, <2>2, Zenon DEF Num
  <2>4. UNCHANGED <<waiting, m_activateThreadCount, m_idleThreadCount, m_pendingEventCount>>
    OBVIOUS
  <2> QED  BY <2>3, <2>4 DEF CountersExact
<1>4. HandInv'
  BY <1>1 DEF HandInv, InHand, OnStack
<1>5. OffInv'
  BY ConfigAssumption, ThreadsFinite DEF OffInv
<1> QED  BY <1>2, <1>3, <1>4, <1>5

\* stop() up to the call of the root fiber, and behind it.
LEMMA StopInv ==
  ASSUME IndInv, StopBegin \/ StopSignal \/ StopJoin
  PROVE  IndInv'
<1> USE DEF IndInv, StopBegin, StopSignal, StopJoin, StopWhen, counters, fibers, slot, idler,
            rest, flags, owner, jobs, threads
<1>1. main' \in {"early", "signal", "peek", "join", "stopped"} /\ stops' \in 0..MaxStops
  BY ConfigAssumption DEF Shape
<1>2. m_stopping' \in BOOLEAN /\ m_autoStop' \in BOOLEAN
  BY DEF Shape
<1>3. Shape'
  BY <1>1, <1>2 DEF Shape, MainPCs
<1>4. CountersExact'
  BY DEF CountersExact
<1>5. HandInv' /\ OffInv'
  BY <1>1 DEF HandInv, OffInv, Cur
<1> QED  BY <1>3, <1>4, <1>5

\* stop() calls the root fiber: run() starts on the caller.
LEMMA CallRootInv ==
  ASSUME IndInv, CallRoot
  PROVE  IndInv'
<1>1. "root never reach" \in Failures
  BY DEF Failures
<1>2. CASE \E why \in Failures : Fail(why)
  BY <1>2, FailInv
<1>3. CASE ~ \E why \in Failures : Fail(why)
  <2> USE DEF IndInv, counters, fibers, slot, idler, rest, flags, owner, jobs, threads
  <2>1. /\ m_rootFiber = "INIT" /\ m_rootFiber' = "EXEC" /\ main = "root" /\ Goto(Caller, "scan")
        /\ UNCHANGED <<m_fibers, counters, fibers, slot, idler, flags, main, stops, jobs, failed,
                       doubled>>
    BY <1>1, <1>3 DEF CallRoot
  <2>2. pc[Caller] = "off" /\ Caller \in Threads
    BY <2>1, ThreadsFinite DEF OffInv
  <2>3. Shape'
    BY <2>1 DEF Goto, Shape, PCs
  <2>4. CountersExact'
    BY <2>1, <2>2, CountersStep, CountersNat, Weights DEF Weighs
  <2>5. HandInv' /\ OffInv'
    BY <2>1, <2>2 DEF Goto, HandInv, OffInv, Shape, Cur, InHand, OnStack
  <2> QED  BY <2>3, <2>4, <2>5
<1> QED  BY <1>2, <1>3

\* Every step keeps the inductive invariant.
LEMMA NextInv ==
  ASSUME IndInv, [Next]_vars
  PROVE  IndInv'
<1>1. CASE UNCHANGED vars
  BY <1>1 DEF vars, counters, fibers, slot, idler, rest, flags, owner, jobs, threads, IndInv,
              Shape, CountersExact, HandInv, OffInv, Cur
<1>2. ASSUME NEW t \in Threads, Body(t)
      PROVE  IndInv'
  BY <1>2, FinishInv, RelayInv, YieldToReadyInv, YieldToHoldInv, RegisterInv, ScheduleInv
     DEF Body, Spawn
<1>3. ASSUME NEW t \in Threads, ThreadStep(t)
      PROVE  IndInv'
  BY <1>2, <1>3, TakeInv, GoIdleInv, ExitInv, SwapInInv, SwapInCbInv, SwapOutInv, PostInv,
     SettleInv, HoldInv, StoppingInv, ScheduleExpiredInv, DropPendingInv, LeaveIdleInv
     DEF ThreadStep
<1>4. ASSUME NEW f \in Fibers, ScheduleAgain(f) \/ Wake(f)
      PROVE  IndInv'
  BY <1>4, ScheduleAgainInv, ExpireInv, TriggerInv DEF Wake
<1>5. ASSUME NEW j \in Jobs, NEW pin \in Pins, Submit(j, pin)
      PROVE  IndInv'
  BY <1>5, ScheduleInv DEF Submit
<1>6. CASE MainStep
  BY <1>6, StartInv, StopInv, CallRootInv DEF MainStep
<1>7. CASE Ended
  BY <1>1, <1>7 DEF Ended
<1> QED  BY <1>1, <1>3, <1>4, <1>5, <1>6, <1>7 DEF Next

\* The scheduler's three counters are exact in every reachable state, for any
\* number of threads, fibers and jobs and whatever its callers do: wakes
\* before the parking fiber let go, fibers scheduled twice, jobs handed in
\* while stop() runs, and every bound.
THEOREM CountersTheorem == Spec => []CountersExact
<1>1. Init => IndInv
  BY InitInv
<1>2. IndInv /\ [Next]_vars => IndInv'
  BY NextInv
<1>3. IndInv => CountersExact
  BY DEF IndInv
<1> QED  BY <1>1, <1>2, <1>3, PTL DEF Spec

\* Every variable keeps its type; in particular the size_t counters are never
\* decremented below zero, which their definition alone does not give.
THEOREM TypeTheorem == Spec => []TypeOK
<1>1. Init => IndInv
  BY InitInv
<1>2. IndInv /\ [Next]_vars => IndInv'
  BY NextInv
<1>3. IndInv => TypeOK
  BY CountersNat DEF IndInv, Shape, TypeOK
<1> QED  BY <1>1, <1>2, <1>3, PTL DEF Spec
=============================================================================
