-------------------------- MODULE IOManagerProofs --------------------------
(* Proofs about IOManager for every set of descriptors, callers and pollers *)
(* and every mix of operations, a shrinking table and a racing close()      *)
(* included: types, the exactness of m_pendingEventCount, the               *)
(* correspondence of registered events and waiting callers, and, until one  *)
(* of those two has hit a descriptor in use, that epoll watches for what is *)
(* registered, that no edge is lost, and that cancelling cancels.           *)
EXTENDS IOManager, FiniteSetTheorems, TLAPS

\* A call in progress knows its descriptor and event, and past the look-up
\* its context; only a descriptor beyond the first table grows it.
CallOK ==
  \A c \in Callers :
    /\ call[c].at # "idle" => call[c].fd \in Fds /\ call[c].ev \in EV
    /\ call[c].at \in {"do", "wait"} => call[c].ctx \in Ctx /\ call[c].ctx[1] = call[c].fd
    /\ call[c].at = "grow" => InitSize <= call[c].fd

\* The table never gets smaller than it was made, and has an object in every
\* cell below its size.
TableOK == InitSize <= size /\ \A f \in Fds : f < size => cell[f] >= 1

\* epoll returns pointers to contexts.
PtrOK == \A f \in Fds : interest[f] # {} => ptr[f] \in Ctx

\* The caller in whose critical section something happens, if any.
Doing(c) == c # None => call[c].at = "do"

CountOK == IsFiniteSet(Registered) /\ PendingExact

\* The part that waking and forgetting callers must keep.
WaitersOK ==
  /\ call \in [Callers -> Calls] /\ events \in [Ctx -> SUBSET EV]
  /\ waiter \in [Ctx -> [EV -> Callers \cup {None}]]
  /\ CallOK /\ WaiterCoherent

IndInv == TypeOK /\ CallOK /\ TableOK /\ PtrOK /\ CountOK /\ WaiterCoherent

USE IOAssumption

\* Nothing is registered at first.
LEMMA InitInv == Init => IndInv
<1> SUFFICES ASSUME Init PROVE IndInv OBVIOUS
<1>1. TypeOK
  <2>1. call \in [Callers -> Calls] BY DEF Init, Idle, Calls
  <2>2. cell \in [Fds -> 0..MaxGen] BY DEF Init
  <2> QED BY <2>1, <2>2 DEF Init, TypeOK
<1>2. CallOK BY DEF Init, CallOK, Idle
<1>3. TableOK BY DEF Init, TableOK
<1>4. PtrOK BY DEF Init, PtrOK
<1>5. CountOK
  <2>1. Registered = {} BY DEF Init, Registered
  <2> QED BY <2>1, FS_EmptySet DEF CountOK, PendingExact, Init
<1>6. WaiterCoherent BY DEF Init, WaiterCoherent, Idle
<1> QED BY <1>1, <1>2, <1>3, <1>4, <1>5, <1>6 DEF IndInv

\* Steps that leave the contexts alone leave the count right.
LEMMA CountKept ==
  ASSUME CountOK, UNCHANGED <<events, m_pendingEventCount>>
  PROVE  CountOK'
BY DEF CountOK, PendingExact, Registered

\* One more event in one context is one more registered event.
LEMMA CountAdd ==
  ASSUME TypeOK, CountOK, NEW o \in Ctx, NEW e \in EV, e \notin events[o],
         events' = [events EXCEPT ![o] = events[o] \cup {e}],
         m_pendingEventCount' = m_pendingEventCount + 1
  PROVE  CountOK' /\ m_pendingEventCount' \in Nat
<1>1. Registered' = Registered \cup {<<o, e>>} BY DEF Registered, TypeOK
<1>2. <<o, e>> \notin Registered BY DEF Registered
<1>3. IsFiniteSet(Registered') /\ Cardinality(Registered') = Cardinality(Registered) + 1
  BY <1>1, <1>2, FS_AddElement DEF CountOK
<1> QED BY <1>3 DEF CountOK, PendingExact, TypeOK

\* Taking the events S out of a context makes as many fewer.
LEMMA CountTake ==
  ASSUME TypeOK, CountOK, NEW o \in Ctx, NEW S, S \subseteq events[o],
         events' = [events EXCEPT ![o] = events[o] \ S],
         m_pendingEventCount' = m_pendingEventCount - Cardinality(S)
  PROVE  CountOK' /\ m_pendingEventCount' \in Nat
<1>1. Registered' = Registered \ ({o} \X S) BY DEF Registered, TypeOK
<1>2. {o} \X S \subseteq Registered BY DEF Registered, TypeOK
<1>3. IsFiniteSet(EV)
  <2>1. IsFiniteSet({READ} \cup {WRITE}) BY FS_Singleton, FS_AddElement
  <2> QED BY <2>1 DEF EV
<1>4. S \in SUBSET EV BY DEF TypeOK
<1>5. IsFiniteSet(S) /\ IsFiniteSet({o}) /\ Cardinality({o}) = 1
  BY <1>3, <1>4, FS_Subset, FS_Singleton
<1>6. Cardinality({o} \X S) = 1 * Cardinality(S) /\ Cardinality(S) \in Nat
  BY <1>5, FS_Product, FS_CardinalityType
<1>7. Registered \cap ({o} \X S) = {o} \X S BY <1>2
<1>8. /\ IsFiniteSet(Registered')
      /\ Cardinality(Registered') = Cardinality(Registered) - Cardinality({o} \X S)
  <2> DEFINE T == {o} \X S
  <2>1. Registered' = Registered \ T /\ Registered \cap T = T BY <1>1, <1>7
  <2>2. IsFiniteSet(Registered) BY DEF CountOK
  <2> HIDE DEF T
  <2>3. /\ IsFiniteSet(Registered \ T)
        /\ Cardinality(Registered \ T) = Cardinality(Registered) - Cardinality(Registered \cap T)
    BY <2>2, FS_Difference
  <2>4. IsFiniteSet(Registered') /\ Cardinality(Registered') = Cardinality(Registered) - Cardinality(T)
    BY <2>1, <2>3
  <2> QED BY <2>4 DEF T
<1>9. Cardinality(Registered') \in Nat BY <1>8, FS_CardinalityType
<1> QED BY <1>6, <1>8, <1>9 DEF CountOK, PendingExact, TypeOK

\* Who is in a context waits there for that event.
LEMMA SlotOK ==
  ASSUME TypeOK, WaiterCoherent, NEW o \in Ctx, NEW e \in EV, waiter[o][e] # None
  PROVE  /\ waiter[o][e] \in Callers /\ e \in events[o]
         /\ call[waiter[o][e]] = [at |-> "wait", op |-> "add", fd |-> o[1], ev |-> e, ctx |-> o]
<1>1. waiter[o][e] \in Callers
  <2>1. waiter[o] \in [EV -> Callers \cup {None}] BY DEF TypeOK
  <2> QED BY <2>1
<1>2. e \in events[o] BY Zenon DEF WaiterCoherent
<1>3. call[waiter[o][e]] = [at |-> "wait", op |-> "add", fd |-> o[1], ev |-> e, ctx |-> o]
  BY Zenon DEF WaiterCoherent
<1> QED BY <1>1, <1>2, <1>3

\* A caller that neither waits nor begins to wait does not disturb the others.
LEMMA WaiterKept ==
  ASSUME TypeOK, WaiterCoherent, NEW c \in Callers, call[c].at # "wait", NEW r \in Calls,
         r.at # "wait", call' = [call EXCEPT ![c] = r], UNCHANGED <<events, waiter>>
  PROVE  WaiterCoherent'
<1>1. \A d \in Callers : d # c => call'[d] = call[d] BY DEF TypeOK
<1>2. call'[c] = r BY DEF TypeOK
<1>3. \A o \in Ctx, e \in EV : waiter[o][e] # None => waiter[o][e] \in Callers \ {c}
  <2> SUFFICES ASSUME NEW o \in Ctx, NEW e \in EV, waiter[o][e] # None
               PROVE  waiter[o][e] \in Callers \ {c}
      OBVIOUS
  <2>1. waiter[o][e] \in Callers /\ call[waiter[o][e]] = [at |-> "wait", op |-> "add", fd |-> o[1], ev |-> e, ctx |-> o]
    BY SlotOK
  <2> QED BY <2>1
<1> QED BY <1>1, <1>2, <1>3 DEF WaiterCoherent

\* A step of one caller outside the contexts' critical sections.
LEMMA CallInv ==
  ASSUME IndInv, NEW c \in Callers, call[c].at # "wait", NEW r \in Calls, r.at # "wait",
         r.at # "idle" => r.fd \in Fds /\ r.ev \in EV,
         r.at = "do" => r.ctx \in Ctx /\ r.ctx[1] = r.fd,
         r.at = "grow" => InitSize <= r.fd,
         call' = [call EXCEPT ![c] = r], UNCHANGED contexts
  PROVE  /\ call' \in [Callers -> Calls]
         /\ CallOK' /\ CountOK' /\ WaiterCoherent'
<1> USE DEF IndInv, contexts
<1>1. call' \in [Callers -> Calls] BY DEF TypeOK
<1>2. CallOK' BY DEF CallOK, TypeOK
<1>3. CountOK' BY CountKept
<1>4. WaiterCoherent' BY WaiterKept
<1> QED BY <1>1, <1>2, <1>3, <1>4

\* What a caller is in after its critical section.
LEMMA AfterOK ==
  ASSUME IndInv, NEW c \in Callers, call[c].at = "do"
  PROVE  /\ After(c) \in Calls /\ After(c).at \in {"idle", "closing"}
         /\ After(c).at # "idle" => After(c).fd \in Fds /\ After(c).ev \in EV
<1>1. call[c] \in Calls BY DEF IndInv, TypeOK
<1>2. call[c].fd \in Fds /\ call[c].ev \in EV BY DEF IndInv, CallOK
<1> QED BY <1>1, <1>2 DEF After, Idle, Calls

\* The loops over an epoll result and the calls that withdraw events wake or
\* forget exactly the callers waiting for them.
LEMMA TriggerInv ==
  ASSUME IndInv, NEW o \in Ctx, NEW S, S \subseteq events[o], NEW c \in Callers \cup {None},
         Doing(c), NEW at \in {"ready", "idle"}, Trigger(o, S, c, at)
  PROVE  WaitersOK'
<1> DEFINE Hit(d) == \E e \in S : waiter[o][e] = d
<1> USE DEF IndInv, Doing
<1>1. events' = [events EXCEPT ![o] = events[o] \ S] /\ events' \in [Ctx -> SUBSET EV]
  BY DEF Trigger, TypeOK
<1>2. /\ waiter' = [waiter EXCEPT ![o] = [e \in EV |-> IF e \in S THEN None ELSE waiter[o][e]]]
      /\ waiter' \in [Ctx -> [EV -> Callers \cup {None}]]
  BY DEF Trigger, TypeOK
<1>3. \A d \in Callers : /\ d = c => call'[d] = After(d)
                         /\ d # c /\ ~Hit(d) => call'[d] = call[d]
                         /\ d # c /\ Hit(d) =>
                              call'[d] = IF at = "ready" THEN [call[d] EXCEPT !.at = at] ELSE Idle
  BY DEF Trigger, Notify
<1>4. \A d \in Callers : Hit(d) => call[d].at = "wait" /\ call[d].ctx = o /\ call[d].ev \in S
  <2> SUFFICES ASSUME NEW d \in Callers, NEW e \in S, waiter[o][e] = d
               PROVE  call[d].at = "wait" /\ call[d].ctx = o /\ call[d].ev = e
      OBVIOUS
  <2>1. e \in EV /\ d # None BY DEF TypeOK
  <2>2. call[d] = [at |-> "wait", op |-> "add", fd |-> o[1], ev |-> e, ctx |-> o] BY <2>1, SlotOK
  <2> QED BY <2>2
<1>5. \A d \in Callers : call[d] \in Calls BY DEF TypeOK
<1>6. \A d \in Callers : call'[d] \in Calls
  <2> SUFFICES ASSUME NEW d \in Callers PROVE call'[d] \in Calls OBVIOUS
  <2>1. Idle \in Calls BY DEF Idle, Calls
  <2>2. [call[d] EXCEPT !.at = "ready"] \in Calls BY <1>5 DEF Calls
  <2> QED BY <1>3, <1>5, <2>1, <2>2, AfterOK
<1>7. call' \in [Callers -> Calls]
  <2>1. call' = [d \in Callers |-> call'[d]] BY DEF Trigger, Notify
  <2> QED BY <1>6, <2>1
<1>8. CallOK'
  <2> SUFFICES ASSUME NEW d \in Callers
               PROVE /\ call'[d].at # "idle" => call'[d].fd \in Fds /\ call'[d].ev \in EV
                     /\ call'[d].at \in {"do", "wait"} =>
                          call'[d].ctx \in Ctx /\ call'[d].ctx[1] = call'[d].fd
                     /\ call'[d].at = "grow" => InitSize <= call'[d].fd
      BY DEF CallOK
  <2>1. CASE d = c BY <1>3, <2>1, AfterOK
  <2>2. CASE d # c /\ ~Hit(d) BY <1>3, <2>2 DEF CallOK
  <2>3. CASE d # c /\ Hit(d)
    <3>1. CASE at = "ready"
      <4>1. call'[d] = [call[d] EXCEPT !.at = "ready"] BY <1>3, <2>3, <3>1
      <4>2. call'[d].at = "ready" /\ call'[d].fd = call[d].fd /\ call'[d].ev = call[d].ev
        BY <1>5, <4>1 DEF Calls
      <4> QED BY <1>4, <2>3, <4>2 DEF CallOK
    <3>2. CASE at = "idle" BY <1>3, <2>3, <3>2 DEF Idle
    <3> QED BY <3>1, <3>2
  <2> QED BY <2>1, <2>2, <2>3
<1>9. \A d \in Callers : call'[d].at = "wait" <=> d # c /\ ~Hit(d) /\ call[d].at = "wait"
  <2> SUFFICES ASSUME NEW d \in Callers
               PROVE call'[d].at = "wait" <=> d # c /\ ~Hit(d) /\ call[d].at = "wait"
      OBVIOUS
  <2>1. CASE d = c BY <1>3, <2>1, AfterOK
  <2>2. CASE d # c /\ ~Hit(d) BY <1>3, <2>2
  <2>3. CASE d # c /\ Hit(d)
    <3>1. [call[d] EXCEPT !.at = "ready"].at = "ready" BY <1>5 DEF Calls
    <3>2. CASE at = "ready" BY <1>3, <2>3, <3>1, <3>2
    <3>3. CASE at = "idle" BY <1>3, <2>3, <3>3 DEF Idle
    <3> QED BY <3>2, <3>3
  <2> QED BY <2>1, <2>2, <2>3
<1>10. ASSUME NEW x \in Ctx, NEW e \in EV, ~(x = o /\ e \in S)
       PROVE  waiter'[x][e] = waiter[x][e] /\ (e \in events'[x] <=> e \in events[x])
  BY <1>1, <1>2, <1>10 DEF TypeOK
<1>11. ASSUME NEW e \in S PROVE waiter'[o][e] = None /\ e \notin events'[o] /\ e \in EV
  BY <1>1, <1>2 DEF TypeOK
<1>12. ASSUME NEW x \in Ctx, NEW e \in EV
       PROVE  /\ (e \in events'[x]) <=> (waiter'[x][e] # None)
              /\ waiter'[x][e] # None => call'[waiter'[x][e]] =
                   [at |-> "wait", op |-> "add", fd |-> x[1], ev |-> e, ctx |-> x]
  <2>1. CASE x = o /\ e \in S BY <1>11, <2>1
  <2>2. CASE ~(x = o /\ e \in S)
    <3> DEFINE d == waiter[x][e]
    <3>1. CASE d = None BY <1>10, <2>2, <3>1 DEF WaiterCoherent
    <3>2. CASE d # None
      <4>1. /\ d \in Callers /\ e \in events[x]
            /\ call[d] = [at |-> "wait", op |-> "add", fd |-> x[1], ev |-> e, ctx |-> x]
        BY <3>2, SlotOK
      <4>2. d # c BY <4>1
      <4>3. ~Hit(d) BY <1>4, <2>2, <4>1
      <4>4. call'[d] = call[d] BY <1>3, <4>1, <4>2, <4>3
      <4> QED BY <1>10, <2>2, <3>2, <4>1, <4>4
    <3> QED BY <3>1, <3>2
  <2> QED BY <2>1, <2>2
<1>13. ASSUME NEW d \in Callers, call'[d].at = "wait"
       PROVE  waiter'[call'[d].ctx][call'[d].ev] = d
  <2>1. d # c /\ ~Hit(d) /\ call[d].at = "wait" BY <1>9, <1>13
  <2>2. call'[d] = call[d] BY <1>3, <2>1
  <2>3. waiter[call[d].ctx][call[d].ev] = d BY <2>1 DEF WaiterCoherent
  <2>4. call[d].ctx \in Ctx /\ call[d].ev \in EV BY <2>1 DEF CallOK
  <2>5. ~(call[d].ctx = o /\ call[d].ev \in S) BY <2>1, <2>3
  <2> QED BY <1>10, <2>2, <2>3, <2>4, <2>5
<1>14. WaiterCoherent' BY <1>12, <1>13 DEF WaiterCoherent
<1> QED BY <1>1, <1>2, <1>7, <1>8, <1>14 DEF WaitersOK

\* Type correctness from what a step changes.
LEMMA TypeFrom ==
  ASSUME TypeOK, call' \in [Callers -> Calls], events' \in [Ctx -> SUBSET EV],
         waiter' \in [Ctx -> [EV -> Callers \cup {None}]], m_pendingEventCount' \in Nat,
         interest' \in [Fds -> SUBSET EV], ptr' \in [Fds -> Ctx \cup {None}],
         armed' \in [Fds -> BOOLEAN], failed' \in BOOLEAN,
         batch' \in [Pollers -> SUBSET [ctx : Ctx, evs : SUBSET (EV \cup {ERR})]],
         ready' \in [Fds -> SUBSET (EV \cup {ERR})], UNCHANGED <<table, spoilt>>
  PROVE  TypeOK'
BY DEF TypeOK, table

\* A successful epoll_ctl() keeps the kernel's side in order.
LEMMA CtlInv ==
  ASSUME TypeOK, PtrOK, NEW fd \in Fds, NEW o \in Ctx, NEW want \in SUBSET EV,
         EpollCtl(fd, o, want)
  PROVE  /\ interest' \in [Fds -> SUBSET EV] /\ ptr' \in [Fds -> Ctx \cup {None}]
         /\ armed' \in [Fds -> BOOLEAN] /\ PtrOK'
<1>1. interest' \in [Fds -> SUBSET EV] BY DEF EpollCtl, TypeOK
<1>2. ptr' \in [Fds -> Ctx \cup {None}] BY DEF EpollCtl, TypeOK
<1>3. armed' \in [Fds -> BOOLEAN]
  <2>1. (Poll(fd, want) # {}) \in BOOLEAN OBVIOUS
  <2> QED BY <2>1, Zenon DEF EpollCtl, TypeOK
<1>4. PtrOK' BY DEF EpollCtl, TypeOK, PtrOK
<1> QED BY <1>1, <1>2, <1>3, <1>4

\* A caller returns from a critical section in which nothing changed.
LEMMA ReturnInv ==
  ASSUME IndInv, NEW c \in Callers, call[c].at = "do", Return(c), UNCHANGED <<table, batch, ready, spoilt>>
  PROVE  IndInv'
<1>1. /\ After(c) \in Calls /\ After(c).at \in {"idle", "closing"}
      /\ After(c).at # "idle" => After(c).fd \in Fds /\ After(c).ev \in EV
  BY AfterOK
<1>2. call' = [call EXCEPT ![c] = After(c)] /\ UNCHANGED <<contexts, kernel, failed>>
  BY DEF Return
<1>3. call' \in [Callers -> Calls] /\ CallOK' /\ CountOK' /\ WaiterCoherent'
  BY <1>1, <1>2, CallInv
<1>4. TypeOK' BY <1>2, <1>3 DEF IndInv, TypeOK, table, contexts, kernel
<1> QED BY <1>2, <1>3, <1>4 DEF IndInv, TableOK, PtrOK, table, kernel

\* A failed assertion changes nothing but the flag.
LEMMA AbortInv ==
  ASSUME IndInv, Abort, UNCHANGED <<table, ready, spoilt>>,
         batch' \in [Pollers -> SUBSET [ctx : Ctx, evs : SUBSET (EV \cup {ERR})]]
  PROVE  IndInv'
<1> USE DEF IndInv, Abort, contexts, kernel, table
<1>1. TypeOK' BY DEF TypeOK
<1>2. CallOK' /\ TableOK' /\ PtrOK' BY DEF CallOK, TableOK, PtrOK
<1>3. CountOK' BY CountKept
<1>4. WaiterCoherent' BY DEF WaiterCoherent
<1> QED BY <1>1, <1>2, <1>3, <1>4

\* The start of a call.
LEMMA BeginInv ==
  ASSUME IndInv, NEW c \in Callers, NEW fd \in Fds, NEW e \in EV, NEW op \in Ops \cup {"add"},
         Begin(c, op, fd, e)
  PROVE  IndInv'
<1> DEFINE r == [at |-> "lookup", op |-> op, fd |-> fd, ev |-> e, ctx |-> None]
<1>1. r \in Calls BY DEF Calls
<1>2. /\ call[c].at = "idle" /\ call' = [call EXCEPT ![c] = r]
      /\ UNCHANGED <<table, contexts, batch, kernel, ready, failed, spoilt>>
  BY DEF Begin
<1>3. call' \in [Callers -> Calls] /\ CallOK' /\ CountOK' /\ WaiterCoherent'
  BY <1>1, <1>2, CallInv
<1>4. TypeOK' BY <1>2, <1>3 DEF IndInv, TypeOK, table, contexts, kernel
<1> QED BY <1>2, <1>3, <1>4 DEF IndInv, TableOK, PtrOK, table, kernel

\* The look-up finds an object, or goes on to grow the table.
LEMMA LookupInv ==
  ASSUME IndInv, NEW c \in Callers, Lookup(c)
  PROVE  IndInv'
<1> DEFINE fd == call[c].fd
           r == IF fd < size THEN [call[c] EXCEPT !.at = "do", !.ctx = <<fd, cell[fd]>>]
                ELSE IF call[c].op = "add" THEN [call[c] EXCEPT !.at = "grow"]
                ELSE IF call[c].op = "close" THEN [call[c] EXCEPT !.at = "closing"]
                ELSE Idle
<1>1. /\ call[c].at = "lookup" /\ call' = [call EXCEPT ![c] = r]
      /\ UNCHANGED <<table, contexts, batch, kernel, ready, failed, spoilt>>
  BY DEF Lookup
<1>2. fd \in Fds /\ call[c].ev \in EV /\ call[c] \in Calls BY <1>1 DEF IndInv, CallOK, TypeOK
<1>3. fd < size => <<fd, cell[fd]>> \in Ctx
  <2>1. cell[fd] \in 0..MaxGen BY <1>2 DEF IndInv, TypeOK
  <2>2. fd < size => cell[fd] >= 1 BY <1>2 DEF IndInv, TableOK
  <2>3. fd < size => cell[fd] \in 1..MaxGen BY <2>1, <2>2
  <2> QED BY <1>2, <2>3 DEF Ctx
<1>4. fd \in Nat /\ size \in Nat /\ InitSize <= size BY <1>2 DEF IndInv, TypeOK, TableOK
<1>5. /\ r \in Calls /\ r.at # "wait"
      /\ r.at # "idle" => r.fd \in Fds /\ r.ev \in EV
      /\ r.at = "do" => r.ctx \in Ctx /\ r.ctx[1] = r.fd
      /\ r.at = "grow" => InitSize <= r.fd
  <2>1. CASE fd < size
    <3>1. r = [at |-> "do", op |-> call[c].op, fd |-> fd, ev |-> call[c].ev, ctx |-> <<fd, cell[fd]>>]
      BY <1>2, <2>1 DEF Calls
    <3> HIDE DEF r
    <3> QED BY <1>2, <1>3, <2>1, <3>1 DEF Calls
  <2>2. CASE ~(fd < size) /\ call[c].op = "add" BY <1>2, <1>4, <2>2 DEF Calls
  <2>3. CASE ~(fd < size) /\ call[c].op = "close" BY <1>2, <2>3 DEF Calls
  <2>4. CASE ~(fd < size) /\ call[c].op \notin {"add", "close"} BY <2>4 DEF Calls, Idle
  <2> QED BY <2>1, <2>2, <2>3, <2>4
<1> HIDE DEF r
<1>6. call' \in [Callers -> Calls] /\ CallOK' /\ CountOK' /\ WaiterCoherent'
  BY <1>1, <1>5, CallInv
<1>7. TypeOK' BY <1>1, <1>6 DEF IndInv, TypeOK, table, contexts, kernel
<1> QED BY <1>1, <1>6, <1>7 DEF IndInv, TableOK, PtrOK, table, kernel

\* contextResize() leaves the table with an object for the caller.
LEMMA GrowInv ==
  ASSUME IndInv, NEW c \in Callers, Grow(c)
  PROVE  IndInv'
<1> DEFINE fd == call[c].fd
           n == GrownSize(fd)
<1>1. /\ call[c].at = "grow" /\ ContextResize(n)
      /\ UNCHANGED <<contexts, batch, kernel, ready, failed>>
  BY DEF Grow
<1>2. /\ fd \in Fds /\ call[c].ev \in EV /\ call[c] \in Calls /\ InitSize <= fd
  BY <1>1 DEF IndInv, CallOK, TypeOK
<1>4. fd \in Nat /\ fd < n /\ n \in Nat /\ InitSize <= n
  <2>0. fd \in Fds /\ InitSize <= fd BY <1>2
  <2> HIDE DEF fd
  <2>1. fd \in Nat /\ ~(fd < InitSize) BY <2>0
  <2>2. fd < n BY <2>0, <2>1
  <2>3. n \in Int BY <2>1 DEF GrownSize
  <2> QED BY <2>1, <2>2, <2>3
<1> HIDE DEF n
<1>5. /\ size' = n /\ TableOK' /\ cell' \in [Fds -> 0..MaxGen]
  <2>1. \A f \in Fds : f \in Nat /\ cell[f] \in 0..MaxGen BY DEF IndInv, TypeOK
  <2>2. cell' = [f \in Fds |-> IF size <= f /\ f < n THEN cell[f] + 1 ELSE cell[f]]
    BY <1>1 DEF ContextResize
  <2>3. size' = n /\ \A f \in Fds : cell'[f] <= MaxGen BY <1>1 DEF ContextResize
  <2>4. \A f \in Fds : cell'[f] \in 0..MaxGen BY <2>1, <2>2, <2>3
  <2>5. cell' \in [Fds -> 0..MaxGen] BY <2>2, <2>4
  <2>6. \A f \in Fds : f < n => cell'[f] >= 1
    BY <1>4, <2>1, <2>2 DEF IndInv, TableOK, TypeOK
  <2> QED BY <1>2, <1>4, <2>3, <2>5, <2>6 DEF TableOK
<1>6. PICK k \in 1..MaxGen : k = cell'[fd]
  <2>1. cell'[fd] \in 0..MaxGen BY <1>2, <1>5
  <2>2. fd < size' => cell'[fd] >= 1 BY <1>2, <1>5 DEF TableOK
  <2> QED BY <1>4, <1>5, <2>1, <2>2
<1> DEFINE x == <<fd, k>>
           r == [call[c] EXCEPT !.at = "do", !.ctx = x]
<1>3. call' = [call EXCEPT ![c] = r] BY <1>6 DEF Grow, IndInv, TypeOK
<1>7. r \in Calls /\ r.at = "do" /\ r.fd \in Fds /\ r.ev \in EV /\ r.ctx \in Ctx /\ r.ctx[1] = r.fd
  <2>1. x \in Ctx /\ x[1] = call[c].fd BY <1>2 DEF Ctx
  <2> HIDE DEF x
  <2>2. call[c] \in Calls /\ call[c].fd \in Fds /\ call[c].ev \in EV BY <1>2
  <2>3. r = [call[c] EXCEPT !.at = "do", !.ctx = x] OBVIOUS
  <2> HIDE DEF r
  <2> QED BY <2>1, <2>2, <2>3 DEF Calls
<1> HIDE DEF r
<1>8. call' \in [Callers -> Calls] /\ CallOK' /\ CountOK' /\ WaiterCoherent'
  BY <1>1, <1>3, <1>7, CallInv
<1>9. spoilt' \subseteq Fds BY DEF Grow, IndInv, TypeOK
<1>10. TypeOK' BY <1>1, <1>4, <1>5, <1>8, <1>9 DEF IndInv, TypeOK, contexts, kernel
<1> QED BY <1>1, <1>5, <1>8, <1>10 DEF IndInv, PtrOK, kernel

\* addEvent() puts the caller into the empty slot of the event it asked for.
LEMMA AddEventInv ==
  ASSUME IndInv, NEW c \in Callers, AddEvent(c)
  PROVE  IndInv'
<1> DEFINE o == call[c].ctx
           fd == call[c].fd
           e == call[c].ev
<1>1. call[c].at = "do" /\ call[c].op = "add" /\ UNCHANGED <<table, batch, ready, spoilt>> BY DEF AddEvent
<1>2. o \in Ctx /\ o[1] = fd /\ fd \in Fds /\ e \in EV /\ call[c] \in Calls
  BY <1>1 DEF IndInv, CallOK, TypeOK
<1>3. CASE Return(c) BY <1>1, <1>3, ReturnInv
<1>4. CASE Abort BY <1>1, <1>4, AbortInv DEF IndInv, TypeOK
<1>5. CASE /\ e \notin events[o] /\ waiter[o][e] = None
           /\ EpollCtl(fd, o, events[o] \cup {e})
           /\ m_pendingEventCount' = m_pendingEventCount + 1
           /\ events' = [events EXCEPT ![o] = events[o] \cup {e}]
           /\ waiter' = [waiter EXCEPT ![o][e] = c]
           /\ call' = [call EXCEPT ![c].at = "wait"]
           /\ UNCHANGED failed
  <2> DEFINE w == [at |-> "wait", op |-> "add", fd |-> fd, ev |-> e, ctx |-> o]
  <2>1. events[o] \cup {e} \in SUBSET EV BY <1>2 DEF IndInv, TypeOK
  <2>2. /\ interest' \in [Fds -> SUBSET EV] /\ ptr' \in [Fds -> Ctx \cup {None}]
        /\ armed' \in [Fds -> BOOLEAN] /\ PtrOK'
    BY <1>2, <1>5, <2>1, CtlInv DEF IndInv
  <2>3. CountOK' /\ m_pendingEventCount' \in Nat BY <1>2, <1>5, CountAdd DEF IndInv
  <2>4. call'[c] = w /\ \A d \in Callers : d # c => call'[d] = call[d]
    BY <1>1, <1>2, <1>5 DEF IndInv, TypeOK, Calls
  <2>5. w \in Calls BY <1>2 DEF Calls
  <2> HIDE DEF w
  <2>6. call' \in [Callers -> Calls]
    <3>1. call' = [d \in Callers |-> call'[d]] BY <1>5 DEF IndInv, TypeOK
    <3> QED BY <2>4, <2>5, <3>1 DEF IndInv, TypeOK
  <2>7. CallOK' BY <1>2, <2>4 DEF IndInv, CallOK, w
  <2>8. /\ \A x \in Ctx, y \in EV : ~(x = o /\ y = e) => waiter'[x][y] = waiter[x][y]
        /\ waiter'[o][e] = c
        /\ waiter' \in [Ctx -> [EV -> Callers \cup {None}]]
    BY <1>2, <1>5 DEF IndInv, TypeOK
  <2>9. \A x \in Ctx, y \in EV : ~(x = o /\ y = e) => (y \in events'[x] <=> y \in events[x])
    BY <1>2, <1>5 DEF IndInv, TypeOK
  <2>10. e \in events'[o] /\ events' \in [Ctx -> SUBSET EV] BY <1>2, <1>5, <2>1 DEF IndInv, TypeOK
  <2>11. ASSUME NEW x \in Ctx, NEW y \in EV
         PROVE  /\ (y \in events'[x]) <=> (waiter'[x][y] # None)
                /\ waiter'[x][y] # None => call'[waiter'[x][y]] =
                     [at |-> "wait", op |-> "add", fd |-> x[1], ev |-> y, ctx |-> x]
    <3>1. CASE x = o /\ y = e BY <1>2, <2>4, <2>8, <2>10, <3>1 DEF w
    <3>2. CASE ~(x = o /\ y = e)
      <4> DEFINE d == waiter[x][y]
      <4>1. CASE d = None BY <2>8, <2>9, <3>2, <4>1 DEF IndInv, WaiterCoherent
      <4>2. CASE d # None
        <5>1. /\ d \in Callers /\ y \in events[x]
              /\ call[d] = [at |-> "wait", op |-> "add", fd |-> x[1], ev |-> y, ctx |-> x]
          BY <4>2, SlotOK DEF IndInv
        <5>2. d # c BY <1>1, <5>1
        <5> QED BY <2>4, <2>8, <2>9, <3>2, <4>2, <5>1, <5>2
      <4> QED BY <4>1, <4>2
    <3> QED BY <3>1, <3>2
  <2>12. ASSUME NEW d \in Callers, call'[d].at = "wait"
         PROVE  waiter'[call'[d].ctx][call'[d].ev] = d
    <3>1. CASE d = c BY <2>4, <2>8, <3>1 DEF w
    <3>2. CASE d # c
      <4>1. call'[d] = call[d] /\ call[d].at = "wait" BY <2>4, <2>12, <3>2
      <4>2. call[d].ctx \in Ctx /\ call[d].ev \in EV BY <4>1 DEF IndInv, CallOK
      <4>3. waiter[call[d].ctx][call[d].ev] = d BY <4>1 DEF IndInv, WaiterCoherent
      <4>4. ~(call[d].ctx = o /\ call[d].ev = e) BY <1>5, <4>3
      <4> QED BY <2>8, <4>1, <4>2, <4>3, <4>4
    <3> QED BY <3>1, <3>2
  <2>13. WaiterCoherent' BY <2>11, <2>12 DEF WaiterCoherent
  <2>14. TypeOK'
    BY <1>1, <1>5, <2>2, <2>3, <2>6, <2>8, <2>10, TypeFrom DEF IndInv, TypeOK
  <2> QED BY <1>1, <2>2, <2>3, <2>7, <2>13, <2>14 DEF IndInv, TableOK, table
<1> QED BY <1>3, <1>4, <1>5 DEF AddEvent

\* A context loses the events S, epoll is told, the counter follows.
LEMMA TakeInv ==
  ASSUME IndInv, NEW o \in Ctx, NEW S, S \subseteq events[o], NEW c \in Callers \cup {None},
         Doing(c), NEW at \in {"ready", "idle"}, Trigger(o, S, c, at),
         EpollCtl(o[1], o, events[o] \ S),
         m_pendingEventCount' = m_pendingEventCount - Cardinality(S),
         UNCHANGED <<table, ready, failed, spoilt>>,
         batch' \in [Pollers -> SUBSET [ctx : Ctx, evs : SUBSET (EV \cup {ERR})]]
  PROVE  IndInv'
<1>1. o[1] \in Fds /\ events[o] \ S \in SUBSET EV BY DEF Ctx, IndInv, TypeOK
<1>2. /\ interest' \in [Fds -> SUBSET EV] /\ ptr' \in [Fds -> Ctx \cup {None}]
      /\ armed' \in [Fds -> BOOLEAN] /\ PtrOK'
  BY <1>1, CtlInv DEF IndInv
<1>3. /\ call' \in [Callers -> Calls] /\ events' \in [Ctx -> SUBSET EV]
      /\ waiter' \in [Ctx -> [EV -> Callers \cup {None}]]
      /\ CallOK' /\ WaiterCoherent'
  <2>1. WaitersOK' BY TriggerInv
  <2> QED BY <2>1 DEF WaitersOK
<1>4. CountOK' /\ m_pendingEventCount' \in Nat BY CountTake DEF IndInv, Trigger
<1>5. TypeOK' BY <1>2, <1>3, <1>4, TypeFrom DEF IndInv, TypeOK
<1> QED BY <1>2, <1>3, <1>4, <1>5 DEF IndInv, TableOK, table

\* delEvent(), cancelEvent() and cancelAll().
LEMMA WithdrawInv ==
  ASSUME IndInv, NEW c \in Callers, call[c].at = "do", NEW S, NEW at \in {"ready", "idle"},
         Withdraw(c, S, at)
  PROVE  IndInv'
<1> DEFINE o == call[c].ctx
<1>1. o \in Ctx /\ call[c].fd = o[1] BY DEF IndInv, CallOK
<1>2. UNCHANGED <<table, batch, ready, spoilt>> BY DEF Withdraw
<1>3. CASE Return(c) BY <1>2, <1>3, ReturnInv
<1>4. CASE S # {} /\ S \subseteq events[o] /\ CtlOK(call[c].fd, events[o])
  <2>1. /\ EpollCtl(o[1], o, events[o] \ S)
        /\ m_pendingEventCount' = m_pendingEventCount - Cardinality(S)
        /\ Trigger(o, S, c, at) /\ UNCHANGED failed
    BY <1>1, <1>4 DEF Withdraw, LeftEvents
  <2>2. batch' \in [Pollers -> SUBSET [ctx : Ctx, evs : SUBSET (EV \cup {ERR})]]
    BY <1>2 DEF IndInv, TypeOK
  <2> HIDE DEF o
  <2> QED BY <1>1, <1>2, <1>4, <2>1, <2>2, TakeInv DEF o, Doing
<1> QED BY <1>3, <1>4 DEF Withdraw

\* The hook's close() and a scheduled fiber touch no context.
LEMMA CloseResumeInv ==
  ASSUME IndInv, NEW c \in Callers, Close(c) \/ Resume(c)
  PROVE  IndInv'
<1>1. /\ call[c].at \in {"closing", "ready"} /\ call' = [call EXCEPT ![c] = Idle]
      /\ UNCHANGED <<table, contexts, batch, failed, ptr>>
  BY DEF Close, Resume, kernel
<1>2. Idle \in Calls /\ Idle.at = "idle" BY DEF Idle, Calls
<1>3. call' \in [Callers -> Calls] /\ CallOK' /\ CountOK' /\ WaiterCoherent'
  BY <1>1, <1>2, CallInv
<1>4. call[c].fd \in Fds BY <1>1 DEF IndInv, CallOK
<1>5. /\ interest' \in [Fds -> SUBSET EV] /\ armed' \in [Fds -> BOOLEAN]
      /\ ready' \in [Fds -> SUBSET (EV \cup {ERR})] /\ PtrOK'
  BY <1>4 DEF Close, Resume, kernel, IndInv, TypeOK, PtrOK
<1>6. spoilt' \subseteq Fds BY <1>4 DEF Close, Resume, IndInv, TypeOK
<1>7. TypeOK' BY <1>1, <1>3, <1>5, <1>6 DEF IndInv, TypeOK, table, contexts
<1> QED BY <1>1, <1>3, <1>5, <1>7 DEF IndInv, TableOK, table

\* epoll_wait() hands out pointers to contexts.
LEMMA EpollWaitInv ==
  ASSUME IndInv, NEW p \in Pollers, EpollWait(p)
  PROVE  IndInv'
<1> DEFINE B == {[ctx |-> ptr[f], evs |-> Poll(f, interest[f])] : f \in Hot}
<1>1. /\ batch' = [batch EXCEPT ![p] = B] /\ armed' = [f \in Fds |-> armed[f] /\ f \notin Hot]
      /\ UNCHANGED <<table, contexts, call, interest, ptr, ready, failed, spoilt>>
  BY DEF EpollWait
<1>2. \A f \in Hot : ptr[f] \in Ctx /\ Poll(f, interest[f]) \in SUBSET (EV \cup {ERR})
  BY DEF Hot, Poll, IndInv, TypeOK, PtrOK
<1>3. B \in SUBSET [ctx : Ctx, evs : SUBSET (EV \cup {ERR})] BY <1>2
<1> HIDE DEF B
<1>4. batch' \in [Pollers -> SUBSET [ctx : Ctx, evs : SUBSET (EV \cup {ERR})]]
  BY <1>1, <1>3 DEF IndInv, TypeOK
<1>5. armed' \in [Fds -> BOOLEAN] BY <1>1, Zenon
<1>6. TypeOK' BY <1>1, <1>4, <1>5 DEF IndInv, TypeOK, table, contexts
<1>7. CountOK' BY <1>1, CountKept DEF IndInv, contexts
<1> QED BY <1>1, <1>6, <1>7
    DEF IndInv, CallOK, TableOK, PtrOK, WaiterCoherent, table, contexts

\* One round of the loop over the events returned.
LEMMA ProcessInv ==
  ASSUME IndInv, NEW p \in Pollers, NEW r \in batch[p], Process(p, r)
  PROVE  IndInv'
<1> DEFINE o == r.ctx
           real == RealEvents(r)
<1>1. r \in [ctx : Ctx, evs : SUBSET (EV \cup {ERR})] BY DEF IndInv, TypeOK
<1>2. o \in Ctx BY <1>1
<1>3. batch' \in [Pollers -> SUBSET [ctx : Ctx, evs : SUBSET (EV \cup {ERR})]]
  BY DEF Process, IndInv, TypeOK
<1>4. UNCHANGED <<table, ready, spoilt>> BY DEF Process
<1>5. CASE UNCHANGED <<contexts, call, kernel, failed>>
  <2>1. TypeOK' BY <1>3, <1>4, <1>5 DEF IndInv, TypeOK, table, contexts, kernel
  <2>2. CountOK' BY <1>5, CountKept DEF IndInv, contexts
  <2> QED BY <1>4, <1>5, <2>1, <2>2
      DEF IndInv, CallOK, TableOK, PtrOK, WaiterCoherent, table, contexts, kernel
<1>6. CASE Abort BY <1>3, <1>4, <1>6, AbortInv
<1>7. CASE /\ real \subseteq events[o] /\ EpollCtl(o[1], o, LeftEvents(o, real))
           /\ m_pendingEventCount' = m_pendingEventCount - Triggered(real)
           /\ Trigger(o, real, None, "ready")
           /\ UNCHANGED failed
  <2>1. /\ EpollCtl(o[1], o, events[o] \ real)
        /\ m_pendingEventCount' = m_pendingEventCount - Cardinality(real)
    BY <1>7 DEF LeftEvents, Triggered
  <2> HIDE DEF o, real
  <2> QED BY <1>2, <1>3, <1>4, <1>7, <2>1, TakeInv DEF Doing
<1> QED BY <1>5, <1>6, <1>7 DEF Process

\* Data arrives at a file or is consumed.
LEMMA FileInv ==
  ASSUME IndInv, NEW fd \in Fds, (\E e \in Arrivals : Edge(fd, e)) \/ (\E e \in EV : Drain(fd, e))
  PROVE  IndInv'
<1>1. UNCHANGED <<table, contexts, call, batch, interest, ptr, failed, spoilt>>
  BY DEF Edge, Drain, kernel
<1>2. ready' \in [Fds -> SUBSET (EV \cup {ERR})] BY DEF Edge, Drain, IndInv, TypeOK
<1>3. armed' \in [Fds -> BOOLEAN] BY Zenon DEF Edge, Drain, kernel, IndInv, TypeOK
<1>4. TypeOK' BY <1>1, <1>2, <1>3 DEF IndInv, TypeOK, table, contexts
<1>5. CountOK' BY <1>1, CountKept DEF IndInv, contexts
<1> QED BY <1>1, <1>4, <1>5
    DEF IndInv, CallOK, TableOK, PtrOK, WaiterCoherent, table, contexts

\* Every step preserves the invariant.
LEMMA NextInv ==
  ASSUME IndInv, [Next]_vars
  PROVE  IndInv'
<1>1. ASSUME NEW c \in Callers, CallerStep(c) PROVE IndInv'
  <2>1. CASE DelEvent(c) \/ CancelEvent(c) \/ CancelAll(c)
    BY <2>1, WithdrawInv DEF DelEvent, CancelEvent, CancelAll
  <2> QED BY <1>1, <2>1, LookupInv, GrowInv, AddEventInv, CloseResumeInv DEF CallerStep
<1>2. ASSUME NEW p \in Pollers, PollerStep(p) PROVE IndInv'
  BY <1>2, EpollWaitInv, ProcessInv DEF PollerStep
<1>3. CASE UNCHANGED vars
  <2> USE <1>3 DEF vars, table, contexts, kernel, IndInv
  <2>1. TypeOK' BY DEF TypeOK
  <2>2. CountOK' BY CountKept
  <2> QED BY <2>1, <2>2 DEF CallOK, TableOK, PtrOK, WaiterCoherent
<1> QED BY <1>1, <1>2, <1>3, BeginInv, FileInv DEF Next, Aborted

\* The invariant holds in every reachable state.
LEMMA Invariance == Spec => []IndInv
<1>1. Init => IndInv BY InitInv
<1>2. IndInv /\ [Next]_vars => IndInv' BY NextInv
<1> QED BY <1>1, <1>2, PTL DEF Spec

\* Every variable keeps its type: in particular m_pendingEventCount, a
\* size_t, is never decremented below zero, and epoll and the callers only
\* hold pointers to contexts that were made.
THEOREM TypeTheorem == Spec => []TypeOK
<1>1. IndInv => TypeOK BY DEF IndInv
<1> QED BY <1>1, Invariance, PTL

\* m_pendingEventCount, by which IOManager::stopping() decides, is the number
\* of registered events, also when a racing contextResize() has dropped the
\* contexts or close() the descriptor.
THEOREM PendingTheorem == Spec => []PendingExact
<1>1. IndInv => PendingExact BY DEF IndInv, CountOK
<1> QED BY <1>1, Invariance, PTL

\* Registered events and waiting callers correspond one to one.
THEOREM WaiterTheorem == Spec => []WaiterCoherent
<1>1. IndInv => WaiterCoherent BY DEF IndInv
<1> QED BY <1>1, Invariance, PTL
----------------------------------------------------------------------------
(* The descriptors that were not spoilt. Only the FdContext in the table is *)
(* in use, and epoll and the pollers agree with it. What is shown of one    *)
(* descriptor does not depend on what happens to another.                   *)

\* The descriptor's object in the table.
Cur(f) == <<f, cell[f]>>

\* Which operation a call is, by where it is.
Shape(r) ==
  /\ r.at \in {"grow", "wait", "ready"} => r.op = "add"
  /\ r.at = "idle" => r.op = "none"
  /\ r.at = "closing" => r.op = "close"

Shapes == \A c \in Callers : Shape(call[c])

\* epoll's pointer is to an object of the descriptor.
PtrShape == \A f \in Fds : ptr[f] # None => ptr[f] \in Ctx /\ ptr[f][1] = f

\* Past the look-up a call holds the object in the table.
Mine(f) == \A c \in Callers : call[c].at = "do" /\ call[c].fd = f => call[c].ctx = Cur(f) /\ f < size

\* Only this object has events.
Only(f) == \A o \in Ctx : o[1] = f /\ events[o] # {} => o = Cur(f) /\ f < size

\* InterestMatches, for one descriptor.
Matches(f) ==
  /\ interest[f] = IF ptr[f] = None THEN {} ELSE events[ptr[f]]
  /\ \A o \in Ctx : o[1] = f /\ events[o] # {} => ptr[f] = o

\* A poller's record of this object that holds f's event e and nothing that
\* has been withdrawn since, so that triggerEvent() finds all of it registered.
Holds(r, f, e) == r.ctx = Cur(f) /\ e \in r.evs /\ r.evs \subseteq interest[f] \cup {ERR}

\* NoLostEdge, by a record whose processing will not abort.
Covered(f) ==
  \A e \in Poll(f, interest[f]) :
    armed[f] \/ \E p \in Pollers : \E r \in batch[p] : Holds(r, f, e)

Good(f) == Mine(f) /\ Only(f) /\ Matches(f) /\ Covered(f)

SoleInv == Shapes /\ PtrShape /\ \A f \in Fds \ spoilt : Good(f)

LEMMA SoleInit == Init => SoleInv
<1> SUFFICES ASSUME Init PROVE SoleInv OBVIOUS
<1>1. Shapes BY DEF Init, Shapes, Shape, Idle
<1>2. PtrShape BY DEF Init, PtrShape
<1>3. ASSUME NEW f \in Fds PROVE Good(f)
  <2>1. Mine(f) /\ Only(f) BY DEF Init, Mine, Only, Idle
  <2>2. Matches(f) BY DEF Init, Matches
  <2>3. Covered(f) BY DEF Init, Covered, Poll
  <2> QED BY <2>1, <2>2, <2>3 DEF Good
<1> QED BY <1>1, <1>2, <1>3 DEF SoleInv

\* epoll watches for what the object has, and for nothing if there is none.
LEMMA Watched ==
  ASSUME IndInv, PtrShape, NEW f \in Fds, Good(f)
  PROVE  /\ Cur(f) \in Ctx => interest[f] = events[Cur(f)]
         /\ (\A o \in Ctx : o[1] = f => events[o] = {}) => interest[f] = {}
<1>1. ptr[f] # None => ptr[f] \in Ctx /\ ptr[f][1] = f BY DEF PtrShape
<1>2. interest[f] = IF ptr[f] = None THEN {} ELSE events[ptr[f]] BY DEF Good, Matches
<1>3. \A o \in Ctx : o[1] = f /\ events[o] # {} => ptr[f] = o /\ o = Cur(f) BY DEF Good, Matches, Only
<1>4. Cur(f)[1] = f BY DEF Cur
<1>5. None \notin Ctx OBVIOUS
<1>6. ASSUME Cur(f) \in Ctx PROVE interest[f] = events[Cur(f)]
  <2>1. CASE events[Cur(f)] # {} BY <1>2, <1>3, <1>4, <1>5, <1>6, <2>1
  <2>2. CASE events[Cur(f)] = {} BY <1>1, <1>2, <1>3, <2>2
  <2> QED BY <2>1, <2>2
<1> QED BY <1>1, <1>2, <1>6

\* Nothing of the descriptor changes but what cannot hurt it: calls that end
\* or that look its object up, edges, and more records.
Apart(f) ==
  /\ cell'[f] = cell[f] /\ (f < size => f < size')
  /\ \A o \in Ctx : o[1] = f => events'[o] = events[o]
  /\ interest'[f] = interest[f] /\ ptr'[f] = ptr[f] /\ ready'[f] = ready[f]
  /\ armed[f] => armed'[f]
  /\ \A c \in Callers :
       call'[c].at = "do" /\ call'[c].fd = f =>
         \/ call'[c] = call[c]
         \/ call'[c].ctx = Cur(f) /\ f < size
  /\ \A p \in Pollers : \A r \in batch[p] : r.ctx[1] = f => r \in batch'[p]

LEMMA ApartGood ==
  ASSUME IndInv, PtrShape, NEW f \in Fds, Good(f), Apart(f)
  PROVE  Good(f)'
<1>1. Cur(f)' = Cur(f) BY DEF Apart, Cur
<1>2. ptr[f] # None => ptr[f] \in Ctx /\ ptr[f][1] = f BY DEF PtrShape
<1>3. Mine(f)' BY <1>1 DEF Good, Mine, Apart
<1>4. Only(f)' BY <1>1 DEF Good, Only, Apart
<1>5. Matches(f)' BY <1>2 DEF Good, Matches, Apart
<1>6. Covered(f)'
  <2> SUFFICES ASSUME NEW e \in Poll(f, interest[f]), ~armed[f]
               PROVE \E p \in Pollers : \E r \in batch'[p] : Holds(r, f, e)'
      BY DEF Covered, Poll, Apart
  <2>1. PICK p \in Pollers : \E r \in batch[p] : Holds(r, f, e) BY DEF Good, Covered
  <2>2. PICK r \in batch[p] : Holds(r, f, e) BY <2>1
  <2>3. r.ctx[1] = f BY <2>2 DEF Holds, Cur
  <2>4. r \in batch'[p] BY <2>3 DEF Apart
  <2>5. Holds(r, f, e)' BY <1>1, <2>2 DEF Holds, Apart
  <2> QED BY <2>4, <2>5
<1> QED BY <1>3, <1>4, <1>5, <1>6 DEF Good

\* A descriptor without events whose object is made, dropped or closed.
LEMMA UnusedGood ==
  ASSUME IndInv, PtrShape, NEW f \in Fds, Good(f), \A o \in Ctx : o[1] = f => events[o] = {},
         UNCHANGED <<events, ptr>>, interest'[f] \in {{}, interest[f]}, Mine(f)'
  PROVE  Good(f)'
<1>1. interest[f] = {} BY Watched
<1>2. Only(f)' BY DEF Only
<1>3. Matches(f)' BY <1>1 DEF Good, Matches
<1>4. Covered(f)' BY <1>1 DEF Covered, Poll
<1> QED BY <1>2, <1>3, <1>4 DEF Good

\* The state of calls and epoll alone.
LEMMA ShapeKept ==
  ASSUME IndInv, Shapes, NEW c \in Callers, NEW r, Shape(r), call' = [call EXCEPT ![c] = r]
  PROVE  Shapes'
<1>1. \A d \in Callers : call'[d] = IF d = c THEN r ELSE call[d] BY DEF IndInv, TypeOK
<1> QED BY <1>1 DEF Shapes, Shape

LEMMA IdleShape == Shape(Idle)
BY DEF Shape, Idle

LEMMA AfterShape ==
  ASSUME IndInv, NEW c \in Callers
  PROVE  Shape(After(c)) /\ After(c).at # "do"
<1>1. call[c] \in Calls BY DEF IndInv, TypeOK
<1>2. CASE call[c].op = "close" BY <1>1, <1>2 DEF After, Shape, Calls
<1>3. CASE call[c].op # "close" BY <1>3 DEF After, Shape, Idle
<1> QED BY <1>2, <1>3

\* One call changes, to one that holds no object or has looked it up.
LEMMA CallSole ==
  ASSUME IndInv, SoleInv, NEW c \in Callers, NEW r, Shape(r), call' = [call EXCEPT ![c] = r],
         r.at = "do" => r.ctx = Cur(r.fd) /\ r.fd < size,
         UNCHANGED <<table, events, batch, kernel, ready, spoilt>>
  PROVE  SoleInv'
<1> USE DEF table, kernel
<1>1. Shapes' BY ShapeKept DEF SoleInv
<1>2. PtrShape' BY DEF SoleInv, PtrShape
<1>3. ASSUME NEW f \in Fds \ spoilt PROVE Good(f)'
  <2>1. \A d \in Callers : call'[d] = IF d = c THEN r ELSE call[d] BY DEF IndInv, TypeOK
  <2>2. Apart(f) BY <2>1 DEF Apart
  <2> QED BY <2>2, ApartGood DEF SoleInv
<1> QED BY <1>1, <1>2, <1>3 DEF SoleInv

LEMMA BeginSole ==
  ASSUME IndInv, SoleInv, NEW c \in Callers, NEW fd \in Fds, NEW e \in EV,
         NEW op \in Ops \cup {"add"}, Begin(c, op, fd, e)
  PROVE  SoleInv'
<1> DEFINE r == [at |-> "lookup", op |-> op, fd |-> fd, ev |-> e, ctx |-> None]
<1>1. Shape(r) /\ r.at # "do" BY DEF Shape
<1>2. call' = [call EXCEPT ![c] = r] /\ UNCHANGED <<table, events, batch, kernel, ready, spoilt>>
  BY DEF Begin, contexts
<1> HIDE DEF r
<1> QED BY <1>1, <1>2, CallSole

LEMMA LookupSole ==
  ASSUME IndInv, SoleInv, NEW c \in Callers, Lookup(c)
  PROVE  SoleInv'
<1> DEFINE fd == call[c].fd
<1>1. /\ call[c].at = "lookup" /\ UNCHANGED <<table, events, batch, kernel, ready, spoilt>>
  BY DEF Lookup, contexts
<1>2. call[c] \in Calls BY DEF IndInv, TypeOK
<1>3. CASE fd < size
  <2> DEFINE r == [call[c] EXCEPT !.at = "do", !.ctx = <<fd, cell[fd]>>]
  <2>1. r.at = "do" /\ r.fd = fd /\ r.ctx = Cur(fd) BY <1>2 DEF Calls, Cur
  <2>2. call' = [call EXCEPT ![c] = r] BY <1>3 DEF Lookup, IndInv, TypeOK
  <2> HIDE DEF r
  <2>3. Shape(r) BY <2>1 DEF Shape
  <2> QED BY <1>1, <1>3, <2>1, <2>2, <2>3, CallSole
<1>4. CASE ~(fd < size) /\ call[c].op = "add"
  <2> DEFINE r == [call[c] EXCEPT !.at = "grow"]
  <2>1. r.at = "grow" /\ r.op = "add" BY <1>2, <1>4 DEF Calls
  <2>2. call' = [call EXCEPT ![c] = r] BY <1>4 DEF Lookup, IndInv, TypeOK
  <2> HIDE DEF r
  <2>3. Shape(r) /\ r.at # "do" BY <2>1 DEF Shape
  <2> QED BY <1>1, <2>2, <2>3, CallSole
<1>5. CASE ~(fd < size) /\ call[c].op = "close"
  <2> DEFINE r == [call[c] EXCEPT !.at = "closing"]
  <2>1. r.at = "closing" /\ r.op = "close" BY <1>2, <1>5 DEF Calls
  <2>2. call' = [call EXCEPT ![c] = r] BY <1>5 DEF Lookup, IndInv, TypeOK
  <2> HIDE DEF r
  <2>3. Shape(r) /\ r.at # "do" BY <2>1 DEF Shape
  <2> QED BY <1>1, <2>2, <2>3, CallSole
<1>6. CASE ~(fd < size) /\ call[c].op \notin {"add", "close"}
  <2>1. call' = [call EXCEPT ![c] = Idle] BY <1>6 DEF Lookup, IndInv, TypeOK
  <2>2. Idle.at # "do" BY DEF Idle
  <2> QED BY <1>1, <2>1, <2>2, IdleShape, CallSole
<1> QED BY <1>3, <1>4, <1>5, <1>6

\* contextResize() leaves an object alone, or makes one for a descriptor that
\* had none, or drops one: without events and holders that does no harm.
LEMMA GrowSole ==
  ASSUME IndInv, SoleInv, NEW c \in Callers, Grow(c)
  PROVE  SoleInv'
<1>0. call[c].at = "grow" /\ call[c].fd \in Fds /\ InitSize <= call[c].fd /\ call[c] \in Calls
  BY DEF Grow, IndInv, CallOK, TypeOK
<1> PICK fd \in Fds : fd = call[c].fd BY <1>0
<1> PICK n : n = GrownSize(fd) OBVIOUS
<1>1. /\ ContextResize(n)
      /\ UNCHANGED <<events, batch, interest, ptr, armed, ready>>
      /\ call' = [call EXCEPT ![c].at = "do", ![c].ctx = <<fd, cell'[fd]>>]
      /\ spoilt' = spoilt \cup {f \in Fds : n <= f /\ f < size /\ InUse(f)}
  BY DEF Grow, contexts, kernel
<1>3. size \in Nat /\ n \in Int /\ fd < n /\ \A f \in Fds : f \in Nat
  <2>1. fd \in Nat /\ ~(fd < InitSize) BY <1>0
  <2>2. size \in Nat BY DEF IndInv, TypeOK
  <2> QED BY <2>1, <2>2 DEF GrownSize
<1>4. /\ size' = n
      /\ \A f \in Fds : cell'[f] = IF size <= f /\ f < n THEN cell[f] + 1 ELSE cell[f]
  BY <1>1 DEF ContextResize
<1> PICK x : x = <<fd, cell'[fd]>> OBVIOUS
<1>2. Cur(fd)' = x BY DEF Cur
<1> DEFINE r == [call[c] EXCEPT !.at = "do", !.ctx = x]
<1>5. r.at = "do" /\ r.op = call[c].op /\ r.fd = fd /\ r.ctx = x BY <1>0 DEF Calls
<1>6. call' = [call EXCEPT ![c] = r] BY <1>1 DEF IndInv, TypeOK
<1>7. \A d \in Callers : call'[d] = IF d = c THEN r ELSE call[d] BY <1>6 DEF IndInv, TypeOK
<1> HIDE DEF r
<1>8. Shapes'
  <2>1. Shape(r) BY <1>5 DEF Shape
  <2> QED BY <1>6, <2>1, ShapeKept DEF SoleInv
<1>9. PtrShape' BY <1>1 DEF SoleInv, PtrShape
<1>10. ASSUME NEW f \in Fds \ spoilt' PROVE Good(f)'
  <2>1. Good(f) /\ PtrShape /\ f \in Nat BY <1>1, <1>3 DEF SoleInv
  <2>2. CASE (size <= f /\ f < n) \/ (n <= f /\ f < size)
    <3>1. /\ \A o \in Ctx : o[1] = f => events[o] = {}
          /\ \A d \in Callers : ~(call[d].at = "do" /\ call[d].fd = f)
      <4>1. CASE size <= f BY <1>3, <2>1, <4>1 DEF Good, Only, Mine
      <4>2. CASE n <= f /\ f < size
        <5>1. ~InUse(f) BY <1>1, <4>2
        <5> QED BY <5>1 DEF InUse, Holding
      <4> QED BY <2>2, <4>1, <4>2
    <3>2. Mine(f)'
      <4> SUFFICES ASSUME NEW d \in Callers, call'[d].at = "do", call'[d].fd = f
                   PROVE  call'[d].ctx = Cur(f)' /\ f < size'
          BY DEF Mine
      <4>1. d = c BY <1>7, <3>1
      <4>2. call'[d] = r /\ f = fd BY <1>5, <1>7, <4>1
      <4> QED BY <1>2, <1>3, <1>4, <1>5, <4>2
    <3> QED BY <1>1, <2>1, <3>1, <3>2, UnusedGood
  <2>3. CASE ~((size <= f /\ f < n) \/ (n <= f /\ f < size))
    <3>1. cell'[f] = cell[f] /\ (f < size <=> f < size') BY <1>3, <1>4, <2>1, <2>3
    <3>2. Cur(f)' = Cur(f) BY <3>1 DEF Cur
    <3>3. ASSUME NEW d \in Callers, call'[d].at = "do", call'[d].fd = f
          PROVE  call'[d] = call[d] \/ (call'[d].ctx = Cur(f) /\ f < size)
      <4>1. CASE d # c BY <1>7, <4>1
      <4>2. CASE d = c
        <5>1. call'[d] = r /\ f = fd BY <1>5, <1>7, <3>3, <4>2
        <5> QED BY <1>2, <1>3, <1>4, <1>5, <3>1, <3>2, <5>1
      <4> QED BY <4>1, <4>2
    <3>4. Apart(f) BY <1>1, <3>1, <3>3 DEF Apart
    <3> QED BY <2>1, <3>4, ApartGood
  <2> QED BY <2>2, <2>3
<1> QED BY <1>8, <1>9, <1>10 DEF SoleInv

\* No call is in its critical section that was not.
Calm == \A d \in Callers : call'[d].at = "do" => call'[d] = call[d]

\* epoll_ctl() with what the context then holds: it looks at the file again,
\* so that whatever is ready is in the ready list.
LEMMA CtlSole ==
  ASSUME IndInv, SoleInv, NEW o \in Ctx, o[1] \notin spoilt => o = Cur(o[1]) /\ o[1] < size,
         NEW want \in SUBSET EV, EpollCtl(o[1], o, want), events' = [events EXCEPT ![o] = want],
         \A p \in Pollers : \A r \in batch[p] : r.ctx[1] # o[1] => r \in batch'[p],
         UNCHANGED <<table, ready, spoilt>>, Calm
  PROVE  PtrShape' /\ \A f \in Fds \ spoilt' : Good(f)'
<1> DEFINE fd == o[1]
<1>0. fd \in Fds BY DEF Ctx
<1>1. /\ \A f \in Fds : f # fd => interest'[f] = interest[f] /\ ptr'[f] = ptr[f] /\ armed'[f] = armed[f]
      /\ interest'[fd] = want /\ ptr'[fd] = o
  BY <1>0 DEF EpollCtl, IndInv, TypeOK
<1>2. armed'[fd] = (Poll(fd, want) # {})
  <2>1. armed' = [armed EXCEPT ![fd] = (Poll(fd, want) # {})] BY DEF EpollCtl
  <2>2. armed \in [Fds -> BOOLEAN] BY DEF IndInv, TypeOK
  <2> QED BY <1>0, <2>1, <2>2, Zenon
<1>3. \A x \in Ctx : events'[x] = IF x = o THEN want ELSE events[x] BY DEF IndInv, TypeOK
<1>4. PtrShape' BY <1>1 DEF SoleInv, PtrShape
<1>5. ASSUME NEW f \in Fds \ spoilt' PROVE Good(f)'
  <2>0. f \notin spoilt /\ Good(f) BY DEF SoleInv
  <2>1. size' = size /\ cell' = cell BY DEF table
  <2>2. Cur(f)' = Cur(f) BY <2>1 DEF Cur
  <2>3. CASE f = fd
    <3>1. o = Cur(f) /\ f < size BY <2>0, <2>3
    <3>2. Mine(f)' BY <2>0, <2>1, <2>2 DEF Calm, Good, Mine
    <3>3. Only(f)' BY <1>3, <2>0, <2>1, <2>2, <3>1 DEF Good, Only
    <3>4. Matches(f)'
      <4>1. o # None OBVIOUS
      <4>2. \A x \in Ctx : x[1] = f /\ events'[x] # {} => x = o BY <2>2, <3>1, <3>3 DEF Only
      <4> QED BY <1>1, <1>3, <2>3, <4>1, <4>2 DEF Matches
    <3>5. Covered(f)'
      <4>1. Poll(fd, interest[fd])' = Poll(fd, want) BY <1>1 DEF Poll
      <4> QED BY <1>2, <2>3, <4>1 DEF Covered
    <3> QED BY <3>2, <3>3, <3>4, <3>5 DEF Good
  <2>4. CASE f # fd
    <3>1. Apart(f)
      <4>1. \A x \in Ctx : x[1] = f => events'[x] = events[x] BY <1>3, <2>4
      <4>2. \A d \in Callers : call'[d].at = "do" => call'[d] = call[d] BY DEF Calm
      <4>3. \A p \in Pollers : \A r \in batch[p] : r.ctx[1] = f => r \in batch'[p] BY <2>4
      <4> QED BY <1>1, <2>1, <2>4, <4>1, <4>2, <4>3 DEF Apart
    <3> QED BY <2>0, <3>1, ApartGood DEF SoleInv
  <2> QED BY <2>3, <2>4
<1> QED BY <1>4, <1>5

\* Waking or forgetting callers, and the return of the one that does it.
LEMMA NotifySole ==
  ASSUME IndInv, SoleInv, NEW o \in Ctx, NEW S, S \subseteq events[o],
         NEW c \in Callers \cup {None}, NEW at \in {"ready", "idle"}, Notify(o, S, c, at)
  PROVE  Shapes' /\ Calm
<1> SUFFICES ASSUME NEW d \in Callers
             PROVE  Shape(call'[d]) /\ (call'[d].at = "do" => call'[d] = call[d])
  BY DEF Shapes, Shape, Calm
<1>1. Shape(call[d]) /\ call[d] \in Calls BY DEF SoleInv, Shapes, IndInv, TypeOK
<1>2. CASE d = c
  <2>1. call'[d] = After(d) BY <1>2 DEF Notify
  <2> QED BY <2>1, AfterShape
<1>3. CASE d # c /\ \A e \in S : waiter[o][e] # d
  <2>1. call'[d] = call[d] BY <1>3 DEF Notify
  <2> QED BY <1>1, <2>1
<1>4. CASE d # c /\ \E e \in S : waiter[o][e] = d
  <2>1. PICK e \in S : waiter[o][e] = d BY <1>4
  <2>2. e \in EV /\ d # None BY DEF IndInv, TypeOK
  <2>3. call[d].op = "add"
    <3>1. call[d] = [at |-> "wait", op |-> "add", fd |-> o[1], ev |-> e, ctx |-> o]
      BY <2>1, <2>2, SlotOK DEF IndInv
    <3> QED BY <3>1
  <2>4. CASE at = "ready"
    <3>1. call'[d] = [call[d] EXCEPT !.at = "ready"] BY <1>4, <2>4 DEF Notify
    <3>2. call'[d].at = "ready" /\ call'[d].op = "add" BY <1>1, <2>3, <3>1 DEF Calls
    <3> QED BY <3>2 DEF Shape
  <2>5. CASE at = "idle"
    <3>1. call'[d] = Idle BY <1>4, <2>5 DEF Notify
    <3> QED BY <3>1 DEF Shape, Idle
  <2> QED BY <2>4, <2>5
<1> QED BY <1>2, <1>3, <1>4

LEMMA ReturnSole ==
  ASSUME IndInv, SoleInv, NEW c \in Callers, Return(c), UNCHANGED <<table, batch, ready, spoilt>>
  PROVE  SoleInv'
<1>1. Shape(After(c)) /\ After(c).at # "do" BY AfterShape
<1>2. call' = [call EXCEPT ![c] = After(c)] /\ UNCHANGED <<events, kernel>> BY DEF Return, contexts
<1> QED BY <1>1, <1>2, CallSole

\* Nothing changes but perhaps the flag of a failed assertion.
LEMMA StillSole ==
  ASSUME IndInv, SoleInv, UNCHANGED <<table, events, call, batch, kernel, ready, spoilt>>
  PROVE  SoleInv'
<1> USE DEF table, kernel
<1>1. Shapes' /\ PtrShape' BY DEF SoleInv, Shapes, Shape, PtrShape
<1>2. ASSUME NEW f \in Fds \ spoilt PROVE Good(f)'
  <2>1. Apart(f) BY DEF Apart
  <2> QED BY <2>1, ApartGood DEF SoleInv
<1> QED BY <1>1, <1>2 DEF SoleInv

LEMMA AddSole ==
  ASSUME IndInv, SoleInv, NEW c \in Callers, AddEvent(c)
  PROVE  SoleInv'
<1> DEFINE o == call[c].ctx
           fd == call[c].fd
           e == call[c].ev
<1>1. call[c].at = "do" /\ call[c].op = "add" /\ UNCHANGED <<table, batch, ready, spoilt>> BY DEF AddEvent
<1>2. o \in Ctx /\ o[1] = fd /\ fd \in Fds /\ e \in EV /\ call[c] \in Calls
  BY <1>1 DEF IndInv, CallOK, TypeOK
<1>3. fd \notin spoilt => o = Cur(fd) /\ fd < size BY <1>1, <1>2 DEF SoleInv, Good, Mine
<1>4. CASE Return(c) BY <1>1, <1>4, ReturnSole
<1>5. CASE Abort BY <1>1, <1>5, StillSole DEF Abort, contexts
<1>6. CASE /\ EpollCtl(fd, o, events[o] \cup {e})
           /\ events' = [events EXCEPT ![o] = events[o] \cup {e}]
           /\ call' = [call EXCEPT ![c].at = "wait"]
  <2> DEFINE want == events[o] \cup {e}
  <2>1. want \in SUBSET EV BY <1>2 DEF IndInv, TypeOK
  <2>2. EpollCtl(o[1], o, want) /\ events' = [events EXCEPT ![o] = want] BY <1>2, <1>6
  <2>3. \A p \in Pollers : \A r \in batch[p] : r.ctx[1] # o[1] => r \in batch'[p] BY <1>1
  <2>4. \A d \in Callers : d # c => call'[d] = call[d] BY <1>6 DEF IndInv, TypeOK
  <2>5. call'[c].at = "wait" /\ call'[c].op = "add" BY <1>1, <1>2, <1>6 DEF IndInv, TypeOK, Calls
  <2>6. Shapes' /\ Calm BY <2>4, <2>5 DEF SoleInv, Shapes, Shape, Calm
  <2>7. o[1] \notin spoilt => o = Cur(o[1]) /\ o[1] < size BY <1>2, <1>3
  <2> HIDE DEF want, o, fd
  <2>8. PtrShape' /\ \A f \in Fds \ spoilt' : Good(f)'
    BY <1>1, <1>2, <2>1, <2>2, <2>3, <2>6, <2>7, CtlSole
  <2> QED BY <2>6, <2>8 DEF SoleInv
<1> QED BY <1>4, <1>5, <1>6 DEF AddEvent

\* A context loses events.
LEMMA TakeSole ==
  ASSUME IndInv, SoleInv, NEW o \in Ctx, o[1] \notin spoilt => o = Cur(o[1]) /\ o[1] < size,
         NEW S, S \subseteq events[o],
         NEW c \in Callers \cup {None}, NEW at \in {"ready", "idle"}, Trigger(o, S, c, at),
         EpollCtl(o[1], o, events[o] \ S), UNCHANGED <<table, ready, spoilt>>,
         \A p \in Pollers : \A r \in batch[p] : r.ctx[1] # o[1] => r \in batch'[p]
  PROVE  SoleInv'
<1> DEFINE want == events[o] \ S
<1>1. want \in SUBSET EV BY DEF IndInv, TypeOK
<1>2. events' = [events EXCEPT ![o] = want] /\ Notify(o, S, c, at) BY DEF Trigger
<1>3. Shapes' /\ Calm BY <1>2, NotifySole
<1>4. EpollCtl(o[1], o, want) OBVIOUS
<1> HIDE DEF want
<1>5. PtrShape' /\ \A f \in Fds \ spoilt' : Good(f)' BY <1>1, <1>2, <1>3, <1>4, CtlSole
<1> QED BY <1>3, <1>5 DEF SoleInv

LEMMA WithdrawSole ==
  ASSUME IndInv, SoleInv, NEW c \in Callers, call[c].at = "do", NEW S,
         NEW at \in {"ready", "idle"}, Withdraw(c, S, at)
  PROVE  SoleInv'
<1> DEFINE o == call[c].ctx
<1>1. o \in Ctx /\ call[c].fd = o[1] /\ o[1] \in Fds BY DEF IndInv, CallOK
<1>2. o[1] \notin spoilt => o = Cur(o[1]) /\ o[1] < size BY <1>1 DEF SoleInv, Good, Mine
<1>3. UNCHANGED <<table, batch, ready, spoilt>> BY DEF Withdraw
<1>4. CASE Return(c) BY <1>3, <1>4, ReturnSole
<1>5. CASE S # {} /\ S \subseteq events[o] /\ CtlOK(call[c].fd, events[o])
  <2>1. EpollCtl(o[1], o, events[o] \ S) /\ Trigger(o, S, c, at)
    BY <1>1, <1>5 DEF Withdraw, LeftEvents
  <2>2. \A p \in Pollers : \A r \in batch[p] : r.ctx[1] # o[1] => r \in batch'[p] BY <1>3
  <2> HIDE DEF o
  <2> QED BY <1>1, <1>2, <1>3, <1>5, <2>1, <2>2, TakeSole
<1> QED BY <1>4, <1>5 DEF Withdraw

\* close() spoils a descriptor that has events; without events epoll watches
\* it for nothing, and has nothing to forget.
LEMMA CloseResumeSole ==
  ASSUME IndInv, SoleInv, NEW c \in Callers, Close(c) \/ Resume(c)
  PROVE  SoleInv'
<1>1. call' = [call EXCEPT ![c] = Idle] /\ UNCHANGED <<table, events, batch, ptr>>
  BY DEF Close, Resume, contexts, kernel
<1>2. Idle.at # "do" BY DEF Idle
<1>3. CASE Resume(c)
  <2>1. UNCHANGED <<kernel, ready, spoilt>> BY <1>3 DEF Resume
  <2> QED BY <1>1, <1>2, <2>1, IdleShape, CallSole
<1>4. CASE Close(c)
  <2> DEFINE fd == call[c].fd
  <2>1. fd \in Fds BY <1>4 DEF Close, IndInv, CallOK
  <2>2. /\ \A f \in Fds : f # fd => interest'[f] = interest[f] /\ ready'[f] = ready[f] /\ armed'[f] = armed[f]
        /\ interest'[fd] = {} /\ spoilt \subseteq spoilt' /\ (Holding(fd) => fd \in spoilt')
    BY <1>4, <2>1 DEF Close, IndInv, TypeOK
  <2>3. Shapes' BY <1>1, IdleShape, ShapeKept DEF SoleInv
  <2>4. PtrShape' BY <1>1 DEF SoleInv, PtrShape
  <2>5. \A d \in Callers : call'[d] = IF d = c THEN Idle ELSE call[d] BY <1>1 DEF IndInv, TypeOK
  <2>6. ASSUME NEW f \in Fds \ spoilt' PROVE Good(f)'
    <3>1. Good(f) /\ PtrShape BY <2>2 DEF SoleInv
    <3>2. CASE f = fd
      <4>1. \A o \in Ctx : o[1] = f => events[o] = {} BY <2>2, <3>2 DEF Holding
      <4>2. Cur(f)' = Cur(f) /\ size' = size BY <1>1 DEF table, Cur
      <4>3. Mine(f)' BY <1>2, <2>5, <3>1, <4>2 DEF Good, Mine
      <4> QED BY <1>1, <2>2, <3>1, <3>2, <4>1, <4>3, UnusedGood
    <3>3. CASE f # fd
      <4>1. Apart(f) BY <1>1, <1>2, <2>2, <2>5, <3>3 DEF Apart, table
      <4> QED BY <3>1, <4>1, ApartGood
    <3> QED BY <3>2, <3>3
  <2> QED BY <2>3, <2>4, <2>6 DEF SoleInv
<1> QED BY <1>3, <1>4

\* What leaves the ready list is in the poller's hands, as it is registered.
LEMMA EpollWaitSole ==
  ASSUME IndInv, SoleInv, NEW p \in Pollers, EpollWait(p)
  PROVE  SoleInv'
<1> DEFINE Rec(f) == [ctx |-> ptr[f], evs |-> Poll(f, interest[f])]
           B == {Rec(f) : f \in Hot}
<1>1. /\ batch' = [batch EXCEPT ![p] = B] /\ armed' = [f \in Fds |-> armed[f] /\ f \notin Hot]
      /\ UNCHANGED <<table, contexts, call, interest, ptr, ready, spoilt>> /\ batch[p] = {}
  BY DEF EpollWait
<1>2. \A q \in Pollers : batch'[q] = IF q = p THEN B ELSE batch[q] BY <1>1 DEF IndInv, TypeOK
<1>3. Shapes' /\ PtrShape' BY <1>1 DEF SoleInv, Shapes, Shape, PtrShape
<1>4. ASSUME NEW f \in Fds \ spoilt PROVE Good(f)'
  <2>1. Good(f) BY DEF SoleInv
  <2>2. Cur(f)' = Cur(f) /\ size' = size BY <1>1 DEF Cur, table
  <2>3. Mine(f)' /\ Only(f)' /\ Matches(f)'
    BY <1>1, <2>1, <2>2 DEF Good, Mine, Only, Matches, contexts
  <2>4. Covered(f)'
    <3> SUFFICES ASSUME NEW e \in Poll(f, interest[f]), ~armed'[f]
                 PROVE \E q \in Pollers : \E r \in batch'[q] : Holds(r, f, e)'
        BY <1>1 DEF Covered, Poll
    <3>1. CASE f \in Hot
      <4>1. interest[f] # {} BY <3>1 DEF Hot, Poll
      <4>2. ptr[f] \in Ctx /\ ptr[f][1] = f /\ events[ptr[f]] = interest[f]
        BY <2>1, <4>1 DEF SoleInv, PtrShape, Good, Matches
      <4>3. ptr[f] = Cur(f) BY <2>1, <4>1, <4>2 DEF Good, Only
      <4>4. PICK s \in batch'[p] : s = Rec(f) BY <1>2, <3>1
      <4>5. s.ctx = Cur(f) /\ s.evs = Poll(f, interest[f]) BY <4>3, <4>4
      <4>6. Poll(f, interest[f]) \subseteq interest[f] \cup {ERR} BY DEF Poll
      <4>7. Holds(s, f, e)' BY <1>1, <2>2, <4>5, <4>6 DEF Holds
      <4> QED BY <4>7
    <3>2. CASE f \notin Hot
      <4>1. ~armed[f] BY <1>1, <3>2
      <4>2. PICK q \in Pollers : \E r \in batch[q] : Holds(r, f, e) BY <2>1, <4>1 DEF Good, Covered
      <4>3. batch'[q] = batch[q] BY <1>1, <1>2, <4>2
      <4>4. \A r : Holds(r, f, e)' <=> Holds(r, f, e) BY <1>1, <2>2 DEF Holds
      <4> QED BY <4>2, <4>3, <4>4
    <3> QED BY <3>1, <3>2
  <2> QED BY <2>3, <2>4 DEF Good
<1> QED BY <1>1, <1>3, <1>4 DEF SoleInv

\* A record goes and nothing else changes. It reported nothing of its
\* descriptor that is registered, unless that was spoilt.
LEMMA PassedSole ==
  ASSUME IndInv, SoleInv, NEW p \in Pollers, NEW r \in batch[p],
         batch' = [batch EXCEPT ![p] = batch[p] \ {r}],
         UNCHANGED <<table, events, call, kernel, ready, spoilt>>,
         r.ctx[1] \in Fds,
         r.ctx[1] \notin spoilt =>
           \A e \in Poll(r.ctx[1], interest[r.ctx[1]]) : ~Holds(r, r.ctx[1], e)
  PROVE  SoleInv'
<1> USE DEF table, kernel
<1>1. \A q \in Pollers : batch'[q] = IF q = p THEN batch[q] \ {r} ELSE batch[q] BY DEF IndInv, TypeOK
<1>2. Shapes' /\ PtrShape' BY DEF SoleInv, Shapes, Shape, PtrShape
<1>3. ASSUME NEW f \in Fds \ spoilt PROVE Good(f)'
  <2>1. Good(f) /\ PtrShape BY DEF SoleInv
  <2>2. CASE f # r.ctx[1]
    <3>1. Apart(f) BY <1>1, <2>2 DEF Apart
    <3> QED BY <2>1, <3>1, ApartGood
  <2>3. CASE f = r.ctx[1]
    <3>1. Cur(f)' = Cur(f) BY DEF Cur
    <3>2. Mine(f)' /\ Only(f)' /\ Matches(f)' BY <2>1, <3>1 DEF Good, Mine, Only, Matches
    <3>3. Covered(f)'
      <4> SUFFICES ASSUME NEW e \in Poll(f, interest[f]), ~armed[f]
                   PROVE \E q \in Pollers : \E s \in batch'[q] : Holds(s, f, e)'
          BY DEF Covered, Poll
      <4>0. PICK q \in Pollers : \E s \in batch[q] : Holds(s, f, e) BY <2>1 DEF Good, Covered
      <4>1. PICK s \in batch[q] : Holds(s, f, e) BY <4>0
      <4>2. s # r BY <2>3, <4>1
      <4>3. s \in batch'[q] BY <1>1, <4>2
      <4>4. Holds(s, f, e)' BY <3>1, <4>1 DEF Holds
      <4> QED BY <4>3, <4>4
    <3> QED BY <3>2, <3>3 DEF Good
  <2> QED BY <2>2, <2>3
<1> QED BY <1>2, <1>3 DEF SoleInv

\* A record that is passed over reports nothing that is registered, and one
\* that aborts has something that was withdrawn: neither held an edge that
\* nobody else holds.
LEMMA ProcessSole ==
  ASSUME IndInv, SoleInv, NEW p \in Pollers, NEW r \in batch[p], Process(p, r)
  PROVE  SoleInv'
<1> DEFINE o == r.ctx
           fd == o[1]
           real == RealEvents(r)
<1>1. r \in [ctx : Ctx, evs : SUBSET (EV \cup {ERR})] BY DEF IndInv, TypeOK
<1>2. o \in Ctx /\ fd \in Fds /\ r.evs \subseteq EV \cup {ERR} /\ events[o] \subseteq EV
  BY <1>1 DEF Ctx, IndInv, TypeOK
<1>3. batch' = [batch EXCEPT ![p] = batch[p] \ {r}] /\ UNCHANGED <<table, ready, spoilt>> BY DEF Process
<1>4. \A q \in Pollers : batch'[q] = IF q = p THEN batch[q] \ {r} ELSE batch[q]
  BY <1>3 DEF IndInv, TypeOK
<1>5. real = (r.evs \cup (IF ERR \in r.evs THEN events[o] ELSE {})) \cap EV BY DEF RealEvents
<1>6. ASSUME fd \notin spoilt, o = Cur(fd) PROVE CtlOK(fd, events[o]) /\ interest[fd] = events[o]
  <2>1. Good(fd) /\ PtrShape BY <1>2, <1>6 DEF SoleInv
  <2>2. interest[fd] = events[o] BY <1>2, <1>6, <2>1, Watched
  <2> QED BY <2>2 DEF CtlOK
<1>7. ASSUME fd \notin spoilt, events[o] # {} PROVE o = Cur(fd) /\ fd < size
  BY <1>2, <1>7 DEF SoleInv, Good, Only
<1>8. CASE events[o] \cap real = {} \/ ~CtlOK(fd, events[o])
  <2>1. UNCHANGED <<contexts, call, kernel, failed>> BY <1>8 DEF Process
  <2>2. ASSUME fd \notin spoilt, NEW e \in Poll(fd, interest[fd]) PROVE ~Holds(r, fd, e)
    <3> SUFFICES ASSUME Holds(r, fd, e) PROVE FALSE OBVIOUS
    <3>1. o = Cur(fd) /\ e \in r.evs BY DEF Holds
    <3>2. CtlOK(fd, events[o]) /\ interest[fd] = events[o] BY <1>6, <2>2, <3>1
    <3>3. events[o] # {} /\ (e \in events[o] \/ e = ERR) BY <3>2 DEF Poll
    <3> HIDE DEF real, o
    <3> QED BY <1>2, <1>5, <1>8, <3>1, <3>2, <3>3
  <2> QED BY <1>2, <1>3, <2>1, <2>2, PassedSole DEF contexts
<1>9. CASE events[o] \cap real # {} /\ CtlOK(fd, events[o]) /\ ~(real \subseteq events[o])
  <2>1. Abort BY <1>9 DEF Process
  <2>2. ASSUME fd \notin spoilt, NEW e \in Poll(fd, interest[fd]) PROVE ~Holds(r, fd, e)
    <3> SUFFICES ASSUME Holds(r, fd, e) PROVE FALSE OBVIOUS
    <3>1. o = Cur(fd) /\ r.evs \subseteq interest[fd] \cup {ERR} BY DEF Holds
    <3>2. interest[fd] = events[o] BY <1>6, <2>2, <3>1
    <3> HIDE DEF real, o
    <3> QED BY <1>5, <1>9, <3>1, <3>2 DEF EV, READ, WRITE, ERR
  <2> QED BY <1>2, <1>3, <2>1, <2>2, PassedSole DEF contexts, Abort
<1>10. CASE events[o] \cap real # {} /\ CtlOK(fd, events[o]) /\ real \subseteq events[o]
  <2>1. EpollCtl(fd, o, events[o] \ real) /\ Trigger(o, real, None, "ready")
    BY <1>10 DEF Process, LeftEvents
  <2>2. \A q \in Pollers : \A s \in batch[q] : s.ctx[1] # fd => s \in batch'[q] BY <1>4
  <2>3. fd \notin spoilt => o = Cur(fd) /\ fd < size BY <1>7, <1>10
  <2> HIDE DEF o, real
  <2> QED BY <1>2, <1>3, <1>10, <2>1, <2>2, <2>3, TakeSole
<1> QED BY <1>8, <1>9, <1>10

\* An edge at a file that is watched for it puts it into the ready list.
LEMMA FileSole ==
  ASSUME IndInv, SoleInv, NEW fd \in Fds, (\E e \in Arrivals : Edge(fd, e)) \/ (\E e \in EV : Drain(fd, e))
  PROVE  SoleInv'
<1>1. UNCHANGED <<table, contexts, call, batch, interest, ptr, spoilt>> BY DEF Edge, Drain, kernel
<1>2. Shapes' /\ PtrShape' BY <1>1 DEF SoleInv, Shapes, Shape, PtrShape
<1>3. ASSUME NEW f \in Fds, NEW e \in Poll(f, interest[f])', ~armed'[f]
      PROVE  e \in Poll(f, interest[f]) /\ ~armed[f]
  <2>1. CASE \E a \in Arrivals : Edge(fd, a)
    <3>1. PICK a \in Arrivals : Edge(fd, a) BY <2>1
    <3>2. ready' = [ready EXCEPT ![fd] = ready[fd] \cup {a}] BY <3>1 DEF Edge
    <3>3. \A g \in Fds : armed'[g] = IF g = fd THEN armed[g] \/ (interest[g] # {} /\ a \in interest[g] \cup {ERR}) ELSE armed[g]
      <4>1. /\ armed' = [armed EXCEPT ![fd] = armed[fd] \/ (interest[fd] # {} /\ a \in interest[fd] \cup {ERR})]
            /\ armed \in [Fds -> BOOLEAN]
        BY <3>1, Zenon DEF Edge, IndInv, TypeOK
      <4> QED BY <4>1, Zenon
    <3> QED BY <1>1, <1>3, <3>2, <3>3 DEF Poll, IndInv, TypeOK
  <2>2. CASE \E x \in EV : Drain(fd, x)
    <3>1. PICK x \in EV : Drain(fd, x) BY <2>2
    <3>2. ready' = [ready EXCEPT ![fd] = ready[fd] \ {x}] /\ armed' = armed BY <3>1 DEF Drain, kernel
    <3> QED BY <1>1, <1>3, <3>2 DEF Poll, IndInv, TypeOK
  <2> QED BY <2>1, <2>2
<1>4. ASSUME NEW f \in Fds \ spoilt PROVE Good(f)'
  <2>1. Good(f) BY DEF SoleInv
  <2>2. Cur(f)' = Cur(f) /\ size' = size BY <1>1 DEF Cur, table
  <2>3. Mine(f)' /\ Only(f)' /\ Matches(f)'
    BY <1>1, <2>1, <2>2 DEF Good, Mine, Only, Matches, contexts
  <2>4. \A r, e : Holds(r, f, e)' <=> Holds(r, f, e) BY <1>1, <2>2 DEF Holds
  <2>5. Covered(f)' BY <1>1, <1>3, <2>1, <2>4 DEF Good, Covered
  <2> QED BY <2>3, <2>5 DEF Good
<1> QED BY <1>1, <1>2, <1>4 DEF SoleInv

LEMMA SoleNext ==
  ASSUME IndInv, SoleInv, [Next]_vars
  PROVE  SoleInv'
<1>1. ASSUME NEW c \in Callers, CallerStep(c) PROVE SoleInv'
  <2>1. CASE DelEvent(c) \/ CancelEvent(c) \/ CancelAll(c)
    BY <2>1, WithdrawSole DEF DelEvent, CancelEvent, CancelAll
  <2> QED BY <1>1, <2>1, LookupSole, GrowSole, AddSole, CloseResumeSole DEF CallerStep
<1>2. ASSUME NEW p \in Pollers, PollerStep(p) PROVE SoleInv'
  BY <1>2, EpollWaitSole, ProcessSole DEF PollerStep
<1>3. CASE UNCHANGED vars BY <1>3, StillSole DEF vars, contexts
<1> QED BY <1>1, <1>2, <1>3, BeginSole, FileSole DEF Next, Aborted

LEMMA SoleInvariance == Spec => [](IndInv /\ SoleInv)
<1>1. Init => IndInv /\ SoleInv BY InitInv, SoleInit
<1>2. IndInv /\ SoleInv /\ [Next]_vars => IndInv' /\ SoleInv' BY NextInv, SoleNext
<1> QED BY <1>1, <1>2, PTL DEF Spec

\* epoll watches each descriptor for exactly the events its FdContext has,
\* whatever the interleaving of addEvent(), delEvent(), cancelEvent(),
\* cancelAll(), close(), the growing of the table and the loops of idle(),
\* for as long as neither a shrinking contextResize() nor a close() has hit
\* this very descriptor while it was in use.
THEOREM InterestTheorem == Spec => []InterestMatches
<1>1. SoleInv => InterestMatches BY DEF SoleInv, Good, Matches, InterestMatches
<1> QED BY <1>1, SoleInvariance, PTL

\* Edge triggering loses nothing on such a descriptor: a file ready for a
\* registered event is in epoll's ready list or in a poller's hands, also
\* when the poller aborts or passes the record over.
THEOREM EdgeTheorem == Spec => []NoLostEdge
<1>1. SoleInv => NoLostEdge
  <2> SUFFICES ASSUME SoleInv, NEW f \in Fds \ spoilt, NEW e \in Poll(f, interest[f]), ~armed[f]
               PROVE \E p \in Pollers : \E r \in batch[p] : r.ctx[1] = f /\ e \in r.evs
    BY DEF NoLostEdge
  <2>1. PICK p \in Pollers : \E r \in batch[p] : Holds(r, f, e) BY DEF SoleInv, Good, Covered
  <2>2. PICK r \in batch[p] : Holds(r, f, e) BY <2>1
  <2>3. r.ctx[1] = f /\ e \in r.evs BY <2>2 DEF Holds, Cur
  <2> QED BY <2>3
<1> QED BY <1>1, SoleInvariance, PTL

\* Only callers that wait, in addEvent(), are woken or forgotten.
LEMMA NotifyOthers ==
  ASSUME IndInv, NEW o \in Ctx, NEW S, S \subseteq events[o], NEW c, NEW at, Notify(o, S, c, at),
         NEW d \in Callers, d # c, call[d].op # "add"
  PROVE  call'[d] = call[d]
<1>1. \A e \in S : waiter[o][e] # d
  <2> SUFFICES ASSUME NEW e \in S, waiter[o][e] = d PROVE FALSE OBVIOUS
  <2>1. e \in EV /\ d # None BY DEF IndInv, TypeOK
  <2>2. call[d] = [at |-> "wait", op |-> "add", fd |-> o[1], ev |-> e, ctx |-> o]
    BY <2>1, SlotOK DEF IndInv
  <2> QED BY <2>2
<1> QED BY <1>1 DEF Notify

\* What a call that withdraws events leaves in the context.
LEMMA WithdrawTakes ==
  ASSUME IndInv, SoleInv, NEW c \in Callers, call[c].at = "do", call[c].fd \notin spoilt,
         NEW S, NEW at, Withdraw(c, S, at)
  PROVE  /\ S = {} \/ ~(S \subseteq events[call[c].ctx]) => events' = events
         /\ S # {} /\ S \subseteq events[call[c].ctx] =>
              events'[call[c].ctx] = events[call[c].ctx] \ S
         /\ \A o \in Ctx : o # call[c].ctx => events'[o] = events[o]
<1> DEFINE x == call[c].ctx
<1>1. x \in Ctx /\ call[c].fd \in Fds BY DEF IndInv, CallOK
<1>2. Good(call[c].fd) /\ PtrShape BY <1>1 DEF SoleInv
<1>3. x = Cur(call[c].fd) BY <1>2 DEF Good, Mine
<1>4. interest[call[c].fd] = events[x] BY <1>1, <1>2, <1>3, Watched
<1>5. CtlOK(call[c].fd, events[x]) BY <1>4 DEF CtlOK
<1>6. S # {} /\ S \subseteq events[x] => events' = [events EXCEPT ![x] = events[x] \ S]
  BY <1>5 DEF Withdraw, Trigger
<1>7. ~(S # {} /\ S \subseteq events[x]) => events' = events BY DEF Withdraw, Return, contexts
<1> QED BY <1>1, <1>6, <1>7 DEF IndInv, TypeOK

\* A call that is to take events away returns only when they are gone.
LEMMA CancelStep ==
  ASSUME IndInv, SoleInv, [Next]_vars, NEW c \in Callers, call[c].op # "add",
         call[c].at \in {"lookup", "do"}, call'[c].at \in {"idle", "closing"},
         call[c].fd \notin spoilt, NEW o \in Ctx, o[1] = call[c].fd
  PROVE  IF call[c].op \in {"all", "close"} THEN events'[o] = {} ELSE call[c].ev \notin events'[o]
<1>1. call'[c] # call[c] OBVIOUS
<1>2. /\ call \in [Callers -> Calls] /\ \A d \in Callers : call[d] \in Calls
  BY DEF IndInv, TypeOK
<1>3. ASSUME NEW d \in Callers, d # c PROVE ~\E r : call' = [call EXCEPT ![d] = r]
  BY <1>1, <1>2, <1>3
<1>4. ASSUME NEW d \in Callers, NEW fd \in Fds, NEW e \in EV, NEW op \in Ops \cup {"add"},
             Begin(d, op, fd, e)
      PROVE  FALSE
  BY <1>1, <1>2, <1>4 DEF Begin
<1>5. call[c].fd \in Fds /\ Only(call[c].fd) /\ Mine(call[c].fd)
  BY DEF IndInv, CallOK, SoleInv, Good
<1>6. ASSUME NEW d \in Callers, Lookup(d)
      PROVE  events'[o] = {}
  <2>1. d = c BY <1>2, <1>3, <1>6 DEF Lookup
  <2>2. ~(call[c].fd < size)
    <3> SUFFICES ASSUME call[c].fd < size PROVE FALSE OBVIOUS
    <3> DEFINE r == [call[c] EXCEPT !.at = "do", !.ctx = <<call[c].fd, cell[call[c].fd]>>]
    <3>1. call' = [call EXCEPT ![c] = r] BY <1>6, <2>1 DEF Lookup
    <3>2. call'[c].at = "do" BY <1>2, <3>1 DEF Calls
    <3> QED BY <3>2
  <2>3. events' = events BY <1>6 DEF Lookup, contexts
  <2> QED BY <1>5, <2>2, <2>3 DEF Only
<1>7. ASSUME NEW d \in Callers, Grow(d) \/ AddEvent(d) \/ Close(d) \/ Resume(d)
      PROVE  FALSE
  <2>1. d # c BY <1>7 DEF Grow, AddEvent, Close, Resume
  <2>2. call'[c] = call[c]
    BY <1>2, <1>7, <2>1 DEF Grow, AddEvent, Close, Resume, Return, Abort
  <2> QED BY <1>1, <2>2
<1>8. ASSUME NEW d \in Callers, NEW S, NEW at, call[d].at = "do", Withdraw(d, S, at)
      PROVE  d = c
  <2> SUFFICES ASSUME d # c PROVE FALSE OBVIOUS
  <2>1. call[d].ctx \in Ctx BY <1>8 DEF IndInv, CallOK
  <2>2. call'[c] = call[c]
    <3>1. CASE Return(d) BY <1>2, <3>1 DEF Return
    <3>2. CASE S \subseteq events[call[d].ctx] /\ Trigger(call[d].ctx, S, d, at)
      BY <2>1, <3>2, NotifyOthers DEF Trigger
    <3> QED BY <1>8, <3>1, <3>2 DEF Withdraw
  <2> QED BY <1>1, <2>2
<1>9. ASSUME NEW p \in Pollers, PollerStep(p) PROVE FALSE
  <2>1. CASE EpollWait(p) BY <1>1, <2>1 DEF EpollWait
  <2>2. ASSUME NEW r \in batch[p], Process(p, r) PROVE FALSE
    <3>1. r.ctx \in Ctx BY DEF IndInv, TypeOK
    <3>2. CASE call' = call BY <1>1, <3>2
    <3>3. CASE RealEvents(r) \subseteq events[r.ctx] /\ Trigger(r.ctx, RealEvents(r), None, "ready")
      <4>1. c # None OBVIOUS
      <4>2. call'[c] = call[c] BY <3>1, <3>3, <4>1, NotifyOthers DEF Trigger
      <4> QED BY <1>1, <4>2
    <3> QED BY <2>2, <3>2, <3>3 DEF Process, Abort
  <2> QED BY <1>9, <2>1, <2>2 DEF PollerStep
<1>10. ASSUME NEW S, NEW at, call[c].at = "do", Withdraw(c, S, at),
              S = IF call[c].op \in {"all", "close"} THEN events[call[c].ctx] ELSE {call[c].ev}
       PROVE  IF call[c].op \in {"all", "close"} THEN events'[o] = {} ELSE call[c].ev \notin events'[o]
  <2>1. call[c].ctx = Cur(call[c].fd) /\ call[c].ctx \in Ctx
    BY <1>5, <1>10 DEF Mine, IndInv, CallOK
  <2>2. CASE o # call[c].ctx
    <3>1. events'[o] = events[o] BY <1>10, <2>2, WithdrawTakes
    <3>2. events[o] = {} BY <1>5, <2>1, <2>2 DEF Only
    <3> QED BY <3>1, <3>2
  <2>3. CASE o = call[c].ctx
    <3>1. /\ S = {} \/ ~(S \subseteq events[o]) => events' = events
          /\ S # {} /\ S \subseteq events[o] => events'[o] = events[o] \ S
      BY <1>10, <2>3, WithdrawTakes
    <3> QED BY <1>10, <2>3, <3>1
  <2> QED BY <2>2, <2>3
<1>11. ASSUME NEW d \in Callers, CallerStep(d)
       PROVE  IF call[c].op \in {"all", "close"} THEN events'[o] = {} ELSE call[c].ev \notin events'[o]
  <2>1. CASE Lookup(d) BY <1>6, <2>1
  <2>2. CASE DelEvent(d)
    <3>1. d = c BY <1>8, <2>2 DEF DelEvent
    <3> QED BY <1>10, <2>2, <3>1 DEF DelEvent
  <2>3. CASE CancelEvent(d)
    <3>1. d = c BY <1>8, <2>3 DEF CancelEvent
    <3> QED BY <1>10, <2>3, <3>1 DEF CancelEvent
  <2>4. CASE CancelAll(d)
    <3>1. d = c BY <1>8, <2>4 DEF CancelAll
    <3>2. call[c].op \in {"all", "close"} BY <2>4, <3>1 DEF CancelAll
    <3> QED BY <1>10, <2>4, <3>1, <3>2 DEF CancelAll
  <2> QED BY <1>7, <1>11, <2>1, <2>2, <2>3, <2>4 DEF CallerStep
<1>12. ~(UNCHANGED vars) BY <1>1 DEF vars
<1>13. ASSUME NEW fd \in Fds, (\E e \in Arrivals : Edge(fd, e)) \/ (\E e \in EV : Drain(fd, e))
       PROVE  FALSE
  BY <1>1, <1>13 DEF Edge, Drain
<1> QED BY <1>4, <1>9, <1>11, <1>12, <1>13 DEF Next, Aborted

\* delEvent(), cancelEvent() and cancelAll() do what they are called for
\* before they return: on a descriptor that was not spoilt, no pass-over
\* because of a missing cell or a refused epoll_ctl() leaves an event behind.
THEOREM CancelTheorem == Spec => CancelCancels
<1>1. IndInv /\ SoleInv /\ [Next]_vars =>
        [\A c \in Callers :
           (/\ call[c].op # "add" /\ call[c].at \in {"lookup", "do"}
            /\ call'[c].at \in {"idle", "closing"} /\ call[c].fd \notin spoilt) =>
             \A o \in Ctx : o[1] = call[c].fd =>
               IF call[c].op \in {"all", "close"} THEN events'[o] = {}
               ELSE call[c].ev \notin events'[o]]_vars
  BY CancelStep
<1> QED BY <1>1, SoleInvariance, PTL DEF Spec, CancelCancels
=============================================================================
