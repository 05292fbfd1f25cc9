----------------------------- MODULE IOManager -----------------------------
(* The event table of IOManager (io/iomanager.cc): addEvent(), delEvent(),  *)
(* cancelEvent(), cancelAll(), contextResize() and the event loop of idle(),*)
(* over a model of edge-triggered epoll.                                    *)
(*                                                                          *)
(* A critical section is one step: the look-up of the FdContext under       *)
(* m_mutex, the growing of the table under its write lock, and the work     *)
(* under FdContext::mutex. A caller is a fiber or thread, and stands also   *)
(* for the callback or fiber that addEvent() stores in the context.         *)
EXTENDS Integers, FiniteSets

CONSTANTS
  Fds,         \* file descriptors in use
  InitSize,    \* contextResize(32) in the constructor
  MaxGen,      \* bound: FdContext objects ever made for one descriptor
  Callers, Pollers,
  Ops,         \* the operations callers use besides "add"
  Arrivals,    \* what happens to a file: subset of READ, WRITE, ERR
  None

READ == "READ"
WRITE == "WRITE"
ERR == "ERR"           \* EPOLLERR or EPOLLHUP
EV == {READ, WRITE}

\* addEvent()'s size for a table that is too small: fd * 1.5, rounded down.
GrownSize(fd) == (fd * 3) \div 2

Ctx == Fds \X (1..MaxGen)      \* the FdContext objects

ASSUME IOAssumption ==
  /\ InitSize \in Nat /\ MaxGen \in Nat /\ MaxGen >= 1
  /\ Fds \subseteq Nat /\ \A fd \in Fds : fd < InitSize \/ fd < GrownSize(fd)
  /\ Ops \subseteq {"del", "cancel", "all", "close"}
  /\ Arrivals \subseteq EV \cup {ERR} /\ None \notin Callers \cup Ctx

VARIABLES
  size,                  \* m_fdContexts.size()
  cell,                  \* which object m_fdContexts[fd] is (if fd < size)
  events,                \* FdContext::events
  waiter,                \* FdContext::read, write: who is to be scheduled
  m_pendingEventCount,
  call,                  \* the operation each caller is in
  batch,                 \* what epoll_wait() returned to each poller
  interest, ptr,         \* kernel: the registration of each fd
  ready,                 \* kernel: the state of the file
  armed,                 \* kernel: fd is in the epoll ready list
  failed,                \* a SYLAR_ASSERT failed
  spoilt                 \* history: descriptors whose FdContext went, or that
                         \* were closed, while they were in use

table == <<size, cell>>
contexts == <<events, waiter, m_pendingEventCount>>
kernel == <<interest, ptr, armed>>
vars == <<table, contexts, call, batch, kernel, ready, failed, spoilt>>

Idle == [at |-> "idle", op |-> "none", fd |-> None, ev |-> None, ctx |-> None]
Calls ==
  [at : {"idle", "lookup", "grow", "do", "closing", "wait", "ready"},
   op : {"none", "add", "del", "cancel", "all", "close"},
   fd : Fds \cup {None}, ev : EV \cup {None}, ctx : Ctx \cup {None}]

TypeOK ==
  /\ size \in Nat /\ cell \in [Fds -> 0..MaxGen]
  /\ events \in [Ctx -> SUBSET EV]
  /\ waiter \in [Ctx -> [EV -> Callers \cup {None}]]
  /\ m_pendingEventCount \in Nat
  /\ call \in [Callers -> Calls]
  /\ batch \in [Pollers -> SUBSET [ctx : Ctx, evs : SUBSET (EV \cup {ERR})]]
  /\ interest \in [Fds -> SUBSET EV] /\ ptr \in [Fds -> Ctx \cup {None}]
  /\ ready \in [Fds -> SUBSET (EV \cup {ERR})] /\ armed \in [Fds -> BOOLEAN]
  /\ failed \in BOOLEAN /\ spoilt \subseteq Fds

Init ==
  /\ size = InitSize
  /\ cell = [f \in Fds |-> IF f < InitSize THEN 1 ELSE 0]
  /\ events = [o \in Ctx |-> {}]
  /\ waiter = [o \in Ctx |-> [e \in EV |-> None]]
  /\ m_pendingEventCount = 0
  /\ call = [c \in Callers |-> Idle]
  /\ batch = [p \in Pollers |-> {}]
  /\ interest = [f \in Fds |-> {}] /\ ptr = [f \in Fds |-> None]
  /\ ready = [f \in Fds |-> {}] /\ armed = [f \in Fds |-> FALSE]
  /\ failed = FALSE /\ spoilt = {}
----------------------------------------------------------------------------
(* The kernel.                                                              *)

\* What epoll would report for a registration.
Poll(fd, want) == IF want = {} THEN {} ELSE ready[fd] \cap (want \cup {ERR})

\* EPOLL_CTL_ADD of a registered fd is EEXIST, MOD and DEL of another ENOENT.
CtlOK(fd, old) == (old = {}) <=> (interest[fd] = {})

\* epoll_ctl(): an addition or modification looks at the file again.
EpollCtl(fd, o, want) ==
  /\ interest' = [interest EXCEPT ![fd] = want]
  /\ ptr' = [ptr EXCEPT ![fd] = o]
  /\ armed' = [armed EXCEPT ![fd] = Poll(fd, want) # {}]

\* Data, room or an error arrives: an edge, also when the file was ready.
Edge(fd, e) ==
  /\ ~failed
  /\ ready' = [ready EXCEPT ![fd] = @ \cup {e}]
  /\ armed' = [armed EXCEPT ![fd] = @ \/ (interest[fd] # {} /\ e \in interest[fd] \cup {ERR})]
  /\ UNCHANGED <<table, contexts, call, batch, interest, ptr, failed, spoilt>>

\* Somebody reads or writes until EAGAIN.
Drain(fd, e) ==
  /\ ~failed /\ e \in ready[fd] \cap EV
  /\ ready' = [ready EXCEPT ![fd] = @ \ {e}]
  /\ UNCHANGED <<table, contexts, call, batch, kernel, failed, spoilt>>
----------------------------------------------------------------------------
(* Callers.                                                                 *)

\* Two fibers do not wait for the same event of one descriptor.
Wanted(fd, e) ==
  \E c \in Callers : call[c].op = "add" /\ call[c].fd = fd /\ call[c].ev = e
                     /\ call[c].at # "ready"

Begin(c, op, fd, e) ==
  /\ ~failed /\ call[c].at = "idle"
  /\ op = "add" => ~Wanted(fd, e)
  /\ call' = [call EXCEPT ![c] = [at |-> "lookup", op |-> op, fd |-> fd, ev |-> e, ctx |-> None]]
  /\ UNCHANGED <<table, contexts, batch, kernel, ready, failed, spoilt>>

\* The look-up under the read lock.
Lookup(c) ==
  LET fd == call[c].fd IN
  /\ ~failed /\ call[c].at = "lookup"
  /\ call' = [call EXCEPT ![c] =
       IF fd < size THEN [@ EXCEPT !.at = "do", !.ctx = <<fd, cell[fd]>>]
       ELSE IF @.op = "add" THEN [@ EXCEPT !.at = "grow"]
       ELSE IF @.op = "close" THEN [@ EXCEPT !.at = "closing"]
       ELSE Idle]
  /\ UNCHANGED <<table, contexts, batch, kernel, ready, failed, spoilt>>

\* contextResize(): vector::resize() to any size, smaller ones too, and a new
\* object in every empty cell.
ContextResize(n) ==
  /\ size' = n
  /\ cell' = [f \in Fds |-> IF size <= f /\ f < n THEN cell[f] + 1 ELSE cell[f]]
  /\ \A f \in Fds : cell'[f] <= MaxGen

Holding(fd) == \E o \in Ctx : o[1] = fd /\ events[o] # {}
InUse(fd) == Holding(fd) \/ \E c \in Callers : call[c].at = "do" /\ call[c].fd = fd

\* The size is not looked at again under the write lock.
Grow(c) ==
  LET fd == call[c].fd IN
  /\ ~failed /\ call[c].at = "grow"
  /\ ContextResize(GrownSize(fd))
  /\ call' = [call EXCEPT ![c].at = "do", ![c].ctx = <<fd, cell'[fd]>>]
  /\ spoilt' = spoilt \cup {f \in Fds : GrownSize(fd) <= f /\ f < size /\ InUse(f)}
  /\ UNCHANGED <<contexts, batch, kernel, ready, failed>>

\* close() of the hook goes on to close the descriptor; the others return.
After(c) == IF call[c].op = "close" THEN [call[c] EXCEPT !.at = "closing"] ELSE Idle

Notify(o, S, c, at) ==
  call' = [d \in Callers |->
    IF d = c THEN After(c)
    ELSE IF \A e \in S : waiter[o][e] # d THEN call[d]
    ELSE IF at = "ready" THEN [call[d] EXCEPT !.at = at] ELSE Idle]

\* Fault: the context keeps its scheduler, fiber and callback.
TriggerKeeping(o, S, c, at) ==
  /\ events' = [events EXCEPT ![o] = @ \ S]
  /\ Notify(o, S, c, at)
  /\ UNCHANGED waiter

\* triggerEvent() of every event in S, which schedules (at = "ready"), or
\* resetContext(), which forgets (at = "idle"); caller c, if any, returns.
Trigger(o, S, c, at) ==
  /\ events' = [events EXCEPT ![o] = @ \ S]
  /\ waiter' = [waiter EXCEPT ![o] = [e \in EV |-> IF e \in S THEN None ELSE @[e]]]
  /\ Notify(o, S, c, at)

Return(c) ==
  /\ call' = [call EXCEPT ![c] = After(c)]
  /\ UNCHANGED <<contexts, kernel, failed>>

Abort == failed' = TRUE /\ UNCHANGED <<contexts, call, kernel>>

\* addEvent() under the context's mutex; the kernel may be out of resources
\* for a new registration.
AddEvent(c) ==
  LET o == call[c].ctx  fd == call[c].fd  e == call[c].ev  want == events[o] \cup {e} IN
  /\ ~failed /\ call[c].at = "do" /\ call[c].op = "add"
  /\ \/ /\ e \notin events[o] /\ (events[o] = {} \/ ~CtlOK(fd, events[o]))
        /\ Return(c)
     \/ /\ e \in events[o] \/ CtlOK(fd, events[o])
        /\ IF e \in events[o] \/ waiter[o][e] # None THEN Abort
           ELSE /\ EpollCtl(fd, o, want)
                /\ m_pendingEventCount' = m_pendingEventCount + 1
                /\ events' = [events EXCEPT ![o] = want]
                /\ waiter' = [waiter EXCEPT ![o][e] = c]
                /\ call' = [call EXCEPT ![c].at = "wait"]
                /\ UNCHANGED failed
  /\ UNCHANGED <<table, batch, ready, spoilt>>

\* Fault: an event that is not registered is taken out all the same.
WithdrawUnchecked(c, S, at) ==
  LET o == call[c].ctx  fd == call[c].fd IN
  /\ EpollCtl(fd, o, events[o] \ S)
  /\ m_pendingEventCount' = m_pendingEventCount - Cardinality(S)
  /\ Trigger(o, S, c, at)
  /\ UNCHANGED <<table, batch, ready, failed, spoilt>>

\* Fault: the descriptor leaves epoll although an event is still registered.
NothingLeft(o, S) == {}

\* new_events and left_events: what stays registered with epoll.
LeftEvents(o, S) == events[o] \ S

\* The common part of delEvent(), cancelEvent() and cancelAll(): take the
\* events S out of the context, unless they are not there or epoll refuses.
Withdraw(c, S, at) ==
  LET o == call[c].ctx  fd == call[c].fd IN
  /\ IF S # {} /\ S \subseteq events[o] /\ CtlOK(fd, events[o])
     THEN /\ EpollCtl(fd, o, LeftEvents(o, S))
          /\ m_pendingEventCount' = m_pendingEventCount - Cardinality(S)
          /\ Trigger(o, S, c, at)
          /\ UNCHANGED failed
     ELSE Return(c)
  /\ UNCHANGED <<table, batch, ready, spoilt>>

DelEvent(c) ==
  ~failed /\ call[c].at = "do" /\ call[c].op = "del" /\ Withdraw(c, {call[c].ev}, "idle")

CancelEvent(c) ==
  ~failed /\ call[c].at = "do" /\ call[c].op = "cancel" /\ Withdraw(c, {call[c].ev}, "ready")

\* Fault: only the reader is woken.
CancelAllReads(c) ==
  /\ ~failed /\ call[c].at = "do" /\ call[c].op \in {"all", "close"}
  /\ Withdraw(c, events[call[c].ctx] \cap {READ}, "ready")

CancelAll(c) ==
  /\ ~failed /\ call[c].at = "do" /\ call[c].op \in {"all", "close"}
  /\ Withdraw(c, events[call[c].ctx], "ready")

\* close_f(fd): epoll forgets the descriptor.
Close(c) ==
  LET fd == call[c].fd IN
  /\ ~failed /\ call[c].at = "closing"
  /\ interest' = [interest EXCEPT ![fd] = {}]
  /\ armed' = [armed EXCEPT ![fd] = FALSE]
  /\ ready' = [ready EXCEPT ![fd] = {}]
  /\ call' = [call EXCEPT ![c] = Idle]
  /\ spoilt' = spoilt \cup {f \in {fd} : Holding(f)}
  /\ UNCHANGED <<table, contexts, batch, ptr, failed>>

\* A scheduled fiber runs on.
Resume(c) ==
  /\ ~failed /\ call[c].at = "ready"
  /\ call' = [call EXCEPT ![c] = Idle]
  /\ UNCHANGED <<table, contexts, batch, kernel, ready, failed, spoilt>>
----------------------------------------------------------------------------
(* Pollers: epoll_wait() and the loop over what it returned.                *)

Hot == {f \in Fds : armed[f] /\ Poll(f, interest[f]) # {}}

EpollWait(p) ==
  /\ ~failed /\ batch[p] = {} /\ Hot # {}
  /\ batch' = [batch EXCEPT ![p] = {[ctx |-> ptr[f], evs |-> Poll(f, interest[f])] : f \in Hot}]
  /\ armed' = [f \in Fds |-> armed[f] /\ f \notin Hot]
  /\ UNCHANGED <<table, contexts, call, interest, ptr, ready, failed, spoilt>>

\* Fault: EPOLLERR and EPOLLHUP are not turned into the waiting events.
RealEventsNoErr(r) == r.evs \cap EV

RealEvents(r) == (r.evs \cup (IF ERR \in r.evs THEN events[r.ctx] ELSE {})) \cap EV

\* Fault: the counter goes down once per descriptor.
TriggeredOnce(S) == 1

\* How far m_pendingEventCount goes down: once per event.
Triggered(S) == Cardinality(S)

\* Fault: nobody is woken before everything registered is ready.
ProcessWhole(p, r) ==
  LET o == r.ctx  fd == o[1]  real == RealEvents(r) IN
  /\ ~failed /\ r \in batch[p]
  /\ batch' = [batch EXCEPT ![p] = @ \ {r}]
  /\ IF events[o] # real \/ ~CtlOK(fd, events[o])
     THEN UNCHANGED <<contexts, call, kernel, failed>>
     ELSE /\ EpollCtl(fd, o, {})
          /\ m_pendingEventCount' = m_pendingEventCount - Triggered(real)
          /\ Trigger(o, real, None, "ready")
          /\ UNCHANGED failed
  /\ UNCHANGED <<table, ready, spoilt>>

\* One round of the loop of idle() at 342-392.
Process(p, r) ==
  LET o == r.ctx  fd == o[1]  real == RealEvents(r) IN
  /\ ~failed /\ r \in batch[p]
  /\ batch' = [batch EXCEPT ![p] = @ \ {r}]
  /\ IF events[o] \cap real = {} \/ ~CtlOK(fd, events[o])
     THEN UNCHANGED <<contexts, call, kernel, failed>>
     ELSE IF real \subseteq events[o]
     THEN /\ EpollCtl(fd, o, LeftEvents(o, real))
          /\ m_pendingEventCount' = m_pendingEventCount - Triggered(real)
          /\ Trigger(o, real, None, "ready")
          /\ UNCHANGED failed
     ELSE Abort           \* triggerEvent(): events & event
  /\ UNCHANGED <<table, ready, spoilt>>
----------------------------------------------------------------------------
CallerStep(c) ==
  \/ Lookup(c) \/ Grow(c) \/ AddEvent(c) \/ DelEvent(c) \/ CancelEvent(c) \/ CancelAll(c)
  \/ Close(c) \/ Resume(c)

PollerStep(p) == EpollWait(p) \/ \E r \in batch[p] : Process(p, r)

\* A failed assertion ends the process.
Aborted == failed /\ UNCHANGED vars

Next ==
  \/ \E c \in Callers, fd \in Fds, e \in EV, op \in Ops \cup {"add"} : Begin(c, op, fd, e)
  \/ \E c \in Callers : CallerStep(c)
  \/ \E p \in Pollers : PollerStep(p)
  \/ \E fd \in Fds, e \in Arrivals : Edge(fd, e)
  \/ \E fd \in Fds, e \in EV : Drain(fd, e)
  \/ Aborted

Spec == Init /\ [][Next]_vars

\* Threads in idle() keep polling and a call that has begun is carried out.
FairSpec ==
  /\ Spec
  /\ \A p \in Pollers : WF_vars(PollerStep(p))
  /\ \A c \in Callers : WF_vars(CallerStep(c))
----------------------------------------------------------------------------
(* Properties.                                                              *)

Registered == {x \in Ctx \X EV : x[2] \in events[x[1]]}

\* IOManager::stopping() trusts m_pendingEventCount: it is the number of
\* events registered in all contexts, those a shrinking table has lost and
\* those of closed descriptors included.
PendingExact == m_pendingEventCount = Cardinality(Registered)

\* A registered event has exactly one fiber or callback waiting in its
\* context, the one that asked for this event of this descriptor, and no
\* caller waits outside a context: nobody is woken for another, twice, or
\* forgotten by everybody.
WaiterCoherent ==
  /\ \A o \in Ctx, e \in EV :
       /\ (e \in events[o]) <=> (waiter[o][e] # None)
       /\ waiter[o][e] # None =>
            call[waiter[o][e]] = [at |-> "wait", op |-> "add", fd |-> o[1], ev |-> e, ctx |-> o]
  /\ \A c \in Callers : call[c].at = "wait" => waiter[call[c].ctx][call[c].ev] = c

\* epoll watches a descriptor for exactly the events registered in the
\* context it points to, and no other context of the descriptor has any.
\* There are two ways to lose this and no third: contextResize() shrinks the
\* table over a context in use, or close() overtakes an addEvent().
InterestMatches ==
  \A f \in Fds \ spoilt :
    /\ interest[f] = IF ptr[f] = None THEN {} ELSE events[ptr[f]]
    /\ \A o \in Ctx : o[1] = f /\ events[o] # {} => ptr[f] = o

\* With edge triggering an edge is reported once: a file that is ready for a
\* registered event is in the ready list, or a poller has the event in hand,
\* but for the same two ways.
NoLostEdge ==
  \A f \in Fds \ spoilt : \A e \in Poll(f, interest[f]) :
    armed[f] \/ \E p \in Pollers : \E r \in batch[p] : r.ctx[1] = f /\ e \in r.evs

\* When delEvent(), cancelEvent() or cancelAll() return, the last one to
\* close() too, what they were to take away is not registered in any context
\* of the descriptor: it is not passed over because the look-up finds no cell
\* or epoll_ctl() refuses, again but for the same two ways.
CancelCancels ==
  [][\A c \in Callers :
       (/\ call[c].op # "add" /\ call[c].at \in {"lookup", "do"}
        /\ call'[c].at \in {"idle", "closing"} /\ call[c].fd \notin spoilt) =>
         \A o \in Ctx : o[1] = call[c].fd =>
           IF call[c].op \in {"all", "close"} THEN events'[o] = {}
           ELSE call[c].ev \notin events'[o]]_vars

\* A fiber waiting for an event of a file that is ready is scheduled, unless
\* the file stops being ready or is closed (then epoll has forgotten it).
WaitersWake ==
  \A c \in Callers : \A f \in Fds :
    (call[c].at = "wait" /\ call[c].fd = f /\ call[c].ev \in ready[f] \cap interest[f])
      ~> (call[c].at # "wait" \/ call[c].ev \notin ready[f] \cap interest[f] \/ failed)
=============================================================================
