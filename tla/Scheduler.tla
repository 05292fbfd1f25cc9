----------------------------- MODULE Scheduler -----------------------------
(* The N:M fiber scheduler: Scheduler::schedule/start/stop/run/stopping     *)
(* (io/scheduler.cc, scheduler.h) over Fiber (io/fiber.cc), with the        *)
(* IOManager's overrides of stopping() and idle() (io/iomanager.cc) reduced *)
(* to what they do to the scheduler: a parked fiber waits for a timer or    *)
(* for an fd event, and an idle thread wakes it.                            *)
(*                                                                          *)
(* Atomicity: a critical section of m_mutex is one step, and so is each     *)
(* access to the atomic counters and to Fiber::m_state, which is written    *)
(* and read by several threads without a lock.                              *)
EXTENDS Integers, Sequences, FiniteSets, SequencesExt

CONSTANTS
  Workers,        \* the threads start() creates
  Caller,         \* the thread that constructs, starts and stops the scheduler
  UseCaller,      \* constructor argument use_caller
  Fibers,         \* bound: Fiber objects
  Jobs,           \* bound: functions handed to schedule()
  Pins,           \* thread arguments callers pass to schedule()
  None,           \* nullptr, and -1 as a thread id
  IOM,            \* TRUE: the object is an IOManager
  Waits,          \* what job bodies park on: subset of {"timer", "event"}
  MaxYields,      \* bound: yields and parkings of all jobs together
  MaxStops,       \* bound: calls of stop()
  DoubleSchedule, \* a caller may schedule a Fiber it already scheduled
  LateSubmit      \* foreign threads may call schedule() while stop() runs

Over == "over"    \* m_cb of a fiber behind its last swapOut()

ASSUME ConfigAssumption ==
  /\ IsFiniteSet(Workers) /\ Caller \notin Workers
  /\ IsFiniteSet(Fibers) /\ Jobs \cap Fibers = {}
  /\ None \notin Workers \cup {Caller} \cup Fibers \cup Jobs \cup {"INIT", "EXEC", "TERM"}
  /\ Over \notin Fibers \cup Jobs \cup {None}
  /\ Pins \subseteq Workers \cup {Caller, None}
  /\ {UseCaller, IOM, DoubleSchedule, LateSubmit} \subseteq BOOLEAN
  /\ Waits \subseteq {"timer", "event"}
  /\ MaxYields \in Nat /\ MaxStops \in Nat

\* SYLAR_ASSERT(threads > 0) in the constructor.
ASSUME SomeThread == UseCaller \/ Workers # {}

VARIABLES
  m_fibers,              \* std::list<FiberAndThread>
  m_activateThreadCount,
  m_idleThreadCount,
  m_stopping,
  m_autoStop,
  m_pendingEventCount,   \* IOManager's
  m_rootFiber,           \* state of the caller's scheduling fiber, or None
  m_state,               \* Fiber::m_state; "FREE" for one not yet constructed
  m_cb,                  \* Fiber::m_cb: a job, a fiber to wake, or None; Over
                         \* when its context is behind the last swapOut()
  waiting,               \* what a fiber is registered with: a timer, an event
  pc,                    \* where each thread is in run()
  ft,                    \* run()'s local ft
  cb_fiber,              \* run()'s local cb_fiber
  idleTerm,              \* run()'s idle_fiber has reached TERM
  look,                  \* how far a thread is inside stopping()
  fired,                 \* expired callbacks an idle thread holds
  main,                  \* where the owner is in start()/stop()
  stops, fuel,           \* calls of stop() and yields still allowed
  submitted, done,       \* jobs handed to schedule(), jobs that returned
  failed,                \* assertions that have failed: the process is dead
  doubled                \* history: fibers handed to schedule() twice, or popped
                         \* by one thread while another still has them

counters == <<m_activateThreadCount, m_idleThreadCount, m_pendingEventCount>>
flags == <<m_stopping, m_autoStop>>
fibers == <<m_state, m_cb, waiting>>
slot == <<ft, cb_fiber>>
idler == <<idleTerm, look, fired>>
threads == <<pc, slot, idler>>
owner == <<m_rootFiber, main, stops>>
jobs == <<fuel, submitted, done>>
rest == <<flags, owner, jobs, failed, doubled>>
vars == <<m_fibers, counters, fibers, threads, rest>>

Threads == Workers \cup {Caller}
FiberStates == {"FREE", "INIT", "HOLD", "EXEC", "TERM", "READY", "EXCEPT"}
Finished == {"TERM", "EXCEPT"}

\* pc values: the fiber's stack is on the thread / the thread refers to it.
OnStack == {"exec", "reg", "switch"}
InHand == OnStack \cup {"post", "settle", "hold"}
Active == {"got", "post"} \cup OnStack
Idling == {"idle", "poll", "fire", "events", "trig"}
PCs == {"off", "scan", "exited"} \cup Active \cup InHand \cup Idling
MainPCs == {"new", "running", "early", "signal", "peek", "root", "join", "stopped"}

Failures == {"swapIn", "two stacks", "never reach", "reset", "addEvent", "root never reach"}

Entries == [fiber : Fibers \cup {None}, cb : Jobs \cup Fibers \cup {None},
            thread : Threads \cup {None}]
Task(f, c, t) == [fiber |-> f, cb |-> c, thread |-> t]
NoTask == Task(None, None, None)   \* FiberAndThread::reset()

\* The fiber thread t dispatched last: ft.fiber, or cb_fiber for a callback.
Cur(t) == IF ft[t].fiber # None THEN ft[t].fiber ELSE cb_fiber[t]
Holders(f) == {t \in Threads : pc[t] \in InHand /\ Cur(t) = f}

TypeOK ==
  /\ m_fibers \in Seq(Entries)
  /\ m_activateThreadCount \in Nat /\ m_idleThreadCount \in Nat
  /\ m_pendingEventCount \in Nat
  /\ m_stopping \in BOOLEAN /\ m_autoStop \in BOOLEAN
  /\ m_rootFiber \in {None, "INIT", "EXEC", "TERM"}
  /\ m_state \in [Fibers -> FiberStates]
  /\ m_cb \in [Fibers -> Jobs \cup Fibers \cup {None, Over}]
  /\ waiting \in [Fibers -> {"no", "timer", "event"}]
  /\ pc \in [Threads -> PCs]
  /\ ft \in [Threads -> Entries]
  /\ cb_fiber \in [Threads -> Fibers \cup {None}]
  /\ idleTerm \in [Threads -> BOOLEAN]
  /\ look \in [Threads -> 0..2]
  /\ fired \in [Threads -> SUBSET Fibers]
  /\ main \in MainPCs /\ stops \in 0..MaxStops /\ fuel \in 0..MaxYields
  /\ submitted \subseteq Jobs /\ done \subseteq Jobs
  /\ failed \subseteq Failures /\ doubled \subseteq Fibers

Init ==
  /\ m_fibers = <<>>
  /\ m_activateThreadCount = 0 /\ m_idleThreadCount = 0 /\ m_pendingEventCount = 0
  /\ m_stopping = TRUE /\ m_autoStop = FALSE
  /\ m_rootFiber = IF UseCaller THEN "INIT" ELSE None
  /\ m_state = [f \in Fibers |-> "FREE"]
  /\ m_cb = [f \in Fibers |-> None]
  /\ waiting = [f \in Fibers |-> "no"]
  /\ pc = [t \in Threads |-> "off"]
  /\ ft = [t \in Threads |-> NoTask]
  /\ cb_fiber = [t \in Threads |-> None]
  /\ idleTerm = [t \in Threads |-> FALSE]
  /\ look = [t \in Threads |-> 0]
  /\ fired = [t \in Threads |-> {}]
  /\ main = "new" /\ stops = 0 /\ fuel = MaxYields
  /\ submitted = {} /\ done = {} /\ failed = {} /\ doubled = {}

Goto(t, l) == pc' = [pc EXCEPT ![t] = l]
Alive == failed = {}
Fail(why) == failed' = failed \cup {why}
             /\ UNCHANGED <<m_fibers, counters, fibers, threads, flags, owner, jobs, doubled>>
----------------------------------------------------------------------------
(* schedule(): push_back under the lock. The tickle() that follows only     *)
(* shortens an epoll_wait; idle threads may leave theirs at any time here.  *)

\* schedule(job, pin) as a bare callback, or wrapped in a Fiber of its own.
Schedule(j, pin) ==
  /\ j \in Jobs \ submitted
  /\ submitted' = submitted \cup {j}
  /\ \/ /\ m_fibers' = Append(m_fibers, Task(None, j, pin))
        /\ UNCHANGED fibers
     \/ \E f \in Fibers :
          /\ m_state[f] = "FREE"
          /\ m_state' = [m_state EXCEPT ![f] = "INIT"]
          /\ m_cb' = [m_cb EXCEPT ![f] = j]
          /\ m_fibers' = Append(m_fibers, Task(f, None, pin))
          /\ UNCHANGED waiting
  /\ UNCHANGED <<counters, threads, flags, owner, fuel, done, failed, doubled>>

Submit(j, pin) ==
  /\ Alive
  /\ main \in {"new", "running"} \/ LateSubmit
  /\ Schedule(j, pin)

\* A running job calls schedule() itself.
Spawn(t, j, pin) ==
  /\ Alive /\ pc[t] = "exec" /\ m_cb[Cur(t)] \in Jobs
  /\ Schedule(j, pin)

\* A caller schedules a Fiber that has been scheduled before.
ScheduleAgain(f) ==
  /\ Alive /\ DoubleSchedule /\ main = "running"
  /\ m_cb[f] \in Jobs /\ m_state[f] # "FREE"
  /\ Task(f, None, None) \notin Range(m_fibers)
  /\ m_fibers' = Append(m_fibers, Task(f, None, None))
  /\ doubled' = doubled \cup {f}
  /\ UNCHANGED <<counters, fibers, threads, flags, owner, jobs, failed>>
----------------------------------------------------------------------------
(* run(): the scan.                                                         *)

\* Fault: the pin is not looked at.
EligibleAnywhere(e, t) == e.fiber # None => m_state[e.fiber] # "EXEC"

Eligible(e, t) ==
  /\ e.thread \in {None, t}
  /\ e.fiber # None => m_state[e.fiber] # "EXEC"

\* Entry i is the first one the scan stops at.
FirstFor(t, i) ==
  /\ Eligible(m_fibers[i], t)
  /\ \A k \in 1..(i - 1) : ~Eligible(m_fibers[k], t)
NothingFor(t) == \A i \in DOMAIN m_fibers : ~Eligible(m_fibers[i], t)

\* ft = *it, with q the list that is left. A fiber whose wake-up came before
\* its last thread has let go of it is in two hands from here on.
TakeLeaving(t, i, q) ==
  /\ Alive /\ pc[t] = "scan" /\ FirstFor(t, i)
  /\ ft' = [ft EXCEPT ![t] = m_fibers[i]]
  /\ m_fibers' = q
  /\ m_activateThreadCount' = m_activateThreadCount + 1
  /\ doubled' = doubled \cup {f \in Fibers : f = m_fibers[i].fiber /\ Holders(f) # {}}
  /\ Goto(t, "got")
  /\ UNCHANGED <<m_idleThreadCount, m_pendingEventCount, fibers, cb_fiber, idler, flags, owner,
                  jobs, failed>>

\* Fault: the entry is copied but not erased.
TakeKeeping(t) == \E i \in DOMAIN m_fibers : TakeLeaving(t, i, m_fibers)

Take(t) == \E i \in DOMAIN m_fibers : TakeLeaving(t, i, RemoveAt(m_fibers, i))

GoIdle(t) ==
  /\ Alive /\ pc[t] = "scan" /\ NothingFor(t) /\ ~idleTerm[t]
  /\ m_idleThreadCount' = m_idleThreadCount + 1
  /\ Goto(t, "idle")
  /\ UNCHANGED <<m_fibers, m_activateThreadCount, m_pendingEventCount, fibers, slot, idler,
                  rest>>

\* run() returns; on the caller CallerMainFunc goes back() into stop().
Exit(t) ==
  /\ Alive /\ pc[t] = "scan" /\ NothingFor(t) /\ idleTerm[t]
  /\ Goto(t, "exited")
  /\ m_rootFiber' = IF t = Caller THEN "TERM" ELSE m_rootFiber
  /\ main' = IF t = Caller THEN "join" ELSE main
  /\ UNCHANGED <<m_fibers, counters, fibers, slot, idler, flags, stops, jobs, failed, doubled>>
----------------------------------------------------------------------------
(* run(): the dispatch, and what the fiber does on the thread.              *)

\* ft.fiber->swapIn(). The test before it (!= TERM || != EXCEPT) is always
\* true, so a finished fiber is resumed behind its last swapOut(), also one
\* whose state has been overwritten since.
SwapIn(t) ==
  LET f == ft[t].fiber IN
  /\ Alive /\ pc[t] = "got" /\ f # None
  /\ IF m_state[f] = "EXEC" THEN Fail("swapIn")
     ELSE IF \E u \in Holders(f) \ {t} : pc[u] \in OnStack THEN Fail("two stacks")
     ELSE IF m_cb[f] = Over THEN Fail("never reach")
     ELSE /\ m_state' = [m_state EXCEPT ![f] = "EXEC"]
          /\ Goto(t, "exec")
          /\ UNCHANGED <<m_fibers, counters, m_cb, waiting, slot, idler, rest>>

\* A callback runs in cb_fiber, kept from the last callback or constructed.
SwapInCb(t) ==
  /\ Alive /\ pc[t] = "got" /\ ft[t].fiber = None
  /\ \E f \in Fibers :
       /\ IF cb_fiber[t] # None THEN f = cb_fiber[t] ELSE m_state[f] = "FREE"
       /\ IF m_state[f] \notin Finished \cup {"INIT", "FREE"} THEN Fail("reset")
          ELSE /\ m_state' = [m_state EXCEPT ![f] = "EXEC"]
               /\ m_cb' = [m_cb EXCEPT ![f] = ft[t].cb]
               /\ cb_fiber' = [cb_fiber EXCEPT ![t] = f]
               /\ ft' = [ft EXCEPT ![t] = NoTask]
               /\ Goto(t, "exec")
               /\ UNCHANGED <<m_fibers, counters, waiting, idler, rest>>

\* The job returns (TERM) or throws (EXCEPT); MainFunc writes the state.
\* A reset fiber that is resumed again has an empty function, which throws.
Finish(t, s) ==
  LET f == Cur(t) IN
  /\ Alive /\ pc[t] = "exec"
  /\ m_cb[f] \in Jobs \/ (m_cb[f] = None /\ s = "EXCEPT")
  /\ done' = done \cup ({m_cb[f]} \ {None})
  /\ m_state' = [m_state EXCEPT ![f] = s]
  /\ m_cb' = [m_cb EXCEPT ![f] = Over]
  /\ Goto(t, "switch")
  /\ UNCHANGED <<m_fibers, counters, waiting, slot, idler, flags, owner, fuel, submitted,
                  failed, doubled>>

\* The callback of a hooked sleep's timer: schedule(fiber), and return.
Relay(t) ==
  LET f == Cur(t) IN
  /\ Alive /\ pc[t] = "exec" /\ m_cb[f] \in Fibers
  /\ m_fibers' = Append(m_fibers, Task(m_cb[f], None, None))
  /\ m_state' = [m_state EXCEPT ![f] = "TERM"]
  /\ m_cb' = [m_cb EXCEPT ![f] = Over]
  /\ Goto(t, "switch")
  /\ UNCHANGED <<counters, waiting, slot, idler, rest>>

YieldToReady(t) ==
  /\ Alive /\ pc[t] = "exec" /\ m_cb[Cur(t)] \in Jobs /\ fuel > 0
  /\ fuel' = fuel - 1
  /\ m_state' = [m_state EXCEPT ![Cur(t)] = "READY"]
  /\ Goto(t, "switch")
  /\ UNCHANGED <<m_fibers, counters, m_cb, waiting, slot, idler, flags, owner, submitted,
                  done, failed, doubled>>

\* A job registers itself with a timer or an event before it parks (bound: one
\* registration per fiber).
\* addEvent() asserts that the fiber it records is in state EXEC.
Register(t, w) ==
  /\ Alive /\ pc[t] = "exec" /\ m_cb[Cur(t)] \in Jobs /\ fuel > 0
  /\ waiting[Cur(t)] = "no"
  /\ IF w = "event" /\ m_state[Cur(t)] # "EXEC" THEN Fail("addEvent")
     ELSE /\ fuel' = fuel - 1
          /\ waiting' = [waiting EXCEPT ![Cur(t)] = w]
          /\ m_pendingEventCount' = m_pendingEventCount + (IF w = "event" THEN 1 ELSE 0)
          /\ Goto(t, "reg")
          /\ UNCHANGED <<m_fibers, m_activateThreadCount, m_idleThreadCount, m_state, m_cb,
                          slot, idler, flags, owner, submitted, done, failed, doubled>>

\* YieldToHold() writes HOLD, and only then swapOut() saves the context.
YieldToHold(t) ==
  /\ Alive /\ pc[t] = "reg"
  /\ m_state' = [m_state EXCEPT ![Cur(t)] = "HOLD"]
  /\ Goto(t, "switch")
  /\ UNCHANGED <<m_fibers, counters, m_cb, waiting, slot, idler, rest>>

\* swapOut() reaches the swapcontext() that puts run() back on the thread.
SwapOut(t) ==
  /\ Alive /\ pc[t] = "switch"
  /\ Goto(t, "post")
  /\ UNCHANGED <<m_fibers, counters, fibers, slot, idler, rest>>
----------------------------------------------------------------------------
(* run(): what follows swapIn().                                            *)

PostBy(t, n) ==
  /\ Alive /\ pc[t] = "post"
  /\ m_activateThreadCount' = m_activateThreadCount - n
  /\ Goto(t, "settle")
  /\ UNCHANGED <<m_fibers, m_idleThreadCount, m_pendingEventCount, fibers, slot, idler,
                 rest>>

\* Fault: the decrement is missed when the fiber ended in an exception.
PostUnlessExcept(t) == PostBy(t, IF m_state[Cur(t)] = "EXCEPT" THEN 0 ELSE 1)

Post(t) == PostBy(t, 1)

\* READY goes back to the queue, TERM and EXCEPT are dropped (a cb_fiber is
\* reset for reuse), anything else becomes HOLD. The two or three reads of the
\* state have no outcome that a single one could not have.
Settle(t) ==
  LET f == Cur(t)
      viaCb == ft[t].fiber = None
  IN
  /\ Alive /\ pc[t] = "settle"
  /\ IF m_state[f] \in Finished \cup {"READY"}
     THEN /\ Goto(t, "scan")
          /\ ft' = [ft EXCEPT ![t] = NoTask]
          /\ m_fibers' = IF m_state[f] = "READY" THEN Append(m_fibers, Task(f, None, None))
                         ELSE m_fibers
          /\ cb_fiber' = IF m_state[f] = "READY" /\ viaCb
                         THEN [cb_fiber EXCEPT ![t] = None] ELSE cb_fiber
          /\ IF m_state[f] # "READY" /\ viaCb
             THEN /\ m_state' = [m_state EXCEPT ![f] = "INIT"]
                  /\ m_cb' = [m_cb EXCEPT ![f] = None]
             ELSE UNCHANGED <<m_state, m_cb>>
     ELSE /\ Goto(t, "hold")
          /\ UNCHANGED <<m_fibers, m_state, m_cb, slot>>
  /\ UNCHANGED <<counters, waiting, idler, rest>>

\* setState(HOLD), whatever has happened to the fiber since it was read.
HoldLeaving(t, f) ==
  /\ Alive /\ pc[t] = "hold"
  /\ m_state' = [m_state EXCEPT ![Cur(t)] = "HOLD"]
  /\ cb_fiber' = [cb_fiber EXCEPT ![t] = f]
  /\ ft' = [ft EXCEPT ![t] = NoTask]
  /\ Goto(t, "scan")
  /\ UNCHANGED <<m_fibers, counters, m_cb, waiting, idler, rest>>

\* Fault: cb_fiber is kept although its fiber is parked.
HoldKeepingCb(t) == HoldLeaving(t, cb_fiber[t])

Hold(t) == HoldLeaving(t, IF ft[t].fiber = None THEN None ELSE cb_fiber[t])
----------------------------------------------------------------------------
(* stopping(): the IOManager's override reads the timers, then the pending  *)
(* event count, then calls Scheduler::stopping(), with no lock across them. *)

NoTimers == \A f \in Fibers : waiting[f] # "timer"

\* Fault: the active threads are not looked at.
CanStopIgnoringActive == m_autoStop /\ m_stopping /\ m_fibers = <<>>

CanStop == m_autoStop /\ m_stopping /\ m_fibers = <<>> /\ m_activateThreadCount = 0

Asking(t) == pc[t] = "idle" \/ (t = Caller /\ main \in {"early", "peek"})

\* What the asker does with the answer b: idle() ends its fiber or goes on;
\* stop() returns early, calls the root fiber or skips it.
Answer(t, b) ==
  /\ look' = [look EXCEPT ![t] = 0]
  /\ IF pc[t] = "idle"
     THEN /\ pc' = [pc EXCEPT ![t] = IF ~b /\ IOM THEN "poll" ELSE "scan"]
          /\ idleTerm' = [idleTerm EXCEPT ![t] = b]
          /\ m_idleThreadCount' = m_idleThreadCount - (IF ~b /\ IOM THEN 0 ELSE 1)
          /\ UNCHANGED main
     ELSE /\ main' = CASE main = "early" -> IF b THEN "stopped" ELSE "signal"
                       [] main = "peek"  -> IF b THEN "join" ELSE "root"
          /\ UNCHANGED <<m_idleThreadCount, pc, idleTerm>>
  /\ UNCHANGED <<m_fibers, m_activateThreadCount, m_pendingEventCount, fibers, slot, fired,
                  flags, m_rootFiber, stops, jobs, failed, doubled>>

Pass(t) ==
  /\ look' = [look EXCEPT ![t] = @ + 1]
  /\ UNCHANGED <<m_fibers, counters, fibers, pc, slot, idleTerm, fired, rest>>

ReadTimers(t) ==
  /\ Alive /\ IOM /\ Asking(t) /\ look[t] = 0
  /\ IF NoTimers THEN Pass(t) ELSE Answer(t, FALSE)

ReadPending(t) ==
  /\ Alive /\ IOM /\ Asking(t) /\ look[t] = 1
  /\ IF m_pendingEventCount = 0 THEN Pass(t) ELSE Answer(t, FALSE)

ReadQueue(t) ==
  /\ Alive /\ Asking(t) /\ look[t] = IF IOM THEN 2 ELSE 0
  /\ Answer(t, CanStop)
----------------------------------------------------------------------------
(* IOManager::idle() after epoll_wait(): expired timers, then events.       *)

\* listExpiredCb() takes the due callbacks out of the timer set ...
Expire(t, due) ==
  /\ Alive /\ pc[t] = "poll" /\ due # {}
  /\ \A f \in due : waiting[f] = "timer"
  /\ waiting' = [f \in Fibers |-> IF f \in due THEN "no" ELSE waiting[f]]
  /\ fired' = [fired EXCEPT ![t] = due]
  /\ Goto(t, "fire")
  /\ UNCHANGED <<m_fibers, counters, m_state, m_cb, slot, idleTerm, look, rest>>

\* ... and schedule(cbs.begin(), cbs.end()) queues them, in the order of their
\* times, under one lock.
ScheduleExpired(t) ==
  /\ Alive /\ pc[t] = "fire"
  /\ \E cbs \in [1..Cardinality(fired[t]) -> fired[t]] :
       /\ Range(cbs) = fired[t]
       /\ m_fibers' = m_fibers \o [i \in DOMAIN cbs |-> Task(None, cbs[i], None)]
  /\ fired' = [fired EXCEPT ![t] = {}]
  /\ Goto(t, "events")
  /\ UNCHANGED <<counters, fibers, slot, idleTerm, look, rest>>

\* triggerEvent() schedules the fiber; the pending count drops after it.
Trigger(t, f) ==
  /\ Alive /\ pc[t] \in {"poll", "events"} /\ waiting[f] = "event"
  /\ waiting' = [waiting EXCEPT ![f] = "no"]
  /\ m_fibers' = Append(m_fibers, Task(f, None, None))
  /\ Goto(t, "trig")
  /\ UNCHANGED <<counters, m_state, m_cb, slot, idler, rest>>

DropPendingBy(t, n) ==
  /\ Alive /\ pc[t] = "trig"
  /\ m_pendingEventCount' = m_pendingEventCount - n
  /\ Goto(t, "events")
  /\ UNCHANGED <<m_fibers, m_activateThreadCount, m_idleThreadCount, fibers, slot, idler,
                 rest>>

\* Fault: triggerEvent() and its caller both count down.
DropPendingTwice(t) == DropPendingBy(t, 2)

DropPending(t) == DropPendingBy(t, 1)

LeaveIdle(t) ==
  /\ Alive /\ pc[t] \in {"poll", "events"}
  /\ m_idleThreadCount' = m_idleThreadCount - 1
  /\ Goto(t, "scan")
  /\ UNCHANGED <<m_fibers, m_activateThreadCount, m_pendingEventCount, fibers, slot, idler,
                  rest>>
----------------------------------------------------------------------------
(* The owner: start() and stop().                                           *)

Start ==
  /\ Alive /\ main = "new"
  /\ main' = "running"
  /\ m_stopping' = FALSE
  /\ pc' = [t \in Threads |-> IF t \in Workers THEN "scan" ELSE pc[t]]
  /\ UNCHANGED <<m_fibers, counters, fibers, slot, idler, m_autoStop, m_rootFiber, stops,
                  jobs, failed, doubled>>

StopBegin ==
  /\ Alive /\ main \in {"running", "stopped"} /\ stops < MaxStops
  /\ stops' = stops + 1
  /\ m_autoStop' = TRUE
  /\ IF Workers = {} /\ m_rootFiber \in {"INIT", "TERM"}
     THEN m_stopping' = TRUE /\ main' = "early"
     ELSE UNCHANGED m_stopping /\ main' = "signal"
  /\ UNCHANGED <<m_fibers, counters, fibers, threads, m_rootFiber, jobs, failed, doubled>>

StopSignal ==
  /\ Alive /\ main = "signal"
  /\ m_stopping' = TRUE
  /\ main' = IF UseCaller THEN "peek" ELSE "join"
  /\ UNCHANGED <<m_fibers, counters, fibers, threads, m_autoStop, m_rootFiber, stops, jobs,
                  failed, doubled>>

\* m_rootFiber->call(): run() starts on the caller. A root fiber that has
\* finished is resumed behind its last back().
CallRoot ==
  /\ Alive /\ main = "root" /\ m_rootFiber \in {"INIT", "TERM"}
  /\ IF m_rootFiber = "TERM" THEN Fail("root never reach")
     ELSE /\ m_rootFiber' = "EXEC"
          /\ Goto(Caller, "scan")
          /\ UNCHANGED <<m_fibers, counters, fibers, slot, idler, flags, main, stops, jobs,
                          failed, doubled>>

StopWhen(joined) ==
  /\ Alive /\ main = "join" /\ joined
  /\ main' = "stopped"
  /\ UNCHANGED <<m_fibers, counters, fibers, threads, flags, m_rootFiber, stops, jobs,
                 failed, doubled>>

\* Fault: stop() does not join.
StopNoJoin == StopWhen(TRUE)

StopJoin == StopWhen(\A t \in Workers : pc[t] = "exited")
----------------------------------------------------------------------------
Body(t) ==
  \/ \E s \in Finished : Finish(t, s)
  \/ Relay(t) \/ YieldToReady(t)
  \/ \E w \in Waits : Register(t, w)
  \/ YieldToHold(t)
  \/ \E j \in Jobs, pin \in Pins : Spawn(t, j, pin)

ThreadStep(t) ==
  \/ Take(t) \/ GoIdle(t) \/ Exit(t)
  \/ SwapIn(t) \/ SwapInCb(t) \/ Body(t) \/ SwapOut(t)
  \/ Post(t) \/ Settle(t) \/ Hold(t)
  \/ ReadTimers(t) \/ ReadPending(t) \/ ReadQueue(t)
  \/ ScheduleExpired(t) \/ DropPending(t) \/ LeaveIdle(t)

Wake(f) ==
  \E t \in Threads : Trigger(t, f) \/ \E due \in SUBSET Fibers : f \in due /\ Expire(t, due)

MainStep == Start \/ StopBegin \/ StopSignal \/ CallRoot \/ StopJoin

\* The process has ended: stopped for good, or dead of an assertion.
Ended ==
  /\ \/ ~Alive
     \/ main = "stopped" /\ stops = MaxStops
  /\ UNCHANGED vars

Next ==
  \/ \E j \in Jobs, pin \in Pins : Submit(j, pin)
  \/ \E f \in Fibers : ScheduleAgain(f) \/ Wake(f)
  \/ \E t \in Threads : ThreadStep(t)
  \/ MainStep
  \/ Ended

Spec == Init /\ [][Next]_vars

\* Every thread keeps running, the owner calls stop(), and what a fiber waits
\* for happens and is reported by some later epoll_wait().
Fairness ==
  /\ \A t \in Threads : WF_vars(ThreadStep(t))
  /\ \A f \in Fibers : SF_vars(Wake(f))
  /\ WF_vars(MainStep)

FairSpec == Spec /\ Fairness
----------------------------------------------------------------------------
(* Properties.                                                              *)

\* How many members of S the function g maps into P.
Num(S, g, P) == Cardinality({x \in S : g[x] \in P})

\* The three counters agree with what the threads are doing: active threads
\* are between the pop and the decrement behind swapIn(), idle ones between
\* the increment and the decrement around idle(), and an event is pending
\* until the decrement behind triggerEvent(). stopping() relies on all three.
CountersExact ==
  /\ m_activateThreadCount = Num(Threads, pc, Active)
  /\ m_idleThreadCount = Num(Threads, pc, Idling)
  /\ m_pendingEventCount = Num(Fibers, waiting, {"event"}) + Num(Threads, pc, {"trig"})

\* The assertions of fiber.cc and of addEvent() hold.
NoAssertFails == failed \subseteq {"two stacks"}

\* Until some fiber is in two hands, no fiber is resumed while its stack is
\* in use on another thread and no assertion fails, whatever else is late: a
\* wake-up that arrives before the fiber has parked, a submission after stop().
\* Only a second stop() may call a root fiber that has ended.
AssertsHold ==
  doubled = {} => failed = {} \/ (failed = {"root never reach"} /\ stops > 1)

Unfinished == submitted \ done
Live(f) == m_cb[f] \in Jobs \cup Fibers

\* References through which a fiber can still be resumed.
Resumers(f) ==
  {<<"queued", i>> : i \in {i \in DOMAIN m_fibers : m_fibers[i].fiber = f}}
  \cup {<<"waking", i>> : i \in {i \in DOMAIN m_fibers : m_fibers[i].cb = f}}
  \cup {<<"waking", t>> : t \in {t \in Threads : pc[t] = "got" /\ ft[t].cb = f}}
  \cup {<<"got", t>> : t \in {t \in Threads : pc[t] = "got" /\ ft[t].fiber = f}}
  \cup {<<"relay", g>> : g \in {g \in Fibers : m_cb[g] = f}}
  \cup {<<"fired", t>> : t \in {t \in Threads : f \in fired[t]}}
  \cup (IF waiting[f] = "no" THEN {} ELSE {<<"waiting", f>>})

\* Where an unfinished job is: a queued or popped callback, or a live fiber.
Places(j) ==
  {<<"queued", i>> : i \in {i \in DOMAIN m_fibers : m_fibers[i].cb = j}}
  \cup {<<"got", t>> : t \in {t \in Threads : pc[t] = "got" /\ ft[t].cb = j}}
  \cup {<<"fiber", f>> : f \in {f \in Fibers : m_cb[f] = j}}

\* No job is lost or run twice, across pops, yields, early wakes and the reuse
\* of cb_fiber: an unfinished job is in one place, a finished one nowhere; a
\* live fiber is held by one thread or, when nobody holds it, will be resumed
\* through one reference, never through two. So it stays until a fiber is
\* scheduled twice, or popped by one thread while another still has it; the
\* scan's test of EXEC and the order of run()'s steps are all that delays it.
OnePlace == doubled = {} =>
  /\ \A j \in Jobs : Cardinality(Places(j)) = IF j \in Unfinished THEN 1 ELSE 0
  /\ \A f \in Fibers :
       /\ Cardinality(Holders(f)) <= 1
       /\ Cardinality(Resumers(f)) <= 1
       /\ Live(f) /\ Holders(f) = {} => Resumers(f) # {}

\* The refinement mapping to what the pool promises: the job on a thread, the
\* jobs registered with a timer or an event, and the pins of those that are
\* queued or just popped.
OnThread(t) ==
  IF pc[t] \in OnStack /\ m_cb[Cur(t)] \in Jobs THEN m_cb[Cur(t)] ELSE None

Carries(e, j) == e.cb = j \/ (e.fiber # None /\ m_cb[e.fiber] = j)

Pinned ==
  {p \in Jobs \X Threads :
     \/ \E i \in DOMAIN m_fibers : m_fibers[i].thread = p[2] /\ Carries(m_fibers[i], p[1])
     \/ \E t \in Threads : pc[t] = "got" /\ ft[t].thread = p[2] /\ Carries(ft[t], p[1])}

Pool == INSTANCE JobPool WITH
  running <- [t \in Threads |-> OnThread(t)],
  waits <- {m_cb[f] : f \in {f \in Fibers : waiting[f] # "no"}},
  pinned <- Pinned

\* The scheduler is a pool of jobs in the sense of JobPool: no job runs on two
\* threads or goes on before what it waits for has happened, a pin holds
\* until the job starts, whoever pops it, and what has ended stays ended.
\* All of this up to the first fiber in two hands.
IsJobPool ==
  Pool!Init /\ [][doubled' = {} => Pool!Next \/ UNCHANGED Pool!vars]_vars

\* stop() returns only when every job handed to schedule() has finished, no
\* timer or event is left behind, and every thread has left run().
StopComplete ==
  main = "stopped" =>
    /\ Unfinished = {} /\ m_fibers = <<>>
    /\ \A f \in Fibers : waiting[f] = "no"
    /\ \A t \in Threads : pc[t] \in {"off", "exited"}

\* A thread that left its run() leaves nothing behind that only it could take.
NoOrphan ==
  \A i \in DOMAIN m_fibers :
    m_fibers[i].thread # None => pc[m_fibers[i].thread] # "exited"

\* A call of stop() returns.
StopReturns == main \in {"early", "signal"} ~> main = "stopped"

\* Every job handed to schedule() runs to its end.
JobsFinish == \A j \in Jobs : j \in submitted ~> j \in done
=============================================================================
