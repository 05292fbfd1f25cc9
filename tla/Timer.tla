------------------------------- MODULE Timer -------------------------------
(* Timer and TimerManager (io/timer.cc, io/timer.h) under the idle loop of  *)
(* IOManager that drives them: getNextTimer(), epoll_wait() for at most     *)
(* that long, listExpiredCb(), schedule().                                  *)
(*                                                                          *)
(* A critical section of TimerManager::m_mutex is one step. What the code   *)
(* does before taking the lock (reading the clock) or after releasing it    *)
(* (tickling) is a step of its own.                                         *)
EXTENDS Integers, FiniteSets

CONSTANTS
  Ids,         \* Timer objects (bound: timers ever constructed)
  Users,       \* threads that add, cancel, refresh and reset timers
  Pollers,     \* threads in IOManager::idle()
  Delays,      \* ms arguments callers pass
  MaxTimeout,  \* MAX_TIMEOUT of idle(): 3000
  Gap,         \* the rollover gap: 60 * 60 * 1000
  MaxTime,     \* bound: last value of the clock
  MaxJumps,    \* bound: times the system clock is set back
  MaxChanges,  \* bound: calls of refresh() and reset()
  MaxSignals,  \* bound: signals that interrupt an epoll_wait()
  MaxFires,    \* bound: a timer's firings are counted up to this
  None

ASSUME TimerAssumption ==
  /\ Delays \subseteq Nat /\ MaxTimeout \in Nat /\ Gap \in Nat /\ MaxTime \in Nat
  /\ MaxJumps \in Nat /\ MaxChanges \in Nat /\ MaxSignals \in Nat /\ MaxFires \in Nat
  /\ None \notin Ids

VARIABLES
  clock,           \* sylar::GetCurrentMS()
  m_timers,        \* std::set<Timer::ptr>: <<m_next when inserted, timer>>
  m_tickled, m_previouseTime,
  m_next, m_ms, m_recurring, m_cb,   \* the fields of each Timer
  state,           \* "fresh", "built" (constructed, not inserted), "shared"
  user,            \* what a user thread still has to do
  poll,            \* where each poller is in idle()
  next_timeout,    \* idle()'s local: what it passes to epoll_wait()
  left,            \* what remains of it
  now_ms,          \* listExpiredCb()'s local
  cbs,             \* callbacks it collected and has not scheduled yet
  woken,           \* idle()'s events hold the tickle pipe
  pipe,            \* a byte is in the tickle pipe that epoll has not reported
  fires,           \* times each callback was handed to schedule()
  jumps, changes, signals, failed

fields == <<m_next, m_ms, m_recurring, m_cb, state>>
manager == <<m_timers, m_tickled, m_previouseTime>>
pollers == <<poll, next_timeout, left, now_ms, cbs, woken>>
bounds == <<jumps, changes, signals>>
vars == <<clock, manager, fields, user, pollers, pipe, fires, bounds, failed>>

Idle == [do |-> "idle", timer |-> None]
PollStates == {"busy", "ask", "asleep", "list", "locked", "schedule", "drain"}

TypeOK ==
  /\ clock \in Nat /\ m_timers \subseteq Nat \X Ids
  /\ m_tickled \in BOOLEAN /\ m_previouseTime \in Nat
  /\ m_next \in [Ids -> Nat] /\ m_ms \in [Ids -> Nat]
  /\ m_recurring \in [Ids -> BOOLEAN] /\ m_cb \in [Ids -> BOOLEAN]
  /\ state \in [Ids -> {"fresh", "built", "shared"}]
  /\ user \in [Users -> [do : {"idle", "insert", "tickle"}, timer : Ids \cup {None}]]
  /\ poll \in [Pollers -> PollStates]
  /\ next_timeout \in [Pollers -> Nat] /\ left \in [Pollers -> Nat]
  /\ now_ms \in [Pollers -> Nat] /\ cbs \in [Pollers -> SUBSET Ids]
  /\ woken \in [Pollers -> BOOLEAN]
  /\ pipe \in BOOLEAN /\ fires \in [Ids -> Nat]
  /\ jumps \in Nat /\ changes \in Nat /\ signals \in Nat
  /\ failed \in BOOLEAN

Init ==
  /\ clock = Gap + 1          \* a clock that can be set back by more than Gap
  /\ m_timers = {} /\ m_tickled = FALSE /\ m_previouseTime = clock
  /\ m_next = [i \in Ids |-> 0] /\ m_ms = [i \in Ids |-> 0]
  /\ m_recurring = [i \in Ids |-> FALSE] /\ m_cb = [i \in Ids |-> FALSE]
  /\ state = [i \in Ids |-> "fresh"]
  /\ user = [u \in Users |-> Idle]
  /\ poll = [p \in Pollers |-> "busy"]
  /\ next_timeout = [p \in Pollers |-> 0] /\ left = [p \in Pollers |-> 0]
  /\ now_ms = [p \in Pollers |-> 0] /\ cbs = [p \in Pollers |-> {}]
  /\ woken = [p \in Pollers |-> FALSE]
  /\ pipe = FALSE /\ fires = [i \in Ids |-> 0]
  /\ jumps = 0 /\ changes = 0 /\ signals = 0 /\ failed = FALSE
----------------------------------------------------------------------------
(* The timer set. find(shared_from_this()) searches by the present m_next.  *)

Entry(i) == <<m_next[i], i>>
Keys(S) == {e[1] : e \in S}
AtFront(e, S) == \A x \in S : e[1] <= x[1]    \* ties: lower address, either way

\* addTimer(val, lock): insert, and tickle after the unlock when the new timer
\* is the earliest and nobody has tickled since the last getNextTimer().
Insert(u, S, e, holding) ==
  /\ m_timers' = S \cup {e}
  /\ \E front \in {b \in BOOLEAN : b => AtFront(e, S)} :
       /\ (\A x \in S : e[1] < x[1]) => front
       /\ IF front /\ ~m_tickled
          THEN /\ m_tickled' = TRUE
               /\ user' = [user EXCEPT ![u] = [do |-> "tickle", timer |-> holding]]
          ELSE UNCHANGED m_tickled /\ user' = [user EXCEPT ![u] = Idle]

\* Timer::Timer(): m_next is computed before the lock is taken.
Construct(u, i, ms, recurring) ==
  /\ user[u] = Idle /\ state[i] = "fresh" /\ clock + ms <= MaxTime
  /\ state' = [state EXCEPT ![i] = "built"]
  /\ m_ms' = [m_ms EXCEPT ![i] = ms]
  /\ m_next' = [m_next EXCEPT ![i] = clock + ms]
  /\ m_recurring' = [m_recurring EXCEPT ![i] = recurring]
  /\ m_cb' = [m_cb EXCEPT ![i] = TRUE]
  /\ user' = [user EXCEPT ![u] = [do |-> "insert", timer |-> i]]
  /\ UNCHANGED <<clock, manager, pollers, pipe, fires, bounds, failed>>

AddTimer(u) ==
  LET i == user[u].timer IN
  /\ user[u].do = "insert"
  /\ Insert(u, m_timers, Entry(i), i)
  /\ state' = [state EXCEPT ![i] = "shared"]
  /\ UNCHANGED <<clock, m_previouseTime, m_next, m_ms, m_recurring, m_cb, pollers, pipe,
                 fires, bounds, failed>>

\* IOManager::onTimerInsertedAtFront(): tickle() writes if a thread is idle.
Tickle(u) ==
  /\ user[u].do = "tickle"
  /\ pipe' = (pipe \/ \E p \in Pollers : poll[p] # "busy")
  /\ user' = [user EXCEPT ![u] = Idle]
  /\ UNCHANGED <<clock, manager, fields, pollers, fires, bounds, failed>>

\* addTimer() has returned the pointer, so that callers can use it.
Handed(i) == state[i] = "shared" /\ \A u \in Users : user[u].timer # i

\* Timer::cancel(): erase(find(this)) is undefined when find() fails.
Cancel(u, i) ==
  /\ user[u] = Idle /\ Handed(i) /\ m_cb[i]
  /\ m_cb' = [m_cb EXCEPT ![i] = FALSE]
  /\ m_timers' = m_timers \ {Entry(i)}
  /\ failed' = (failed \/ Entry(i) \notin m_timers)
  /\ UNCHANGED <<clock, m_tickled, m_previouseTime, m_next, m_ms, m_recurring, state, user,
                 pollers, pipe, fires, bounds>>

\* Fault: m_next is written before the timer is taken out of the set.
RefreshInPlace(u, i) ==
  /\ user[u] = Idle /\ changes < MaxChanges /\ clock + m_ms[i] <= MaxTime
  /\ Handed(i) /\ m_cb[i] /\ Entry(i) \in m_timers
  /\ m_next' = [m_next EXCEPT ![i] = clock + m_ms[i]]
  /\ changes' = changes + 1
  /\ UNCHANGED <<clock, manager, m_ms, m_recurring, m_cb, state, user, pollers, pipe, fires,
                 jumps, signals, failed>>

\* Fault: the timer is taken out and not put back.
RefreshLost(u, i) ==
  /\ user[u] = Idle /\ changes < MaxChanges /\ clock + m_ms[i] <= MaxTime
  /\ Handed(i) /\ m_cb[i] /\ Entry(i) \in m_timers
  /\ m_next' = [m_next EXCEPT ![i] = clock + m_ms[i]]
  /\ m_timers' = m_timers \ {Entry(i)}
  /\ changes' = changes + 1
  /\ UNCHANGED <<clock, m_tickled, m_previouseTime, m_ms, m_recurring, m_cb, state, user,
                 pollers, pipe, fires, jumps, signals, failed>>

Refresh(u, i) ==
  /\ user[u] = Idle /\ changes < MaxChanges /\ clock + m_ms[i] <= MaxTime
  /\ Handed(i) /\ m_cb[i] /\ Entry(i) \in m_timers
  /\ m_next' = [m_next EXCEPT ![i] = clock + m_ms[i]]
  /\ m_timers' = (m_timers \ {Entry(i)}) \cup {<<clock + m_ms[i], i>>}
  /\ changes' = changes + 1
  /\ UNCHANGED <<clock, m_tickled, m_previouseTime, m_ms, m_recurring, m_cb, state, user,
                 pollers, pipe, fires, jumps, signals, failed>>

Reset(u, i, ms, from_now) ==
  LET start == IF from_now THEN clock ELSE m_next[i] - m_ms[i] IN
  /\ user[u] = Idle /\ changes < MaxChanges /\ ms + start <= MaxTime
  /\ ~(m_ms[i] = ms /\ ~from_now)
  /\ Handed(i) /\ m_cb[i] /\ Entry(i) \in m_timers
  /\ m_ms' = [m_ms EXCEPT ![i] = ms]
  /\ m_next' = [m_next EXCEPT ![i] = ms + start]
  /\ Insert(u, m_timers \ {Entry(i)}, <<ms + start, i>>, None)
  /\ changes' = changes + 1
  /\ UNCHANGED <<clock, m_previouseTime, m_recurring, m_cb, state, pollers, pipe, fires,
                 jumps, signals, failed>>
----------------------------------------------------------------------------
(* A poller: run() finds nothing to do and swaps in idle().                 *)

EnterIdle(p) ==
  /\ poll[p] = "busy"
  /\ poll' = [poll EXCEPT ![p] = "ask"]
  /\ UNCHANGED <<clock, manager, fields, user, next_timeout, left, now_ms, cbs, woken, pipe, fires,
                 bounds, failed>>

\* Fault: a first timer that is already due gives a negative wait.
WaitUnchecked(first) == first - clock

\* getNextTimer() on a set that is not empty.
Wait(first) == IF clock >= first THEN 0 ELSE first - clock

\* What idle() passes to epoll_wait(): getNextTimer()'s answer for the key at
\* begin(), at most MAX_TIMEOUT; an empty set answers ~0ull.
Timeouts ==
  LET firsts == {k \in Keys(m_timers) : \A x \in Keys(m_timers) : k <= x}
  IN IF m_timers = {} THEN {MaxTimeout}
     ELSE {IF Wait(k) > MaxTimeout THEN MaxTimeout ELSE Wait(k) : k \in firsts}

\* Fault: m_tickled is left set.
AskKeepingTickled(p) ==
  /\ poll[p] = "ask"
  /\ \E t \in Timeouts :
       /\ next_timeout' = [next_timeout EXCEPT ![p] = t]
       /\ left' = [left EXCEPT ![p] = t]
  /\ poll' = [poll EXCEPT ![p] = "asleep"]
  /\ UNCHANGED <<clock, manager, fields, user, now_ms, cbs, woken, pipe, fires, bounds,
                 failed>>

GetNextTimer(p) ==
  /\ poll[p] = "ask"
  /\ m_tickled' = FALSE
  /\ \E t \in Timeouts :
       /\ next_timeout' = [next_timeout EXCEPT ![p] = t]
       /\ left' = [left EXCEPT ![p] = t]
  /\ poll' = [poll EXCEPT ![p] = "asleep"]
  /\ UNCHANGED <<clock, m_timers, m_previouseTime, fields, user, now_ms, cbs, woken, pipe,
                 fires, bounds, failed>>

\* epoll_wait() returns: timeout, or the tickle pipe, which is edge-triggered
\* and reported once.
EpollWait(p) ==
  /\ poll[p] = "asleep" /\ (left[p] = 0 \/ pipe)
  /\ poll' = [poll EXCEPT ![p] = "list"]
  /\ woken' = [woken EXCEPT ![p] = pipe] /\ pipe' = FALSE
  /\ left' = [left EXCEPT ![p] = 0] /\ next_timeout' = [next_timeout EXCEPT ![p] = 0]
  /\ UNCHANGED <<clock, manager, fields, user, now_ms, cbs, fires, bounds, failed>>

\* epoll_wait() returns because of a file descriptor.
FdEvent(p) ==
  /\ poll[p] = "asleep"
  /\ poll' = [poll EXCEPT ![p] = "list"]
  /\ left' = [left EXCEPT ![p] = 0] /\ next_timeout' = [next_timeout EXCEPT ![p] = 0]
  /\ UNCHANGED <<clock, manager, fields, user, now_ms, cbs, woken, pipe, fires, bounds,
                 failed>>

\* A signal: idle() calls epoll_wait() again, with the whole timeout.
Interrupted(p) ==
  /\ poll[p] = "asleep" /\ signals < MaxSignals
  /\ left' = [left EXCEPT ![p] = next_timeout[p]]
  /\ signals' = signals + 1
  /\ UNCHANGED <<clock, manager, fields, user, poll, next_timeout, now_ms, cbs, woken, pipe,
                 fires, jumps, changes, failed>>

ReadClock(p) ==
  /\ poll[p] = "list"
  /\ now_ms' = [now_ms EXCEPT ![p] = clock]
  /\ poll' = [poll EXCEPT ![p] = "locked"]
  /\ UNCHANGED <<clock, manager, fields, user, next_timeout, left, cbs, woken, pipe, fires,
                 bounds, failed>>

DetectClockRollover(now) == now < m_previouseTime /\ now < m_previouseTime - Gap

\* Fault: timers due in the next millisecond are taken as well.
ExpiredEarly(now) ==
  IF DetectClockRollover(now) THEN m_timers ELSE {e \in m_timers : e[1] <= now + 1}

\* begin() up to the first timer after now; all of them after a rollover.
Expired(now) ==
  IF DetectClockRollover(now) THEN m_timers ELSE {e \in m_timers : e[1] <= now}

\* Fault: the expired timers are copied and not erased.
RemainingAll(now) == m_timers

Remaining(now) == m_timers \ Expired(now)

ListExpiredCb(p) ==
  LET now == now_ms[p]
      due == {e[2] : e \in Expired(now)}
      again == {i \in due : m_recurring[i]}
  IN
  /\ poll[p] = "locked"
  /\ IF m_timers = {} THEN UNCHANGED <<manager, m_next, m_cb, cbs>>
     ELSE /\ m_previouseTime' = now
          /\ m_next' = [i \in Ids |-> IF i \in again THEN now + m_ms[i] ELSE m_next[i]]
          /\ m_cb' = [i \in Ids |-> m_cb[i] /\ i \notin due \ again]
          /\ m_timers' = Remaining(now) \cup {<<now + m_ms[i], i>> : i \in again}
          /\ cbs' = [cbs EXCEPT ![p] = due]
          /\ UNCHANGED m_tickled
  /\ poll' = [poll EXCEPT ![p] = "schedule"]
  /\ UNCHANGED <<clock, m_ms, m_recurring, state, user, next_timeout, left, now_ms, woken, pipe,
                 fires, bounds, failed>>

\* Scheduler::schedule(cbs.begin(), cbs.end()).
Schedule(p) ==
  /\ poll[p] = "schedule"
  /\ fires' = [i \in Ids |-> IF i \in cbs[p] /\ fires[i] < MaxFires THEN fires[i] + 1 ELSE fires[i]]
  /\ cbs' = [cbs EXCEPT ![p] = {}]
  /\ now_ms' = [now_ms EXCEPT ![p] = 0]       \* the local is gone
  /\ poll' = [poll EXCEPT ![p] = "drain"]
  /\ UNCHANGED <<clock, manager, fields, user, next_timeout, left, woken, pipe, bounds, failed>>

\* The tickle pipe, if it was reported, is read until it is empty, what was
\* written since then too; and back to run().
Drain(p) ==
  /\ poll[p] = "drain"
  /\ pipe' = (pipe /\ ~woken[p])
  /\ woken' = [woken EXCEPT ![p] = FALSE]
  /\ poll' = [poll EXCEPT ![p] = "busy"]
  /\ UNCHANGED <<clock, manager, fields, user, next_timeout, left, now_ms, cbs, fires, bounds,
                 failed>>
----------------------------------------------------------------------------
\* A millisecond passes. Timeouts are monotonic time and go on elapsing when
\* the clock has reached its bound.
Tick ==
  /\ clock < MaxTime \/ \E p \in Pollers : left[p] > 0
  /\ clock' = IF clock < MaxTime THEN clock + 1 ELSE clock
  /\ left' = [p \in Pollers |-> IF left[p] > 0 THEN left[p] - 1 ELSE 0]
  /\ UNCHANGED <<manager, fields, user, poll, next_timeout, now_ms, cbs, woken, pipe, fires,
                 bounds, failed>>

SetBack(to) ==
  /\ jumps < MaxJumps /\ to < clock
  /\ clock' = to /\ jumps' = jumps + 1
  /\ UNCHANGED <<manager, fields, user, pollers, pipe, fires, changes, signals, failed>>

UserStep(u) ==
  \/ \E i \in Ids, ms \in Delays, r \in BOOLEAN : Construct(u, i, ms, r)
  \/ AddTimer(u) \/ Tickle(u)
  \/ \E i \in Ids : Cancel(u, i) \/ Refresh(u, i)
  \/ \E i \in Ids, ms \in Delays, b \in BOOLEAN : Reset(u, i, ms, b)

PollerStep(p) ==
  \/ EnterIdle(p) \/ GetNextTimer(p) \/ EpollWait(p) \/ ReadClock(p) \/ ListExpiredCb(p)
  \/ Schedule(p) \/ Drain(p)

Next ==
  \/ \E u \in Users : UserStep(u)
  \/ \E p \in Pollers : PollerStep(p) \/ FdEvent(p) \/ Interrupted(p)
  \/ Tick
  \/ \E to \in 0..MaxTime : SetBack(to)

Spec == Init /\ [][Next]_vars

\* Pollers keep polling, time passes, and a started addTimer() completes.
FairSpec ==
  /\ Spec
  /\ \A p \in Pollers : WF_vars(PollerStep(p))
  /\ \A u \in Users : WF_vars(AddTimer(u) \/ Tickle(u))
  /\ WF_vars(Tick)
----------------------------------------------------------------------------
(* Properties.                                                              *)

\* cancel() erases what find() returns without looking: it is safe because a
\* shared timer with a callback is in the set under its present m_next, a
\* timer without one is not in it, and no stale key is left behind, through
\* every interleaving of refresh(), reset(), expiry and re-insertion.
SetCoherent ==
  /\ ~failed
  /\ \A i \in Ids :
       {e \in m_timers : e[2] = i} = IF state[i] = "shared" /\ m_cb[i] THEN {Entry(i)} ELSE {}

\* A one-shot timer fires at most once, and not after cancel() has taken its
\* callback away, although expiry and scheduling are separate steps.
OneShotOnce ==
  \A i \in Ids : ~m_recurring[i] =>
    /\ fires[i] + Cardinality({p \in Pollers : i \in cbs[p]}) <= 1
    /\ m_cb[i] => fires[i] = 0 /\ \A p \in Pollers : i \notin cbs[p]

\* No timer is collected before its time, whatever callers did to it between
\* the poller's reading of the clock and its taking of the lock; only a clock
\* set back by more than Gap expires everything. While the clock is never set
\* back, the time meant is the present one.
NeverEarly ==
  [][\A p \in Pollers : \A i \in cbs'[p] \ cbs[p] :
       \/ m_next[i] <= (IF jumps = 0 THEN clock ELSE now_ms[p])
       \/ now_ms[p] < m_previouseTime - Gap]_vars

\* When every poller is in epoll_wait(), one of them returns by the time the
\* earliest timer is due: its own timeout is short enough, or a tickle is in
\* the pipe or about to be written. m_tickled never suppresses the tickle
\* that is needed. (No signals: an interrupted epoll_wait() starts over.)
NoOversleep ==
  (signals = 0 /\ m_timers # {} /\ \A p \in Pollers : poll[p] = "asleep") =>
    \/ pipe \/ \E u \in Users : user[u].do = "tickle"
    \/ \E p \in Pollers : left[p] = 0 \/ \A k \in Keys(m_timers) : clock + left[p] <= k

\* A one-shot timer in the set fires or is cancelled: a poller always gets to
\* it, whichever of them eats the tickle and however long the others sleep.
TimersExpire ==
  \A i \in Ids : (state[i] = "shared" /\ m_cb[i] /\ ~m_recurring[i]) ~> ~m_cb[i]
=============================================================================
