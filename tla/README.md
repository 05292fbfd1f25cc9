# A verification of Server-framework's concurrent core

Server-framework ("sylar") is a C++ network framework: an N:M fiber scheduler,
an epoll-driven `IOManager` with timers on top of it, a hook layer that turns
blocking system calls into fiber switches, and TCP/HTTP servers and clients
above that. This directory models the concurrent core, and the parts built on it
that keep state of their own, in TLA+, checks them with TLC on small instances and
proves, with TLAPS and for instances of any size, every safety property, action property
and refinement that passes, in two cases under hypotheses (section 4). Paths below
are relative to `src/`. The code under `thirdparty/` (Boost and other libraries, more
than 99% of the lines of the repository) is not part of the system.

## 1. Inventory

| Component | State | Operations | Interacts with |
|---|---|---|---|
| **Scheduler** `source/src/io/scheduler.cc`, `include/sylar/io/scheduler.h` | `m_fibers` (list of fiber-or-callback with a thread pin), `m_activateThreadCount`, `m_idleThreadCount`, `m_stopping`, `m_autoStop`, `m_rootFiber`, the locals of `run()` (`ft`, `cb_fiber`, `idle_fiber`) | `schedule`, `start`, `stop`, `run`, `stopping`, `idle` | every other part calls `schedule()`; `run()` swaps fibers in |
| **Fiber** `source/src/io/fiber.cc` | `m_state` (read and written by several threads without a lock), `m_cb`, the saved context | `swapIn`, `swapOut`, `YieldToReady`, `YieldToHold`, `reset`, `call`, `back`, `MainFunc` | run by the Scheduler, parked by the hook |
| **Timer / TimerManager** `source/src/io/timer.cc` | `m_timers` (a set ordered by `m_next`, then address), `m_tickled`, `m_previouseTime`; per timer `m_ms`, `m_next`, `m_recurring`, `m_cb` | `addTimer`, `addConditionTimer`, `cancel`, `refresh`, `reset`, `getNextTimer`, `listExpiredCb`, `detectClockRollover` | base class of IOManager; its idle loop polls it, `onTimerInsertedAtFront` tickles |
| **IOManager** `source/src/io/iomanager.cc` | `m_fdContexts` (vector, grown on demand), per descriptor `events` and who waits for each, `m_pendingEventCount`, epoll's own registrations | `addEvent`, `delEvent`, `cancelEvent`, `cancelAll`, `contextResize`, `idle`, `stopping`, `tickle` | a Scheduler and a TimerManager; the hook registers fibers with it |
| **Hook** `source/src/io/hook.cc` | `t_hook_enable`, `s_connect_timeout`, `timer_info` shared between a waiting call and its timeout callback | `do_io` behind 12 calls, `connect_with_timeout`, the sleep family, `close`, `fcntl`, `ioctl`, `setsockopt` | FdManager, IOManager, timers |
| **FdManager** `source/src/io/fdmanager.cc` | table of `FdCtx`: socket?, closed?, system and user non-blocking, two timeouts | `get(fd, auto_create)`, `del` | hook |
| **Thread, mutexes** `source/src/io/thread.cc`, `mutex.cc` | pthread handles | create, join; lock, unlock | everywhere |
| **TcpServer** `source/src/net/tcp_server.cc` | `m_socks`, `m_isStop`, two IOManagers | `bind`, `start`, `stop`, `startAccept` | Socket, IOManager |
| **Socket, Address** `source/src/net/` | descriptor, connected flag, lazily computed addresses | system-call wrappers; prefix arithmetic | hook |
| **ByteArray** `source/src/net/bytearray.cc` | list of blocks, position, size, capacity, endianness | fixed-width, varint and string reads and writes, `setPosition`, buffers | streams |
| **Streams** `source/src/streams/`, `net/stream.cc` | socket or zlib state | `readFixSize`, `writeFixSize` | HTTP |
| **HTTP connection and pool** `source/src/http/http_connection.cc` | list of idle connections, `m_total`, creation time, request count | `getConnection`, `ReleasePtr`, `doRequest`, `recvResponse` | Socket, hook timeouts |
| **HTTP session, server, servlets** `source/src/http/` | request buffer; dispatch tables under a lock | `recvRequest`, `handleClient`, `dispatch` | TcpServer |
| **HTTP messages and parsers** `source/src/http/` | headers; Ragel-generated automata | format, parse | session, connection |
| **Config** `include/sylar/config/config.h` | registry of variables, each with value, lock and listeners | `Lookup`, `setValue`, `addListener`, `LoadFromYaml` | every component's defaults |
| **Log, Env, Daemon, Application, util** | - | start-up, output, string helpers | - |

What is hard about the core, and what would make each part correct:

* *Scheduler and Fiber.* A job must never be lost or run twice, and a fiber must
  never be resumed on two threads, although the fiber's state is an unlocked
  variable, the context is saved after the state is published, and a parked fiber
  can be woken at once by another thread. `stop()` must return, and only when
  everything is finished, although `stopping()` reads several counters, one
  after the other, that are decremented on many paths.
* *Timers.* `cancel()` erases `find(this)` unseen, so the set must never hold a
  stale key. The clock is read before the lock. A tickle is suppressed when
  `m_tickled` is set, so the flag must never suppress one that is needed.
* *IOManager.* What `epoll_wait()` returned is processed later, when events may have
  been cancelled or added again; an edge must not be lost; the pending counter
  decides about `stop()`; the table is resized in a second critical section.
* *Hook and FdManager.* A hooked call waits for an event and a timeout at once; the
  callback of the timeout runs on another thread, later, perhaps when the call has
  returned and the same fiber is in its next one, or the descriptor is closed and
  open again. A call must not block the thread, must not end with a timeout that is
  not its own, and must end when its timeout strikes.
* *HTTP connection pool.* A connection must have one owner, and what one request
  left unread must never be taken for the answer to the next, although requests end
  by timeouts, by errors and by half a response.
* *TcpServer.* `stop()` only schedules the closing; the accept loops may be anywhere
  then, also between finding no connection and registering for one. No loop and
  no client may be left waiting, and no socket left open that nobody can close.
* *ByteArray.* `m_cur` caches the block of `m_position`, is null when the array is full,
  and is changed in eight places, each with its own arithmetic.

`PROJECT.json` lists these hazards at their lines with the properties that watch
them.

## 2. Modules

```
Scheduler ─── SchedulerProofs ─── SchedulerPoolProofs  => JobPool        MCScheduler
Timer ─────── TimerProofs                                                MCTimer
IOManager ─── IOManagerProofs                                            MCIOManager
Hook ──────── HookProofs                               => BlockingCall   MCHook
HttpPool ──── HttpPoolProofs                                             MCHttpPool
TcpServer ─── TcpServerProofs                                            MCTcpServer
ByteArray ─── ByteArrayProofs                          => ByteFile       MCByteArray
```

`=>` is a refinement: the module on the left is shown to implement the abstract
specification on the right.

Scheduler, Timer and IOManager overlap by design in `IOManager::idle()`: Scheduler keeps
what it does to fibers, Timer what it does with timers, IOManager what it does with
events. Hook stands on the other two and uses what they establish: an event has
one waiter, woken once, unless epoll has forgotten the descriptor (`WaiterCoherent`,
`NoLostEdge`); a timer expires once, not early, and can be cancelled until it is
collected (`OneShotOnce`, `NeverEarly`). TcpServer and HttpPool stand on the
hooked calls in the same way. In each module, a critical section of a mutex is one
step, and so is every access to an atomic or an unlocked shared variable; whatever
the code does before taking or after giving up a lock is a step of its own.

### Scheduler.tla and JobPool.tla

Each thread has a program counter in `run()`: `scan` (the locked loop over
`m_fibers`), `got` (an entry is popped, the active count is up), `exec` (a fiber
runs on the thread), `reg` (it has registered with a timer or an event), `switch`
(it has written its state and not yet saved its context), `post` (back in `run()`),
`settle`, `hold` (the read of the state after `swapIn()` and the write of HOLD are
two steps), `idle` (in `stopping()`, whose reads are the steps `ReadTimers`,
`ReadPending`, `ReadQueue`), `poll`, `fire`, `trig`, `events` (the IOManager's idle
loop after `epoll_wait()`), `exited`. The owner has one in `start()`/`stop()`.

A job is a model value. It may finish, throw, yield, submit other jobs, register
and park. It is scheduled as a bare callback (run in the thread's `cb_fiber`, which
is kept and `reset()`) or in a Fiber of its own. A timer's callback is modelled
as what the sleep hooks bind: `schedule(fiber)`, itself a callback run by a fiber
(`Relay`). A failed assertion, an attempt to run a stack twice, and a resumption
behind the last `swapOut()` (`m_cb = Over`) add to `failed`, and the process ends.

A fiber may be woken from the moment it has registered (`Trigger`, `Expire`), so
before it has parked and before its thread is back in `run()`: nothing in the code
delays a wake-up. `doubled` is a history variable: the fibers that were scheduled
twice, or popped by one thread while another still had them in hand. From then on
the code keeps nothing (SchedulerOvertaken); the properties of a whole run hold until
then, and the model goes on.

Environment switches are constants: `DoubleSchedule` (a caller schedules a fiber
twice), `LateSubmit` (foreign threads submit during `stop()`), `IOM` (IOManager or
plain Scheduler).

`tickle()` behind `schedule()` is left out: it only shortens an `epoll_wait()`, and
in this module a thread may leave `poll` at any time. That a sleeping thread does
wake in time is the subject of Timer.

JobPool is what a caller of `schedule()` may count on: jobs are submitted, run on one
thread at a time, pause, wait, go on when what they wait for has happened, and
finish once. There is no queue, no fiber and no counter. A pin holds until the
job has started: a fiber that yields or is woken is queued again without it
(`scheduler.cc:197`).

### Timer.tla

The set holds pairs (time, timer): the time under which the timer was inserted,
so that a stale key is visible. `find(this)` looks for the present `m_next`. The
ordering by address among equal times is a free choice (`Insert`). `Construct`
computes `m_next` before the lock, `AddTimer` inserts under it, `Tickle` follows
after it. A poller goes through `getNextTimer()`, `epoll_wait()`, the reading of the
clock, the locked part of `listExpiredCb()`, `schedule()` and, if a tickle woke it, the
emptying of the pipe (`Drain`). `pipe` says that the pipe holds a byte epoll has not
reported; it is registered edge-triggered, so a byte wakes one poller. The clock advances
with `Tick`, may be set back (`SetBack`), and timeouts elapse on a monotonic clock.
`epoll_wait()` ends by timeout, by the tickle pipe (`EpollWait`), by a descriptor
(`FdEvent`), and starts over after a signal with the whole timeout
(`Interrupted`). `reset()` reads `m_ms` for its early return before it takes the
lock; the model reads it under the lock, since the read can only decide whether
the call happens. `addConditionTimer()` wraps the callback only and is `addTimer()`
here. The fires of a timer are counted up to `MaxFires`.

### IOManager.tla

A context is a pair (descriptor, generation), because a table that shrinks and
grows again makes new objects. `cell[fd]` says which object the table holds;
a caller or epoll may still point to an older one. The kernel is modelled from
its use: `interest` and `ptr` are the registration, `ready` the state of the file,
`armed` the edge-triggered ready list; `epoll_ctl` re-examines the file, `EEXIST`,
`ENOENT` and lack of resources are errors. An operation is `Begin`, `Lookup` (under
the read lock), `Grow` (under the write lock) and the work under the context's
mutex. `close()` of the hook is `cancelAll()` followed by `Close`. What
`epoll_wait()` returned is held in `batch` and processed entry by entry. The history
variable `spoilt` collects the descriptors to which one of two things happened while
they were in use: `contextResize()` shrank the table over their context, or `close()`
overtook an `addEvent()`.

Two fibers that wait for one event of one descriptor at the same time break
`addEvent()`'s assertion at once; callers do not do so (`Wanted`).

### Hook.tla and BlockingCall.tla

A call that may wait goes through the places of `do_io()` and
`connect_with_timeout()`: `try` (from the label `retry` on), `arm`
(`addConditionTimer()`), `add` (`addEvent()`), `wait` (in `YieldToHold()`), `woken`, and
`check` (`getsockopt()` after `connect()`). `direct` is a call the library passes on,
`refuse` a `connect()` without an entry in the table. `socket()` and `accept()` are
`Open` followed by `FdManager::get(fd, true)`, whose two locks are the steps `Get` and
`Create`. `close()` is `cancelAll()`, `FdManager::del()` and `close_f()`, three steps.
`fcntl(F_SETFL)` and `ioctl(FIONBIO)` are two: the look-up, which notes the user's flag and
settles what the kernel will be told (`Fcntl`, `Ioctl`), and the call of the kernel
(`SetFlags`), on whatever is open under the number by then. `exposed` holds the
descriptors whose flag was last set by a call that handed the user's 0 on.
`num` numbers the calls, so that a callback can tell its own call from a later one, as
`winfo.lock()` does with the address of `tinfo`. `due` holds the callbacks that have
been scheduled, `acting` those between the assignment of `t->cancelled` and
`cancelEvent()`; both may be overtaken by anything. `file` counts the files ever
opened, so that a descriptor number that is reused is told from its predecessor.
`cancelEvent()` and `cancelAll()` may also find nothing, as they do when the table of
contexts has shrunk (module IOManager); `missed` tells of a timeout lost this way.

BlockingCall is what the caller may count on: a call returns data when there are some,
ETIMEDOUT when *its own* timeout is over, EAGAIN only if it asked not to wait, EBADF
when the file is gone. It has neither events nor callbacks nor retries. The
mapping (`Promise`) takes a timeout as elapsed from the moment its callback is
scheduled until the call returns.

Not in the module: threads without the hook, descriptors that are not sockets (the
hook passes their calls on), and two fibers waiting for one event of one
descriptor (`Busy`).

### HttpPool.tla

A fiber goes through `doRequest()`: `Pop` (the locked part of `getConnection()`), `Reap`
(deleting what was found invalid), `Connect`, `Send`, the reading of the response,
`ReleasePtr`. `Send` ends when the server has taken the request, which it need not do:
`doRequest()` sets a receive timeout only. The response is a head, then a body by
length or in chunks, or all at once, or a bare head that promises neither, behind which
the code returns with the body unread. Each round of the read loops is a step
(`RecvMore`, `RecvDone`), and the server may send a few bytes again and again (`Drip`): the
timeout begins anew with every read. The server is external: it answers in order, in
pieces or whole, late, or closes or resets the connection. Assumed of it is that the
body of a response does not begin like the head of one. A response carries the number of its request, which no code looks at:
it is what `Paired` compares. `m_createTime` is set nowhere in the code and is the
constant `CreateTime`. A `-1` of `read()` or `write()` is lost in the `size_t` of
`readFixSize()` and `writeFixSize()` (`net/stream.cc:8`); the model keeps what
follows, a loop that does not end (`spin`) or ends with the stream (`overrun`).

### TcpServer.tla

`bind()`, `start()`, `stop()` and the destructor are actions of the program. The accept
loops and the closing that `stop()` schedules are fibers of the accept pool: one of
them keeps a thread until it ends or waits in `accept()`, and there are
`AcceptThreads` threads (`Free`). The program calls what it likes when it likes, a
`start()` or a `bind()` before the closing is done included. Each `start()` has loops of its
own (`loop` is indexed by socket and start), and a socket dropped from `m_socks` stays
open while a loop holds its pointer (`Held`). `m_socks` is not protected: a call that meets
the closing there takes one of the outcomes it can have, and `raced` tells of it. The
other histories are `restarted` (a `start()` before the closing was done) and `stranded`
(loops that registered when `close()` had done its `cancelAll()`). The wait in `accept()` is
Hook's with two ends, a connection and `cancelAll()`; a second loop that waits for the
same socket fails `addEvent()`'s assertion (`AddEventTwice`). `handleClient()` runs on the other pool. A client may connect,
ask, and hang up politely or with a reset, at any time.

### ByteArray.tla and ByteFile.tla

`blocks` is the chain from `m_root`, `m_cur` a place in it or null. `addCapacity()`, the
loops of `read()` and `write()` and the walk of `setPosition()` are arithmetic on places
(`CurAfter`, `Place`, `CurBehind`, `CurAt`), as in the code; following a null pointer sets
`crashed`. `Recv` and `Send` are `SocketStream::read()` and `write()` on a ByteArray: the
buffers of `getWriteBuffers()`, of which the socket fills a part, and `setPosition()`.
When `recv()` fails, the array has grown all the same (`RecvFails`).
Zigzag and the groups of `writeUint32()` are functions with the width and the group as
parameters (32 and 7 in the code); decoding is cut to the width.

ByteFile is a sequence of bytes with a position, without blocks. Moving the position
beyond the end extends the file by arbitrary bytes, which is what the code does.

## 3. Runs

Every property has a mutant, a plausible bug in the modelled code that makes it
fail; the mutants are the definitions commented "Fault".

| Run | Instance | Checks | Shows |
|---|---|---|---|
| SchedulerPool | IOManager, caller and 1 worker, 2 jobs pinned or not, 4 fibers, 2 yields or parkings, 2 calls of `stop()`, double scheduling, late submissions; @POOL states | `TypeOK`, `CountersExact`, `OnePlace`, `AssertsHold`, `IsJobPool` | Whatever callers do and however early wake-ups come, the counters agree with the threads; until a fiber is in two hands jobs are in exactly one place, fibers on one stack, no assertion fails, and the scheduler implements JobPool. |
| SchedulerPinned | plain Scheduler, caller and 1 worker, jobs pinned to either, 2 calls of `stop()`, no yields; @PINNED states | `StopComplete`, `NoOrphan`, `StopReturns`, `JobsFinish` | Threads stay for the jobs only they may take, and `stop()` waits for all and returns. |
| SchedulerAbandon | IOManager, caller and 1 worker, jobs that yield and wait | `StopComplete`: **violated** | See the findings. |
| SchedulerOvertaken | the same | `NoAssertFails`: **violated** | See the findings. |
| TimerSet | 2 timers, 1 user, 1 poller, a clock set back once, gap 1; 2,762,191 states | `TypeOK`, `SetCoherent`, `NeverEarly` | The set has no stale key; nothing expires early. |
| TimerSleep | 1 timer, 2 users, 2 pollers, 1 signal; 875,258 states | `OneShotOnce`, `NoOversleep`, `TimersExpire` | The tickle protocol works whoever takes the tickle and however late the pipe is emptied. |
| IOEvents | 1 descriptor, first outside the table, 3 callers, 2 pollers, all operations and `close()`; 1,569,864 states | `TypeOK`, `PendingExact`, `WaiterCoherent`, `InterestMatches`, `NoLostEdge`, `CancelCancels` | Add, delete, cancel, close and the event loops agree; no edge is lost. |
| IOLive | 2 descriptors outside the table, 2 callers, 1 poller, closed while used, table may shrink; 263,114 states | `InterestMatches`, `CancelCancels`, `WaitersWake` | Shrinking and closing are the only two ways to lose a registration; a waiter of a ready file is scheduled. |
| HookCalls | 2 fibers, 1 descriptor, 2 files one after the other, 2 calls, one kind of event; 420,569 states | `TypeOK`, `NeverBlocksThread`, `EntriesFresh`, `KeepsPromise`, `TimeoutsStrike` | Calls against timeouts, late callbacks, changing flags, `close()` and a reused descriptor keep the promise of BlockingCall; a timeout that finds its event ends the wait. |
| HttpPool | 2 fibers, 2 connections, 3 requests, `m_maxRequest` 1; 490,193 states | `TypeOK`, `OneOwner`, `Paired`, `RequestsEnd` | Connections have one owner, no request gets another's response, and a request that does not end has one of four causes. |
| TcpServer | 1 socket, 1 client, 2 accept threads, 2 starts, stops as often as the program likes; 232,484 states | `AllClosable`, `OneAcceptor`, `LoopsEnd`, `ClientsReleased` | If the server stays stopped every loop ends, but for one that registers while its socket is being closed; clients are let go of; a restart before the closing is the one way to two loops on a socket. |
| ByteArray | blocks of 2 bytes, at most 3, integers of 3 bits in groups of 2; 428,640 states | `CurCoherent`, `KeepsBytes`, `IntsReadBack` | The chain of blocks is a file of bytes; integers come back. |

### Findings

*`stop()` abandons a parked job* (SchedulerAbandon). `IOManager::stopping()` reads the
timers, the pending events and the queue in this order without a common lock
(`iomanager.cc:283`). A job yields; in the moment between the decrement of the
active count and its re-queueing (`scheduler.cc:194-197`) one idle thread takes the
answer TRUE. It still runs the job again before it leaves `run()`. The other thread
reads "no timer"; the job registers a timer and parks; the remaining reads find
nothing, both threads leave and `stop()` returns.

*A running fiber is marked as parked* (SchedulerOvertaken). A fiber registers and parks,
and the event loop of another thread schedules it. Its own thread comes back from
`swapIn()` and reads HOLD; the other thread pops the fiber and runs it; the first one
writes HOLD over its EXEC (`scheduler.cc:200`). The next `addEvent()` of the fiber fails
`SYLAR_ASSERT(event_ctx.fiber->getState() == Fiber::EXEC)` (`iomanager.cc:150`). Nothing but
hooked calls on two threads is needed.

### Known limits

The models also hold steps at which the code goes wrong under conditions that a
property excepts by name. Each can be reproduced by dropping the exception or, where
a constant is given, by changing it:

* Scheduler, once a fiber is in two hands (`doubled`): besides the second finding, a
  fiber may be entered on a second thread while the first has not saved its context
  (`fiber.cc:161`); a fiber scheduled twice is resumed after its end, because
  `!= TERM || != EXCEPT` (`scheduler.cc:191`) is always true (`SwapIn`). A second `stop()`
  with work left resumes the finished root fiber (`CallRoot`, excepted in `AssertsHold`).
* `triggerEvent()` is called for each event `epoll_wait()` returned; when
  `cancelEvent()` took one away in between, its assertion fails (`Aborted` in
  IOManager). Two concurrent `addEvent()` calls outside the table may shrink it
  (`Grow`), after which the event is no longer found; a fiber that registers between
  `cancelAll()` and `close_f()` is woken by nobody (both `spoilt`).
* Timer: signals for ever postpone timers for ever (`Interrupted`); TimerSleep has one
  signal, and `TimersExpire` says nothing about more.
* Hook: a timeout that strikes between `addConditionTimer()` and `addEvent()`
  (`hook.cc:137`) finds nothing to cancel and is lost: `TimeoutsStrike` asks only of
  calls whose timeout has not struck when they begin to wait. It excepts also a
  timeout whose `cancelEvent()` does not find the context (`missed`) and a file that is
  gone. A late `cancelEvent()` may wake the wait of a later call: an I/O call tries
  again, a `connect()` returns `getsockopt()`'s 0 for a connection still being made
  (`unsure`, also when `addEvent()` fails). `ioctl(FIONBIO, 0)` clears the kernel's flag,
  and so does an `fcntl()` that looked the descriptor up while it was being opened or
  closed (`exposed`).
* Pool: `isConnected()` knows of local closing only; `m_maxSize` is not consulted; a
  connection serves `m_maxRequest + 1` requests; the age limit never applies. A request
  does not end while the server does not take it, while the server keeps dripping, or
  when `readFixSize()` or `writeFixSize()` has lost a -1; `RequestsEnd` names these four.
* TcpServer: with two accept threads (as `conf/worker.yml` has it) a loop can register
  between `cancelAll()` and the end of `close()` and waits for ever (`stranded`). A `bind()`
  that fails while loops run drops their sockets from `m_socks`, and one that meets the
  closing may have its own dropped (`raced`). After `stop()` and `start()` in quick
  succession two loops may wait for one socket, which ends the program (`restarted`), and
  a loop spins on a closed socket until the next `stop()`.
* ByteArray: `read()` of 0 bytes at the end of a full array follows the null pointer
  (`ReadSizes` with 0; `CurCoherent`).

### Bounds

Two threads and two jobs suffice for each race of the scheduler: all of them are
between the thread that runs or parks a fiber and one that wakes, takes or counts.
Yields and parkings share a budget of two, so that a job can yield and then park,
or park twice. Four fibers are what two jobs and the callbacks of two timers need at
most; runs with fewer fibers only lose behaviours in which every Fiber object is in
use. Timer delays of 0 to 2 against a time bound of 3 and a `MAX_TIMEOUT` above the
longest delay (or equal to it) give every order of expiry, refresh and timeout. The
rollover gap is 1 in TimerSet, so that one set-back can be below and above it; the
initial clock is `Gap + 1`. Descriptors 2 and 4 with an initial table of 2 make the
table grow to 3 and 6, and shrink from 6 to 3.

In HookCalls two calls of two fibers, or of one fiber twice, meet a callback of the
first; two files are what the reuse of a descriptor takes. Calls for READ and for
WRITE differ only in the timeout they use, so one event is enough; `PromiseTheorem`
covers both. In HttpPool `m_maxRequest = 1` lets a connection be used twice and then be
deleted, and three requests let one fiber do so while the other has one of its own. In
TcpServer two starts are what a restart takes, before the closing of the stop in
between or after it; two accept threads let the closing and a loop, or two loops, run
at once. Loops of different sockets meet nowhere but in the pool, so one socket is
enough (`ClosableTheorem` and `AcceptorTheorem` cover any number). One closing is scheduled
at a time and a second one may be while the first is under way. In ByteArray writes of 1
and 3 bytes on blocks of 2 begin and end inside, at and behind block boundaries, and
the largest integers take two groups.

Symmetry is used over fibers and jobs, users and pollers, callers, in runs without
liveness properties only.

CHECK_DEADLOCK stays on in the modules of the core and in ByteArray: a finished or
dead process stutters explicitly (`Ended`, `Aborted`), so a thread that could not go on
would be reported. It is off in HookCalls, HttpPool and TcpServer, where the bounds
on calls end a behaviour in which nobody has to do anything.

### Fairness

* Scheduler: weak fairness of every thread's own steps (kernel threads run), of the
  owner's (somebody calls `stop()`), and strong fairness of `Wake(f)`: what a fiber
  waits for happens, and an `epoll_wait()` that recurs reports it eventually.
  It must be strong because a thread passes through `poll` again and again. Foreign
  threads need not submit anything. Liveness of `stop()` is checked on the plain
  Scheduler: with an IOManager on two threads the findings stand against it.
* Timer: weak fairness of each poller, of time, and of an `addTimer()` that has
  begun. Not of signals, descriptor events, cancellations or the clock being set.
* IOManager: weak fairness of pollers and of calls that have begun. Not of the
  kernel's `Edge` and `Drain`; `WaitersWake` therefore lets the file stop being
  ready.
* Hook: weak fairness of the expiry of timers, of their callbacks and of the
  `cancelEvent()` in them (what Scheduler and Timer show). Not of the fibers, of the
  event loop, of the arrival of data nor of anything the program decides.
* HttpPool: weak fairness of the fibers, whose reads time out. Not of `Send`, which
  waits for the server, nor of the server.
* TcpServer: strong fairness of a thread taking a loop or the closing out of the
  queue of the accept pool, since a thread that is free is taken and freed again
  while the queue is served in order; weak fairness of what runs. Not of the program
  nor of the clients.

## 4. Theorems

All proofs are for arbitrary constants under the assumptions stated in the
component modules (`ConfigAssumption`, `SomeThread`, `TimerAssumption`,
`IOAssumption`, `HookAssumption`, `PoolAssumption`, `ServerAssumption`,
`ByteArrayAssumption`, `WidthAssumption`: sets are disjoint where the code's types are,
bounds are natural numbers, at least one thread exists, sets that are counted are
finite, a grown table has a cell for the descriptor it was grown for, which is false
for descriptors 0 and 1 only, and powers of two are what they are, which the provers
do not know). Where a theorem has a hypothesis of its own, it names the case in which
the code does not keep the property (see *Known limits*), or one the proof leaves out;
both are said below.

**SchedulerProofs.** `CountersTheorem`: `Spec => []CountersExact`; `TypeTheorem`:
`Spec => []TypeOK`. Inductive invariant `IndInv == Shape /\ CountersExact /\ HandInv
/\ OffInv`. `Shape` is the type invariant without the claim that the counters are
naturals: that follows from `CountersExact`, since a decrement happens only by a
thread that is being counted. `HandInv` says that a thread with a fiber in hand
really has one (`Cur(t)` is a fiber), which the steps behind `swapIn()` need;
`OffInv` that no
thread runs before `start()`, nor the caller before `m_rootFiber->call()`, so that
starting a thread moves it from one uncounted place to another. Counting is done with lemmas on the
cardinality of `{x \in S : g[x] \in P}` under a change of `g` at one point.

**SchedulerPoolProofs.** Where every job and every fiber is. The argument is one of
tokens: a thing (a job or a fiber) is in the queue as a fiber or as a callback, popped
by a thread, in another fiber's `m_cb`, among the expired callbacks of a thread, with a
timer or an event, or kept by a thread for its next callback (`At(x, k, a)`), and in at
most one of these places (`OneAt`). A fiber has besides at most one holder, the thread
that has it in hand; one that was woken before its thread let go of it has both.
`PoolInv` adds what token and holder say of the fiber's state, and that exactly the
unfinished jobs have a place. It is inductive together with `IndInv` until a fiber is in
two hands, and nothing is assumed about when fibers are woken, how often `stop()` is
called or when jobs are handed in. From it follow, without hypotheses,

* `OnePlaceTheorem` (`OnePlace`), and `AssertsTheorem` (`AssertsHold`): the assertions of
  `fiber.cc` and `addEvent()` ask for a state that token and holder imply. `CallerInv` and
  `RootInv` are about the root fiber, which only a second `stop()` may call after its end.
* `PoolTheorem` (`IsJobPool`), the refinement of JobPool: every step is one of the pool
  or a stutter. What runs, who waits and which pins still bind are computed from
  tokens; `PinInv` says that a popped entry is one its thread may take.

What `stop()` leaves behind is proved under hypotheses, each of which names cases in
which it fails or which the argument does not cover:

* `CompleteTheorem` (`StopComplete`), under `Floating`: jobs may yield, at any number of
  threads, but do not wait, are not pinned, and none is handed in once `stop()` was called. A
  thread may here get the answer TRUE while a yielding job is in no queue and not counted
  (`scheduler.cc:194-197`); the thread that has the job is still there, and `LeaveInv` says
  that a queue which is not empty always has a thread to come. With waits the first
  finding stands against it; with pins the thread that left may be the one the job needs
  (jobs that are pinned and do not yield are model-checked in SchedulerPinned).
* `AloneTheorem` (`StopComplete`), under `Alone`: one thread, whose jobs may do anything,
  waits and pins included. `LookInv` says that what `stopping()` has read is still so when
  it answers, which is what a second thread breaks.
* `OrphanTheorem` (`NoOrphan`), under `Straight`: any threads and pins, jobs neither yield
  nor park, none is handed in after `stop()`. `EndInv` says that once someone relies on an
  answer of `stopping()` (`Final`) nothing is left.

**TimerProofs.** `TypeTheorem`, `CoherenceTheorem`: `Spec => []SetCoherent`,
`NeverEarlyTheorem`: `Spec => NeverEarly`. Inductive invariant `IndInv == TypeOK /\
Owned /\ SetCoherent /\ ClockRead /\ Started`. `Owned` says that a timer under
construction belongs to the one user that will insert it, so that no second
insertion can happen; `ClockRead` that a poller's `now_ms` is not after the clock
while the clock was never set back; `Started` bounds times so that `reset()` from
the old start cannot give a negative time.

`OneShotTheorem`: `Spec => []OneShotOnce`, with the invariant `Spent`: the callback of a
one-shot timer is with the timer, with one poller, or handed to `schedule()`, and in no
two of these. `OversleepTheorem`: while the clock was not set back, `NoOversleep` holds,
with at least one poller. Its invariant `Alarm` says that somebody is awake or about
to be woken, or that the poller last in `getNextTimer()` sleeps short enough, and that the
first is the case while `m_tickled` suppresses tickles. It needs `Dated`, that no timer is
further away than its period, because `refresh()` does not tickle: were there a timer
further away, `refresh()` would bring it forward unnoticed. A clock set back makes such
timers.

**IOManagerProofs.** `TypeTheorem`, `PendingTheorem`: `Spec => []PendingExact`,
`WaiterTheorem`: `Spec => []WaiterCoherent`, for any set of descriptors, finite or
not. Inductive invariant `IndInv == TypeOK /\ CallOK /\ TableOK /\ PtrOK /\ CountOK /\
WaiterCoherent`. `CallOK` ties the context a call works on to its descriptor,
`TableOK` gives every cell inside the table an object and keeps the table at
least at its first size, `PtrOK` says that a registered descriptor points to a
context, and `CountOK` adds to `PendingExact`
that only finitely many events are registered.

`InterestTheorem`, `EdgeTheorem`, `CancelTheorem`: `InterestMatches`, `NoLostEdge` and
`CancelCancels` for any descriptors, callers and pollers, any table and any use of
`close()`. `SoleInv` says of every descriptor that is not `spoilt` that it has one context
object at a time, to which table, calls, epoll and pollers all point, and sharpens
`NoLostEdge` to `Covered`: a record in a poller's hands counts only if nothing in it was
withdrawn since, because `triggerEvent()` aborts at the first event that is gone. The
proof is also the argument that the two ways by which a descriptor gets spoilt are the
only ones.

**HookProofs.** `TypeTheorem`, and `PromiseTheorem`: `Spec => KeepsPromise`, the
refinement of BlockingCall for any number of fibers, descriptors and calls.
Inductive invariant `Inv`: the type; `Waiting`, that who is registered for an event is a
fiber in the place `wait` of a call for that event; `Hooked`, that the places behind
`try` belong to calls the library carries out; `Timed`, that timers and
cancellations belong to calls with a timeout; `Numbered`, that callbacks bear numbers of
calls made so far, so that a call that begins has none outstanding: without it
ETIMEDOUT could not be put down to the call's own timeout; and that a closed file is
not ready. Each action then maps to one of BlockingCall's or to a stutter.

`FreshTheorem`: `Spec => []EntriesFresh`; `NonblockTheorem`: `Spec => []NeverBlocksThread`.
`TableInv` says that at most one fiber at a time opens or closes a descriptor
(`OneHandler`), that between those an entry is about the file now open and the file is
non-blocking or exposed (`EntryOK`), what a call that has looked up its entry may still rely
on (`CallerOK`), and that no `fcntl()` under way is about to clear the flag of a socket in
the table (`NeverClears`).

**HttpPoolProofs.** `TypeTheorem`, `OwnerTheorem`: `Spec => []OneOwner`, `PairedTheorem`:
`Spec => []Paired`. The invariant of the first two says where a connection is by where
the fibers are (`Placed`: a fiber with a connection is between `getConnection()` and
`ReleasePtr()`), that `m_conns` has no duplicates and owners are disjoint, and that
`m_total` counts the live ones. For `Paired` it is extended by what the wire holds:
nothing on a connection of the pool that is still open locally, on one in use only
parts of the present request, in the order in which the place of the fiber expects
them. That a connection with anything else left on it is closed locally before it is
released is the point of the proof, and breaks if any failing path of
`recvResponse()` forgets its `close()`.

**TcpServerProofs.** `ClosableTheorem`: `Spec => []AllClosable`; `AcceptorTheorem`:
`Spec => []OneAcceptor`, for any number of sockets, clients, threads and starts. The
invariant adds that while the server is stopped and no closing is under way the loops of
sockets in `m_socks` have not begun (`NewOnes`), so that a failing `bind()` closes all it
drops; that while a closing is under way what still listens is what it has left, so
that it may forget `m_socks` at its end, whatever `start()` has done meanwhile; and that
without a restart a socket has one loop (`OneLoop`).

**ByteArrayProofs.** `CurTheorem` (`CurCoherent`), `KeepsTheorem` (`KeepsBytes`, the refinement
of ByteFile), `ReadBackTheorem` (`IntsReadBack`), for blocks, integers and groups of any size,
if nobody calls `read()` with 0. `CurInv` is `CurCoherent` with the types. The quotient
and remainder by an unknown block size are beyond the provers; the lemmas `DivMod`,
`DivUnique`, `DivShift` and `DivBelow` reduce them to multiplication, and give where
byte `j` behind a position lies, which blocks exist, and that two bytes never share a
place. `Room` and `Here` are `addCapacity()`'s arithmetic, `Walk` that of the loops. For the
integers, `IntsInv` keeps the bytes of each at its place, and `SumGroups` and
`GroupsEnd` say what `readUint32()` makes of what `writeUint32()` wrote. These are inductions
over a number, carried out with a least counterexample (`LeastNatural`, from the
well-foundedness of the natural numbers), which also shows that the recursive functions
`Groups`, `Weight` and the sum exist.

Model-checked only: the liveness properties, since reasoning about fairness and ENABLED
is beyond the prover (`StopReturns`, `JobsFinish`, `TimersExpire`, `WaitersWake`,
`TimeoutsStrike`, `RequestsEnd`, `LoopsEnd`, `ClientsReleased`).

## 5. Not modelled, and the plan

Left out for good: HTTP message formatting and the Ragel parsers (generated), Log,
Env and string utilities (formatting and output), zlib (a library), thread and mutex
wrappers (they are the atomicity of the steps), stack allocation, and everything under
`thirdparty/`. Servlet dispatch is two tables under one lock, each call one critical
section; the daemon is `fork()` and `waitpid()` in turn. Neither has a state in which
steps of two actors could meet. Config has one such question (`setValue()` calls the
listeners before it takes the write lock, `config.h:305`), which is listed as a hazard.

What is left, in this order:

1. Hypotheses: `StopComplete` with pins on several threads, which SchedulerPinned checks
   and neither `Floating` (no pins) nor `Alone` (one thread) covers.
2. Config's `setValue()` with its listeners, if two setters at a time become common; the
   session's buffer, where bytes of a pipelined request are dropped (`http_session.cc:64`).
