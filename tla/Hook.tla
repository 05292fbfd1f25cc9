-------------------------------- MODULE Hook --------------------------------
(* The hooked system calls (io/hook.cc) and the table of descriptors they   *)
(* consult (io/fdmanager.cc): do_io() and connect_with_timeout() wait for   *)
(* an event and a timeout at once, close() takes both away, socket() and    *)
(* accept() enter a descriptor in the table, fcntl(), ioctl() and           *)
(* setsockopt() change what later calls do.                                 *)
(*                                                                          *)
(* A step is one call of the code into the table, the event table, the      *)
(* timers or the kernel. The event table is what module IOManager shows it  *)
(* to be: one waiter per event, woken once, unless epoll has forgotten the  *)
(* descriptor, and cancelled by number, unless the table has shrunk and the *)
(* number is not found. A timer is what module Timer shows it to be: it can *)
(* be cancelled until it is collected, and its callback runs later.         *)
EXTENDS Naturals

CONSTANTS
  Fibers, Fds,
  EV,           \* the events calls wait for
  MaxFiles,     \* bound: files ever opened
  MaxCalls,     \* bound: calls that may wait
  None

READ == "READ"
WRITE == "WRITE"

\* FdCtx: of which file it is, m_userNonblock, and which timeouts are set.
Entries == [file : 0..MaxFiles, usr : BOOLEAN, to : [EV -> BOOLEAN]]

ASSUME HookAssumption ==
  /\ MaxFiles \in Nat /\ MaxCalls \in Nat
  /\ EV \subseteq {READ, WRITE} /\ None \notin Fibers /\ None \notin Entries
  /\ None \notin [op : {"io", "connect"}, fd : Fds, ev : EV, hooked : BOOLEAN, timed : BOOLEAN]

VARIABLES
  files,                  \* number of files opened so far
  file, nonblock, ready,  \* kernel: the file behind fd, its O_NONBLOCK, its state
  ctx,                    \* FdManager::m_datas
  reg, watched,           \* IOManager: who waits for an event, epoll knows fd
  calls,                  \* number of calls made so far
  call, num,              \* the call each fiber is in, and its number
  cancelled,              \* tinfo->cancelled of that call
  timer,                  \* its timer is in the timer set
  due,                    \* calls whose timeout callback has been scheduled
  acting,                 \* callbacks between t->cancelled = ETIMEDOUT and cancelEvent()
  missed,                 \* history: calls whose timeout did not find the event's context
  exposed,                \* history: descriptors the user last made blocking past the table
  result,                 \* of the call that ended last
  failed                  \* the SYLAR_ASSERT of addEvent() failed

kernel == <<files, file, nonblock, ready, exposed>>
table == <<reg, watched>>
timeouts == <<cancelled, timer, due, acting, missed>>
vars == <<kernel, ctx, table, calls, call, num, timeouts, result, failed>>

\* A fiber that is in no call that may wait.
Outside(at, op, fd) == [at |-> at, op |-> op, fd |-> fd, ev |-> None, file |-> 0,
                        hooked |-> FALSE, timed |-> FALSE]
Idle == Outside("idle", "none", None)
InCall == {"try", "direct", "refuse", "arm", "add", "wait", "woken", "check"}
Calls ==
  {Idle} \cup
  [at : InCall, op : {"io", "connect"}, fd : Fds, ev : EV, file : 0..MaxFiles,
   hooked : BOOLEAN, timed : BOOLEAN] \cup
  [at : {"get", "create", "cancel", "del", "close"}, op : {"open", "close"}, fd : Fds,
   ev : {None}, file : 0..MaxFiles, hooked : {FALSE}, timed : {FALSE}] \cup
  [at : {"set", "clear", "bare"}, op : {"flags"}, fd : Fds,
   ev : {None}, file : 0..MaxFiles, hooked : {FALSE}, timed : {FALSE}]
Results == {"none", "done", "ETIMEDOUT", "EAGAIN", "EBADF", "ENOMEM", "unsure"}

TypeOK ==
  /\ files \in 0..MaxFiles /\ file \in [Fds -> 0..MaxFiles]
  /\ nonblock \in [Fds -> BOOLEAN] /\ ready \in [Fds -> SUBSET EV]
  /\ ctx \in [Fds -> Entries \cup {None}]
  /\ reg \in [Fds -> [EV -> Fibers \cup {None}]] /\ watched \in [Fds -> BOOLEAN]
  /\ call \in [Fibers -> Calls] /\ num \in [Fibers -> 0..MaxCalls] /\ calls \in 0..MaxCalls
  /\ cancelled \in [Fibers -> BOOLEAN] /\ timer \in [Fibers -> BOOLEAN]
  /\ due \subseteq Fibers \X (0..MaxCalls)
  /\ acting \subseteq (Fibers \X (0..MaxCalls)) \X Fds \X EV
  /\ missed \subseteq Fibers /\ exposed \subseteq Fds
  /\ result \in [Fibers -> Results] /\ failed \in BOOLEAN

Init ==
  /\ files = 0 /\ file = [fd \in Fds |-> 0]
  /\ nonblock = [fd \in Fds |-> FALSE] /\ ready = [fd \in Fds |-> {}]
  /\ ctx = [fd \in Fds |-> None]
  /\ reg = [fd \in Fds |-> [e \in EV |-> None]] /\ watched = [fd \in Fds |-> FALSE]
  /\ call = [f \in Fibers |-> Idle] /\ num = [f \in Fibers |-> 0] /\ calls = 0
  /\ cancelled = [f \in Fibers |-> FALSE] /\ timer = [f \in Fibers |-> FALSE]
  /\ due = {} /\ acting = {} /\ missed = {} /\ exposed = {}
  /\ result = [f \in Fibers |-> "none"] /\ failed = FALSE
----------------------------------------------------------------------------
(* The table of descriptors.                                                *)

At(f, where) == ~failed /\ call[f].at = where
Goto(f, where) == call' = [call EXCEPT ![f].at = where]
Leave(f) == call' = [call EXCEPT ![f] = Idle]

\* Fault: the timeouts are not initialised.
NewCtxUnset(fd) == [file |-> file[fd], usr |-> FALSE, to |-> None]

\* FdCtx::FdCtx() and init() for a socket: no timeouts, not user-nonblocking.
NewCtx(fd) == [file |-> file[fd], usr |-> FALSE, to |-> [e \in EV |-> FALSE]]

\* socket_f() or accept_f() hands out a free descriptor, in blocking mode.
Open(f, fd) ==
  /\ At(f, "idle") /\ file[fd] = 0 /\ files < MaxFiles
  /\ files' = files + 1
  /\ file' = [file EXCEPT ![fd] = files + 1]
  /\ nonblock' = [nonblock EXCEPT ![fd] = FALSE]
  /\ ready' = [ready EXCEPT ![fd] = {}]
  /\ call' = [call EXCEPT ![f] = Outside("get", "open", fd)]
  /\ UNCHANGED <<exposed, ctx, table, calls, num, timeouts, result, failed>>

\* get(fd, true), first half: an entry that exists is returned as it is.
Get(f) ==
  /\ At(f, "get")
  /\ IF ctx[call[f].fd] = None THEN Goto(f, "create") ELSE Leave(f)
  /\ UNCHANGED <<kernel, ctx, table, calls, num, timeouts, result, failed>>

\* get(fd, true), second half: init() makes the descriptor non-blocking.
Create(f) ==
  LET fd == call[f].fd IN
  /\ At(f, "create")
  /\ ctx' = [ctx EXCEPT ![fd] = NewCtx(fd)]
  /\ nonblock' = [nonblock EXCEPT ![fd] = TRUE] /\ exposed' = exposed \ {fd}
  /\ Leave(f)
  /\ UNCHANGED <<files, file, ready, table, calls, num, timeouts, result, failed>>

\* setsockopt(SO_RCVTIMEO or SO_SNDTIMEO).
SetTimeout(fd, e, b) ==
  /\ ~failed /\ ctx[fd] # None
  /\ ctx' = [ctx EXCEPT ![fd].to[e] = b]
  /\ UNCHANGED <<kernel, table, call, calls, num, timeouts, result, failed>>

\* The user's choice is noted in the entry, if there is one.
Note(fd, b) == ctx' = IF ctx[fd] = None THEN ctx ELSE [ctx EXCEPT ![fd].usr = b]

\* Fault: the user's choice reaches the kernel.
KernelFlagUsers(fd, b) == IF b THEN "set" ELSE IF ctx[fd] = None THEN "bare" ELSE "clear"

\* What fcntl(F_SETFL) will tell the kernel: m_sysNonblock, set for every
\* socket of the table, overrides the user's choice; without an entry the
\* choice is passed on as it is.
KernelFlag(fd, b) == IF b \/ ctx[fd] # None THEN "set" ELSE "bare"

\* fcntl(F_SETFL), up to the call of the kernel. (That get() and
\* setUserNonblock() are one step loses nothing: an entry that is deleted in
\* between is read by nobody.)
Fcntl(f, fd, b) ==
  /\ At(f, "idle") /\ file[fd] # 0
  /\ Note(fd, b)
  /\ call' = [call EXCEPT ![f] = Outside(KernelFlag(fd, b), "flags", fd)]
  /\ UNCHANGED <<kernel, table, calls, num, timeouts, result, failed>>

\* ioctl(FIONBIO), up to the call of the kernel: noted, and passed on as it is.
Ioctl(f, fd, b) ==
  /\ At(f, "idle") /\ file[fd] # 0
  /\ Note(fd, b)
  /\ call' = [call EXCEPT ![f] = Outside(IF b THEN "set" ELSE "bare", "flags", fd)]
  /\ UNCHANGED <<kernel, table, calls, num, timeouts, result, failed>>

\* fcntl_f() or ioctl_f(), on whatever is open under the number by now.
SetFlags(f) ==
  LET fd == call[f].fd  at == call[f].at IN
  /\ ~failed /\ call[f].op = "flags"
  /\ nonblock' = [nonblock EXCEPT ![fd] = IF file[fd] = 0 THEN @ ELSE at = "set"]
  /\ exposed' = IF file[fd] = 0 THEN exposed
                ELSE IF at = "bare" THEN exposed \cup {fd} ELSE exposed \ {fd}
  /\ Leave(f)
  /\ UNCHANGED <<files, file, ready, ctx, table, calls, num, timeouts, result, failed>>
----------------------------------------------------------------------------
(* The event table.                                                         *)

Registered(fd) == {e \in EV : reg[fd][e] # None}

\* Events S of fd are taken out and their fibers scheduled.
Wake(fd, S) ==
  /\ reg' = [reg EXCEPT ![fd] = [e \in EV |-> IF e \in S THEN None ELSE @[e]]]
  /\ watched' = [watched EXCEPT ![fd] = Registered(fd) \ S # {}]

Woken(fd, S) == {f \in Fibers : \E e \in S : reg[fd][e] = f}
Roused(fd, S, f) == IF f \in Woken(fd, S) THEN [call[f] EXCEPT !.at = "woken"] ELSE call[f]

\* The event loop: a registered event of a watched descriptor is ready.
Deliver(fd, e) ==
  /\ ~failed /\ reg[fd][e] # None /\ watched[fd] /\ e \in ready[fd]
  /\ Wake(fd, {e})
  /\ call' = [f \in Fibers |-> Roused(fd, {e}, f)]
  /\ UNCHANGED <<kernel, ctx, calls, num, timeouts, result, failed>>

\* Data, room, a new connection, or an error that ends waiting.
Arrive(fd, e) ==
  /\ ~failed /\ file[fd] # 0 /\ e \notin ready[fd]
  /\ ready' = [ready EXCEPT ![fd] = @ \cup {e}]
  /\ UNCHANGED <<files, file, nonblock, exposed, ctx, table, call, calls, num, timeouts, result, failed>>
----------------------------------------------------------------------------
(* do_io() and connect_with_timeout().                                      *)

\* Two fibers do not wait for the same event of one descriptor.
Busy(fd, e) == \E g \in Fibers : call[g].at \in InCall /\ call[g].fd = fd /\ call[g].ev = e

\* Up to the label retry: the table decides who carries the call out.
Begin(f, op, fd, e, connect_timeout) ==
  LET c == ctx[fd]
      hooked == IF c = None THEN FALSE ELSE ~c.usr
      where == IF c = None /\ op = "connect" THEN "refuse" ELSE IF hooked THEN "try" ELSE "direct"
      timed == IF ~hooked THEN FALSE ELSE IF op = "connect" THEN connect_timeout ELSE c.to[e]
  IN
  /\ At(f, "idle") /\ calls < MaxCalls /\ ~Busy(fd, e) /\ (op = "connect" => e = WRITE)
  /\ calls' = calls + 1 /\ num' = [num EXCEPT ![f] = calls + 1]
  /\ result' = [g \in Fibers |-> "none"]
  /\ call' = [call EXCEPT ![f] = [at |-> where, op |-> op, fd |-> fd, ev |-> e,
                                  file |-> file[fd], hooked |-> hooked, timed |-> timed]]
  /\ UNCHANGED <<kernel, ctx, table, timeouts, failed>>

\* The call returns r; tinfo dies with it.
Return(f, r) ==
  /\ result' = [g \in Fibers |-> IF g = f THEN r ELSE "none"]
  /\ Leave(f)
  /\ cancelled' = [cancelled EXCEPT ![f] = FALSE] /\ missed' = missed \ {f}

\* fun(fd, ...) succeeds, and may leave the descriptor ready or not.
Transfer(f) ==
  LET fd == call[f].fd IN
  /\ call[f].ev \in ready[fd]
  /\ ready' \in {ready, [ready EXCEPT ![fd] = @ \ {call[f].ev}]}
  /\ Return(f, "done")
  /\ UNCHANGED <<files, file, nonblock, exposed, timer, due, acting>>

BadFd(f) ==
  /\ file[call[f].fd] = 0
  /\ Return(f, "EBADF")
  /\ UNCHANGED <<kernel, timer, due, acting>>

WouldBlock(f) == file[call[f].fd] # 0 /\ call[f].ev \notin ready[call[f].fd] /\ nonblock[call[f].fd]

\* The call as the kernel carries it out, without the library. (On a
\* blocking descriptor it waits.)
Direct(f) ==
  /\ At(f, "direct")
  /\ \/ Transfer(f)
     \/ BadFd(f)
     \/ WouldBlock(f) /\ Return(f, "EAGAIN") /\ UNCHANGED <<kernel, timer, due, acting>>
  /\ UNCHANGED <<ctx, table, calls, num, failed>>

\* connect_with_timeout() without an entry in the table.
Refuse(f) ==
  /\ At(f, "refuse")
  /\ Return(f, "EBADF")
  /\ UNCHANGED <<kernel, ctx, table, calls, num, timer, due, acting, failed>>

\* From the label retry to EAGAIN or EINPROGRESS.
Try(f) ==
  /\ At(f, "try")
  /\ \/ Transfer(f)
     \/ BadFd(f)
     \/ WouldBlock(f) /\ Goto(f, "arm") /\ UNCHANGED <<kernel, timeouts, result>>
  /\ UNCHANGED <<ctx, table, calls, num, failed>>

\* addConditionTimer(), if there is a timeout.
Arm(f) ==
  /\ At(f, "arm")
  /\ timer' = [timer EXCEPT ![f] = call[f].timed]
  /\ Goto(f, "add")
  /\ UNCHANGED <<kernel, ctx, table, calls, num, cancelled, due, acting, missed, result, failed>>

\* addEvent(), which may fail: epoll does not know a descriptor the context
\* believes registered, the descriptor is closed, or resources are short.
AddEvent(f) ==
  LET fd == call[f].fd  e == call[f].ev IN
  /\ At(f, "add")
  /\ \/ /\ reg[fd][e] # None
        /\ failed' = TRUE
        /\ UNCHANGED <<table, call, timeouts, result>>
     \/ /\ reg[fd][e] = None
        /\ timer' = [timer EXCEPT ![f] = FALSE]
        /\ IF call[f].op = "io" THEN Return(f, "ENOMEM")
           ELSE Goto(f, "check") /\ UNCHANGED <<cancelled, missed, result>>
        /\ UNCHANGED <<table, due, acting, failed>>
     \/ /\ reg[fd][e] = None /\ file[fd] # 0 /\ (Registered(fd) # {} => watched[fd])
        /\ reg' = [reg EXCEPT ![fd][e] = f] /\ watched' = [watched EXCEPT ![fd] = TRUE]
        /\ Goto(f, "wait")
        /\ UNCHANGED <<timeouts, result, failed>>
  /\ UNCHANGED <<kernel, ctx, calls, num>>

\* Behind YieldToHold(): the timer is cancelled, and the call has timed out,
\* or starts over, or asks how the connection went.
Resume(f) ==
  /\ At(f, "woken")
  /\ timer' = [timer EXCEPT ![f] = FALSE]
  /\ IF cancelled[f] THEN Return(f, "ETIMEDOUT")
     ELSE /\ Goto(f, IF call[f].op = "io" THEN "try" ELSE "check")
          /\ UNCHANGED <<cancelled, missed, result>>
  /\ UNCHANGED <<kernel, ctx, table, calls, num, due, acting, failed>>

\* getsockopt(SO_ERROR): 0 also while the connection is being made.
Check(f) ==
  /\ At(f, "check")
  /\ Return(f, IF file[call[f].fd] = 0 THEN "EBADF" ELSE "unsure")
  /\ UNCHANGED <<kernel, ctx, table, calls, num, timer, due, acting, failed>>
----------------------------------------------------------------------------
(* The timeout.                                                             *)

\* listExpiredCb() takes the timer out and schedules its callback.
Fire(f) ==
  /\ ~failed /\ timer[f]
  /\ timer' = [timer EXCEPT ![f] = FALSE]
  /\ due' = due \cup {<<f, num[f]>>}
  /\ UNCHANGED <<kernel, ctx, table, call, calls, num, cancelled, acting, missed, result, failed>>

\* Fault: the callback does not ask whether its call is still there.
AliveUnchecked(c) == call[c[1]].at \in InCall

\* winfo.lock(): the call the callback belongs to has not returned.
Alive(c) == call[c[1]].at \in InCall /\ num[c[1]] = c[2]

\* The callback, up to t->cancelled = ETIMEDOUT.
Callback(c) ==
  LET f == c[1] IN
  /\ ~failed /\ c \in due
  /\ due' = due \ {c}
  /\ IF Alive(c) /\ ~cancelled[f]
     THEN /\ cancelled' = [cancelled EXCEPT ![f] = TRUE]
          /\ acting' = acting \cup {<<c, call[f].fd, call[f].ev>>}
     ELSE UNCHANGED <<cancelled, acting>>
  /\ UNCHANGED <<kernel, ctx, table, call, calls, num, timer, missed, result, failed>>

\* Fault: the event is looked up and not cancelled.
CancelNothing(a) ==
  /\ ~failed /\ a \in acting
  /\ acting' = acting \ {a}
  /\ UNCHANGED <<kernel, ctx, table, call, calls, num, cancelled, timer, due, missed, result, failed>>

\* cancelEvent(): whoever waits for the event by now is woken, unless the
\* table of contexts has been resized below the descriptor.
CancelEvent(a) ==
  LET fd == a[2]  e == a[3] IN
  /\ ~failed /\ a \in acting
  /\ acting' = acting \ {a}
  /\ \/ /\ IF reg[fd][e] # None /\ watched[fd]
           THEN Wake(fd, {e}) /\ call' = [f \in Fibers |-> Roused(fd, {e}, f)]
           ELSE UNCHANGED <<table, call>>
        /\ UNCHANGED missed
     \/ /\ reg[fd][e] # None /\ watched[fd]
        /\ missed' = IF Alive(a[1]) THEN missed \cup {a[1][1]} ELSE missed
        /\ UNCHANGED <<table, call>>
  /\ UNCHANGED <<kernel, ctx, calls, num, cancelled, timer, due, result, failed>>
----------------------------------------------------------------------------
(* close().                                                                 *)

BeginClose(f, fd) ==
  /\ At(f, "idle") /\ file[fd] # 0
  /\ \A g \in Fibers : call[g].op \in {"open", "close"} => call[g].fd # fd
  /\ call' = [call EXCEPT ![f] = Outside(IF ctx[fd] = None THEN "close" ELSE "cancel", "close", fd)]
  /\ UNCHANGED <<kernel, ctx, table, calls, num, timeouts, result, failed>>

\* What cancelAll() finds to cancel: nothing when the table has been resized
\* below the descriptor.
Found(fd) == {{}, IF watched[fd] THEN Registered(fd) ELSE {}}

CancelAll(f) ==
  LET fd == call[f].fd IN
  /\ At(f, "cancel")
  /\ \E S \in Found(fd) :
       /\ IF S = {} THEN UNCHANGED table ELSE Wake(fd, S)
       /\ call' = [g \in Fibers |-> IF g = f THEN [call[f] EXCEPT !.at = "del"] ELSE Roused(fd, S, g)]
  /\ UNCHANGED <<kernel, ctx, calls, num, timeouts, result, failed>>

\* Fault: the descriptor is closed first and leaves the table afterwards.
DelLate(f) ==
  LET fd == call[f].fd IN
  /\ At(f, "del")
  /\ IF file[fd] # 0 /\ file[fd] = ctx[fd].file
     THEN /\ file' = [file EXCEPT ![fd] = 0] /\ ready' = [ready EXCEPT ![fd] = {}]
          /\ nonblock' = [nonblock EXCEPT ![fd] = FALSE]
          /\ watched' = [watched EXCEPT ![fd] = FALSE]
          /\ UNCHANGED <<ctx, call>>
     ELSE /\ ctx' = [ctx EXCEPT ![fd] = None]
          /\ Leave(f)
          /\ UNCHANGED <<file, ready, nonblock, watched>>
  /\ UNCHANGED <<files, exposed, reg, calls, num, timeouts, result, failed>>

\* FdManager::del().
Del(f) ==
  /\ At(f, "del")
  /\ ctx' = [ctx EXCEPT ![call[f].fd] = None]
  /\ Goto(f, "close")
  /\ UNCHANGED <<kernel, table, calls, num, timeouts, result, failed>>

\* close_f(): the kernel and epoll forget the file.
Close(f) ==
  LET fd == call[f].fd IN
  /\ At(f, "close")
  /\ file' = [file EXCEPT ![fd] = 0] /\ ready' = [ready EXCEPT ![fd] = {}]
  /\ nonblock' = [nonblock EXCEPT ![fd] = FALSE] /\ exposed' = exposed \ {fd}
  /\ watched' = [watched EXCEPT ![fd] = FALSE]
  /\ Leave(f)
  /\ UNCHANGED <<files, ctx, reg, calls, num, timeouts, result, failed>>
----------------------------------------------------------------------------
FiberStep(f) ==
  \/ Get(f) \/ Create(f) \/ Direct(f) \/ Refuse(f) \/ Try(f) \/ Arm(f) \/ AddEvent(f)
  \/ Resume(f) \/ Check(f) \/ CancelAll(f) \/ Del(f) \/ Close(f) \/ SetFlags(f)

Request(f) ==
  \/ \E fd \in Fds : Open(f, fd) \/ BeginClose(f, fd)
  \/ \E fd \in Fds, b \in BOOLEAN : Fcntl(f, fd, b) \/ Ioctl(f, fd, b)
  \/ \E op \in {"io", "connect"}, fd \in Fds, e \in EV, b \in BOOLEAN : Begin(f, op, fd, e, b)

Next ==
  \/ \E f \in Fibers : Request(f) \/ FiberStep(f) \/ Fire(f)
  \/ \E c \in due : Callback(c)
  \/ \E a \in acting : CancelEvent(a)
  \/ \E fd \in Fds, e \in EV : Arrive(fd, e) \/ Deliver(fd, e)
  \/ \E fd \in Fds, e \in EV, b \in BOOLEAN : SetTimeout(fd, e, b)

Spec == Init /\ [][Next]_vars

\* Timers expire and their callbacks are carried out. No fiber has to call
\* anything or to go on, and no data come.
FairSpec ==
  /\ Spec
  /\ WF_vars(\E f \in Fibers : Fire(f))
  /\ WF_vars(\E c \in due : Callback(c))
  /\ WF_vars(\E a \in acting : CancelEvent(a))
----------------------------------------------------------------------------
(* Properties.                                                              *)

\* The refinement mapping to what the calls promise.
Doing(f) ==
  IF call[f].at \in InCall
  THEN [op |-> call[f].op, fd |-> call[f].fd, ev |-> call[f].ev,
        hooked |-> call[f].hooked, timed |-> call[f].timed]
  ELSE None

Elapsed(f) == call[f].at \in InCall /\ (cancelled[f] \/ <<f, num[f]>> \in due)

Promise == INSTANCE BlockingCall WITH
  open <- [fd \in Fds |-> file[fd] # 0],
  doing <- [f \in Fibers |-> Doing(f)],
  elapsed <- [f \in Fibers |-> Elapsed(f)]

\* do_io() and connect_with_timeout() keep the promise of BlockingCall: in
\* particular no call ends with ETIMEDOUT because of another call's callback,
\* of close() or of a retry, and EAGAIN never reaches a caller that waits.
KeepsPromise == Promise!Spec

\* A hooked call never blocks its thread, and with it every fiber on it: the
\* file it was made on is non-blocking when fun() is called, whatever calls
\* of fcntl() and ioctl() change or are about to change meanwhile. Two things
\* the code does defeat it: ioctl(FIONBIO) hands the user's 0 to the kernel,
\* and so does an fcntl() that looked the descriptor up while it was being
\* opened or closed. Descriptors whose flag such a call set last are excepted.
NeverBlocksThread ==
  \A f \in Fibers :
    (/\ call[f].at = "try" /\ call[f].file # 0 /\ file[call[f].fd] = call[f].file
     /\ call[f].fd \notin exposed)
      => nonblock[call[f].fd]

\* An entry of the table describes the file now open under its number, and
\* every open file has one, except while it is being opened or closed: no
\* socket inherits the flags and timeouts of a closed one.
EntriesFresh ==
  \A fd \in Fds :
    (\A f \in Fibers : call[f].op \in {"open", "close"} => call[f].fd # fd) =>
      IF file[fd] = 0 THEN ctx[fd] = None
      ELSE ctx[fd] # None /\ ctx[fd].file = file[fd]

\* A fiber that waits under a timeout which has not struck yet returns from
\* waiting, whether or not data come: the timer stays armed through retries,
\* wake-ups by others and late callbacks. (A timeout that strikes between
\* addConditionTimer() and addEvent() finds nothing to cancel and is lost, as
\* is one whose cancelEvent() does not find the context in the table.)
TimeoutsStrike ==
  \A f \in Fibers :
    (call[f].at = "wait" /\ call[f].timed /\ ~cancelled[f])
      ~> (\/ call[f].at # "wait" \/ file[call[f].fd] # call[f].file \/ failed
          \/ f \in missed)
=============================================================================
