----------------------------- MODULE HookProofs -----------------------------
(* The hooked calls keep the promise of BlockingCall for every set of       *)
(* fibers and descriptors and any number of calls.                          *)
(*                                                                          *)
(* The inductive invariant adds to the types: who is registered waits for   *)
(* just that event, so that a wake-up never moves a fiber that is somewhere *)
(* else; each place of a call knows whether the library or the kernel       *)
(* carries it out; a timer, a callback and tinfo->cancelled belong to a     *)
(* call with a timeout; and no callback carries the number of a later call. *)
EXTENDS Hook, TLAPS

USE HookAssumption

Waiting ==
  \A fd \in Fds, e \in EV, g \in Fibers :
    reg[fd][e] = g => call[g].at = "wait" /\ call[g].fd = fd /\ call[g].ev = e

Hooked(c) ==
  /\ c.at \in {"try", "arm", "add", "wait", "woken", "check"} => c.hooked
  /\ c.at \in {"direct", "refuse"} => ~c.hooked
  /\ c.at \in {"refuse", "check"} => c.op = "connect"

Timed(f) ==
  /\ timer[f] => call[f].at \in {"add", "wait", "woken"} /\ call[f].timed
  /\ cancelled[f] => call[f].at \in InCall /\ call[f].timed
  /\ <<f, num[f]>> \in due /\ call[f].at \in InCall => call[f].timed

Numbered ==
  /\ \A f \in Fibers : num[f] <= calls
  /\ \A f \in Fibers, n \in 0..MaxCalls : <<f, n>> \in due => n <= calls

Inv ==
  /\ TypeOK
  /\ Waiting
  /\ \A f \in Fibers : Hooked(call[f]) /\ Timed(f)
  /\ Numbered
  /\ \A fd \in Fds : file[fd] = 0 => ready[fd] = {}
----------------------------------------------------------------------------
(* Calls.                                                                   *)

Waits == [at : InCall, op : {"io", "connect"}, fd : Fds, ev : EV, file : 0..MaxFiles,
          hooked : BOOLEAN, timed : BOOLEAN]
OpensOrCloses == [at : {"get", "create", "cancel", "del", "close"}, op : {"open", "close"}, fd : Fds,
                  ev : {None}, file : 0..MaxFiles, hooked : {FALSE}, timed : {FALSE}]
SetsFlags == [at : {"set", "clear", "bare"}, op : {"flags"}, fd : Fds,
              ev : {None}, file : 0..MaxFiles, hooked : {FALSE}, timed : {FALSE}]

LEMMA CallKinds ==
  /\ Calls = {Idle} \cup Waits \cup OpensOrCloses \cup SetsFlags
  /\ \A c \in Calls : c.at \in InCall => c \in Waits
  /\ \A c \in Calls : c.at \in {"get", "create", "cancel", "del", "close"} => c \in OpensOrCloses
<1>1. Calls = {Idle} \cup Waits \cup OpensOrCloses \cup SetsFlags
  BY DEF Calls, Waits, OpensOrCloses, SetsFlags
<1>2. Idle.at = "idle" BY DEF Idle, Outside
<1>3. \A c \in Waits : c.at \in InCall BY DEF Waits
<1>4. \A c \in OpensOrCloses : c.at \in {"get", "create", "cancel", "del", "close"} BY DEF OpensOrCloses
<1>5. \A c \in SetsFlags : c.at \in {"set", "clear", "bare"} BY DEF SetsFlags
<1>6. QED BY <1>1, <1>2, <1>3, <1>4, <1>5 DEF InCall

\* What is known of a call that may wait.
LEMMA InCallFields ==
  ASSUME NEW c \in Calls, c.at \in InCall
  PROVE  /\ c.op \in {"io", "connect"} /\ c.fd \in Fds /\ c.ev \in EV /\ c.file \in 0..MaxFiles
         /\ c.hooked \in BOOLEAN /\ c.timed \in BOOLEAN
<1>1. c \in Waits BY CallKinds
<1>2. QED BY <1>1 DEF Waits

\* What is known of an open() or close() under way.
LEMMA OpenCloseFields ==
  ASSUME NEW c \in Calls, c.at \in {"get", "create", "cancel", "del", "close"}
  PROVE  c.fd \in Fds /\ c.op \in {"open", "close"} /\ c.at \notin InCall
<1>1. c \in OpensOrCloses BY CallKinds
<1>2. c.fd \in Fds /\ c.op \in {"open", "close"} BY <1>1 DEF OpensOrCloses
<1>3. QED BY <1>2 DEF InCall

\* A call that moves on remains the call it is.
LEMMA Moved ==
  ASSUME NEW c \in Calls, NEW w \in InCall, c.at \in InCall
  PROVE  /\ [c EXCEPT !.at = w] \in Calls
         /\ [c EXCEPT !.at = w].at = w
         /\ [c EXCEPT !.at = w].op = c.op /\ [c EXCEPT !.at = w].fd = c.fd
         /\ [c EXCEPT !.at = w].ev = c.ev /\ [c EXCEPT !.at = w].hooked = c.hooked
         /\ [c EXCEPT !.at = w].timed = c.timed /\ [c EXCEPT !.at = w].file = c.file
<1>1. c \in Waits BY CallKinds
<1> DEFINE d == [c EXCEPT !.at = w]
<1>2. d \in Waits BY <1>1 DEF Waits
<1>3. d.at = w /\ d.op = c.op /\ d.fd = c.fd /\ d.ev = c.ev /\ d.hooked = c.hooked /\ d.timed = c.timed
      /\ d.file = c.file
  BY <1>1 DEF Waits
<1>4. QED BY <1>2, <1>3, CallKinds

LEMMA MovedOn ==
  ASSUME NEW c \in Calls, NEW w \in {"get", "create", "cancel", "del", "close"},
         c.at \in {"get", "create", "cancel", "del", "close"}
  PROVE  /\ [c EXCEPT !.at = w] \in Calls /\ [c EXCEPT !.at = w].at = w
         /\ [c EXCEPT !.at = w].op = c.op /\ [c EXCEPT !.at = w].fd = c.fd
<1>1. c \in OpensOrCloses BY CallKinds
<1>2. /\ [c EXCEPT !.at = w] \in OpensOrCloses /\ [c EXCEPT !.at = w].at = w
      /\ [c EXCEPT !.at = w].op = c.op /\ [c EXCEPT !.at = w].fd = c.fd
  BY <1>1 DEF OpensOrCloses
<1>3. QED BY <1>2, CallKinds

LEMMA IdleCall == Idle \in Calls /\ Idle.at = "idle" /\ Idle.at \notin InCall
<1>1. Idle.at = "idle" BY DEF Idle, Outside
<1>2. QED BY <1>1, CallKinds DEF InCall
----------------------------------------------------------------------------
(* What a step does to the calls.                                           *)

\* A fiber that is not waiting moves or leaves: who waits is still registered.
LEMMA WaitingKept ==
  ASSUME Inv, NEW f \in Fibers, call[f].at # "wait", UNCHANGED reg,
         \A g \in Fibers \ {f} : call'[g] = call[g]
  PROVE  Waiting'
BY DEF Inv, Waiting

\* A step within a call.
LEMMA GotoKeeps ==
  ASSUME Inv, NEW f \in Fibers, NEW w \in InCall, call[f].at \in InCall, Goto(f, w)
  PROVE  /\ call' \in [Fibers -> Calls]
         /\ \A g \in Fibers \ {f} : call'[g] = call[g]
         /\ call'[f].at = w /\ call'[f].op = call[f].op /\ call'[f].hooked = call[f].hooked
         /\ call'[f].fd = call[f].fd /\ call'[f].ev = call[f].ev /\ call'[f].timed = call[f].timed
         /\ call'[f].file = call[f].file
<1>1. call \in [Fibers -> Calls] BY DEF Inv, TypeOK
<1>2. call' = [call EXCEPT ![f] = [call[f] EXCEPT !.at = w]] BY DEF Goto
<1>3. [call[f] EXCEPT !.at = w] \in Calls BY <1>1, Moved
<1>4. call' \in [Fibers -> Calls] /\ call'[f] = [call[f] EXCEPT !.at = w] BY <1>1, <1>2, <1>3
<1>5. \A g \in Fibers \ {f} : call'[g] = call[g] BY <1>1, <1>2
<1>6. QED BY <1>1, <1>4, <1>5, Moved

\* A step within open() or close().
LEMMA GotoOnKeeps ==
  ASSUME Inv, NEW f \in Fibers, NEW w \in {"get", "create", "cancel", "del", "close"},
         call[f].at \in {"get", "create", "cancel", "del", "close"}, Goto(f, w)
  PROVE  /\ call' \in [Fibers -> Calls]
         /\ \A g \in Fibers \ {f} : call'[g] = call[g]
         /\ call'[f].at = w /\ call'[f].op = call[f].op /\ call'[f].fd = call[f].fd
<1>1. call \in [Fibers -> Calls] BY DEF Inv, TypeOK
<1>2. call' = [call EXCEPT ![f] = [call[f] EXCEPT !.at = w]] BY DEF Goto
<1>3. [call[f] EXCEPT !.at = w] \in Calls BY <1>1, MovedOn
<1>4. call' \in [Fibers -> Calls] /\ call'[f] = [call[f] EXCEPT !.at = w] BY <1>1, <1>2, <1>3
<1>5. \A g \in Fibers \ {f} : call'[g] = call[g] BY <1>1, <1>2
<1>6. QED BY <1>1, <1>4, <1>5, MovedOn

\* The end of a call.
LEMMA LeaveKeeps ==
  ASSUME Inv, NEW f \in Fibers, Leave(f)
  PROVE  /\ call' \in [Fibers -> Calls]
         /\ \A g \in Fibers \ {f} : call'[g] = call[g]
         /\ call'[f] = Idle /\ call'[f].at \notin InCall /\ Hooked(call'[f])
<1>1. call \in [Fibers -> Calls] BY DEF Inv, TypeOK
<1>2. call' \in [Fibers -> Calls] /\ call'[f] = Idle BY <1>1, IdleCall DEF Leave
<1>3. \A g \in Fibers \ {f} : call'[g] = call[g] BY <1>1 DEF Leave
<1>4. Hooked(Idle) BY IdleCall DEF Hooked
<1>5. QED BY <1>2, <1>3, <1>4, IdleCall

\* The events S of fd are taken out: whoever waited for one of them is woken,
\* and nobody else moves.
LEMMA RousedKeeps ==
  ASSUME Inv, NEW fd \in Fds, NEW S \in SUBSET EV, NEW f \in Fibers
  PROVE  /\ Roused(fd, S, f) \in Calls
         /\ Roused(fd, S, f).at \in InCall <=> call[f].at \in InCall
         /\ Roused(fd, S, f).op = call[f].op /\ Roused(fd, S, f).hooked = call[f].hooked
         /\ Roused(fd, S, f).fd = call[f].fd /\ Roused(fd, S, f).ev = call[f].ev
         /\ Roused(fd, S, f).timed = call[f].timed /\ Roused(fd, S, f).file = call[f].file
         /\ Roused(fd, S, f) = call[f] \/ (call[f].at = "wait" /\ Roused(fd, S, f).at = "woken")
         /\ Hooked(Roused(fd, S, f))
         /\ call[f].at \in {"add", "wait", "woken"} => Roused(fd, S, f).at \in {"add", "wait", "woken"}
         /\ \A d \in Fds, e \in EV : reg[d][e] = f /\ ~(d = fd /\ e \in S) => Roused(fd, S, f) = call[f]
<1>1. call[f] \in Calls /\ Hooked(call[f]) BY DEF Inv, TypeOK
<1>2. CASE f \in Woken(fd, S)
  <2>1. PICK e \in S : reg[fd][e] = f BY <1>2 DEF Woken
  <2>2. call[f].at = "wait" /\ call[f].fd = fd /\ call[f].ev = e BY <2>1 DEF Inv, Waiting
  <2>3. Roused(fd, S, f) = [call[f] EXCEPT !.at = "woken"] BY <1>2 DEF Roused
  <2>4. call[f].at \in InCall /\ "woken" \in InCall BY <2>2 DEF InCall
  <2>5. /\ Roused(fd, S, f) \in Calls /\ Roused(fd, S, f).at = "woken"
        /\ Roused(fd, S, f).op = call[f].op /\ Roused(fd, S, f).hooked = call[f].hooked
        /\ Roused(fd, S, f).fd = call[f].fd /\ Roused(fd, S, f).ev = call[f].ev
        /\ Roused(fd, S, f).timed = call[f].timed /\ Roused(fd, S, f).file = call[f].file
    BY <1>1, <2>3, <2>4, Moved
  <2>6. Hooked(Roused(fd, S, f)) BY <1>1, <2>2, <2>5 DEF Hooked
  <2>7. \A d \in Fds, x \in EV : reg[d][x] = f => d = fd /\ x = e BY <2>2 DEF Inv, Waiting
  <2>8. QED BY <2>1, <2>2, <2>4, <2>5, <2>6, <2>7
<1>3. CASE f \notin Woken(fd, S) BY <1>1, <1>3 DEF Roused
<1>4. QED BY <1>2, <1>3
----------------------------------------------------------------------------
(* The invariant, action by action.                                         *)

USE DEF kernel, table, timeouts

\* A fiber outside a call begins or ends open() or close(), or moves in it.
LEMMA OutsideKeeps ==
  ASSUME Inv, NEW f \in Fibers, call[f].at \notin InCall,
         call' \in [Fibers -> Calls], call'[f].at \notin InCall,
         \A g \in Fibers \ {f} : call'[g] = call[g],
         UNCHANGED <<reg, calls, num, timeouts>>
  PROVE  Waiting' /\ (\A g \in Fibers : Hooked(call'[g]) /\ Timed(g)') /\ Numbered'
<1>1. Waiting' BY WaitingKept DEF InCall
<1>2. Hooked(call'[f]) BY DEF Hooked, InCall
<1>3. Timed(f)' BY DEF Inv, Timed, InCall
<1>4. \A g \in Fibers \ {f} : Hooked(call'[g]) /\ Timed(g)' BY DEF Inv, Timed
<1>5. Numbered' BY DEF Inv, Numbered
<1>6. QED BY <1>1, <1>2, <1>3, <1>4, <1>5

LEMMA OpenInv == ASSUME Inv, NEW f \in Fibers, NEW fd \in Fds, Open(f, fd) PROVE Inv'
<1> DEFINE c == Outside("get", "open", fd)
<1>1. c \in OpensOrCloses /\ c.at = "get" BY DEF OpensOrCloses, Outside
<1>2. call \in [Fibers -> Calls] /\ call[f].at = "idle"
  <2>1. call[f].at = "idle" BY DEF Open, At
  <2>2. QED BY <2>1 DEF Inv, TypeOK
<1>3. c \in Calls BY <1>1, CallKinds
<1> HIDE DEF c
<1>4. /\ call' \in [Fibers -> Calls] /\ call'[f] = c
      /\ \A g \in Fibers \ {f} : call'[g] = call[g]
  BY <1>2, <1>3 DEF Open, c
<1>5. Waiting' /\ (\A g \in Fibers : Hooked(call'[g]) /\ Timed(g)') /\ Numbered'
  BY <1>1, <1>2, <1>4, OutsideKeeps DEF Open, InCall
<1>6. /\ files' \in 0..MaxFiles /\ file' \in [Fds -> 0..MaxFiles]
      /\ nonblock' \in [Fds -> BOOLEAN] /\ ready' \in [Fds -> SUBSET EV]
  BY DEF Open, Inv, TypeOK
<1>7. TypeOK' BY <1>4, <1>6 DEF Open, Inv, TypeOK
<1>8. \A d \in Fds : file'[d] = 0 => ready'[d] = {} BY DEF Open, Inv, TypeOK
<1>9. QED BY <1>5, <1>7, <1>8 DEF Inv

LEMMA BeginCloseInv == ASSUME Inv, NEW f \in Fibers, NEW fd \in Fds, BeginClose(f, fd) PROVE Inv'
<1> DEFINE c == Outside(IF ctx[fd] = None THEN "close" ELSE "cancel", "close", fd)
<1>1. c \in OpensOrCloses
  <2>1. CASE ctx[fd] = None BY <2>1 DEF OpensOrCloses, Outside
  <2>2. CASE ctx[fd] # None BY <2>2 DEF OpensOrCloses, Outside
  <2>3. QED BY <2>1, <2>2
<1>2. call \in [Fibers -> Calls] /\ call[f].at = "idle" BY DEF Inv, TypeOK, BeginClose, At
<1>3. c \in Calls BY <1>1, CallKinds
<1>4. c.at \notin InCall BY <1>1 DEF OpensOrCloses, InCall
<1>5. call' = [call EXCEPT ![f] = c] BY DEF BeginClose
<1> HIDE DEF c
<1>6. /\ call' \in [Fibers -> Calls] /\ call'[f] = c
      /\ \A g \in Fibers \ {f} : call'[g] = call[g]
  BY <1>2, <1>3, <1>5
<1>7. Waiting' /\ (\A g \in Fibers : Hooked(call'[g]) /\ Timed(g)') /\ Numbered'
  BY <1>2, <1>4, <1>6, OutsideKeeps DEF BeginClose, InCall
<1>8. TypeOK' BY <1>6 DEF BeginClose, Inv, TypeOK
<1>9. QED BY <1>7, <1>8 DEF Inv, BeginClose

LEMMA GetInv == ASSUME Inv, NEW f \in Fibers, Get(f) PROVE Inv'
<1>1. call[f] \in Calls /\ call[f].at = "get" BY DEF Inv, TypeOK, Get, At
<1>2. /\ call' \in [Fibers -> Calls] /\ call'[f].at \notin InCall
      /\ \A g \in Fibers \ {f} : call'[g] = call[g]
  <2>1. CASE Goto(f, "create") BY <1>1, <2>1, GotoOnKeeps DEF InCall
  <2>2. CASE Leave(f) BY <2>2, LeaveKeeps
  <2>3. QED BY <2>1, <2>2 DEF Get
<1>3. Waiting' /\ (\A g \in Fibers : Hooked(call'[g]) /\ Timed(g)') /\ Numbered'
  BY <1>1, <1>2, OutsideKeeps DEF Get, InCall
<1>4. TypeOK' BY <1>2 DEF Get, Inv, TypeOK
<1>5. QED BY <1>3, <1>4 DEF Inv, Get

LEMMA CreateInv == ASSUME Inv, NEW f \in Fibers, Create(f) PROVE Inv'
<1>1. call[f] \in Calls /\ call[f].at = "create" BY DEF Inv, TypeOK, Create, At
<1>2. call[f].fd \in Fds BY <1>1, OpenCloseFields
<1>3. /\ call' \in [Fibers -> Calls] /\ call'[f].at \notin InCall
      /\ \A g \in Fibers \ {f} : call'[g] = call[g]
  BY LeaveKeeps DEF Create
<1>4. Waiting' /\ (\A g \in Fibers : Hooked(call'[g]) /\ Timed(g)') /\ Numbered'
  BY <1>1, <1>3, OutsideKeeps DEF Create, InCall
<1>5. NewCtx(call[f].fd) \in Entries BY <1>2 DEF NewCtx, Entries, Inv, TypeOK
<1>6. ctx' \in [Fds -> Entries \cup {None}] BY <1>5 DEF Create, Inv, TypeOK
<1>7. nonblock' \in [Fds -> BOOLEAN] BY DEF Create, Inv, TypeOK
<1>8. TypeOK' BY <1>3, <1>6, <1>7 DEF Create, Inv, TypeOK
<1>9. QED BY <1>4, <1>8 DEF Inv, Create

LEMMA DelInv == ASSUME Inv, NEW f \in Fibers, Del(f) PROVE Inv'
<1>1. call[f] \in Calls /\ call[f].at = "del" BY DEF Inv, TypeOK, Del, At
<1>2. /\ call' \in [Fibers -> Calls] /\ call'[f].at \notin InCall
      /\ \A g \in Fibers \ {f} : call'[g] = call[g]
  BY <1>1, GotoOnKeeps DEF Del, InCall
<1>3. Waiting' /\ (\A g \in Fibers : Hooked(call'[g]) /\ Timed(g)') /\ Numbered'
  BY <1>1, <1>2, OutsideKeeps DEF Del, InCall
<1>4. ctx' \in [Fds -> Entries \cup {None}] BY DEF Del, Inv, TypeOK
<1>5. TypeOK' BY <1>2, <1>4 DEF Del, Inv, TypeOK
<1>6. QED BY <1>3, <1>5 DEF Inv, Del

LEMMA CloseInv == ASSUME Inv, NEW f \in Fibers, Close(f) PROVE Inv'
<1>1. call[f] \in Calls /\ call[f].at = "close" BY DEF Inv, TypeOK, Close, At
<1>2. call[f].fd \in Fds BY <1>1, OpenCloseFields
<1>3. /\ call' \in [Fibers -> Calls] /\ call'[f].at \notin InCall
      /\ \A g \in Fibers \ {f} : call'[g] = call[g]
  BY LeaveKeeps DEF Close
<1>4. Waiting' /\ (\A g \in Fibers : Hooked(call'[g]) /\ Timed(g)') /\ Numbered'
  BY <1>1, <1>3, OutsideKeeps DEF Close, InCall
<1>5. /\ file' \in [Fds -> 0..MaxFiles] /\ nonblock' \in [Fds -> BOOLEAN]
      /\ ready' \in [Fds -> SUBSET EV] /\ watched' \in [Fds -> BOOLEAN]
  <2>1. ready' \in [Fds -> SUBSET EV]
    <3>1. ready' = [ready EXCEPT ![call[f].fd] = {}] /\ ready \in [Fds -> SUBSET EV]
      BY DEF Close, Inv, TypeOK
    <3>2. QED BY <3>1
  <2>2. file' \in [Fds -> 0..MaxFiles]
    <3>1. file' = [file EXCEPT ![call[f].fd] = 0] /\ file \in [Fds -> 0..MaxFiles]
      BY DEF Close, Inv, TypeOK
    <3>2. 0 \in 0..MaxFiles OBVIOUS
    <3>3. QED BY <3>1, <3>2
  <2>3. nonblock' \in [Fds -> BOOLEAN] /\ watched' \in [Fds -> BOOLEAN] BY DEF Close, Inv, TypeOK
  <2>4. QED BY <2>1, <2>2, <2>3
<1>6. TypeOK' BY <1>3, <1>5 DEF Close, Inv, TypeOK
<1>7. \A d \in Fds : file'[d] = 0 => ready'[d] = {} BY <1>2 DEF Close, Inv, TypeOK
<1>8. QED BY <1>4, <1>6, <1>7 DEF Inv

LEMMA BeginInv ==
  ASSUME Inv, NEW f \in Fibers, NEW op \in {"io", "connect"}, NEW fd \in Fds, NEW e \in EV,
         NEW b \in BOOLEAN, Begin(f, op, fd, e, b)
  PROVE  /\ Inv'
         /\ call[f].at \notin InCall /\ call'[f] \in Waits /\ call'[f].op = op
         /\ \A g \in Fibers \ {f} : call'[g] = call[g]
<1> DEFINE hooked == IF ctx[fd] = None THEN FALSE ELSE ~ctx[fd].usr
           where == IF ctx[fd] = None /\ op = "connect" THEN "refuse"
                    ELSE IF hooked THEN "try" ELSE "direct"
           timed == IF ~hooked THEN FALSE ELSE IF op = "connect" THEN b ELSE ctx[fd].to[e]
           c == [at |-> where, op |-> op, fd |-> fd, ev |-> e, file |-> file[fd],
                 hooked |-> hooked, timed |-> timed]
<1>1. call' = [call EXCEPT ![f] = c] BY DEF Begin
<1>2. ctx[fd] = None \/ ctx[fd] \in Entries BY DEF Inv, TypeOK
<1>3. hooked \in BOOLEAN /\ timed \in BOOLEAN BY <1>2 DEF Entries
<1>4. where \in {"refuse", "try", "direct"} OBVIOUS
<1>5. /\ where = "try" => hooked
      /\ where \in {"direct", "refuse"} => ~hooked
      /\ where = "refuse" => op = "connect"
  BY <1>3
<1> HIDE DEF hooked, where, timed
<1>6. c \in Waits BY <1>3, <1>4 DEF Waits, InCall, Inv, TypeOK
<1>7. c.at \in {"refuse", "try", "direct"} /\ Hooked(c) /\ c.op = op BY <1>4, <1>5 DEF Hooked
<1> HIDE DEF c
<1>8. call \in [Fibers -> Calls] /\ call[f].at = "idle" BY DEF Inv, TypeOK, Begin, At
<1>9. /\ call' \in [Fibers -> Calls] /\ call'[f] = c
      /\ \A g \in Fibers \ {f} : call'[g] = call[g]
  BY <1>1, <1>6, <1>8, CallKinds
<1>10. Waiting' BY <1>8, <1>9, WaitingKept DEF Begin
<1>11. \A g \in Fibers : Hooked(call'[g]) BY <1>7, <1>9 DEF Inv
<1>12. calls \in 0..MaxCalls /\ calls' = calls + 1 /\ calls' \in 0..MaxCalls
  BY DEF Begin, Inv, TypeOK
<1>13. /\ num' \in [Fibers -> 0..MaxCalls] /\ num'[f] = calls + 1
       /\ \A g \in Fibers \ {f} : num'[g] = num[g]
  BY <1>12 DEF Begin, Inv, TypeOK
<1>14. Numbered' BY <1>12, <1>13 DEF Begin, Inv, Numbered, TypeOK
<1>15. <<f, num'[f]>> \notin due BY <1>12, <1>13 DEF Inv, Numbered
<1>16. Timed(f)'
  <2>1. ~timer[f] /\ ~cancelled[f] BY <1>8 DEF Inv, Timed, InCall
  <2>2. QED BY <1>15, <2>1 DEF Begin, Timed
<1>17. \A g \in Fibers \ {f} : Timed(g)' BY <1>9, <1>13 DEF Begin, Inv, Timed
<1>18. result' \in [Fibers -> Results] BY DEF Begin, Inv, TypeOK, Results
<1>19. TypeOK' BY <1>9, <1>12, <1>13, <1>18 DEF Begin, Inv, TypeOK
<1>20. Inv' BY <1>10, <1>11, <1>14, <1>16, <1>17, <1>19 DEF Inv, Begin
<1>21. QED BY <1>6, <1>7, <1>8, <1>9, <1>20 DEF InCall

\* A call that returns and has no timer.
LEMMA ReturnKeeps ==
  ASSUME Inv, NEW f \in Fibers, NEW r \in Results, call[f].at \in InCall \ {"wait"}, Return(f, r),
         timer' \in [Fibers -> BOOLEAN], ~timer'[f], \A g \in Fibers \ {f} : timer'[g] = timer[g],
         UNCHANGED <<reg, calls, num, due>>
  PROVE  /\ call' \in [Fibers -> Calls] /\ result' \in [Fibers -> Results]
         /\ cancelled' \in [Fibers -> BOOLEAN] /\ missed' \subseteq Fibers
         /\ Waiting' /\ (\A g \in Fibers : Hooked(call'[g]) /\ Timed(g)') /\ Numbered'
<1>1. /\ call' \in [Fibers -> Calls] /\ \A g \in Fibers \ {f} : call'[g] = call[g]
      /\ call'[f].at \notin InCall /\ Hooked(call'[f])
  BY LeaveKeeps DEF Return
<1>2. result' \in [Fibers -> Results] BY DEF Return, Results
<1>3. /\ cancelled' \in [Fibers -> BOOLEAN] /\ ~cancelled'[f]
      /\ \A g \in Fibers \ {f} : cancelled'[g] = cancelled[g]
  BY DEF Return, Inv, TypeOK
<1>4. Waiting' BY <1>1, WaitingKept
<1>5. Timed(f)' BY <1>1, <1>3 DEF Timed
<1>6. \A g \in Fibers \ {f} : Timed(g)' BY <1>1, <1>3 DEF Inv, Timed
<1>7. \A g \in Fibers : Hooked(call'[g]) BY <1>1 DEF Inv
<1>8. Numbered' BY DEF Inv, Numbered
<1>9. missed' \subseteq Fibers BY DEF Return, Inv, TypeOK
<1>10. QED BY <1>1, <1>2, <1>3, <1>4, <1>5, <1>6, <1>7, <1>8, <1>9

\* A call that goes on elsewhere, possibly with its timer set or cancelled.
LEMMA GoesOn ==
  ASSUME Inv, NEW f \in Fibers, NEW w \in InCall \ {"wait"}, call[f].at \in InCall \ {"wait"}, Goto(f, w),
         w \in {"try", "arm", "add", "woken", "check"} /\ call[f].hooked,
         w = "check" => call[f].op = "connect",
         timer' \in [Fibers -> BOOLEAN], timer'[f] => call[f].timed /\ w = "add",
         \A g \in Fibers \ {f} : timer'[g] = timer[g],
         UNCHANGED <<reg, calls, num, due, cancelled>>
  PROVE  /\ call' \in [Fibers -> Calls]
         /\ Waiting' /\ (\A g \in Fibers : Hooked(call'[g]) /\ Timed(g)') /\ Numbered'
<1>1. /\ call' \in [Fibers -> Calls]
      /\ \A g \in Fibers \ {f} : call'[g] = call[g]
      /\ call'[f].at = w /\ call'[f].op = call[f].op /\ call'[f].hooked = call[f].hooked
      /\ call'[f].timed = call[f].timed
  BY GotoKeeps
<1>2. Waiting' BY <1>1, WaitingKept
<1>3. Hooked(call'[f]) BY <1>1 DEF Hooked
<1>4. Timed(f)' BY <1>1 DEF Inv, Timed
<1>5. \A g \in Fibers \ {f} : Hooked(call'[g]) /\ Timed(g)' BY <1>1 DEF Inv, Timed
<1>6. Numbered' BY DEF Inv, Numbered
<1>7. QED BY <1>1, <1>2, <1>3, <1>4, <1>5, <1>6

\* fun(fd, ...) returns to the caller from where the call has no timer.
LEMMA AttemptInv ==
  ASSUME Inv, NEW f \in Fibers, call[f].at \in {"try", "direct"},
         \/ Transfer(f) \/ BadFd(f)
         \/ Return(f, "EAGAIN") /\ UNCHANGED <<kernel, timer, due, acting>>,
         UNCHANGED <<ctx, table, calls, num, failed>>
  PROVE  Inv'
<1>1. call[f] \in Calls /\ call[f].at \in InCall \ {"wait"} BY DEF Inv, TypeOK, InCall
<1>2. PICK r \in Results : Return(f, r) BY DEF Transfer, BadFd, Results
<1>3. UNCHANGED <<files, file, nonblock, exposed, timer, due, acting>> BY DEF Transfer, BadFd
<1>4. timer \in [Fibers -> BOOLEAN] /\ ~timer[f] BY DEF Inv, TypeOK, Timed
<1>5. /\ call' \in [Fibers -> Calls] /\ result' \in [Fibers -> Results]
      /\ cancelled' \in [Fibers -> BOOLEAN] /\ missed' \subseteq Fibers
      /\ Waiting' /\ (\A g \in Fibers : Hooked(call'[g]) /\ Timed(g)') /\ Numbered'
  BY <1>1, <1>2, <1>3, <1>4, ReturnKeeps
<1>6. /\ ready' \in [Fds -> SUBSET EV]
      /\ \A d \in Fds : ready'[d] \subseteq ready[d]
  <2>1. ready \in [Fds -> SUBSET EV] BY DEF Inv, TypeOK
  <2>2. ready' = ready \/ ready' = [ready EXCEPT ![call[f].fd] = @ \ {call[f].ev}]
    BY DEF Transfer, BadFd
  <2>3. QED BY <2>1, <2>2
<1>7. TypeOK' BY <1>3, <1>5, <1>6 DEF Inv, TypeOK
<1>8. \A d \in Fds : file'[d] = 0 => ready'[d] = {} BY <1>3, <1>6 DEF Inv
<1>9. QED BY <1>5, <1>7, <1>8 DEF Inv

LEMMA DirectInv == ASSUME Inv, NEW f \in Fibers, Direct(f) PROVE Inv'
BY AttemptInv DEF Direct, At

LEMMA TryInv == ASSUME Inv, NEW f \in Fibers, Try(f) PROVE Inv'
<1>1. call[f].at = "try" BY DEF Try, At
<1>2. CASE Transfer(f) \/ BadFd(f) BY <1>1, <1>2, AttemptInv DEF Try
<1>3. CASE WouldBlock(f) /\ Goto(f, "arm") /\ UNCHANGED <<kernel, timeouts, result>>
  <2>1. call[f].hooked /\ ~timer[f] /\ timer \in [Fibers -> BOOLEAN]
    BY <1>1 DEF Inv, TypeOK, Hooked, Timed
  <2>2. /\ call' \in [Fibers -> Calls]
        /\ Waiting' /\ (\A g \in Fibers : Hooked(call'[g]) /\ Timed(g)') /\ Numbered'
    BY <1>1, <1>3, <2>1, GoesOn DEF Try, InCall
  <2>3. TypeOK' BY <1>3, <2>2 DEF Try, Inv, TypeOK
  <2>4. QED BY <1>3, <2>2, <2>3 DEF Inv
<1>4. QED BY <1>2, <1>3 DEF Try

LEMMA RefuseInv == ASSUME Inv, NEW f \in Fibers, Refuse(f) \/ Check(f) PROVE Inv'
<1>1. call[f].at \in {"refuse", "check"} BY DEF Refuse, Check, At
<1>2. PICK r \in Results : Return(f, r) BY DEF Refuse, Check, Results
<1>3. UNCHANGED <<kernel, ctx, table, calls, num, timer, due, acting, failed>> BY DEF Refuse, Check
<1>4. timer \in [Fibers -> BOOLEAN] /\ ~timer[f] BY <1>1 DEF Inv, TypeOK, Timed
<1>5. /\ call' \in [Fibers -> Calls] /\ result' \in [Fibers -> Results]
      /\ cancelled' \in [Fibers -> BOOLEAN] /\ missed' \subseteq Fibers
      /\ Waiting' /\ (\A g \in Fibers : Hooked(call'[g]) /\ Timed(g)') /\ Numbered'
  BY <1>1, <1>2, <1>3, <1>4, ReturnKeeps DEF InCall
<1>6. TypeOK' BY <1>3, <1>5 DEF Inv, TypeOK
<1>7. QED BY <1>3, <1>5, <1>6 DEF Inv

LEMMA ArmInv == ASSUME Inv, NEW f \in Fibers, Arm(f) PROVE Inv'
<1>1. call[f].at = "arm" /\ call[f] \in Calls BY DEF Arm, At, Inv, TypeOK
<1>2. call[f].timed \in BOOLEAN /\ call[f].hooked
  BY <1>1, InCallFields DEF InCall, Inv, Hooked
<1>3. /\ timer' \in [Fibers -> BOOLEAN] /\ timer'[f] = call[f].timed
      /\ \A g \in Fibers \ {f} : timer'[g] = timer[g]
  BY <1>2 DEF Arm, Inv, TypeOK
<1>4. /\ call' \in [Fibers -> Calls]
      /\ Waiting' /\ (\A g \in Fibers : Hooked(call'[g]) /\ Timed(g)') /\ Numbered'
  BY <1>1, <1>2, <1>3, GoesOn DEF Arm, InCall
<1>5. TypeOK' BY <1>3, <1>4 DEF Arm, Inv, TypeOK
<1>6. QED BY <1>4, <1>5 DEF Inv, Arm

LEMMA ResumeInv == ASSUME Inv, NEW f \in Fibers, Resume(f) PROVE Inv'
<1>1. call[f].at = "woken" /\ call[f] \in Calls BY DEF Resume, At, Inv, TypeOK
<1>2. call[f].hooked /\ call[f].op \in {"io", "connect"}
  BY <1>1, InCallFields DEF InCall, Inv, Hooked
<1>3. /\ timer' \in [Fibers -> BOOLEAN] /\ ~timer'[f]
      /\ \A g \in Fibers \ {f} : timer'[g] = timer[g]
  BY DEF Resume, Inv, TypeOK
<1>4. /\ call' \in [Fibers -> Calls] /\ result' \in [Fibers -> Results]
      /\ cancelled' \in [Fibers -> BOOLEAN] /\ missed' \subseteq Fibers
      /\ Waiting' /\ (\A g \in Fibers : Hooked(call'[g]) /\ Timed(g)') /\ Numbered'
  <2>1. CASE cancelled[f]
    <3>1. Return(f, "ETIMEDOUT") BY <2>1 DEF Resume
    <3>2. QED BY <1>1, <1>3, <3>1, ReturnKeeps DEF Resume, InCall, Results
  <2>2. CASE ~cancelled[f]
    <3>1. PICK w \in {"try", "check"} : Goto(f, w) /\ (w = "check" => call[f].op = "connect")
      BY <1>2, <2>2 DEF Resume
    <3>2. UNCHANGED <<cancelled, missed, result>> BY <2>2 DEF Resume
    <3>3. QED BY <1>1, <1>2, <1>3, <3>1, <3>2, GoesOn DEF Resume, InCall, Inv, TypeOK
  <2>3. QED BY <2>1, <2>2
<1>5. TypeOK' BY <1>3, <1>4 DEF Resume, Inv, TypeOK
<1>6. QED BY <1>4, <1>5 DEF Inv, Resume

LEMMA AddEventInv == ASSUME Inv, NEW f \in Fibers, AddEvent(f) PROVE Inv'
<1> DEFINE fd == call[f].fd
           e == call[f].ev
<1>1. call[f].at = "add" /\ call[f] \in Calls BY DEF AddEvent, At, Inv, TypeOK
<1>2. call[f].hooked /\ call[f].op \in {"io", "connect"} /\ fd \in Fds /\ e \in EV
  BY <1>1, InCallFields DEF InCall, Inv, Hooked
<1>3. CASE failed' = TRUE /\ UNCHANGED <<table, call, timeouts, result>>
  BY <1>3 DEF AddEvent, Inv, TypeOK, Waiting, Timed, Numbered
<1>4. CASE /\ timer' = [timer EXCEPT ![f] = FALSE]
           /\ IF call[f].op = "io" THEN Return(f, "ENOMEM")
              ELSE Goto(f, "check") /\ UNCHANGED <<cancelled, missed, result>>
           /\ UNCHANGED <<table, due, acting, failed>>
  <2>1. /\ timer' \in [Fibers -> BOOLEAN] /\ ~timer'[f]
        /\ \A g \in Fibers \ {f} : timer'[g] = timer[g]
    BY <1>4 DEF Inv, TypeOK
  <2>2. /\ call' \in [Fibers -> Calls] /\ result' \in [Fibers -> Results]
        /\ cancelled' \in [Fibers -> BOOLEAN] /\ missed' \subseteq Fibers
        /\ Waiting' /\ (\A g \in Fibers : Hooked(call'[g]) /\ Timed(g)') /\ Numbered'
    <3>1. CASE call[f].op = "io"
      BY <1>1, <1>4, <2>1, <3>1, ReturnKeeps DEF AddEvent, InCall, Results
    <3>2. CASE call[f].op = "connect"
      <4>1. Goto(f, "check") /\ UNCHANGED <<cancelled, missed, result>> BY <1>4, <3>2
      <4>2. QED BY <1>1, <1>2, <1>4, <2>1, <3>2, <4>1, GoesOn DEF AddEvent, InCall, Inv, TypeOK
    <3>3. QED BY <1>2, <3>1, <3>2
  <2>3. TypeOK' BY <1>4, <2>1, <2>2 DEF AddEvent, Inv, TypeOK
  <2>4. QED BY <2>2, <2>3 DEF Inv, AddEvent
<1>5. CASE /\ reg[fd][e] = None
           /\ reg' = [reg EXCEPT ![fd][e] = f] /\ watched' = [watched EXCEPT ![fd] = TRUE]
           /\ Goto(f, "wait")
           /\ UNCHANGED <<timeouts, result, failed>>
  <2>1. /\ call' \in [Fibers -> Calls]
        /\ \A g \in Fibers \ {f} : call'[g] = call[g]
        /\ call'[f].at = "wait" /\ call'[f].op = call[f].op /\ call'[f].hooked = call[f].hooked
        /\ call'[f].fd = fd /\ call'[f].ev = e /\ call'[f].timed = call[f].timed
    BY <1>1, <1>5, GotoKeeps DEF InCall
  <2>2. reg' \in [Fds -> [EV -> Fibers \cup {None}]] /\ watched' \in [Fds -> BOOLEAN]
    BY <1>2, <1>5 DEF Inv, TypeOK
  <2>3. \A d \in Fds, x \in EV : reg'[d][x] = IF d = fd /\ x = e THEN f ELSE reg[d][x]
    BY <1>2, <1>5 DEF Inv, TypeOK
  <2>4. \A d \in Fds, x \in EV : reg[d][x] # f BY <1>1 DEF Inv, Waiting
  <2>5. Waiting' BY <2>1, <2>3, <2>4 DEF Inv, Waiting
  <2>6. Hooked(call'[f]) /\ Timed(f)' BY <1>1, <1>2, <1>5, <2>1 DEF Inv, Hooked, Timed, AddEvent, InCall
  <2>7. \A g \in Fibers \ {f} : Hooked(call'[g]) /\ Timed(g)' BY <1>5, <2>1 DEF Inv, Timed, AddEvent
  <2>8. Numbered' BY <1>5 DEF Inv, Numbered, AddEvent
  <2>9. TypeOK' BY <1>5, <2>1, <2>2 DEF AddEvent, Inv, TypeOK
  <2>10. QED BY <2>5, <2>6, <2>7, <2>8, <2>9 DEF Inv, AddEvent
<1>6. QED BY <1>3, <1>4, <1>5 DEF AddEvent

LEMMA FireInv == ASSUME Inv, NEW f \in Fibers, Fire(f) PROVE Inv'
<1>1. timer[f] /\ call[f].at \in InCall /\ call[f].timed BY DEF Fire, Inv, Timed, InCall
<1>2. timer' \in [Fibers -> BOOLEAN] /\ ~timer'[f] /\ \A g \in Fibers \ {f} : timer'[g] = timer[g]
  BY DEF Fire, Inv, TypeOK
<1>3. num[f] \in 0..MaxCalls /\ num[f] <= calls BY DEF Inv, TypeOK, Numbered
<1>4. due' \subseteq Fibers \X (0..MaxCalls) BY <1>3 DEF Fire, Inv, TypeOK
<1>5. \A g \in Fibers, n \in 0..MaxCalls : <<g, n>> \in due' => <<g, n>> \in due \/ (g = f /\ n = num[f])
  BY DEF Fire
<1>6. TypeOK' BY <1>2, <1>4 DEF Fire, Inv, TypeOK
<1>7. Timed(f)' BY <1>1, <1>2 DEF Fire, Inv, Timed
<1>8. \A g \in Fibers \ {f} : Timed(g)'
  <2>1. \A g \in Fibers \ {f} : <<g, num[g]>> \in due' => <<g, num[g]>> \in due BY <1>5 DEF Inv, TypeOK
  <2>2. QED BY <1>2, <2>1 DEF Fire, Inv, Timed
<1>9. Numbered' BY <1>3, <1>5 DEF Fire, Inv, Numbered
<1>10. QED BY <1>6, <1>7, <1>8, <1>9 DEF Fire, Inv, Waiting

LEMMA CallbackInv == ASSUME Inv, NEW c \in due, Callback(c) PROVE Inv'
<1> DEFINE f == c[1]
<1>1. c \in Fibers \X (0..MaxCalls) /\ f \in Fibers /\ c = <<f, c[2]>> BY DEF Inv, TypeOK
<1>2. due' = due \ {c} BY DEF Callback
<1>3. due' \subseteq Fibers \X (0..MaxCalls) BY <1>2 DEF Inv, TypeOK
<1>4. Numbered' BY <1>2 DEF Callback, Inv, Numbered
<1>5. CASE Alive(c) /\ ~cancelled[f]
  <2>1. call[f].at \in InCall /\ num[f] = c[2] BY <1>5 DEF Alive
  <2>2. call[f].timed BY <1>1, <2>1 DEF Inv, Timed
  <2>3. /\ cancelled' \in [Fibers -> BOOLEAN]
        /\ \A g \in Fibers \ {f} : cancelled'[g] = cancelled[g]
    BY <1>5 DEF Callback, Inv, TypeOK
  <2>4. call[f] \in Calls BY <1>1 DEF Inv, TypeOK
  <2>5. call[f].fd \in Fds /\ call[f].ev \in EV BY <2>1, <2>4, InCallFields
  <2>6. acting' \subseteq (Fibers \X (0..MaxCalls)) \X Fds \X EV
    BY <1>1, <1>5, <2>5 DEF Callback, Inv, TypeOK
  <2>7. TypeOK' BY <1>3, <2>3, <2>6 DEF Callback, Inv, TypeOK
  <2>8. Timed(f)' BY <1>1, <1>2, <2>1, <2>2 DEF Callback, Inv, Timed
  <2>9. \A g \in Fibers \ {f} : Timed(g)' BY <1>2, <2>3 DEF Callback, Inv, Timed
  <2>10. QED BY <1>4, <2>7, <2>8, <2>9 DEF Callback, Inv, Waiting
<1>6. CASE ~(Alive(c) /\ ~cancelled[f])
  <2>1. UNCHANGED <<cancelled, acting>> BY <1>6 DEF Callback
  <2>2. TypeOK' BY <1>3, <2>1 DEF Callback, Inv, TypeOK
  <2>3. \A g \in Fibers : Timed(g)' BY <1>2, <2>1 DEF Callback, Inv, Timed
  <2>4. QED BY <1>4, <2>2, <2>3 DEF Callback, Inv, Waiting
<1>7. QED BY <1>5, <1>6

\* Fibers are woken while h, if it is a fiber, does something outside a call.
LEMMA WakeKeeps ==
  ASSUME Inv, NEW fd \in Fds, NEW S \in SUBSET EV, Wake(fd, S), NEW h,
         \A g \in Fibers \ {h} : call'[g] = Roused(fd, S, g),
         h \in Fibers => call[h].at \notin InCall /\ call'[h].at \notin InCall,
         UNCHANGED <<calls, num, cancelled, timer, due>>
  PROVE  /\ reg' \in [Fds -> [EV -> Fibers \cup {None}]] /\ watched' \in [Fds -> BOOLEAN]
         /\ Waiting' /\ (\A g \in Fibers : Hooked(call'[g]) /\ Timed(g)') /\ Numbered'
<1>1. reg' \in [Fds -> [EV -> Fibers \cup {None}]] BY DEF Wake, Inv, TypeOK
<1>2. watched' \in [Fds -> BOOLEAN] BY DEF Wake, Inv, TypeOK
<1>3. \A d \in Fds, x \in EV : reg'[d][x] = IF d = fd /\ x \in S THEN None ELSE reg[d][x]
  BY DEF Wake, Inv, TypeOK
<1>4. Waiting'
  <2> SUFFICES ASSUME NEW d \in Fds, NEW x \in EV, NEW g \in Fibers, reg'[d][x] = g
               PROVE  call'[g].at = "wait" /\ call'[g].fd = d /\ call'[g].ev = x
    BY DEF Waiting
  <2>1. reg[d][x] = g /\ ~(d = fd /\ x \in S) BY <1>3
  <2>2. call[g].at = "wait" /\ call[g].fd = d /\ call[g].ev = x BY <2>1 DEF Inv, Waiting
  <2>3. g # h BY <2>2 DEF InCall
  <2>4. call'[g] = call[g] BY <2>1, <2>3, RousedKeeps
  <2>5. QED BY <2>2, <2>4
<1>5. ASSUME NEW g \in Fibers PROVE Hooked(call'[g]) /\ Timed(g)'
  <2>1. CASE g = h BY <2>1 DEF Hooked, Inv, Timed, InCall
  <2>2. CASE g # h
    <3>1. /\ Hooked(call'[g]) /\ (call'[g].at \in InCall <=> call[g].at \in InCall)
          /\ call'[g].timed = call[g].timed
          /\ call[g].at \in {"add", "wait", "woken"} => call'[g].at \in {"add", "wait", "woken"}
      BY <2>2, RousedKeeps
    <3>2. QED BY <3>1 DEF Inv, Timed
  <2>3. QED BY <2>1, <2>2
<1>6. Numbered' BY DEF Inv, Numbered
<1>7. QED BY <1>1, <1>2, <1>4, <1>5, <1>6

LEMMA DeliverInv == ASSUME Inv, NEW fd \in Fds, NEW e \in EV, Deliver(fd, e) PROVE Inv'
<1>1. None \notin Fibers /\ {e} \in SUBSET EV OBVIOUS
<1>2. \A g \in Fibers : call'[g] = Roused(fd, {e}, g) BY DEF Deliver
<1>3. call' \in [Fibers -> Calls] BY <1>1, RousedKeeps DEF Deliver
<1>4. /\ reg' \in [Fds -> [EV -> Fibers \cup {None}]] /\ watched' \in [Fds -> BOOLEAN]
      /\ Waiting' /\ (\A g \in Fibers : Hooked(call'[g]) /\ Timed(g)') /\ Numbered'
  BY <1>1, <1>2, WakeKeeps DEF Deliver
<1>5. TypeOK' BY <1>3, <1>4 DEF Deliver, Inv, TypeOK
<1>6. QED BY <1>4, <1>5 DEF Inv, Deliver

LEMMA CancelEventInv == ASSUME Inv, NEW a \in acting, CancelEvent(a) PROVE Inv'
<1> DEFINE fd == a[2]
           e == a[3]
<1>1. fd \in Fds /\ e \in EV /\ None \notin Fibers /\ {e} \in SUBSET EV BY DEF Inv, TypeOK
<1>2. acting' \subseteq (Fibers \X (0..MaxCalls)) \X Fds \X EV BY DEF CancelEvent, Inv, TypeOK
<1>3. missed' \subseteq Fibers
  <2>1. a[1][1] \in Fibers BY DEF Inv, TypeOK
  <2>2. QED BY <2>1 DEF CancelEvent, Inv, TypeOK
<1>4. CASE Wake(fd, {e}) /\ call' = [f \in Fibers |-> Roused(fd, {e}, f)]
  <2>1. Wake(fd, {e}) /\ call' = [f \in Fibers |-> Roused(fd, {e}, f)] BY <1>4
  <2>2. call' \in [Fibers -> Calls]
    <3>1. ASSUME NEW g \in Fibers PROVE Roused(fd, {e}, g) \in Calls
      <4> HIDE DEF fd, e
      <4>1. QED BY <1>1, RousedKeeps
    <3>2. QED BY <2>1, <3>1
  <2>3. /\ reg' \in [Fds -> [EV -> Fibers \cup {None}]] /\ watched' \in [Fds -> BOOLEAN]
        /\ Waiting' /\ (\A g \in Fibers : Hooked(call'[g]) /\ Timed(g)') /\ Numbered'
    BY <1>1, <2>1, WakeKeeps DEF CancelEvent
  <2>4. TypeOK' BY <1>2, <1>3, <2>2, <2>3 DEF CancelEvent, Inv, TypeOK
  <2>5. QED BY <2>3, <2>4 DEF Inv, CancelEvent
<1>5. CASE UNCHANGED <<reg, watched, call>>
  <2>1. UNCHANGED <<reg, watched, call>> BY <1>5
  <2>2. TypeOK' BY <1>2, <1>3, <2>1 DEF CancelEvent, Inv, TypeOK
  <2>3. QED BY <2>1, <2>2 DEF CancelEvent, Inv, Waiting, Timed, Numbered
<1>6. QED BY <1>4, <1>5 DEF CancelEvent

\* Waking nobody changes nothing.
LEMMA RousedNobody == ASSUME Inv, NEW fd, NEW f \in Fibers PROVE Roused(fd, {}, f) = call[f]
BY DEF Roused, Woken

LEMMA CancelAllInv ==
  ASSUME Inv, NEW f \in Fibers, CancelAll(f)
  PROVE  /\ Inv' /\ call[f].at \notin InCall /\ call'[f].at \notin InCall
         /\ \E fd \in Fds, S \in SUBSET EV : \A g \in Fibers \ {f} : call'[g] = Roused(fd, S, g)
<1> DEFINE fd == call[f].fd
<1>0. PICK S \in Found(fd) :
        /\ IF S = {} THEN UNCHANGED table ELSE Wake(fd, S)
        /\ call' = [g \in Fibers |-> IF g = f THEN [call[f] EXCEPT !.at = "del"] ELSE Roused(fd, S, g)]
  BY DEF CancelAll
<1>1. call[f] \in Calls /\ call[f].at = "cancel" BY DEF CancelAll, At, Inv, TypeOK
<1>2. fd \in Fds /\ S \in SUBSET EV BY <1>1, OpenCloseFields DEF Found, Registered
<1>3. /\ \A g \in Fibers \ {f} : call'[g] = Roused(fd, S, g)
      /\ call' = [g \in Fibers |-> IF g = f THEN [call[f] EXCEPT !.at = "del"] ELSE Roused(fd, S, g)]
  BY <1>0
<1>4. [call[f] EXCEPT !.at = "del"] \in Calls /\ [call[f] EXCEPT !.at = "del"].at = "del"
  BY <1>1, MovedOn
<1>5. call' \in [Fibers -> Calls]
  <2>1. \A g \in Fibers : Roused(fd, S, g) \in Calls BY <1>2, RousedKeeps
  <2>2. QED BY <1>3, <1>4, <2>1
<1>6. call'[f].at = "del"
  <2>1. call'[f] = [call[f] EXCEPT !.at = "del"] BY <1>3
  <2>2. QED BY <1>4, <2>1
<1>7. /\ reg' \in [Fds -> [EV -> Fibers \cup {None}]] /\ watched' \in [Fds -> BOOLEAN]
      /\ Waiting' /\ (\A g \in Fibers : Hooked(call'[g]) /\ Timed(g)') /\ Numbered'
  <2>1. CASE S = {}
    <3>1. UNCHANGED <<reg, watched>> BY <1>0, <2>1
    <3>2. \A g \in Fibers \ {f} : call'[g] = call[g] BY <1>3, <2>1, RousedNobody
    <3>3. Waiting' /\ (\A g \in Fibers : Hooked(call'[g]) /\ Timed(g)') /\ Numbered'
      BY <1>1, <1>5, <1>6, <3>1, <3>2, OutsideKeeps DEF CancelAll, InCall
    <3>4. QED BY <3>1, <3>3 DEF Inv, TypeOK
  <2>2. CASE S # {}
    <3>1. Wake(fd, S) BY <1>0, <2>2
    <3>2. QED BY <1>1, <1>2, <1>3, <1>6, <3>1, WakeKeeps DEF CancelAll, InCall
  <2>3. QED BY <2>1, <2>2
<1>8. TypeOK' BY <1>5, <1>7 DEF CancelAll, Inv, TypeOK
<1>9. Inv' BY <1>7, <1>8 DEF Inv, CancelAll
<1>10. QED BY <1>1, <1>2, <1>3, <1>6, <1>9 DEF InCall

\* What the user and the network do.
LEMMA SurroundingsInv ==
  ASSUME Inv, NEW fd \in Fds,
         \/ \E e \in EV : Arrive(fd, e)
         \/ \E e \in EV, b \in BOOLEAN : SetTimeout(fd, e, b)
  PROVE  Inv' /\ UNCHANGED <<file, call, num, cancelled, due, result>>
<1>1. UNCHANGED <<files, file, exposed, table, call, calls, num, timeouts, result, failed>>
  BY DEF Arrive, SetTimeout
<1> DEFINE Typed == /\ ctx' \in [Fds -> Entries \cup {None}] /\ nonblock' \in [Fds -> BOOLEAN]
                    /\ ready' \in [Fds -> SUBSET EV]
                    /\ \A d \in Fds : file[d] = 0 => ready'[d] = {}
<1>2. Typed
  <2>0. ctx \in [Fds -> Entries \cup {None}] BY DEF Inv, TypeOK
  <2>1. CASE \E e \in EV : Arrive(fd, e) BY <2>1 DEF Arrive, Inv, TypeOK
  <2>2. ASSUME NEW e \in EV, NEW b \in BOOLEAN, SetTimeout(fd, e, b) PROVE Typed
    <3>1. [ctx[fd] EXCEPT !.to[e] = b] \in Entries
      BY <2>0, <2>2 DEF SetTimeout, Entries
    <3>2. ctx' = [ctx EXCEPT ![fd] = [ctx[fd] EXCEPT !.to[e] = b]] BY <2>2 DEF SetTimeout
    <3>3. ctx' \in [Fds -> Entries \cup {None}] BY <2>0, <3>1, <3>2
    <3>4. QED BY <2>2, <3>3 DEF SetTimeout, Inv, TypeOK
  <2>3. QED BY <2>1, <2>2
<1>3. TypeOK' BY <1>1, <1>2 DEF Inv, TypeOK
<1>4. Inv' BY <1>1, <1>2, <1>3 DEF Inv, Waiting, Timed, Numbered
<1>5. QED BY <1>1, <1>4

\* The user's choice is noted: the entry remains one.
LEMMA NoteKeeps ==
  ASSUME Inv, NEW fd \in Fds, NEW b \in BOOLEAN, Note(fd, b)
  PROVE  /\ ctx' \in [Fds -> Entries \cup {None}]
         /\ \A d \in Fds : /\ ctx'[d] = None <=> ctx[d] = None
                           /\ ctx[d] # None => ctx'[d].file = ctx[d].file
<1>1. ctx \in [Fds -> Entries \cup {None}] BY DEF Inv, TypeOK
<1>2. CASE ctx[fd] = None BY <1>1, <1>2 DEF Note
<1>3. CASE ctx[fd] # None
  <2>1. ctx[fd] \in Entries BY <1>1, <1>3
  <2>2. [ctx[fd] EXCEPT !.usr = b] \in Entries /\ [ctx[fd] EXCEPT !.usr = b].file = ctx[fd].file
    BY <2>1 DEF Entries
  <2>3. ctx' = [ctx EXCEPT ![fd] = [ctx[fd] EXCEPT !.usr = b]] BY <1>3 DEF Note
  <2>4. None \notin Entries OBVIOUS
  <2>5. QED BY <1>1, <1>3, <2>2, <2>3, <2>4
<1>4. QED BY <1>2, <1>3

\* fcntl() or ioctl(), up to the call of the kernel.
LEMMA FlagsInv ==
  ASSUME Inv, NEW f \in Fibers, NEW fd \in Fds, NEW b \in BOOLEAN, Fcntl(f, fd, b) \/ Ioctl(f, fd, b)
  PROVE  /\ Inv' /\ UNCHANGED <<kernel, table, calls, num, timeouts, result, failed>>
         /\ \A d \in Fds : /\ ctx'[d] = None <=> ctx[d] = None
                           /\ ctx[d] # None => ctx'[d].file = ctx[d].file
         /\ call[f].at = "idle" /\ call'[f].at \in {"set", "bare"} /\ call'[f].op = "flags"
         /\ \A g \in Fibers \ {f} : call'[g] = call[g]
<1>1. /\ Note(fd, b) /\ UNCHANGED <<kernel, table, calls, num, timeouts, result, failed>>
      /\ call \in [Fibers -> Calls] /\ call[f].at = "idle"
  BY DEF Fcntl, Ioctl, At, Inv, TypeOK
<1>2. PICK w \in {"set", "bare"} : call' = [call EXCEPT ![f] = Outside(w, "flags", fd)]
  <2>1. KernelFlag(fd, b) \in {"set", "bare"} BY DEF KernelFlag
  <2>2. (IF b THEN "set" ELSE "bare") \in {"set", "bare"} OBVIOUS
  <2>3. QED BY <2>1, <2>2 DEF Fcntl, Ioctl
<1> DEFINE c == Outside(w, "flags", fd)
<1>3. c \in SetsFlags /\ c.at = w /\ c.op = "flags" BY DEF SetsFlags, Outside
<1>4. c \in Calls BY <1>3, CallKinds
<1>5. call' = [call EXCEPT ![f] = c] BY <1>2
<1> HIDE DEF c
<1>6. /\ call' \in [Fibers -> Calls] /\ call'[f] = c
      /\ \A g \in Fibers \ {f} : call'[g] = call[g]
  BY <1>1, <1>4, <1>5
<1>7. Waiting' /\ (\A g \in Fibers : Hooked(call'[g]) /\ Timed(g)') /\ Numbered'
  BY <1>1, <1>3, <1>6, OutsideKeeps DEF InCall
<1>8. /\ ctx' \in [Fds -> Entries \cup {None}]
      /\ \A d \in Fds : /\ ctx'[d] = None <=> ctx[d] = None
                        /\ ctx[d] # None => ctx'[d].file = ctx[d].file
  BY <1>1, NoteKeeps
<1>9. TypeOK' BY <1>1, <1>6, <1>8 DEF Inv, TypeOK
<1>10. Inv' BY <1>1, <1>7, <1>9 DEF Inv
<1>11. QED BY <1>1, <1>3, <1>6, <1>8, <1>10

\* The kernel is told.
LEMMA SetFlagsInv ==
  ASSUME Inv, NEW f \in Fibers, SetFlags(f)
  PROVE  /\ Inv' /\ call[f].op = "flags" /\ call[f].at \in {"set", "clear", "bare"} /\ call[f].fd \in Fds
         /\ call'[f] = Idle /\ \A g \in Fibers \ {f} : call'[g] = call[g]
<1>1. call[f] \in Calls /\ call[f].op = "flags" BY DEF SetFlags, Inv, TypeOK
<1>2. call[f] \in SetsFlags
  <2>1. Idle.op # "flags" BY DEF Idle, Outside
  <2>2. QED BY <1>1, <2>1, CallKinds DEF Waits, OpensOrCloses
<1>3. call[f].at \in {"set", "clear", "bare"} /\ call[f].fd \in Fds BY <1>2 DEF SetsFlags
<1>4. /\ call' \in [Fibers -> Calls] /\ call'[f] = Idle /\ call'[f].at \notin InCall
      /\ \A g \in Fibers \ {f} : call'[g] = call[g]
  BY LeaveKeeps DEF SetFlags
<1>5. Waiting' /\ (\A g \in Fibers : Hooked(call'[g]) /\ Timed(g)') /\ Numbered'
  BY <1>3, <1>4, OutsideKeeps DEF SetFlags, InCall
<1>6. nonblock' \in [Fds -> BOOLEAN] /\ exposed' \subseteq Fds BY <1>3 DEF SetFlags, Inv, TypeOK
<1>7. TypeOK' BY <1>4, <1>6 DEF SetFlags, Inv, TypeOK
<1>8. Inv' BY <1>5, <1>7 DEF SetFlags, Inv
<1>9. QED BY <1>1, <1>3, <1>4, <1>8

LEMMA InvStep == ASSUME Inv, Next PROVE Inv'
<1>1. ASSUME NEW f \in Fibers, Request(f) PROVE Inv'
  BY <1>1, OpenInv, BeginCloseInv, BeginInv, FlagsInv DEF Request
<1>2. ASSUME NEW f \in Fibers, FiberStep(f) PROVE Inv'
  BY <1>2, GetInv, CreateInv, DirectInv, RefuseInv, TryInv, ArmInv, AddEventInv, ResumeInv,
     CancelAllInv, DelInv, CloseInv, SetFlagsInv DEF FiberStep
<1>3. QED BY <1>1, <1>2, FireInv, CallbackInv, CancelEventInv, DeliverInv, SurroundingsInv DEF Next

LEMMA InvInit == ASSUME Init PROVE Inv
<1>1. call = [f \in Fibers |-> Idle] /\ Idle \in Calls /\ Idle.at = "idle" BY IdleCall DEF Init
<1>2. TypeOK
  <2>1. call \in [Fibers -> Calls] BY <1>1
  <2>2. /\ num \in [Fibers -> 0..MaxCalls] /\ calls \in 0..MaxCalls
        /\ files \in 0..MaxFiles /\ file \in [Fds -> 0..MaxFiles]
    BY DEF Init
  <2>3. reg \in [Fds -> [EV -> Fibers \cup {None}]] BY DEF Init
  <2>4. result \in [Fibers -> Results] BY DEF Init, Results
  <2>5. nonblock \in [Fds -> BOOLEAN] /\ ready \in [Fds -> SUBSET EV] /\ watched \in [Fds -> BOOLEAN]
    BY DEF Init
  <2>6. QED BY <2>1, <2>2, <2>3, <2>4, <2>5 DEF Init, TypeOK
<1>3. Waiting BY DEF Init, Waiting
<1>4. \A f \in Fibers : Hooked(call[f]) /\ Timed(f) BY <1>1 DEF Init, Hooked, Timed, InCall
<1>5. Numbered BY DEF Init, Numbered
<1>6. QED BY <1>2, <1>3, <1>4, <1>5 DEF Inv, Init

LEMMA InvStutter == ASSUME Inv, UNCHANGED vars PROVE Inv'
BY DEF vars, Inv, TypeOK, Waiting, Timed, Numbered

\* Every variable keeps its type, for any number of fibers, descriptors and
\* calls: in particular a wake-up, a late cancelEvent() or a close() never
\* turns an idle fiber or one in the middle of open() into a waiting one.
THEOREM TypeTheorem == Spec => []TypeOK
<1>1. Inv /\ [Next]_vars => Inv' BY InvStep, InvStutter
<1>2. Inv => TypeOK BY DEF Inv
<1>3. QED BY InvInit, <1>1, <1>2, PTL DEF Spec
----------------------------------------------------------------------------
(* The table of descriptors (FdManager) describes the files that are open,  *)
(* and a hooked call never blocks its thread.                               *)
(*                                                                          *)
(* A descriptor is opened or closed by one fiber at a time, which knows at  *)
(* each of its steps whether the table holds an entry. Files are numbered   *)
(* in the order they are opened, so that a call made on a closed file never *)
(* takes the next one under its descriptor for its own.                     *)

Handling == {"get", "create", "cancel", "del", "close"}
Handled(fd) == \E f \in Fibers : call[f].op \in {"open", "close"} /\ call[f].fd = fd
Closing(fd) == \E f \in Fibers : call[f].op = "close" /\ call[f].fd = fd

\* Who opens or closes a descriptor.
HandlerOK(f) ==
  call[f].op \in {"open", "close"} =>
    /\ file[call[f].fd] # 0
    /\ call[f].at \in {"get", "create"} <=> call[f].op = "open"
    /\ call[f].at \in {"get", "create", "close"} => ctx[call[f].fd] = None

OneHandler ==
  \A f, g \in Fibers :
    (/\ call[f].op \in {"open", "close"} /\ call[g].op \in {"open", "close"}
     /\ call[f].fd = call[g].fd) => f = g

\* An entry and the file it is about.
EntryOK(fd) ==
  /\ file[fd] <= files
  /\ ~Handled(fd) => IF file[fd] = 0 THEN ctx[fd] = None
                     ELSE ctx[fd] # None /\ ctx[fd].file = file[fd]
  /\ ctx[fd] # None \/ Closing(fd) => nonblock[fd] \/ fd \in exposed

\* A call that the library carries out.
CallerOK(f) ==
  call[f].at \in InCall =>
    /\ call[f].file <= files
    /\ (/\ call[f].hooked /\ call[f].file # 0 /\ file[call[f].fd] = call[f].file
        /\ ~Closing(call[f].fd)) => ctx[call[f].fd] # None

\* m_sysNonblock is set for every socket of the table.
NeverClears == \A f \in Fibers : call[f].at # "clear"

TableInv ==
  /\ Inv /\ NeverClears
  /\ \A f \in Fibers : HandlerOK(f) /\ CallerOK(f)
  /\ OneHandler
  /\ \A fd \in Fds : EntryOK(fd)
----------------------------------------------------------------------------
(* Lemmas.                                                                  *)

\* The operation a fiber is in and the place where it is agree.
LEMMA OpAt ==
  ASSUME NEW c \in Calls
  PROVE  /\ c.op \in {"open", "close"} <=> c.at \in Handling
         /\ c.op \in {"io", "connect"} <=> c.at \in InCall
         /\ c.at \in Handling \cup InCall => c.fd \in Fds
<1>1. Idle.op = "none" /\ Idle.at = "idle" BY DEF Idle, Outside
<1>2. CASE c = Idle BY <1>1, <1>2 DEF Handling, InCall
<1>3. CASE c \in Waits BY <1>3 DEF Waits, Handling, InCall
<1>4. CASE c \in OpensOrCloses BY <1>4 DEF OpensOrCloses, Handling, InCall
<1>5. CASE c \in SetsFlags BY <1>5 DEF SetsFlags, Handling, InCall
<1>6. QED BY <1>2, <1>3, <1>4, <1>5, CallKinds

\* What the table and its invariant see of a fiber in a step: nothing, or
\* that it is neither about to wait nor to open or close.
Same(f) ==
  /\ call'[f].op = call[f].op /\ call'[f].fd = call[f].fd /\ call'[f].file = call[f].file
  /\ call'[f].hooked = call[f].hooked
  /\ call[f].at \in InCall <=> call'[f].at \in InCall
  /\ call[f].at \notin InCall => call'[f].at = call[f].at
Ended(f) ==
  /\ call[f].op \notin {"open", "close"} /\ call'[f].op \notin {"open", "close"}
  /\ call'[f].at \notin InCall /\ call'[f].at # "clear"
SameEntry(fd) == /\ ctx'[fd] = None <=> ctx[fd] = None
                 /\ ctx[fd] # None => ctx'[fd].file = ctx[fd].file

LEMMA SameOps ==
  ASSUME Inv, \A f \in Fibers : Same(f) \/ Ended(f)
  PROVE  /\ \A f \in Fibers : call'[f].op \in {"open", "close"} <=> call[f].op \in {"open", "close"}
         /\ \A f \in Fibers : call[f].op \in {"open", "close"} => Same(f)
         /\ \A fd \in Fds : (Handled(fd)' <=> Handled(fd)) /\ (Closing(fd)' <=> Closing(fd))
<1>1. \A f \in Fibers : call[f] \in Calls BY DEF Inv, TypeOK
<1>3. ASSUME NEW f \in Fibers, Ended(f)
      PROVE  call[f].op \notin {"open", "close"} /\ call'[f].op \notin {"open", "close"}
  BY <1>3 DEF Ended
<1>4. \A f \in Fibers : call'[f].op \in {"open", "close"} <=> call[f].op \in {"open", "close"}
  BY <1>3 DEF Same
<1>5. \A f \in Fibers : call[f].op \in {"open", "close"} => Same(f) BY <1>3
<1>6. \A f \in Fibers : call'[f].op \in {"open", "close"} => Same(f) BY <1>4, <1>5
<1>7. ASSUME NEW fd \in Fds PROVE (Handled(fd)' <=> Handled(fd)) /\ (Closing(fd)' <=> Closing(fd))
  BY <1>5, <1>6 DEF Handled, Closing, Same
<1>8. QED BY <1>4, <1>5, <1>7

\* A step that leaves the files and the entries alone.
LEMMA QuietTable ==
  ASSUME TableInv, Inv', \A f \in Fibers : Same(f) \/ Ended(f), UNCHANGED <<files, file>>,
         \A fd \in Fds : SameEntry(fd),
         \A fd \in Fds : nonblock[fd] \/ fd \in exposed => nonblock'[fd] \/ fd \in exposed'
  PROVE  TableInv'
<1>1. Inv /\ \A f \in Fibers : call[f] \in Calls BY DEF TableInv, Inv, TypeOK
<1>2. ASSUME NEW f \in Fibers PROVE HandlerOK(f)'
  <2>1. SUFFICES ASSUME call'[f].op \in {"open", "close"}
                 PROVE  /\ file[call'[f].fd] # 0
                        /\ call'[f].at \in {"get", "create"} <=> call'[f].op = "open"
                        /\ call'[f].at \in {"get", "create", "close"} => ctx'[call'[f].fd] = None
    BY DEF HandlerOK
  <2>2. call[f].op \in {"open", "close"} /\ Same(f) BY <1>1, <2>1, SameOps
  <2>3. call[f].at \notin InCall /\ call[f].fd \in Fds BY <1>1, <2>2, OpAt DEF Handling, InCall
  <2>4. HandlerOK(f) BY DEF TableInv
  <2>5. QED BY <2>2, <2>3, <2>4 DEF HandlerOK, Same, SameEntry
<1>3. ASSUME NEW f \in Fibers PROVE CallerOK(f)'
  <2>1. SUFFICES ASSUME call'[f].at \in InCall PROVE CallerOK(f)' BY DEF CallerOK
  <2>2. Same(f) BY <2>1 DEF Ended
  <2>3. call[f].at \in InCall /\ call[f].fd \in Fds BY <1>1, <2>1, <2>2, OpAt DEF Same
  <2>4. CallerOK(f) BY DEF TableInv
  <2>5. PICK d \in Fds : d = call[f].fd BY <2>3
  <2>6. call'[f].fd = d BY <2>2, <2>5 DEF Same
  <2>7. SameEntry(d) /\ (Closing(d)' <=> Closing(d)) BY <1>1, SameOps
  <2>8. Closing(call[f].fd)' <=> Closing(call[f].fd) BY <2>5, <2>6, <2>7 DEF Closing
  <2>9. QED BY <2>2, <2>3, <2>4, <2>5, <2>6, <2>7, <2>8 DEF CallerOK, Same, SameEntry
<1>4. OneHandler' BY <1>1, SameOps DEF TableInv, OneHandler, Same
<1>5. ASSUME NEW fd \in Fds PROVE EntryOK(fd)'
  <2>1. EntryOK(fd) /\ SameEntry(fd) BY DEF TableInv
  <2>2. (Handled(fd)' <=> Handled(fd)) /\ (Closing(fd)' <=> Closing(fd)) BY <1>1, SameOps
  <2>3. QED BY <2>1, <2>2 DEF EntryOK, SameEntry
<1>6. NeverClears' BY DEF TableInv, NeverClears, Same, Ended, InCall
<1>7. QED BY <1>2, <1>3, <1>4, <1>5, <1>6 DEF TableInv
----------------------------------------------------------------------------
(* Steps that the table does not see.                                       *)

LEMMA GotoSame ==
  ASSUME Inv, NEW f \in Fibers, NEW w \in InCall, call[f].at \in InCall, Goto(f, w)
  PROVE  \A g \in Fibers : Same(g) \/ Ended(g)
BY GotoKeeps DEF Same

LEMMA LeaveEnded ==
  ASSUME Inv, NEW f \in Fibers, call[f].at \in InCall, Leave(f)
  PROVE  \A g \in Fibers : Same(g) \/ Ended(g)
<1>1. call[f] \in Calls BY DEF Inv, TypeOK
<1>2. call[f].op \notin {"open", "close"} BY <1>1, OpAt DEF Handling, InCall
<1>3. Idle.op = "none" /\ Idle.at = "idle" BY DEF Idle, Outside
<1>4. QED BY <1>2, <1>3, LeaveKeeps DEF Same, Ended

LEMMA RousedSame ==
  ASSUME Inv, NEW fd \in Fds, NEW S \in SUBSET EV, NEW f \in Fibers, call'[f] = Roused(fd, S, f)
  PROVE  Same(f)
<1>1. "wait" \in InCall BY DEF InCall
<1>2. QED BY <1>1, RousedKeeps DEF Same

\* The calls themselves.
LEMMA CallTable ==
  ASSUME TableInv, Inv', NEW f \in Fibers,
         Direct(f) \/ Refuse(f) \/ Try(f) \/ Arm(f) \/ AddEvent(f) \/ Resume(f) \/ Check(f)
  PROVE  TableInv'
<1>1. Inv BY DEF TableInv
<1>2. UNCHANGED <<files, file, ctx, nonblock, exposed>>
  BY DEF Direct, Refuse, Try, Arm, AddEvent, Resume, Check, Transfer, BadFd
<1>3. call[f].at \in InCall
  BY DEF Direct, Refuse, Try, Arm, AddEvent, Resume, Check, At, InCall
<1>4. UNCHANGED call \/ Leave(f) \/ \E w \in InCall : Goto(f, w)
  <2>1. CASE Direct(f) \/ Refuse(f) \/ Check(f)
    BY <2>1 DEF Direct, Refuse, Check, Transfer, BadFd, Return
  <2>2. CASE Try(f) BY <2>2 DEF Try, Transfer, BadFd, Return, InCall
  <2>3. CASE Arm(f) BY <2>3 DEF Arm, InCall
  <2>4. CASE AddEvent(f) BY <2>4 DEF AddEvent, Return, InCall
  <2>5. CASE Resume(f)
    <3>1. CASE cancelled[f] BY <2>5, <3>1 DEF Resume, Return
    <3>2. CASE ~cancelled[f] BY <2>5, <3>2 DEF Resume, InCall
    <3>3. QED BY <3>1, <3>2
  <2>6. QED BY <2>1, <2>2, <2>3, <2>4, <2>5
<1>5. \A g \in Fibers : Same(g) \/ Ended(g)
  <2>1. CASE UNCHANGED call BY <2>1 DEF Same
  <2>2. QED BY <1>1, <1>3, <1>4, <2>1, GotoSame, LeaveEnded
<1>6. QED BY <1>2, <1>5, QuietTable DEF SameEntry

\* Timers, callbacks and events.
LEMMA EventTable ==
  ASSUME TableInv, Inv',
         \/ \E f \in Fibers : Fire(f)
         \/ \E c \in due : Callback(c)
         \/ \E a \in acting : CancelEvent(a)
         \/ \E fd \in Fds, e \in EV : Arrive(fd, e) \/ Deliver(fd, e)
  PROVE  TableInv'
<1>1. Inv BY DEF TableInv
<1>2. UNCHANGED <<files, file, ctx, nonblock, exposed>> BY DEF Fire, Callback, CancelEvent, Arrive, Deliver
<1>3. \A g \in Fibers : Same(g)
  <2>1. CASE UNCHANGED call BY <2>1 DEF Same
  <2>2. ASSUME NEW a \in acting, CancelEvent(a) PROVE \A g \in Fibers : Same(g)
    <3>1. a[2] \in Fds /\ {a[3]} \in SUBSET EV BY <1>1 DEF Inv, TypeOK
    <3>2. UNCHANGED call \/ \A g \in Fibers : call'[g] = Roused(a[2], {a[3]}, g)
      BY <2>2 DEF CancelEvent
    <3>3. QED BY <1>1, <2>1, <3>1, <3>2, RousedSame
  <2>3. ASSUME NEW fd \in Fds, NEW e \in EV, Deliver(fd, e) PROVE \A g \in Fibers : Same(g)
    <3>1. \A g \in Fibers : call'[g] = Roused(fd, {e}, g) BY <2>3 DEF Deliver
    <3>2. QED BY <1>1, <3>1, RousedSame
  <2>4. QED BY <2>1, <2>2, <2>3 DEF Fire, Callback, Arrive
<1>4. QED BY <1>2, <1>3, QuietTable DEF SameEntry

\* setsockopt() changes an entry and keeps it one.
LEMMA OptionTable ==
  ASSUME TableInv, Inv', NEW fd \in Fds, NEW e \in EV, NEW b \in BOOLEAN, SetTimeout(fd, e, b)
  PROVE  TableInv'
<1>1. ctx \in [Fds -> Entries \cup {None}] BY DEF TableInv, Inv, TypeOK
<1>2. UNCHANGED <<files, file, nonblock, exposed, call>> BY DEF SetTimeout
<1>3. \A g \in Fibers : Same(g) BY <1>2 DEF Same
<1>4. \A d \in Fds : SameEntry(d)
  <2>1. ctx[fd] \in Entries /\ ctx[fd] # None BY <1>1 DEF SetTimeout
  <2>2. [ctx[fd] EXCEPT !.to[e] = b] \in Entries /\ [ctx[fd] EXCEPT !.to[e] = b].file = ctx[fd].file
    BY <2>1 DEF Entries
  <2>3. ctx' = [ctx EXCEPT ![fd] = [ctx[fd] EXCEPT !.to[e] = b]] BY DEF SetTimeout
  <2>4. None \notin Entries OBVIOUS
  <2>5. QED BY <1>1, <2>1, <2>2, <2>3, <2>4 DEF SameEntry
<1>5. QED BY <1>2, <1>3, <1>4, QuietTable

\* fcntl() and ioctl() note the user's choice and keep the entry.
LEMMA FlagsTable ==
  ASSUME TableInv, Inv', NEW f \in Fibers, NEW fd \in Fds, NEW b \in BOOLEAN,
         Fcntl(f, fd, b) \/ Ioctl(f, fd, b)
  PROVE  TableInv'
<1>1. Inv /\ call[f] \in Calls BY DEF TableInv, Inv, TypeOK
<1>2. /\ UNCHANGED <<files, file, nonblock, exposed>>
      /\ \A d \in Fds : /\ ctx'[d] = None <=> ctx[d] = None
                        /\ ctx[d] # None => ctx'[d].file = ctx[d].file
      /\ call[f].at = "idle" /\ call'[f].at \in {"set", "bare"} /\ call'[f].op = "flags"
      /\ \A g \in Fibers \ {f} : call'[g] = call[g]
  BY <1>1, FlagsInv
<1>3. call[f].op \notin {"open", "close"} BY <1>1, <1>2, OpAt DEF Handling
<1>4. \A g \in Fibers : Same(g) \/ Ended(g) BY <1>2, <1>3 DEF Same, Ended, InCall
<1>5. ASSUME NEW d \in Fds PROVE SameEntry(d)
  <2>1. ctx'[d] = None <=> ctx[d] = None BY <1>2
  <2>2. ctx[d] # None => ctx'[d].file = ctx[d].file BY <1>2
  <2>3. QED BY <2>1, <2>2 DEF SameEntry
<1>6. QED BY <1>2, <1>4, <1>5, QuietTable

\* The kernel is told: a descriptor that becomes blocking is exposed.
LEMMA SetFlagsTable == ASSUME TableInv, Inv', NEW f \in Fibers, SetFlags(f) PROVE TableInv'
<1>1. Inv /\ nonblock \in [Fds -> BOOLEAN] BY DEF TableInv, Inv, TypeOK
<1>2. /\ call[f].op = "flags" /\ call[f].at \in {"set", "bare"} /\ call'[f] = Idle
      /\ \A g \in Fibers \ {f} : call'[g] = call[g]
  BY <1>1, SetFlagsInv DEF TableInv, NeverClears
<1>3. Idle.op = "none" /\ Idle.at = "idle" BY DEF Idle, Outside
<1>4. \A g \in Fibers : Same(g) \/ Ended(g) BY <1>2, <1>3 DEF Same, Ended, InCall
<1>5. UNCHANGED <<files, file, ctx>> BY DEF SetFlags
<1>6. \A d \in Fds : nonblock[d] \/ d \in exposed => nonblock'[d] \/ d \in exposed'
  BY <1>1, <1>2 DEF SetFlags
<1>7. QED BY <1>4, <1>5, <1>6, QuietTable DEF SameEntry
----------------------------------------------------------------------------
(* Opening and closing.                                                     *)

\* A step of f, the one fiber that opens or closes fd, or begins to.
LEMMA HandlerTable ==
  ASSUME TableInv, Inv', NEW f \in Fibers, NEW fd \in Fds,
         \A g \in Fibers \ {f} : Same(g),
         call[f].at \notin InCall, call'[f].at \notin InCall,
         call[f].op \in {"open", "close"} => call[f].fd = fd,
         call'[f].op \in {"open", "close"} => call'[f].fd = fd,
         \A g \in Fibers \ {f} : call[g].op \in {"open", "close"} => call[g].fd # fd,
         files' \in Nat, files <= files',
         \A d \in Fds \ {fd} : file'[d] = file[d] /\ ctx'[d] = ctx[d] /\ nonblock'[d] = nonblock[d],
         \A d \in Fds \ {fd} : d \in exposed => d \in exposed', call'[f].at # "clear",
         HandlerOK(f)', EntryOK(fd)',
         \A g \in Fibers :
           (/\ call[g].at \in InCall /\ call[g].fd = fd /\ call[g].hooked
            /\ call[g].file # 0 /\ file'[fd] = call[g].file)
           => ctx'[fd] # None \/ Closing(fd)'
  PROVE  TableInv'
<1>1. Inv /\ \A g \in Fibers : call[g] \in Calls BY DEF TableInv, Inv, TypeOK
<1>2. ASSUME NEW d \in Fds, d # fd
      PROVE  (Handled(d)' <=> Handled(d)) /\ (Closing(d)' <=> Closing(d))
  BY <1>2 DEF Handled, Closing, Same
<1>3. ASSUME NEW g \in Fibers PROVE HandlerOK(g)'
  <2>1. CASE g = f BY <2>1
  <2>2. CASE g # f
    <3>1. SUFFICES ASSUME call'[g].op \in {"open", "close"} PROVE HandlerOK(g)' BY DEF HandlerOK
    <3>2. Same(g) /\ call[g].op \in {"open", "close"} BY <2>2, <3>1 DEF Same
    <3>3. call[g].at \notin InCall /\ call[g].fd \in Fds \ {fd}
      BY <1>1, <2>2, <3>2, OpAt DEF Handling, InCall
    <3>4. HandlerOK(g) BY DEF TableInv
    <3>5. QED BY <3>2, <3>3, <3>4 DEF HandlerOK, Same
  <2>3. QED BY <2>1, <2>2
<1>4. ASSUME NEW g \in Fibers PROVE CallerOK(g)'
  <2>1. SUFFICES ASSUME call'[g].at \in InCall PROVE CallerOK(g)' BY DEF CallerOK
  <2>2. g # f /\ Same(g) BY <2>1
  <2>3. call[g].at \in InCall /\ call[g].fd \in Fds BY <1>1, <2>1, <2>2, OpAt DEF Same
  <2>4. CallerOK(g) BY DEF TableInv
  <2>5. PICK d \in Fds : d = call[g].fd BY <2>3
  <2>6. call'[g].fd = d /\ call'[g].file = call[g].file /\ call'[g].hooked = call[g].hooked
    BY <2>2, <2>5 DEF Same
  <2>7. Closing(call[g].fd)' <=> Closing(d)' BY <2>6 DEF Closing
  <2>8. call[g].file \in Nat /\ files \in Nat BY <1>1, <2>3, InCallFields DEF Inv, TypeOK
  <2>9. call'[g].file <= files' BY <2>3, <2>4, <2>6, <2>8 DEF CallerOK
  <2>10. CASE d = fd
    <3>1. call[g].hooked /\ call[g].file # 0 /\ file'[fd] = call[g].file => ctx'[fd] # None \/ Closing(fd)'
      BY <2>3, <2>5, <2>10
    <3>2. Closing(fd)' => Closing(call[g].fd)' BY <2>7, <2>10
    <3>3. QED BY <2>6, <2>9, <2>10, <3>1, <3>2 DEF CallerOK
  <2>11. CASE d # fd
    <3>1. (Closing(d)' <=> Closing(d)) /\ file'[d] = file[d] /\ ctx'[d] = ctx[d] BY <1>2, <2>11
    <3>2. QED BY <2>3, <2>4, <2>5, <2>6, <2>7, <2>9, <3>1 DEF CallerOK
  <2>12. QED BY <2>10, <2>11
<1>5. OneHandler'
  <2> SUFFICES ASSUME NEW g \in Fibers, NEW h \in Fibers, g # h,
                      call'[g].op \in {"open", "close"}, call'[h].op \in {"open", "close"}
               PROVE  call'[g].fd # call'[h].fd
    BY DEF OneHandler
  <2>1. CASE g = f BY <2>1 DEF Same
  <2>2. CASE h = f BY <2>2 DEF Same
  <2>3. CASE g # f /\ h # f BY <2>3 DEF Same, TableInv, OneHandler
  <2>4. QED BY <2>1, <2>2, <2>3
<1>6. ASSUME NEW d \in Fds PROVE EntryOK(d)'
  <2>1. CASE d = fd BY <2>1
  <2>2. CASE d # fd
    <3>1. EntryOK(d) /\ file[d] \in Nat /\ files \in Nat BY <1>1 DEF TableInv, Inv, TypeOK
    <3>2. (Handled(d)' <=> Handled(d)) /\ (Closing(d)' <=> Closing(d)) /\ file'[d] = file[d] /\ ctx'[d] = ctx[d] /\ nonblock'[d] = nonblock[d]
      BY <1>2, <2>2
    <3>3. file'[d] <= files' BY <3>1, <3>2 DEF EntryOK
    <3>4. d \in exposed => d \in exposed' BY <2>2
    <3>5. QED BY <3>1, <3>2, <3>3, <3>4 DEF EntryOK
  <2>3. QED BY <2>1, <2>2
<1>7. NeverClears' BY DEF TableInv, NeverClears, Same, InCall
<1>8. QED BY <1>3, <1>4, <1>5, <1>6, <1>7 DEF TableInv

LEMMA OpenTable == ASSUME TableInv, Inv', NEW f \in Fibers, NEW fd \in Fds, Open(f, fd) PROVE TableInv'
<1>1. /\ Inv /\ call \in [Fibers -> Calls] /\ file \in [Fds -> 0..MaxFiles] /\ files \in Nat
      /\ ctx \in [Fds -> Entries \cup {None}] /\ nonblock \in [Fds -> BOOLEAN]
  BY DEF TableInv, Inv, TypeOK
<1>2. call[f].at = "idle" /\ file[fd] = 0 BY DEF Open, At
<1>3. ~Handled(fd) BY <1>2 DEF TableInv, HandlerOK, Handled
<1>4. ctx[fd] = None BY <1>2, <1>3 DEF TableInv, EntryOK
<1> DEFINE c == Outside("get", "open", fd)
<1>5. c.at = "get" /\ c.op = "open" /\ c.fd = fd BY DEF Outside
<1>6. call' = [call EXCEPT ![f] = c] BY DEF Open
<1> HIDE DEF c
<1>7. call'[f] = c /\ \A g \in Fibers \ {f} : call'[g] = call[g] BY <1>1, <1>6
<1>8. \A g \in Fibers \ {f} : Same(g) BY <1>7 DEF Same
<1>9. /\ files' = files + 1 /\ file'[fd] = files + 1 /\ ctx' = ctx
      /\ \A d \in Fds \ {fd} : file'[d] = file[d] /\ nonblock'[d] = nonblock[d]
      /\ UNCHANGED exposed
  BY <1>1 DEF Open
<1>10. HandlerOK(f)' BY <1>1, <1>4, <1>5, <1>7, <1>9 DEF HandlerOK
<1>11. EntryOK(fd)'
  <2>1. Handled(fd)' BY <1>5, <1>7 DEF Handled
  <2>2. ~Closing(fd)' BY <1>3, <1>5, <1>7 DEF Closing, Handled
  <2>3. QED BY <1>1, <1>4, <1>9, <2>1, <2>2 DEF EntryOK
<1>12. ASSUME NEW g \in Fibers, call[g].at \in InCall PROVE file'[fd] # call[g].file
  <2>1. call[g].file <= files /\ call[g].file \in Nat
    BY <1>1, <1>12, InCallFields DEF TableInv, CallerOK
  <2>2. QED BY <1>1, <1>9, <2>1
<1>13. call[f].op \notin {"open", "close"} BY <1>1, <1>2, OpAt DEF Handling
<1>14. \A g \in Fibers \ {f} : call[g].op \in {"open", "close"} => call[g].fd # fd BY <1>3 DEF Handled
<1>15. files' \in Nat /\ files <= files' BY <1>1, <1>9
<1>16. QED BY <1>2, <1>5, <1>7, <1>8, <1>9, <1>10, <1>11, <1>12, <1>13, <1>14, <1>15, HandlerTable
           DEF InCall

\* What is known of a fiber that opens or closes.
LEMMA HandlerFacts ==
  ASSUME TableInv, NEW f \in Fibers, call[f].at \in Handling
  PROVE  /\ call[f].at \notin InCall /\ call[f].op \in {"open", "close"} /\ call[f].fd \in Fds
         /\ file[call[f].fd] # 0
         /\ call[f].at \in {"get", "create"} <=> call[f].op = "open"
         /\ call[f].at \in {"get", "create", "close"} => ctx[call[f].fd] = None
         /\ \A g \in Fibers \ {f} : call[g].op \in {"open", "close"} => call[g].fd # call[f].fd
<1>1. call[f] \in Calls BY DEF TableInv, Inv, TypeOK
<1>2. call[f].at \notin InCall /\ call[f].op \in {"open", "close"} /\ call[f].fd \in Fds
  BY <1>1, OpAt DEF Handling, InCall
<1>3. QED BY <1>2 DEF TableInv, HandlerOK, OneHandler

\* get() finds no entry: create() follows.
LEMMA GetTable == ASSUME TableInv, Inv', NEW f \in Fibers, Get(f) PROVE TableInv'
<1>1. Inv /\ call[f].at = "get" /\ files \in Nat BY DEF TableInv, Inv, TypeOK, Get, At
<1>2. PICK fd \in Fds : fd = call[f].fd BY <1>1, HandlerFacts DEF Handling
<1>3. /\ call[f].at \notin InCall /\ call[f].op = "open" /\ file[fd] # 0 /\ ctx[fd] = None
      /\ \A g \in Fibers \ {f} : call[g].op \in {"open", "close"} => call[g].fd # fd
  BY <1>1, <1>2, HandlerFacts DEF Handling
<1>4. Goto(f, "create") BY <1>2, <1>3 DEF Get
<1>5. /\ call'[f].at = "create" /\ call'[f].op = "open" /\ call'[f].fd = fd
      /\ \A g \in Fibers \ {f} : call'[g] = call[g]
  BY <1>1, <1>2, <1>3, <1>4, GotoOnKeeps
<1>6. UNCHANGED <<files, file, ctx, nonblock, exposed>> BY DEF Get
<1>7. \A g \in Fibers \ {f} : Same(g) BY <1>5 DEF Same
<1>8. HandlerOK(f)' BY <1>3, <1>5, <1>6 DEF HandlerOK
<1>9. EntryOK(fd)'
  <2>1. Handled(fd)' /\ ~Closing(fd)' BY <1>3, <1>5 DEF Handled, Closing
  <2>2. QED BY <1>3, <1>6, <2>1 DEF EntryOK, TableInv
<1>10. ~Closing(fd) BY <1>2, <1>3 DEF Closing
<1>11. \A g \in Fibers :
         (/\ call[g].at \in InCall /\ call[g].fd = fd /\ call[g].hooked
          /\ call[g].file # 0 /\ file'[fd] = call[g].file) => FALSE
  BY <1>3, <1>6, <1>10 DEF TableInv, CallerOK
<1>12. QED BY <1>1, <1>2, <1>3, <1>5, <1>6, <1>7, <1>8, <1>9, <1>11, HandlerTable DEF InCall

\* init() makes the descriptor non-blocking together with the entry.
LEMMA CreateTable == ASSUME TableInv, Inv', NEW f \in Fibers, Create(f) PROVE TableInv'
<1>1. /\ Inv /\ call[f].at = "create" /\ files \in Nat /\ file \in [Fds -> 0..MaxFiles]
      /\ ctx \in [Fds -> Entries \cup {None}] /\ nonblock \in [Fds -> BOOLEAN]
  BY DEF TableInv, Inv, TypeOK, Create, At
<1>2. PICK fd \in Fds : fd = call[f].fd BY <1>1, HandlerFacts DEF Handling
<1>3. /\ call[f].at \notin InCall /\ call[f].op = "open" /\ file[fd] # 0
      /\ \A g \in Fibers \ {f} : call[g].op \in {"open", "close"} => call[g].fd # fd
  BY <1>1, <1>2, HandlerFacts DEF Handling
<1>4. NewCtx(fd) \in Entries /\ NewCtx(fd).file = file[fd] BY <1>1 DEF NewCtx, Entries
<1>5. /\ ctx'[fd] = NewCtx(fd) /\ nonblock'[fd] = TRUE /\ UNCHANGED <<files, file>>
      /\ \A d \in Fds \ {fd} : ctx'[d] = ctx[d] /\ nonblock'[d] = nonblock[d]
      /\ \A d \in Fds \ {fd} : d \in exposed => d \in exposed'
  <2>1. ctx' = [ctx EXCEPT ![fd] = NewCtx(fd)] /\ nonblock' = [nonblock EXCEPT ![fd] = TRUE]
    BY <1>2 DEF Create
  <2>2. QED BY <1>1, <1>2, <2>1 DEF Create
<1>6. ctx'[fd] # None /\ ctx'[fd].file = file[fd] BY <1>4, <1>5
<1>7. call'[f] = Idle /\ \A g \in Fibers \ {f} : call'[g] = call[g] BY <1>1, LeaveKeeps DEF Create
<1>8. call'[f].op = "none" /\ call'[f].at = "idle" BY <1>7 DEF Idle, Outside
<1>9. \A g \in Fibers \ {f} : Same(g) BY <1>7 DEF Same
<1>10. HandlerOK(f)' BY <1>8 DEF HandlerOK
<1>11. EntryOK(fd)' BY <1>3, <1>5, <1>6 DEF EntryOK, TableInv
<1>12. QED BY <1>1, <1>2, <1>3, <1>5, <1>6, <1>8, <1>9, <1>10, <1>11, HandlerTable DEF InCall

LEMMA BeginCloseTable ==
  ASSUME TableInv, Inv', NEW f \in Fibers, NEW fd \in Fds, BeginClose(f, fd) PROVE TableInv'
<1>1. Inv /\ call \in [Fibers -> Calls] /\ files \in Nat BY DEF TableInv, Inv, TypeOK
<1>2. /\ call[f].at = "idle" /\ file[fd] # 0
      /\ \A g \in Fibers : call[g].op \in {"open", "close"} => call[g].fd # fd
  BY DEF BeginClose, At
<1> DEFINE w == IF ctx[fd] = None THEN "close" ELSE "cancel"
           c == Outside(w, "close", fd)
<1>3. c.at = w /\ c.op = "close" /\ c.fd = fd BY DEF Outside
<1>4. call' = [call EXCEPT ![f] = c] BY DEF BeginClose
<1>5. w \in {"close", "cancel"} /\ (w = "close" => ctx[fd] = None) OBVIOUS
<1> HIDE DEF c, w
<1>6. call'[f] = c /\ \A g \in Fibers \ {f} : call'[g] = call[g] BY <1>1, <1>4
<1>7. \A g \in Fibers \ {f} : Same(g) BY <1>6 DEF Same
<1>8. UNCHANGED <<files, file, ctx, nonblock, exposed>> BY DEF BeginClose
<1>9. HandlerOK(f)' BY <1>2, <1>3, <1>5, <1>6, <1>8 DEF HandlerOK
<1>10. Handled(fd)' /\ Closing(fd)' BY <1>3, <1>6 DEF Handled, Closing
<1>11. EntryOK(fd)'
  <2>1. ~Handled(fd) BY <1>2 DEF Handled
  <2>2. QED BY <1>2, <1>8, <1>10, <2>1 DEF EntryOK, TableInv
<1>12. call[f].op \notin {"open", "close"} BY <1>1, <1>2, OpAt DEF Handling
<1>13. QED BY <1>1, <1>2, <1>3, <1>5, <1>6, <1>7, <1>8, <1>9, <1>10, <1>11, <1>12, HandlerTable DEF InCall

\* The events are cancelled, which moves only fibers that wait.
LEMMA CancelAllTable == ASSUME TableInv, Inv', NEW f \in Fibers, CancelAll(f) PROVE TableInv'
<1>1. Inv /\ call[f].at = "cancel" /\ files \in Nat /\ call[f] \in Calls
  BY DEF TableInv, Inv, TypeOK, CancelAll, At
<1>2. PICK fd \in Fds : fd = call[f].fd BY <1>1, HandlerFacts DEF Handling
<1>3. /\ call[f].at \notin InCall /\ call[f].op = "close" /\ file[fd] # 0
      /\ \A g \in Fibers \ {f} : call[g].op \in {"open", "close"} => call[g].fd # fd
  BY <1>1, <1>2, HandlerFacts DEF Handling
<1>4. call'[f] = [call[f] EXCEPT !.at = "del"]
  <2>1. PICK S : call' = [g \in Fibers |-> IF g = f THEN [call[f] EXCEPT !.at = "del"]
                                         ELSE Roused(call[f].fd, S, g)]
    BY DEF CancelAll
  <2>2. QED BY <2>1
<1>5. call'[f].at = "del" /\ call'[f].op = "close" /\ call'[f].fd = fd
  BY <1>1, <1>2, <1>3, <1>4, MovedOn
<1>6. \A g \in Fibers \ {f} : Same(g) BY <1>1, CancelAllInv, RousedSame
<1>7. UNCHANGED <<files, file, ctx, nonblock, exposed>> BY DEF CancelAll
<1>8. HandlerOK(f)' BY <1>3, <1>5, <1>7 DEF HandlerOK
<1>9. Handled(fd)' /\ Closing(fd)' BY <1>5 DEF Handled, Closing
<1>10. EntryOK(fd)'
  <2>1. Closing(fd) BY <1>2, <1>3 DEF Closing
  <2>2. QED BY <1>7, <1>9, <2>1 DEF EntryOK, TableInv
<1>11. QED BY <1>1, <1>2, <1>3, <1>5, <1>6, <1>7, <1>8, <1>9, <1>10, HandlerTable DEF InCall

LEMMA DelTable == ASSUME TableInv, Inv', NEW f \in Fibers, Del(f) PROVE TableInv'
<1>1. /\ Inv /\ call[f].at = "del" /\ files \in Nat /\ ctx \in [Fds -> Entries \cup {None}]
  BY DEF TableInv, Inv, TypeOK, Del, At
<1>2. PICK fd \in Fds : fd = call[f].fd BY <1>1, HandlerFacts DEF Handling
<1>3. /\ call[f].at \notin InCall /\ call[f].op = "close" /\ file[fd] # 0
      /\ \A g \in Fibers \ {f} : call[g].op \in {"open", "close"} => call[g].fd # fd
  BY <1>1, <1>2, HandlerFacts DEF Handling
<1>4. /\ call'[f].at = "close" /\ call'[f].op = "close" /\ call'[f].fd = fd
      /\ \A g \in Fibers \ {f} : call'[g] = call[g]
  BY <1>1, <1>2, <1>3, GotoOnKeeps DEF Del
<1>5. \A g \in Fibers \ {f} : Same(g) BY <1>4 DEF Same
<1>6. /\ ctx'[fd] = None /\ UNCHANGED <<files, file, nonblock, exposed>>
      /\ \A d \in Fds \ {fd} : ctx'[d] = ctx[d]
  BY <1>1, <1>2 DEF Del
<1>7. HandlerOK(f)' BY <1>3, <1>4, <1>6 DEF HandlerOK
<1>8. Handled(fd)' /\ Closing(fd)' BY <1>4 DEF Handled, Closing
<1>9. EntryOK(fd)'
  <2>1. Closing(fd) BY <1>2, <1>3 DEF Closing
  <2>2. QED BY <1>6, <1>8, <2>1 DEF EntryOK, TableInv
<1>10. QED BY <1>1, <1>2, <1>3, <1>4, <1>5, <1>6, <1>7, <1>8, <1>9, HandlerTable DEF InCall

LEMMA CloseTable == ASSUME TableInv, Inv', NEW f \in Fibers, Close(f) PROVE TableInv'
<1>1. /\ Inv /\ call[f].at = "close" /\ files \in Nat /\ file \in [Fds -> 0..MaxFiles]
      /\ nonblock \in [Fds -> BOOLEAN]
  BY DEF TableInv, Inv, TypeOK, Close, At
<1>2. PICK fd \in Fds : fd = call[f].fd BY <1>1, HandlerFacts DEF Handling
<1>3. /\ call[f].at \notin InCall /\ call[f].op = "close" /\ ctx[fd] = None
      /\ \A g \in Fibers \ {f} : call[g].op \in {"open", "close"} => call[g].fd # fd
  BY <1>1, <1>2, HandlerFacts DEF Handling
<1>4. /\ file'[fd] = 0 /\ UNCHANGED <<files, ctx>>
      /\ \A d \in Fds \ {fd} : file'[d] = file[d] /\ nonblock'[d] = nonblock[d]
      /\ \A d \in Fds \ {fd} : d \in exposed => d \in exposed'
  <2>1. file' = [file EXCEPT ![fd] = 0] /\ nonblock' = [nonblock EXCEPT ![fd] = FALSE]
    BY <1>2 DEF Close
  <2>2. QED BY <1>1, <1>2, <2>1 DEF Close
<1>5. call'[f] = Idle /\ \A g \in Fibers \ {f} : call'[g] = call[g] BY <1>1, LeaveKeeps DEF Close
<1>6. call'[f].op = "none" /\ call'[f].at = "idle" BY <1>5 DEF Idle, Outside
<1>7. \A g \in Fibers \ {f} : Same(g) BY <1>5 DEF Same
<1>8. HandlerOK(f)' BY <1>6 DEF HandlerOK
<1>9. EntryOK(fd)'
  <2>1. ctx'[fd] = None BY <1>3, <1>4
  <2>2. file'[fd] <= files' BY <1>1, <1>4
  <2>3. ~Closing(fd)' BY <1>3, <1>5, <1>6 DEF Closing
  <2>4. QED BY <1>4, <2>1, <2>2, <2>3 DEF EntryOK
<1>10. \A g \in Fibers : ~(call[g].file # 0 /\ file'[fd] = call[g].file) BY <1>4
<1>11. files' \in Nat /\ files <= files' BY <1>1, <1>4
<1>12. call'[f].at \notin InCall /\ call'[f].op \notin {"open", "close"} /\ call'[f].at # "clear"
  BY <1>6 DEF InCall
<1>13. QED BY <1>2, <1>3, <1>4, <1>7, <1>8, <1>9, <1>10, <1>11, <1>12, HandlerTable

\* The table decides whether the library carries the call out.
LEMMA BeginTable ==
  ASSUME TableInv, Inv', NEW f \in Fibers, NEW op \in {"io", "connect"}, NEW fd \in Fds, NEW e \in EV,
         NEW b \in BOOLEAN, Begin(f, op, fd, e, b)
  PROVE  TableInv'
<1>1. Inv /\ call \in [Fibers -> Calls] BY DEF TableInv, Inv, TypeOK
<1>2. UNCHANGED <<files, file, ctx, nonblock, exposed>> BY DEF Begin
<1>3. call[f].at = "idle" BY DEF Begin, At
<1>4. \A g \in Fibers \ {f} : call'[g] = call[g] BY <1>1, BeginInv
<1>5. /\ call'[f].op = op /\ call'[f].fd = fd /\ call'[f].file = file[fd]
      /\ call'[f].hooked => ctx[fd] # None
  <2> DEFINE hooked == IF ctx[fd] = None THEN FALSE ELSE ~ctx[fd].usr
             where == IF ctx[fd] = None /\ op = "connect" THEN "refuse"
                      ELSE IF hooked THEN "try" ELSE "direct"
             timed == IF ~hooked THEN FALSE ELSE IF op = "connect" THEN b ELSE ctx[fd].to[e]
             c == [at |-> where, op |-> op, fd |-> fd, ev |-> e, file |-> file[fd],
                   hooked |-> hooked, timed |-> timed]
  <2>1. call' = [call EXCEPT ![f] = c] BY DEF Begin
  <2>2. hooked => ctx[fd] # None OBVIOUS
  <2> HIDE DEF where, hooked, timed
  <2>3. c.op = op /\ c.fd = fd /\ c.file = file[fd] /\ c.hooked = hooked OBVIOUS
  <2> HIDE DEF c
  <2>4. call'[f] = c BY <1>1, <2>1
  <2>5. QED BY <2>2, <2>3, <2>4
<1>6. call[f].op \notin {"open", "close"} /\ call'[f].op \notin {"open", "close"}
  BY <1>1, <1>3, <1>5, OpAt DEF Handling
<1>7. \A d \in Fds : (Handled(d)' <=> Handled(d)) /\ (Closing(d)' <=> Closing(d))
  BY <1>4, <1>6 DEF Handled, Closing
<1>8. \A d \in Fds : EntryOK(d)' BY <1>2, <1>7 DEF TableInv, EntryOK
<1>9. OneHandler' BY <1>4, <1>6 DEF TableInv, OneHandler
<1>10. \A g \in Fibers : HandlerOK(g)' BY <1>2, <1>4, <1>6 DEF TableInv, HandlerOK
<1>11. ASSUME NEW g \in Fibers PROVE CallerOK(g)'
  <2>1. CASE g = f BY <1>2, <1>5, <2>1 DEF TableInv, CallerOK, EntryOK
  <2>2. CASE g # f
    <3>1. SUFFICES ASSUME call[g].at \in InCall PROVE CallerOK(g)' BY <1>4, <2>2 DEF CallerOK
    <3>2. PICK d \in Fds : d = call[g].fd BY <1>1, <3>1, OpAt
    <3>3. call'[g] = call[g] /\ (Closing(d)' <=> Closing(d)) BY <1>4, <1>7, <2>2
    <3>4. Closing(call[g].fd)' <=> Closing(call[g].fd) BY <3>2, <3>3 DEF Closing
    <3>5. CallerOK(g) BY DEF TableInv
    <3>6. QED BY <1>2, <3>3, <3>4, <3>5 DEF CallerOK
  <2>3. QED BY <2>1, <2>2
<1>12. NeverClears'
  <2>1. call'[f].at \in InCall BY <1>1, BeginInv DEF Waits
  <2>2. QED BY <1>4, <2>1 DEF TableInv, NeverClears, InCall
<1>13. QED BY <1>8, <1>9, <1>10, <1>11, <1>12 DEF TableInv
----------------------------------------------------------------------------
(* The theorems.                                                            *)

LEMMA TableStep == ASSUME TableInv, Next PROVE TableInv'
<1>1. Inv' BY InvStep DEF TableInv
<1>2. ASSUME NEW f \in Fibers, Request(f) PROVE TableInv'
  BY <1>1, <1>2, OpenTable, BeginCloseTable, BeginTable, FlagsTable DEF Request
<1>3. ASSUME NEW f \in Fibers, FiberStep(f) PROVE TableInv'
  BY <1>1, <1>3, GetTable, CreateTable, CallTable, CancelAllTable, DelTable, CloseTable,
     SetFlagsTable DEF FiberStep
<1>4. QED BY <1>1, <1>2, <1>3, EventTable, OptionTable DEF Next

LEMMA TableStutter == ASSUME TableInv, UNCHANGED vars PROVE TableInv'
<1>1. Inv' BY InvStutter DEF TableInv
<1>2. UNCHANGED <<files, file, ctx, nonblock, exposed, call>> BY DEF vars
<1>3. QED BY <1>1, <1>2, QuietTable DEF Same, SameEntry

LEMMA TableInit == ASSUME Init PROVE TableInv
<1>1. Inv BY InvInit
<1>2. \A f \in Fibers : call[f].at = "idle" /\ call[f].op = "none" BY DEF Init, Idle, Outside
<1>3. \A f \in Fibers : HandlerOK(f) /\ CallerOK(f) BY <1>2 DEF HandlerOK, CallerOK, InCall
<1>4. OneHandler BY <1>2 DEF OneHandler
<1>5. \A fd \in Fds : EntryOK(fd)
  <2>1. \A fd \in Fds : ~Closing(fd) BY <1>2 DEF Closing
  <2>2. QED BY <2>1 DEF Init, EntryOK
<1>6. NeverClears BY <1>2 DEF NeverClears
<1>7. QED BY <1>1, <1>3, <1>4, <1>5, <1>6 DEF TableInv

LEMMA TableAlways == Spec => []TableInv
<1>1. TableInv /\ [Next]_vars => TableInv' BY TableStep, TableStutter
<1>2. QED BY TableInit, <1>1, PTL DEF Spec

\* Whatever fibers open, close and use under whatever numbers, at the same
\* time: the entry that FdManager holds for a descriptor is that of the file
\* now open under it, every open file has one, and no closed one leaves one
\* behind, except while the descriptor is being opened or closed.
THEOREM FreshTheorem == Spec => []EntriesFresh
<1>1. TableInv => EntriesFresh
  <2> SUFFICES ASSUME TableInv, NEW fd \in Fds,
                      \A f \in Fibers : call[f].op \in {"open", "close"} => call[f].fd # fd
               PROVE  IF file[fd] = 0 THEN ctx[fd] = None
                      ELSE ctx[fd] # None /\ ctx[fd].file = file[fd]
    BY DEF EntriesFresh
  <2>1. ~Handled(fd) BY DEF Handled
  <2>2. QED BY <2>1 DEF TableInv, EntryOK
<1>2. QED BY TableAlways, <1>1, PTL

\* Whatever fibers open, close, use and change the flags of at the same time,
\* fun() is called on a non-blocking file by every hooked call, also while
\* the descriptor is being closed: a fiber that would block its thread, and
\* every fiber of that thread, yields instead. Only ioctl(FIONBIO) with 0 and
\* an fcntl() that found no entry make a descriptor blocking.
THEOREM NonblockTheorem == Spec => []NeverBlocksThread
<1>1. TableInv => NeverBlocksThread
  <2> SUFFICES ASSUME TableInv, NEW f \in Fibers, call[f].at = "try", call[f].file # 0,
                      file[call[f].fd] = call[f].file, call[f].fd \notin exposed
               PROVE  nonblock[call[f].fd]
    BY DEF NeverBlocksThread
  <2>1. call[f] \in Calls /\ call[f].hooked BY DEF TableInv, Inv, TypeOK, Hooked
  <2>2. call[f].at \in InCall /\ call[f].fd \in Fds BY <2>1, OpAt DEF InCall
  <2>3. ctx[call[f].fd] # None \/ Closing(call[f].fd) BY <2>1, <2>2 DEF TableInv, CallerOK
  <2>4. QED BY <2>2, <2>3 DEF TableInv, EntryOK
<1>2. QED BY TableAlways, <1>1, PTL
----------------------------------------------------------------------------
(* The refinement.                                                          *)

USE DEF Promise!vars

\* Nothing changes that the caller could see.
LEMMA Unseen ==
  ASSUME UNCHANGED <<file, ready, result>>,
         \A g \in Fibers : Doing(g)' = Doing(g) /\ Elapsed(g)' = Elapsed(g)
  PROVE  UNCHANGED Promise!vars
OBVIOUS

\* A fiber whose call and timeout remain what they are.
LEMMA SameCall ==
  ASSUME NEW g \in Fibers,
         call'[g].at \in InCall <=> call[g].at \in InCall,
         call[g].at \in InCall =>
           /\ call'[g].op = call[g].op /\ call'[g].fd = call[g].fd /\ call'[g].ev = call[g].ev
           /\ call'[g].hooked = call[g].hooked /\ call'[g].timed = call[g].timed
           /\ cancelled'[g] \/ <<g, num'[g]>> \in due' <=> cancelled[g] \/ <<g, num[g]>> \in due
  PROVE  Doing(g)' = Doing(g) /\ Elapsed(g)' = Elapsed(g)
BY DEF Doing, Elapsed

\* A fiber that starts or ends open() or close(), or moves in it.
LEMMA OutsideUnseen ==
  ASSUME NEW f \in Fibers, call[f].at \notin InCall, call'[f].at \notin InCall,
         \A g \in Fibers \ {f} : call'[g] = call[g], UNCHANGED <<cancelled, num, due>>
  PROVE  \A g \in Fibers : Doing(g)' = Doing(g) /\ Elapsed(g)' = Elapsed(g)
BY SameCall

\* Nothing but a wake-up.
LEMMA WakeUnseen ==
  ASSUME Inv, NEW fd \in Fds, NEW S \in SUBSET EV, NEW h,
         \A g \in Fibers \ {h} : call'[g] = Roused(fd, S, g),
         h \in Fibers => call[h].at \notin InCall /\ call'[h].at \notin InCall,
         UNCHANGED <<num, cancelled, due>>
  PROVE  \A g \in Fibers : Doing(g)' = Doing(g) /\ Elapsed(g)' = Elapsed(g)
<1> SUFFICES ASSUME NEW g \in Fibers PROVE Doing(g)' = Doing(g) /\ Elapsed(g)' = Elapsed(g) OBVIOUS
<1>1. CASE g = h BY <1>1, SameCall
<1>2. CASE g # h
  <2>1. /\ call'[g].at \in InCall <=> call[g].at \in InCall
        /\ call'[g].op = call[g].op /\ call'[g].fd = call[g].fd /\ call'[g].ev = call[g].ev
        /\ call'[g].hooked = call[g].hooked /\ call'[g].timed = call[g].timed
    <3>1. call'[g] = Roused(fd, S, g) BY <1>2
    <3>2. /\ Roused(fd, S, g).at \in InCall <=> call[g].at \in InCall
          /\ Roused(fd, S, g).op = call[g].op /\ Roused(fd, S, g).hooked = call[g].hooked
          /\ Roused(fd, S, g).fd = call[g].fd /\ Roused(fd, S, g).ev = call[g].ev
          /\ Roused(fd, S, g).timed = call[g].timed
      BY RousedKeeps
    <3>3. QED BY <3>1, <3>2
  <2>2. QED BY <2>1, SameCall
<1>3. QED BY <1>1, <1>2

\* A step within a call.
LEMMA GotoUnseen ==
  ASSUME Inv, NEW f \in Fibers, NEW w \in InCall, call[f].at \in InCall, Goto(f, w),
         UNCHANGED <<num, cancelled, due>>
  PROVE  \A g \in Fibers : Doing(g)' = Doing(g) /\ Elapsed(g)' = Elapsed(g)
BY GotoKeeps, SameCall

\* The call of f returns r.
LEMMA Returned ==
  ASSUME Inv, NEW f \in Fibers, NEW r \in Results \ {"none"}, call[f].at \in InCall, Return(f, r),
         UNCHANGED <<file, num, due>>,
         LET c == call[f] IN
           \/ r = "done" /\ c.ev \in ready[c.fd]
           \/ r = "ETIMEDOUT" /\ c.hooked /\ Elapsed(f)
           \/ r = "EAGAIN" /\ ~c.hooked
           \/ r = "EBADF" /\ (file[c.fd] # 0 => ~c.hooked /\ c.op = "connect")
           \/ r = "ENOMEM" /\ c.hooked /\ c.op = "io"
           \/ r = "unsure" /\ c.hooked /\ c.op = "connect",
         \/ UNCHANGED ready
         \/ r = "done" /\ ready' = [ready EXCEPT ![call[f].fd] = @ \ {call[f].ev}]
  PROVE  Promise!Next
<1>1. call \in [Fibers -> Calls] /\ call[f] \in Calls BY DEF Inv, TypeOK
<1>2. /\ call[f].op \in {"io", "connect"} /\ call[f].fd \in Fds /\ call[f].ev \in EV
      /\ call[f].hooked \in BOOLEAN /\ call[f].timed \in BOOLEAN
  BY <1>1, InCallFields
<1>3. Doing(f) # None /\ Doing(f).op = call[f].op /\ Doing(f).fd = call[f].fd
      /\ Doing(f).ev = call[f].ev /\ Doing(f).hooked = call[f].hooked
  BY <1>2 DEF Doing
<1>4. /\ \A g \in Fibers \ {f} : call'[g] = call[g]
      /\ call'[f].at \notin InCall
  BY LeaveKeeps DEF Return
<1>5. \A g \in Fibers \ {f} : cancelled'[g] = cancelled[g] BY DEF Return, Inv, TypeOK
<1>6. \A g \in Fibers \ {f} : Doing(g)' = Doing(g) /\ Elapsed(g)' = Elapsed(g)
  BY <1>4, <1>5, SameCall
<1>7. Doing(f)' = None /\ Elapsed(f)' = FALSE BY <1>4 DEF Doing, Elapsed
<1>8. result' = [g \in Fibers |-> IF g = f THEN r ELSE "none"] BY DEF Return
<1>9. Promise!Justified(f, r) BY <1>2, <1>3 DEF Promise!Justified
<1>10. Promise!Return(f, r)
  BY <1>3, <1>6, <1>7, <1>8, <1>9 DEF Promise!Return
<1>11. QED BY <1>10 DEF Promise!Next, Results

Kept == [Promise!Next]_(Promise!vars)

\* open(), with the table that goes with it.
LEMMA OpenKept == ASSUME Inv, NEW f \in Fibers, NEW fd \in Fds, Open(f, fd) PROVE Kept
<1>1. call \in [Fibers -> Calls] /\ call[f].at \notin InCall BY DEF Open, At, InCall, Inv, TypeOK
<1>2. call'[f].at \notin InCall /\ \A g \in Fibers \ {f} : call'[g] = call[g]
  BY <1>1 DEF Open, Outside, InCall
<1>3. \A g \in Fibers : Doing(g)' = Doing(g) /\ Elapsed(g)' = Elapsed(g)
  BY <1>1, <1>2, OutsideUnseen DEF Open
<1>4. \A d \in Fds : (file'[d] # 0) = IF d = fd THEN TRUE ELSE (file[d] # 0)
  <2>1. file' = [file EXCEPT ![fd] = files + 1] /\ file \in [Fds -> 0..MaxFiles] /\ files \in Nat
    BY DEF Open, Inv, TypeOK
  <2>2. files + 1 # 0 BY <2>1
  <2>3. file'[fd] # 0 /\ \A d \in Fds \ {fd} : file'[d] = file[d] BY <2>1, <2>2
  <2>4. QED BY <2>3
<1>5. file[fd] = 0 /\ ready' = [ready EXCEPT ![fd] = {}] /\ UNCHANGED result BY DEF Open
<1>6. Promise!Open(fd) BY <1>3, <1>4, <1>5 DEF Promise!Open
<1>7. QED BY <1>6 DEF Kept, Promise!Next

\* close_f(), or a second one of it.
LEMMA CloseKept == ASSUME Inv, NEW f \in Fibers, Close(f) PROVE Kept
<1>1. call[f] \in Calls /\ call[f].at = "close" BY DEF Inv, TypeOK, Close, At
<1>2. call[f].fd \in Fds /\ call[f].at \notin InCall BY <1>1, OpenCloseFields
<1> PICK fd \in Fds : fd = call[f].fd BY <1>2
<1>3. call'[f].at \notin InCall /\ \A g \in Fibers \ {f} : call'[g] = call[g]
  BY LeaveKeeps DEF Close
<1>4. \A g \in Fibers : Doing(g)' = Doing(g) /\ Elapsed(g)' = Elapsed(g)
  BY <1>2, <1>3, OutsideUnseen DEF Close
<1>5. \A d \in Fds : (file'[d] # 0) = IF d = fd THEN FALSE ELSE (file[d] # 0)
  BY DEF Close, Inv, TypeOK
<1>6. ready' = [ready EXCEPT ![fd] = {}] /\ UNCHANGED result BY DEF Close
<1>7. CASE file[fd] # 0
  <2>1. Promise!Close(fd) BY <1>2, <1>4, <1>5, <1>6, <1>7 DEF Promise!Close
  <2>2. QED BY <2>1 DEF Kept, Promise!Next
<1>8. CASE file[fd] = 0
  <2>1. ready' = ready BY <1>2, <1>6, <1>8 DEF Inv, TypeOK
  <2>2. \A d \in Fds : (file'[d] # 0) = (file[d] # 0) BY <1>5, <1>8
  <2>3. QED BY <1>4, <1>6, <2>1, <2>2 DEF Kept
<1>9. QED BY <1>7, <1>8

\* A call begins.
LEMMA BeginKept ==
  ASSUME Inv, NEW f \in Fibers, NEW op \in {"io", "connect"}, NEW fd \in Fds, NEW e \in EV,
         NEW b \in BOOLEAN, Begin(f, op, fd, e, b)
  PROVE  Kept
<1>1. /\ call[f].at \notin InCall /\ call'[f] \in Waits
      /\ \A g \in Fibers \ {f} : call'[g] = call[g]
  BY BeginInv
<1>2. call'[f].at \in InCall BY <1>1 DEF Waits
<1>3. Doing(f) = None /\ Doing(f)' \in Promise!Calls BY <1>1, <1>2 DEF Doing, Promise!Calls, Waits
<1>4. \A g \in Fibers \ {f} : num'[g] = num[g] BY DEF Begin, Inv, TypeOK
<1>5. ASSUME NEW g \in Fibers \ {f} PROVE Doing(g)' = Doing(g) /\ Elapsed(g)' = Elapsed(g)
  <2>1. call'[g] = call[g] /\ num'[g] = num[g] /\ UNCHANGED <<cancelled, due>>
    BY <1>1, <1>4 DEF Begin
  <2>2. QED BY <2>1, SameCall
<1>6. Elapsed(f) = FALSE BY <1>1 DEF Elapsed
<1>7. Elapsed(f)' = FALSE
  <2>1. ~cancelled[f] BY <1>1 DEF Inv, Timed
  <2>2. num'[f] = calls + 1 /\ calls \in 0..MaxCalls /\ calls + 1 \in 0..MaxCalls
    BY DEF Begin, Inv, TypeOK
  <2>3. <<f, calls + 1>> \notin due BY <2>2 DEF Inv, Numbered
  <2>4. QED BY <2>1, <2>2, <2>3 DEF Elapsed, Begin
<1>8. result' = [g \in Fibers |-> "none"] /\ UNCHANGED <<file, ready>> BY DEF Begin
<1>9. Promise!Call(f, Doing(f)') BY <1>3, <1>5, <1>6, <1>7, <1>8 DEF Promise!Call
<1>10. QED BY <1>3, <1>9 DEF Kept, Promise!Next

\* The timeout of a call is over.
LEMMA FireKept == ASSUME Inv, NEW f \in Fibers, Fire(f) PROVE Kept
<1>1. timer[f] /\ call[f].at \in InCall /\ call[f].timed BY DEF Fire, Inv, Timed, InCall
<1>2. call[f] \in Calls BY DEF Inv, TypeOK
<1>3. Doing(f) # None /\ Doing(f).timed = call[f].timed /\ Doing(f)' = Doing(f)
  <2>1. /\ call[f].op \in {"io", "connect"} /\ call[f].fd \in Fds /\ call[f].ev \in EV
        /\ call[f].hooked \in BOOLEAN /\ call[f].timed \in BOOLEAN
    BY <1>1, <1>2, InCallFields
  <2>2. Doing(f) # None /\ Doing(f).timed = call[f].timed
    <3>1. call[f].at \in InCall BY <1>1
    <3>2. QED BY <2>1, <3>1 DEF Doing
  <2>3. Doing(f)' = Doing(f) BY DEF Doing, Fire
  <2>4. QED BY <2>2, <2>3
<1>4. Elapsed(f)' = TRUE BY <1>1 DEF Elapsed, Fire
<1>5. ASSUME NEW g \in Fibers \ {f} PROVE Doing(g)' = Doing(g) /\ Elapsed(g)' = Elapsed(g)
  <2>1. <<g, num[g]>> # <<f, num[f]>> OBVIOUS
  <2>2. <<g, num'[g]>> \in due' <=> <<g, num[g]>> \in due BY <2>1 DEF Fire
  <2>3. QED BY <2>2, SameCall DEF Fire
<1>6. Promise!Elapse(f) BY <1>1, <1>3, <1>4, <1>5 DEF Promise!Elapse, Fire
<1>7. QED BY <1>6 DEF Kept, Promise!Next

\* The callback notes what has already happened, or finds its call gone.
LEMMA CallbackKept == ASSUME Inv, NEW c \in due, Callback(c) PROVE Kept
<1>1. c \in Fibers \X (0..MaxCalls) /\ c[1] \in Fibers /\ c = <<c[1], c[2]>> BY DEF Inv, TypeOK
<1>2. cancelled \in [Fibers -> BOOLEAN] BY DEF Inv, TypeOK
<1>3. ASSUME NEW g \in Fibers, call[g].at \in InCall
      PROVE cancelled'[g] \/ <<g, num'[g]>> \in due' <=> cancelled[g] \/ <<g, num[g]>> \in due
  <2>1. CASE g = c[1] /\ num[g] = c[2]
    <3>1. Alive(c) BY <1>3, <2>1 DEF Alive
    <3>2. cancelled'[g] BY <1>2, <2>1, <3>1 DEF Callback
    <3>3. <<g, num[g]>> \in due BY <1>1, <2>1
    <3>4. QED BY <3>2, <3>3
  <2>2. CASE ~(g = c[1] /\ num[g] = c[2])
    <3>1. <<g, num[g]>> # c BY <1>1, <2>2
    <3>2. <<g, num'[g]>> \in due' <=> <<g, num[g]>> \in due BY <3>1 DEF Callback
    <3>3. cancelled'[g] = cancelled[g] BY <1>2, <1>3, <2>2 DEF Callback, Alive
    <3>4. QED BY <3>2, <3>3
  <2>3. QED BY <2>1, <2>2
<1>4. \A g \in Fibers : Doing(g)' = Doing(g) /\ Elapsed(g)' = Elapsed(g)
  BY <1>3, SameCall DEF Callback
<1>5. QED BY <1>4, Unseen DEF Callback, Kept

\* fun(fd, ...) returns to the caller.
LEMMA AttemptKept ==
  ASSUME Inv, NEW f \in Fibers, call[f].at \in {"try", "direct"},
         \/ Transfer(f) \/ BadFd(f)
         \/ /\ call[f].at = "direct" /\ Return(f, "EAGAIN")
            /\ UNCHANGED <<kernel, timer, due, acting>>,
         UNCHANGED num
  PROVE  Kept
<1>1. call[f].at \in InCall BY DEF InCall
<1>2. UNCHANGED <<file, due>> BY DEF Transfer, BadFd
<1>3. CASE Transfer(f)
  <2>1. /\ Return(f, "done") /\ call[f].ev \in ready[call[f].fd]
        /\ \/ UNCHANGED ready
           \/ ready' = [ready EXCEPT ![call[f].fd] = @ \ {call[f].ev}]
    BY <1>3 DEF Transfer
  <2>2. QED BY <1>1, <1>2, <2>1, Returned DEF Kept, Results
<1>4. CASE BadFd(f)
  <2>1. Return(f, "EBADF") /\ file[call[f].fd] = 0 /\ UNCHANGED ready BY <1>4 DEF BadFd
  <2>2. QED BY <1>1, <1>2, <2>1, Returned DEF Kept, Results
<1>5. CASE call[f].at = "direct" /\ Return(f, "EAGAIN") /\ UNCHANGED <<kernel, timer, due, acting>>
  <2>1. ~call[f].hooked BY <1>5 DEF Inv, Hooked
  <2>2. QED BY <1>1, <1>2, <1>5, <2>1, Returned DEF Kept, Results
<1>6. QED BY <1>3, <1>4, <1>5

LEMMA DirectKept == ASSUME Inv, NEW f \in Fibers, Direct(f) PROVE Kept
BY AttemptKept DEF Direct, At

LEMMA TryKept == ASSUME Inv, NEW f \in Fibers, Try(f) PROVE Kept
<1>1. call[f].at = "try" BY DEF Try, At
<1>2. CASE Transfer(f) \/ BadFd(f) BY <1>1, <1>2, AttemptKept DEF Try
<1>3. CASE Goto(f, "arm") /\ UNCHANGED <<kernel, timeouts, result>>
  <2>1. \A g \in Fibers : Doing(g)' = Doing(g) /\ Elapsed(g)' = Elapsed(g)
    BY <1>1, <1>3, GotoUnseen DEF Try, InCall
  <2>2. QED BY <1>3, <2>1, Unseen DEF Kept
<1>4. QED BY <1>2, <1>3 DEF Try

LEMMA RefuseKept == ASSUME Inv, NEW f \in Fibers, Refuse(f) PROVE Kept
<1>1. call[f].at = "refuse" BY DEF Refuse, At
<1>2. ~call[f].hooked /\ call[f].op = "connect" /\ call[f].at \in InCall
  BY <1>1 DEF Inv, Hooked, InCall
<1>3. QED BY <1>2, Returned DEF Refuse, Kept, Results

LEMMA CheckKept == ASSUME Inv, NEW f \in Fibers, Check(f) PROVE Kept
<1>1. call[f].at = "check" BY DEF Check, At
<1>2. call[f].hooked /\ call[f].op = "connect" /\ call[f].at \in InCall
  BY <1>1 DEF Inv, Hooked, InCall
<1>3. CASE file[call[f].fd] = 0
  <2>1. Return(f, "EBADF") BY <1>3 DEF Check
  <2>2. QED BY <1>2, <1>3, <2>1, Returned DEF Check, Kept, Results
<1>4. CASE file[call[f].fd] # 0
  <2>1. Return(f, "unsure") BY <1>4 DEF Check
  <2>2. QED BY <1>2, <2>1, Returned DEF Check, Kept, Results
<1>5. QED BY <1>3, <1>4

LEMMA ArmKept == ASSUME Inv, NEW f \in Fibers, Arm(f) PROVE Kept
<1>1. call[f].at = "arm" BY DEF Arm, At
<1>2. \A g \in Fibers : Doing(g)' = Doing(g) /\ Elapsed(g)' = Elapsed(g)
  BY <1>1, GotoUnseen DEF Arm, InCall
<1>3. QED BY <1>2, Unseen DEF Arm, Kept

LEMMA AddEventKept == ASSUME Inv, NEW f \in Fibers, AddEvent(f) PROVE Kept
<1>1. call[f].at = "add" /\ call[f].at \in InCall BY DEF AddEvent, At, InCall
<1>2. call[f].hooked BY <1>1 DEF Inv, Hooked
<1>3. CASE UNCHANGED <<call, timeouts, result>>
  BY <1>3, SameCall, Unseen DEF AddEvent, Kept
<1>4. CASE call[f].op = "io" /\ Return(f, "ENOMEM") /\ UNCHANGED due
  BY <1>1, <1>2, <1>4, Returned DEF AddEvent, Kept, Results
<1>5. CASE \E w \in {"check", "wait"} : Goto(f, w) /\ UNCHANGED <<cancelled, due, result>>
  <2>1. \A g \in Fibers : Doing(g)' = Doing(g) /\ Elapsed(g)' = Elapsed(g)
    BY <1>1, <1>5, GotoUnseen DEF AddEvent, InCall
  <2>2. QED BY <1>5, <2>1, Unseen DEF AddEvent, Kept
<1>6. QED BY <1>3, <1>4, <1>5 DEF AddEvent

LEMMA ResumeKept == ASSUME Inv, NEW f \in Fibers, Resume(f) PROVE Kept
<1>1. call[f].at = "woken" /\ call[f].at \in InCall BY DEF Resume, At, InCall
<1>2. call[f].hooked BY <1>1 DEF Inv, Hooked
<1>3. CASE cancelled[f]
  <2>1. Return(f, "ETIMEDOUT") /\ Elapsed(f) BY <1>1, <1>3 DEF Resume, Elapsed
  <2>2. QED BY <1>1, <1>2, <2>1, Returned DEF Resume, Kept, Results
<1>4. CASE ~cancelled[f]
  <2>1. \E w \in {"try", "check"} : Goto(f, w) BY <1>4 DEF Resume
  <2>2. UNCHANGED <<cancelled, result>> BY <1>4 DEF Resume
  <2>3. \A g \in Fibers : Doing(g)' = Doing(g) /\ Elapsed(g)' = Elapsed(g)
    BY <1>1, <2>1, <2>2, GotoUnseen DEF Resume, InCall
  <2>4. QED BY <2>2, <2>3, Unseen DEF Resume, Kept
<1>5. QED BY <1>3, <1>4

\* What goes on in the table of descriptors is not seen.
LEMMA TableKept ==
  ASSUME Inv, NEW f \in Fibers, Get(f) \/ Create(f) \/ Del(f) \/ CancelAll(f) \/ \E fd \in Fds : BeginClose(f, fd)
  PROVE  Kept
<1>1. UNCHANGED <<file, ready, result>> BY DEF Get, Create, Del, CancelAll, BeginClose
<1>2. \A g \in Fibers : Doing(g)' = Doing(g) /\ Elapsed(g)' = Elapsed(g)
  <2>1. CASE Get(f) \/ Create(f) \/ Del(f)
    <3>1. call[f].at \in {"get", "create", "del"} BY <2>1 DEF Get, Create, Del, At
    <3>2. Goto(f, "create") \/ Leave(f) \/ Goto(f, "close") BY <2>1 DEF Get, Create, Del
    <3>3. call'[f].at \notin InCall /\ \A g \in Fibers \ {f} : call'[g] = call[g]
      BY <3>1, <3>2, GotoOnKeeps, LeaveKeeps DEF InCall
    <3>4. UNCHANGED <<cancelled, num, due>> BY <2>1 DEF Get, Create, Del
    <3>5. QED BY <3>1, <3>3, <3>4, OutsideUnseen DEF InCall
  <2>2. CASE CancelAll(f)
    <3>1. call[f].at \notin InCall /\ call'[f].at \notin InCall BY <2>2, CancelAllInv
    <3>2. PICK fd \in Fds, S \in SUBSET EV : \A g \in Fibers \ {f} : call'[g] = Roused(fd, S, g)
      BY <2>2, CancelAllInv
    <3>3. UNCHANGED <<cancelled, num, due>> BY <2>2 DEF CancelAll
    <3>4. QED BY <3>1, <3>2, <3>3, WakeUnseen
  <2>3. ASSUME NEW fd \in Fds, BeginClose(f, fd)
        PROVE  \A g \in Fibers : Doing(g)' = Doing(g) /\ Elapsed(g)' = Elapsed(g)
    <3>1. call \in [Fibers -> Calls] /\ call[f].at \notin InCall
      BY <2>3 DEF BeginClose, At, InCall, Inv, TypeOK
    <3>2. call'[f].at \notin InCall /\ \A g \in Fibers \ {f} : call'[g] = call[g]
      BY <2>3, <3>1 DEF BeginClose, Outside, InCall
    <3>3. UNCHANGED <<cancelled, num, due>> BY <2>3 DEF BeginClose
    <3>4. QED BY <3>1, <3>2, <3>3, OutsideUnseen
  <2>4. QED BY <2>1, <2>2, <2>3
<1>3. QED BY <1>1, <1>2, Unseen DEF Kept

\* Events are delivered and cancelled unseen.
LEMMA EventKept ==
  ASSUME Inv, (\E fd \in Fds, e \in EV : Deliver(fd, e)) \/ (\E a \in acting : CancelEvent(a))
  PROVE  Kept
<1>1. UNCHANGED <<file, ready, result, cancelled, num, due>> BY DEF Deliver, CancelEvent
<1>2. \/ UNCHANGED call
      \/ \E fd \in Fds, e \in EV : \A g \in Fibers : call'[g] = Roused(fd, {e}, g)
  <2>1. CASE \E fd \in Fds, e \in EV : Deliver(fd, e) BY <2>1 DEF Deliver
  <2>2. ASSUME NEW a \in acting, CancelEvent(a)
        PROVE  \/ UNCHANGED call
               \/ \E fd \in Fds, e \in EV : \A g \in Fibers : call'[g] = Roused(fd, {e}, g)
    <3>1. a[2] \in Fds /\ a[3] \in EV BY DEF Inv, TypeOK
    <3>2. UNCHANGED call \/ \A g \in Fibers : call'[g] = Roused(a[2], {a[3]}, g)
      BY <2>2 DEF CancelEvent
    <3>3. QED BY <3>1, <3>2
  <2>3. QED BY <2>1, <2>2
<1>3. \A g \in Fibers : Doing(g)' = Doing(g) /\ Elapsed(g)' = Elapsed(g)
  <2>1. CASE UNCHANGED call BY <1>1, <2>1, SameCall
  <2>2. ASSUME NEW fd \in Fds, NEW e \in EV, \A g \in Fibers : call'[g] = Roused(fd, {e}, g)
        PROVE  \A g \in Fibers : Doing(g)' = Doing(g) /\ Elapsed(g)' = Elapsed(g)
    <3>1. {e} \in SUBSET EV /\ None \notin Fibers OBVIOUS
    <3>2. QED BY <1>1, <2>2, <3>1, WakeUnseen
  <2>3. QED BY <1>2, <2>1, <2>2
<1>4. QED BY <1>1, <1>3, Unseen DEF Kept

\* What the user and the network do.
LEMMA SurroundingsKept ==
  ASSUME Inv, NEW fd \in Fds,
         \/ \E e \in EV : Arrive(fd, e)
         \/ \E e \in EV, b \in BOOLEAN : SetTimeout(fd, e, b)
  PROVE  Kept
<1>1. UNCHANGED <<file, call, num, cancelled, due, result>> BY SurroundingsInv
<1>2. \A g \in Fibers : Doing(g)' = Doing(g) /\ Elapsed(g)' = Elapsed(g) BY <1>1, SameCall
<1>3. CASE UNCHANGED ready BY <1>1, <1>2, <1>3, Unseen DEF Kept
<1>4. ASSUME NEW e \in EV, Arrive(fd, e) PROVE Kept
  <2>1. file[fd] # 0 /\ ready' = [ready EXCEPT ![fd] = @ \cup {e}] BY <1>4 DEF Arrive
  <2>2. Promise!Arrive(fd, e) BY <1>1, <1>2, <2>1 DEF Promise!Arrive
  <2>3. QED BY <2>2 DEF Kept, Promise!Next
<1>5. QED BY <1>3, <1>4 DEF SetTimeout

\* Nor is a change of flags seen.
LEMMA FlagsKept ==
  ASSUME Inv, NEW f \in Fibers,
         SetFlags(f) \/ \E fd \in Fds, b \in BOOLEAN : Fcntl(f, fd, b) \/ Ioctl(f, fd, b)
  PROVE  Kept
<1>1. UNCHANGED <<file, ready, result, cancelled, num, due>> BY FlagsInv DEF SetFlags
<1>2. /\ call[f].at \notin InCall /\ call'[f].at \notin InCall
      /\ \A g \in Fibers \ {f} : call'[g] = call[g]
  BY FlagsInv, SetFlagsInv, IdleCall DEF InCall
<1>3. \A g \in Fibers : Doing(g)' = Doing(g) /\ Elapsed(g)' = Elapsed(g)
  BY <1>1, <1>2, OutsideUnseen
<1>4. QED BY <1>1, <1>3, Unseen DEF Kept

LEMMA PromiseStep == ASSUME Inv, Next PROVE Kept
<1>1. ASSUME NEW f \in Fibers, Request(f) PROVE Kept
  BY <1>1, OpenKept, TableKept, BeginKept, FlagsKept DEF Request
<1>2. ASSUME NEW f \in Fibers, FiberStep(f) PROVE Kept
  BY <1>2, TableKept, DirectKept, RefuseKept, TryKept, ArmKept, AddEventKept, ResumeKept,
     CheckKept, CloseKept, FlagsKept DEF FiberStep
<1>3. QED BY <1>1, <1>2, FireKept, CallbackKept, EventKept, SurroundingsKept DEF Next

\* The hooked calls keep their promise, whatever the interleaving of fibers,
\* wake-ups, timers, callbacks and close(), for any number of each: a call
\* returns ETIMEDOUT only when its own timeout elapsed during it, never
\* EAGAIN when it may wait, and EBADF only for a closed descriptor (or one
\* the library does not know).
THEOREM PromiseTheorem == Spec => KeepsPromise
<1>1. Init => Promise!Init
  <2> SUFFICES ASSUME Init PROVE Promise!Init OBVIOUS
  <2>1. \A f \in Fibers : call[f].at \notin InCall BY IdleCall DEF Init
  <2>2. \A f \in Fibers : Doing(f) = None /\ Elapsed(f) = FALSE BY <2>1 DEF Doing, Elapsed
  <2>3. \A fd \in Fds : (file[fd] # 0) = FALSE BY DEF Init
  <2>4. QED BY <2>2, <2>3 DEF Init, Promise!Init
<1>2. Inv /\ [Next]_vars => [Promise!Next]_(Promise!vars)
  <2> SUFFICES ASSUME Inv, [Next]_vars PROVE Kept BY DEF Kept
  <2>1. CASE Next BY <2>1, PromiseStep
  <2>2. CASE UNCHANGED vars
    <3>1. UNCHANGED <<file, ready, result, call, cancelled, num, due>> BY <2>2 DEF vars
    <3>2. \A g \in Fibers : Doing(g)' = Doing(g) /\ Elapsed(g)' = Elapsed(g) BY <3>1, SameCall
    <3>3. QED BY <3>1, <3>2, Unseen DEF Kept
  <2>3. QED BY <2>1, <2>2
<1>3. Inv /\ [Next]_vars => Inv' BY InvStep, InvStutter
<1>4. QED BY InvInit, <1>1, <1>2, <1>3, PTL DEF Spec, KeepsPromise, Promise!Spec
=============================================================================
