---------------------------- MODULE BlockingCall ----------------------------
(* What the hooked system calls promise the fiber that makes them, without  *)
(* event table, timers and retries: a call returns with data when there are *)
(* data, with ETIMEDOUT when its own timeout has elapsed during this very   *)
(* call, with EAGAIN when the caller asked not to wait. Module Hook         *)
(* implements this specification.                                           *)
CONSTANTS Fibers, Fds, EV, None

VARIABLES
  open,      \* open[fd]: the descriptor denotes a file
  ready,     \* ready[fd]: what can be done on it without waiting
  doing,     \* doing[f]: the call the fiber is in, or None
  elapsed,   \* elapsed[f]: the timeout of that call is over
  result     \* result[f]: how its call ended, until another begins or ends

vars == <<open, ready, doing, elapsed, result>>

\* hooked: the call is the library's to carry out, and may wait.
Calls == [op : {"io", "connect"}, fd : Fds, ev : EV, hooked : BOOLEAN, timed : BOOLEAN]

Init ==
  /\ open = [fd \in Fds |-> FALSE] /\ ready = [fd \in Fds |-> {}]
  /\ doing = [f \in Fibers |-> None]
  /\ elapsed = [f \in Fibers |-> FALSE] /\ result = [f \in Fibers |-> "none"]

Open(fd) ==
  /\ ~open[fd]
  /\ open' = [open EXCEPT ![fd] = TRUE] /\ ready' = [ready EXCEPT ![fd] = {}]
  /\ UNCHANGED <<doing, elapsed, result>>

Close(fd) ==
  /\ open[fd]
  /\ open' = [open EXCEPT ![fd] = FALSE] /\ ready' = [ready EXCEPT ![fd] = {}]
  /\ UNCHANGED <<doing, elapsed, result>>

Arrive(fd, e) ==
  /\ open[fd]
  /\ ready' = [ready EXCEPT ![fd] = @ \cup {e}]
  /\ UNCHANGED <<open, doing, elapsed, result>>

Call(f, c) ==
  /\ doing[f] = None
  /\ doing' = [doing EXCEPT ![f] = c]
  /\ result' = [g \in Fibers |-> "none"]
  /\ UNCHANGED <<open, ready, elapsed>>

Elapse(f) ==
  /\ doing[f] # None /\ doing[f].timed
  /\ elapsed' = [elapsed EXCEPT ![f] = TRUE]
  /\ UNCHANGED <<open, ready, doing, result>>

\* What each result of a call means.
Justified(f, r) ==
  LET c == doing[f] IN
  \/ r = "done" /\ c.ev \in ready[c.fd]
  \/ r = "ETIMEDOUT" /\ c.hooked /\ elapsed[f]
  \/ r = "EAGAIN" /\ ~c.hooked
  \/ r = "EBADF" /\ (open[c.fd] => ~c.hooked /\ c.op = "connect")
  \/ r = "ENOMEM" /\ c.hooked /\ c.op = "io"      \* the event cannot be registered
  \/ r = "unsure" /\ c.hooked /\ c.op = "connect" \* 0, whatever became of the connection

Return(f, r) ==
  /\ doing[f] # None /\ Justified(f, r)
  /\ result' = [g \in Fibers |-> IF g = f THEN r ELSE "none"]
  /\ doing' = [doing EXCEPT ![f] = None] /\ elapsed' = [elapsed EXCEPT ![f] = FALSE]
  /\ \/ UNCHANGED ready
     \/ r = "done" /\ ready' = [ready EXCEPT ![doing[f].fd] = @ \ {doing[f].ev}]
  /\ UNCHANGED open

Next ==
  \/ \E fd \in Fds : Open(fd) \/ Close(fd)
  \/ \E fd \in Fds, e \in EV : Arrive(fd, e)
  \/ \E f \in Fibers, c \in Calls : Call(f, c)
  \/ \E f \in Fibers : Elapse(f)
  \/ \E f \in Fibers, r \in {"done", "ETIMEDOUT", "EAGAIN", "EBADF", "ENOMEM", "unsure"} : Return(f, r)

Spec == Init /\ [][Next]_vars
=============================================================================
