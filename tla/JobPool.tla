------------------------------ MODULE JobPool ------------------------------
(* What the scheduler promises those who hand it jobs, without queue,       *)
(* fibers, counters and idle threads: a job runs on one thread at a time, a *)
(* thread runs one job at a time, a job that waits goes on only after what  *)
(* it waits for has happened, a pinned job starts on the thread it is       *)
(* pinned to, and a finished one never runs again. Module Scheduler         *)
(* implements this specification.                                           *)
CONSTANTS Threads, Jobs, None

VARIABLES
  submitted, done,
  running,     \* running[t]: the job on thread t, or None
  waits,       \* the jobs that wait for a timer or an event
  pinned       \* pairs of a job that has not started and its thread

vars == <<submitted, done, running, waits, pinned>>

Init ==
  /\ submitted = {} /\ done = {} /\ waits = {} /\ pinned = {}
  /\ running = [t \in Threads |-> None]

Submit(j, P) ==
  /\ j \notin submitted /\ P \subseteq {j} \X Threads
  /\ submitted' = submitted \cup {j} /\ pinned' = pinned \cup P
  /\ UNCHANGED <<done, running, waits>>

\* The job starts, or goes on.
Run(t, j) ==
  /\ j \in submitted \ (done \cup waits)
  /\ running[t] = None /\ \A u \in Threads : running[u] # j
  /\ \A u \in Threads : <<j, u>> \in pinned => u = t
  /\ running' = [running EXCEPT ![t] = j]
  /\ pinned' = pinned \ ({j} \X Threads)
  /\ UNCHANGED <<submitted, done, waits>>

Wait(t) ==
  /\ running[t] \notin waits \cup {None}
  /\ waits' = waits \cup {running[t]}
  /\ UNCHANGED <<submitted, done, running, pinned>>

Occur(S) ==
  /\ waits' = waits \ S
  /\ UNCHANGED <<submitted, done, running, pinned>>

\* The job leaves the thread, because it waits or lets others run.
Pause(t) ==
  /\ running[t] # None
  /\ running' = [running EXCEPT ![t] = None]
  /\ UNCHANGED <<submitted, done, waits, pinned>>

Finish(t) ==
  /\ running[t] \notin waits \cup {None}
  /\ done' = done \cup {running[t]}
  /\ running' = [running EXCEPT ![t] = None]
  /\ UNCHANGED <<submitted, waits, pinned>>

Next ==
  \/ \E j \in Jobs, P \in SUBSET (Jobs \X Threads) : Submit(j, P)
  \/ \E t \in Threads : Wait(t) \/ Pause(t) \/ Finish(t) \/ \E j \in Jobs : Run(t, j)
  \/ \E S \in SUBSET Jobs : Occur(S)

Spec == Init /\ [][Next]_vars
=============================================================================
