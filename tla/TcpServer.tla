----------------------------- MODULE TcpServer ------------------------------
(* TcpServer (net/tcp_server.cc) with HttpServer::handleClient()            *)
(* (http/http_server.cc): bind(), start(), the accept loop of each socket,  *)
(* stop() with the closing it leaves to the accept pool, and the fiber that *)
(* serves a client.                                                         *)
(*                                                                          *)
(* The loops and the closing are fibers of m_acceptWorker: one keeps its    *)
(* thread until it ends or waits in accept(). (Module Hook models that      *)
(* wait in full; here it is left with two ends, a connection and a          *)
(* cancelAll().)                                                            *)
(*                                                                          *)
(* m_socks is not protected. A call of the program that meets the closing   *)
(* there has one of the outcomes it can have, and raced tells of it.        *)
EXTENDS Naturals, FiniteSets

CONSTANTS
  Socks,             \* listening sockets, of all calls of bind()
  Clients,
  AcceptThreads,     \* threads of m_acceptWorker
  IsKeepalive,       \* m_isKeepalive
  MaxStarts,         \* bound: calls of start() that start
  MaxStops           \* bound: closings scheduled at a time

ASSUME ServerAssumption ==
  /\ AcceptThreads \in Nat \ {0} /\ MaxStarts \in Nat /\ MaxStops \in Nat
  /\ IsKeepalive \in BOOLEAN /\ IsFiniteSet(Socks)

VARIABLES
  m_isStop, m_socks, starts,
  listening,     \* the sockets open in the kernel
  used,          \* the sockets created so far
  backlog,       \* connections the kernel holds for a socket
  loop,          \* startAccept() of each socket, for each start()
  stops,         \* closings scheduled by stop()
  closing,       \* the closing under way: sockets left, where it is with the first
  client,        \* where each client's connection is
  asked, gone,   \* it has sent a request; it has hung up
  owned,         \* the server exists
  failed,        \* an assertion has ended the program
  raced,         \* history: bind() or a second closing met sockets in use
  restarted,     \* history: start() was called before the closing was done
  stranded       \* history: loops that began to wait when close() had cancelled

server == <<m_isStop, m_socks, starts, used>>
net == <<listening, backlog>>
pool == <<loop, stops, closing, failed>>
clients == <<client, asked, gone>>
history == <<raced, restarted, stranded>>
vars == <<server, net, pool, clients, owned, history>>

Loops == Socks \X (1..MaxStarts)
LoopPlaces == {"none", "ready", "woken", "test", "accept", "add", "blocked", "ended"}
Served == {"queued", "recv", "handle", "overrun", "spin"}

TypeOK ==
  /\ m_isStop \in BOOLEAN /\ m_socks \subseteq Socks /\ starts \in 0..MaxStarts
  /\ used \subseteq Socks /\ listening \subseteq used /\ m_socks \subseteq used
  /\ backlog \in [Socks -> SUBSET Clients] /\ loop \in [Loops -> LoopPlaces]
  /\ stops \in 0..MaxStops /\ failed \in BOOLEAN
  /\ closing \in [at : {"none", "cancelAll", "close", "close_f"}, left : SUBSET Socks]
  /\ client \in [Clients -> {"none", "backlog", "closed"} \cup Served]
  /\ asked \in [Clients -> BOOLEAN] /\ gone \in [Clients -> {"no", "fin", "rst"}]
  /\ owned \in BOOLEAN
  /\ raced \in BOOLEAN /\ restarted \in BOOLEAN /\ stranded \subseteq Loops

Init ==
  /\ m_isStop = TRUE /\ m_socks = {} /\ starts = 0 /\ used = {} /\ listening = {}
  /\ backlog = [s \in Socks |-> {}] /\ loop = [l \in Loops |-> "none"]
  /\ stops = 0 /\ closing = [at |-> "none", left |-> {}] /\ failed = FALSE
  /\ client = [c \in Clients |-> "none"] /\ asked = [c \in Clients |-> FALSE]
  /\ gone = [c \in Clients |-> "no"] /\ owned = TRUE
  /\ raced = FALSE /\ restarted = FALSE /\ stranded = {}
----------------------------------------------------------------------------
(* bind(), start() and stop(), called by the program.                       *)

Closing == closing.at # "none"

\* The closing that stop() scheduled is done.
Quiet == stops = 0 /\ ~Closing

\* The loops of socket s hold a pointer to it until they end.
Held(s) == \E l \in Loops : l[1] = s /\ loop[l] \notin {"none", "ended"}

\* Connections still in the backlog of a closed socket are reset.
ShutDown(S) ==
  /\ listening' = listening \ S
  /\ backlog' = [s \in Socks |-> IF s \in S THEN {} ELSE backlog[s]]
  /\ client' = [c \in Clients |-> IF \E s \in S : c \in backlog[s] THEN "closed" ELSE client[c]]

\* m_socks.clear(): ~Socket() closes the sockets nobody else holds.
Clear ==
  /\ m_socks' = {}
  /\ ShutDown({s \in m_socks : ~Held(s)})

\* bind() of several addresses, for each of which a socket listens. A closing
\* under way sees the new sockets or does not.
Bind(S) ==
  /\ owned /\ S \cap used = {}
  /\ m_socks' = m_socks \cup S
  /\ used' = used \cup S /\ listening' = listening \cup S
  /\ closing' \in {closing} \cup (IF Closing THEN {[closing EXCEPT !.left = @ \cup S]} ELSE {})
  /\ raced' = (raced \/ Closing)
  /\ UNCHANGED <<m_isStop, starts, backlog, loop, stops, failed, clients, owned, restarted, stranded>>

\* Fault: the sockets that were bound stay open.
BindFailsOpen ==
  /\ owned
  /\ m_socks' = {}
  /\ raced' = (raced \/ ~m_isStop \/ ~Quiet)
  /\ UNCHANGED <<m_isStop, starts, used, net, pool, clients, owned, restarted, stranded>>

\* One address of several fails: the whole list is dropped, the sockets of
\* earlier calls included. (Those of this call are gone when it returns.)
BindFails ==
  /\ owned
  /\ Clear
  /\ raced' = (raced \/ ~m_isStop \/ ~Quiet)
  /\ UNCHANGED <<m_isStop, starts, used, pool, asked, gone, owned, restarted, stranded>>

\* A loop is scheduled for every socket of m_socks, or for those that the end
\* of a closing has not taken from it yet.
Scheduled(S) ==
  /\ S \subseteq m_socks /\ (S = m_socks \/ (Closing /\ closing.left = {}))
  /\ starts' = starts + 1
  /\ m_isStop' = FALSE
  /\ loop' = [l \in Loops |-> IF l[1] \in S /\ l[2] = starts' THEN "ready" ELSE loop[l]]
  /\ restarted' = (restarted \/ ~Quiet)
  /\ UNCHANGED <<m_socks, used, net, stops, closing, failed, clients, owned, raced, stranded>>

\* Fault: m_isStop is not asked.
StartTwice(S) == owned /\ starts < MaxStarts /\ Scheduled(S)

Start(S) == owned /\ m_isStop /\ starts < MaxStarts /\ Scheduled(S)

\* stop() returns at once; the sockets are closed on the accept pool.
Stop ==
  /\ owned /\ stops < MaxStops
  /\ m_isStop' = TRUE
  /\ stops' = stops + 1
  /\ UNCHANGED <<m_socks, starts, used, net, loop, closing, failed, clients, owned, history>>

\* The program lets the server go. Loops, closing and handlers hold
\* shared_from_this(), so that ~TcpServer() waits for the last of them (for
\* which it is the same whether the program let go before and called nothing
\* more); it closes what is left in m_socks.
Destroy ==
  /\ owned /\ Quiet
  /\ \A s \in Socks : ~Held(s)
  /\ \A c \in Clients : client[c] \notin Served
  /\ Clear
  /\ owned' = FALSE
  /\ UNCHANGED <<m_isStop, starts, used, pool, asked, gone, history>>
----------------------------------------------------------------------------
(* The accept pool.                                                         *)

\* A thread is free for a fiber of the queue.
Free ==
  Cardinality({l \in Loops : loop[l] \in {"test", "accept", "add"}})
    + (IF Closing THEN 1 ELSE 0) < AcceptThreads

Goes(l, from, to) == loop[l] = from /\ loop' = [loop EXCEPT ![l] = to]

\* A thread takes a loop that was scheduled, or whose wait in accept() ended.
Run(l) ==
  /\ ~failed /\ Free /\ (Goes(l, "ready", "test") \/ Goes(l, "woken", "accept"))
  /\ UNCHANGED <<server, net, stops, closing, failed, clients, owned, history>>

\* while (!m_isStop)
Test(l) ==
  /\ Goes(l, "test", IF m_isStop THEN "ended" ELSE "accept")
  /\ UNCHANGED <<server, net, stops, closing, failed, clients, owned, history>>

\* accept() has a connection: it is given to the worker pool.
Accept(l, c) ==
  /\ Goes(l, "accept", "test") /\ l[1] \in listening /\ c \in backlog[l[1]]
  /\ backlog' = [backlog EXCEPT ![l[1]] = @ \ {c}]
  /\ client' = [client EXCEPT ![c] = "queued"]
  /\ UNCHANGED <<server, listening, stops, closing, failed, asked, gone, owned, history>>

\* accept() fails, on a closed socket always: the loop goes on.
AcceptFails(l) ==
  /\ Goes(l, "accept", "test")
  /\ UNCHANGED <<server, net, stops, closing, failed, clients, owned, history>>

\* accept() has nothing yet.
AcceptWaits(l) ==
  /\ l[1] \in listening /\ backlog[l[1]] = {} /\ Goes(l, "accept", "add")
  /\ UNCHANGED <<server, net, stops, closing, failed, clients, owned, history>>

\* The order of m_socks does not matter.
First == CHOOSE s \in closing.left : TRUE

\* addEvent() and YieldToHold(), for a socket whose event nobody has yet. A
\* close() that has done its cancelAll() will not wake this loop.
AddEvent(l) ==
  /\ l[1] \in listening /\ \A k \in Loops : k[1] = l[1] => loop[k] # "blocked"
  /\ Goes(l, "add", "blocked")
  /\ stranded' = IF closing.at = "close_f" /\ First = l[1] THEN stranded \cup {l} ELSE stranded
  /\ UNCHANGED <<server, net, stops, closing, failed, clients, owned, raced, restarted>>

\* Another loop waits for the same socket: addEvent()'s assertion.
AddEventTwice(l) ==
  /\ l[1] \in listening /\ \E k \in Loops : k[1] = l[1] /\ loop[k] = "blocked"
  /\ loop[l] = "add"
  /\ failed' = TRUE
  /\ UNCHANGED <<server, net, loop, stops, closing, clients, owned, history>>

\* The socket is closed: epoll_ctl() fails, and so does accept().
AddEventFails(l) ==
  /\ l[1] \notin listening /\ Goes(l, "add", "test")
  /\ UNCHANGED <<server, net, stops, closing, failed, clients, owned, history>>

\* The event loop; epoll has forgotten a socket that is closed.
Deliver(l) ==
  /\ ~failed /\ l[1] \in listening /\ backlog[l[1]] # {} /\ Goes(l, "blocked", "woken")
  /\ UNCHANGED <<server, net, stops, closing, failed, clients, owned, history>>

\* What stop() scheduled begins.
ClosingBegins ==
  /\ ~failed /\ stops > 0 /\ ~Closing /\ Free
  /\ stops' = stops - 1
  /\ closing' = [at |-> "cancelAll", left |-> m_socks]
  /\ UNCHANGED <<server, net, loop, failed, clients, owned, history>>

\* A second one beside it, which closes nothing that the first does not.
ClosingRaces ==
  /\ ~failed /\ stops > 0 /\ Closing /\ Free
  /\ stops' = stops - 1
  /\ raced' = TRUE
  /\ UNCHANGED <<server, net, loop, closing, failed, clients, owned, restarted, stranded>>

\* Fault: nobody is told that the socket goes.
ClosingQuietly ==
  /\ closing.at \in {"cancelAll", "close"} /\ closing.left # {}
  /\ closing' = [closing EXCEPT !.at = IF @ = "cancelAll" THEN "close" ELSE "close_f"]
  /\ UNCHANGED <<server, net, loop, stops, failed, clients, owned, history>>

\* sock->cancelAll(), and the same again at the beginning of close().
ClosingCancels ==
  /\ closing.at \in {"cancelAll", "close"} /\ closing.left # {}
  /\ loop' = [l \in Loops |-> IF l[1] = First /\ loop[l] = "blocked" THEN "woken" ELSE loop[l]]
  /\ closing' = [closing EXCEPT !.at = IF @ = "cancelAll" THEN "close" ELSE "close_f"]
  /\ UNCHANGED <<server, net, stops, failed, clients, owned, history>>

\* The end of close().
ClosingCloses ==
  /\ closing.at = "close_f"
  /\ ShutDown({First})
  /\ closing' = [at |-> "cancelAll", left |-> closing.left \ {First}]
  /\ UNCHANGED <<server, loop, stops, failed, asked, gone, owned, history>>

\* m_socks.clear()
ClosingEnds ==
  /\ closing.at = "cancelAll" /\ closing.left = {}
  /\ Clear
  /\ closing' = [closing EXCEPT !.at = "none"]
  /\ UNCHANGED <<m_isStop, starts, used, loop, stops, failed, asked, gone, owned, history>>
----------------------------------------------------------------------------
(* HttpServer::handleClient() on the worker pool.                           *)

Step(c, from, to) ==
  /\ client[c] = from /\ client' = [client EXCEPT ![c] = to]
  /\ UNCHANGED <<server, net, pool, gone, owned, history>>

Handle(c) == Step(c, "queued", "recv") /\ UNCHANGED asked

\* recvRequest()
RecvRequest(c) ==
  /\ asked[c] /\ Step(c, "recv", "handle")
  /\ asked' = [asked EXCEPT ![c] = FALSE]

\* read() returns 0 or -1 or times out, or the request makes no sense; then
\* session->close().
RecvFails(c) == Step(c, "recv", "closed") /\ UNCHANGED asked

\* readFixSize() of the body meets a -1 and no longer knows what is left.
RecvOverruns(c) == Step(c, "recv", "overrun") /\ UNCHANGED asked

\* Fault: 0, the end of the stream, is taken for progress.
RecvEndsLost(c) == gone[c] = "rst" /\ Step(c, "overrun", "closed") /\ UNCHANGED asked

\* The end of the stream ends that, too.
RecvEnds(c) == gone[c] = "fin" /\ Step(c, "overrun", "closed") /\ UNCHANGED asked

\* sendResponse(), and the end of the loop for a connection not kept alive.
Respond(c, closed) ==
  /\ gone[c] # "rst"
  /\ Step(c, "handle", IF IsKeepalive /\ ~closed THEN "recv" ELSE "closed")
  /\ UNCHANGED asked

\* writeFixSize() meets a -1 and goes on for ever (or SIGPIPE ends it all).
RespondFails(c) == gone[c] = "rst" /\ Step(c, "handle", "spin") /\ UNCHANGED asked
----------------------------------------------------------------------------
(* The clients.                                                             *)

Dial(c, s) ==
  /\ client[c] = "none" /\ s \in listening
  /\ client' = [client EXCEPT ![c] = "backlog"]
  /\ backlog' = [backlog EXCEPT ![s] = @ \cup {c}]
  /\ UNCHANGED <<server, listening, pool, asked, gone, owned, history>>

Ask(c) ==
  /\ client[c] \in {"backlog"} \cup Served /\ gone[c] = "no" /\ ~asked[c]
  /\ asked' = [asked EXCEPT ![c] = TRUE]
  /\ UNCHANGED <<server, net, pool, client, gone, owned, history>>

HangUp(c, how) ==
  /\ client[c] \in {"backlog"} \cup Served /\ gone[c] = "no"
  /\ gone' = [gone EXCEPT ![c] = how]
  /\ UNCHANGED <<server, net, pool, client, asked, owned, history>>
----------------------------------------------------------------------------
LoopStep(l) ==
  /\ ~failed
  /\ \/ Test(l) \/ AcceptFails(l) \/ AcceptWaits(l) \/ AddEvent(l) \/ AddEventTwice(l)
     \/ AddEventFails(l) \/ \E c \in Clients : Accept(l, c)

ClosingStep == ~failed /\ (ClosingCancels \/ ClosingCloses \/ ClosingEnds)

HandlerStep(c) ==
  /\ ~failed
  /\ \/ Handle(c) \/ RecvRequest(c) \/ RecvFails(c) \/ RecvOverruns(c) \/ RecvEnds(c)
     \/ RespondFails(c) \/ \E closed \in BOOLEAN : Respond(c, closed)

ProgramStep ==
  /\ ~failed
  /\ \/ \E S \in SUBSET Socks : Bind(S) \/ Start(S)
     \/ BindFails \/ Stop \/ Destroy

ClientStep(c) ==
  \/ Ask(c) \/ \E s \in Socks : Dial(c, s) \/ \E how \in {"fin", "rst"} : HangUp(c, how)

Next ==
  \/ ProgramStep
  \/ \E l \in Loops : Run(l) \/ LoopStep(l) \/ Deliver(l)
  \/ ClosingBegins \/ ClosingRaces \/ ClosingStep
  \/ \E c \in Clients : HandlerStep(c) \/ (~failed /\ ClientStep(c))

Spec == Init /\ [][Next]_vars

\* Threads run the fiber they have, the queue of the accept pool is served
\* in order (nothing in it is passed over for ever), and so is the worker
\* pool as long as no handler keeps a thread to itself. The program need not
\* call anything, and clients need not do anything.
FairSpec ==
  /\ Spec
  /\ \A l \in Loops : SF_vars(Run(l)) /\ WF_vars(LoopStep(l)) /\ WF_vars(Deliver(l))
  /\ SF_vars(ClosingBegins \/ ClosingRaces) /\ WF_vars(ClosingStep)
  /\ \A c \in Clients : WF_vars(HandlerStep(c))
----------------------------------------------------------------------------
(* Properties.                                                              *)

\* stop() works: if the server is not started again for good, every accept
\* loop comes to its end, of this start() and of earlier ones, whether it was
\* about to wait in accept() or was waiting, and its socket is closed. What
\* escapes, with two accept threads, is a loop that registers its event
\* between close()'s cancelAll() and the end of close(), which waits for
\* ever; and sockets in use that a bind() took out of m_socks.
LoopsEnd ==
  <>[]m_isStop =>
    <>[]( \/ raced \/ failed
          \/ \A l \in Loops :
               /\ loop[l] \in {"none", "ended"} \/ l \in stranded
               /\ loop[l] = "ended" => l[1] \notin listening )

\* Two loops wait for the same socket, the second of which ends the program
\* in addEvent()'s assertion, only when start() is called before the closing
\* of the stop() before it is done.
OneAcceptor == failed => restarted

\* A handler that lost a -1 in writeFixSize() or readFixSize() and never
\* gives its thread back.
Hogs(c) == client[c] = "spin" \/ (client[c] = "overrun" /\ gone[c] = "rst")

\* Every client whose connection was accepted and that hangs up gets its
\* connection closed, whatever the server was doing for it and whether or
\* not the server is stopped meanwhile, unless a handler hogs a thread.
ClientsReleased ==
  \A c \in Clients :
    client[c] \in Served /\ gone[c] # "no"
      ~> client[c] = "closed" \/ failed \/ \E d \in Clients : Hogs(d)

\* What listens can be closed: a listening socket is in m_socks, where stop()
\* and the destructor find it, whatever failed before, unless a bind() fails
\* while loops use sockets of earlier calls or meets the closing.
AllClosable == ~raced => listening \subseteq m_socks
=============================================================================
