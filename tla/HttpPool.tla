------------------------------ MODULE HttpPool ------------------------------
(* HttpConnectionPool (http/http_connection.cc) and the request that runs   *)
(* on a connection of it: getConnection(), sendRequest(), recvResponse()    *)
(* and ReleasePtr(), with the loops of readFixSize() and writeFixSize()     *)
(* (net/stream.cc) and a server that takes requests and answers in pieces,  *)
(* late, or not at all. Assumed of it: the body of a response does not      *)
(* begin like the head of one.                                              *)
EXTENDS Naturals, Sequences, FiniteSets

CONSTANTS
  Fibers,
  Conns,         \* HttpConnection objects; a deleted one may be created again
  MaxRequest,    \* m_maxRequest
  MaxAliveTime,  \* m_maxAliveTime
  NowMS,         \* GetCurrentMS(), milliseconds since 1970
  MaxRequests,   \* bound: requests made
  None

ASSUME PoolAssumption ==
  /\ MaxRequest \in Nat /\ MaxRequests \in Nat
  /\ MaxAliveTime \in Nat /\ NowMS \in Nat
  /\ IsFiniteSet(Conns) /\ None \notin Conns

VARIABLES
  m_conns, m_total,
  live,           \* the connections that exist
  connected,      \* Socket::m_isConnected
  m_request,
  peer,           \* the other end: "open", "closed", or "reset"
  owed, incoming, \* parts of responses not sent yet, and not read yet
  at, conn, invalid_conns, req,  \* where each fiber is, its locals, its request
  requests,       \* requests made so far
  result          \* whose response it got, or 0

wire == <<peer, owed, incoming>>
vars == <<m_conns, m_total, live, connected, m_request, wire,
          at, conn, invalid_conns, req, requests, result>>

\* A response comes whole, or its head first and the body later; a "line" is
\* any number of bytes of the head before it is complete, a "bit" the same of
\* the body. A "bare" head has neither a length nor chunks.
Framings == {"length", "chunked"}
Stale == {"body", "bit"}
Parts == [req : 1..MaxRequests, part : {"whole", "line", "bare"} \cup Framings \cup Stale]
Reading == {"head"} \cup Framings
Places == {"idle", "reap", "connect", "send", "spin", "overrun", "release"} \cup Reading

TypeOK ==
  /\ m_conns \in Seq(Conns) /\ m_total \in Nat /\ live \subseteq Conns
  /\ connected \in [Conns -> BOOLEAN] /\ m_request \in [Conns -> 0..MaxRequest]
  /\ peer \in [Conns -> {"open", "closed", "reset"}]
  /\ owed \in [Conns -> Seq(Parts)] /\ incoming \in [Conns -> Seq(Parts)]
  /\ at \in [Fibers -> Places] /\ conn \in [Fibers -> Conns \cup {None}]
  /\ invalid_conns \in [Fibers -> SUBSET Conns]
  /\ req \in [Fibers -> 0..MaxRequests] /\ requests \in 0..MaxRequests
  /\ result \in [Fibers -> 0..MaxRequests]

Init ==
  /\ m_conns = <<>> /\ m_total = 0 /\ live = {}
  /\ connected = [c \in Conns |-> FALSE] /\ m_request = [c \in Conns |-> 0]
  /\ peer = [c \in Conns |-> "closed"]
  /\ owed = [c \in Conns |-> <<>>] /\ incoming = [c \in Conns |-> <<>>]
  /\ at = [f \in Fibers |-> "idle"] /\ conn = [f \in Fibers |-> None]
  /\ invalid_conns = [f \in Fibers |-> {}]
  /\ req = [f \in Fibers |-> 0] /\ requests = 0 /\ result = [f \in Fibers |-> 0]
----------------------------------------------------------------------------
(* The pool.                                                                *)

Goto(f, where) == at' = [at EXCEPT ![f] = where]

\* m_createTime is set nowhere.
CreateTime == 0

Valid(c) == connected[c] /\ ~(CreateTime + MaxAliveTime > NowMS)

\* doRequest() calls getConnection(): under the lock the first k connections
\* are found invalid and the one behind them, if there is one, is taken.
Pop(f, k) ==
  /\ at[f] = "idle" /\ requests < MaxRequests
  /\ \A i \in 1..k : ~Valid(m_conns[i])
  /\ k < Len(m_conns) => Valid(m_conns[k + 1])
  /\ invalid_conns' = [invalid_conns EXCEPT ![f] = {m_conns[i] : i \in 1..k}]
  /\ conn' = [conn EXCEPT ![f] = IF k < Len(m_conns) THEN m_conns[k + 1] ELSE None]
  /\ m_conns' = SubSeq(m_conns, k + 2, Len(m_conns))
  /\ requests' = requests + 1 /\ req' = [req EXCEPT ![f] = requests + 1]
  /\ Goto(f, "reap")
  /\ UNCHANGED <<m_total, live, connected, m_request, wire, result>>

\* Socket::close(): what is under way on the sockets is gone.
Shut(S) ==
  /\ connected' = [c \in Conns |-> connected[c] /\ c \notin S]
  /\ peer' = [c \in Conns |-> IF c \in S THEN "closed" ELSE peer[c]]
  /\ owed' = [c \in Conns |-> IF c \in S THEN <<>> ELSE owed[c]]
  /\ incoming' = [c \in Conns |-> IF c \in S THEN <<>> ELSE incoming[c]]

\* ~SocketStream() closes the socket.
Delete(S) == live' = live \ S /\ Shut(S)

\* Fault: the deleted connections stay in the count.
ReapUncounted(f) ==
  /\ at[f] = "reap"
  /\ Delete(invalid_conns[f])
  /\ invalid_conns' = [invalid_conns EXCEPT ![f] = {}]
  /\ Goto(f, IF conn[f] = None THEN "connect" ELSE "send")
  /\ UNCHANGED <<m_conns, m_total, m_request, conn, req, requests, result>>

\* Behind the lock: the invalid connections are deleted.
Reap(f) ==
  /\ at[f] = "reap"
  /\ Delete(invalid_conns[f])
  /\ m_total' = m_total - Cardinality(invalid_conns[f])
  /\ invalid_conns' = [invalid_conns EXCEPT ![f] = {}]
  /\ Goto(f, IF conn[f] = None THEN "connect" ELSE "send")
  /\ UNCHANGED <<m_conns, m_request, conn, req, requests, result>>

\* A new connection, without a look at m_maxSize.
Connect(f, c) ==
  /\ at[f] = "connect" /\ c \notin live
  /\ live' = live \cup {c} /\ m_total' = m_total + 1
  /\ connected' = [connected EXCEPT ![c] = TRUE] /\ m_request' = [m_request EXCEPT ![c] = 0]
  /\ peer' = [peer EXCEPT ![c] = "open"]
  /\ conn' = [conn EXCEPT ![f] = c]
  /\ Goto(f, "send")
  /\ UNCHANGED <<m_conns, owed, incoming, invalid_conns, req, requests, result>>

\* doRequest() returns, and its request and result are the caller's.
Return(f) ==
  /\ req' = [req EXCEPT ![f] = 0] /\ result' = [result EXCEPT ![f] = 0]
  /\ Goto(f, "idle")

\* The lookup, socket() or connect() fails: POOL_GET_CONNECTION.
ConnectFails(f) ==
  /\ at[f] = "connect"
  /\ Return(f)
  /\ UNCHANGED <<m_conns, m_total, live, connected, m_request, wire, conn, invalid_conns, requests>>

\* Fault: a connection may be used once more.
WornLate(c) ==
  \/ ~connected[c]
  \/ CreateTime + MaxAliveTime >= NowMS
  \/ m_request[c] > MaxRequest

\* ReleasePtr() deletes a connection closed, too old, or used often enough.
Worn(c) ==
  \/ ~connected[c]
  \/ CreateTime + MaxAliveTime >= NowMS
  \/ m_request[c] >= MaxRequest

\* The last step of doRequest(): conn goes out of scope.
ReleasePtr(f) ==
  LET c == conn[f] IN
  /\ at[f] = "release"
  /\ IF Worn(c)
     THEN /\ Delete({c})
          /\ m_total' = m_total - 1
          /\ UNCHANGED <<m_conns, m_request>>
     ELSE /\ m_request' = [m_request EXCEPT ![c] = @ + 1]
          /\ m_conns' = Append(m_conns, c)
          /\ UNCHANGED <<m_total, live, connected, wire>>
  /\ conn' = [conn EXCEPT ![f] = None]
  /\ Return(f)
  /\ UNCHANGED <<invalid_conns, requests>>

\* A caller of getConnection() that kept getSocket() closes the socket while
\* the connection waits in the pool.
CloseKept(c) ==
  /\ c \in {m_conns[i] : i \in 1..Len(m_conns)} /\ connected[c]
  /\ Shut({c})
  /\ UNCHANGED <<m_conns, m_total, live, m_request, at, conn, invalid_conns, req, requests, result>>
----------------------------------------------------------------------------
(* The request on the connection.                                           *)

\* Everything the request does not touch outside the socket.
Inside == UNCHANGED <<m_conns, m_total, live, m_request, conn, invalid_conns, req, requests>>

\* writeFixSize() ends when the server has taken the request. Nothing else
\* ends it while the connection stands: there is no send timeout.
Send(f) ==
  LET c == conn[f] IN
  /\ at[f] = "send" /\ peer[c] = "open"
  /\ owed' = [owed EXCEPT ![c] = Append(@, [req |-> req[f], part |-> "whole"])]
  /\ Goto(f, "head")
  /\ UNCHANGED <<connected, peer, incoming, result>> /\ Inside

\* The first write to a peer that closed succeeds, with all of the request or
\* with a part of it, and is answered by a reset.
SendLate(f) ==
  LET c == conn[f] IN
  /\ at[f] = "send" /\ peer[c] = "closed"
  /\ peer' = [peer EXCEPT ![c] = "reset"]
  /\ \E where \in {"head", "send"} : Goto(f, where)
  /\ UNCHANGED <<connected, owed, incoming, result>> /\ Inside

\* write() returns -1, a huge size_t: left grows, and the loop goes on for
\* ever (or SIGPIPE ends it all).
SendFails(f) ==
  /\ at[f] = "send" /\ peer[conn[f]] = "reset"
  /\ Goto(f, "spin")
  /\ UNCHANGED <<connected, wire, result>> /\ Inside

\* Fault: a response that does not come leaves the connection open.
CloseForgotten(f) == UNCHANGED <<connected, wire>>

\* A recvResponse() that fails closes the connection first.
Close(f) == Shut({conn[f]})

Got(f, r) == result' = [result EXCEPT ![f] = r]

\* recvResponse(): a read that does not complete what it is at, or completes
\* the head. The next read has the whole timeout again.
RecvMore(f) ==
  LET c == conn[f]  p == Head(incoming[c]) IN
  /\ at[f] \in Reading /\ incoming[c] # <<>>
  /\ \/ at[f] = "head" /\ p.part = "line" /\ UNCHANGED at
     \/ at[f] = "head" /\ p.part \in Framings /\ Goto(f, p.part)
     \/ at[f] \in Framings /\ p.part = "bit" /\ UNCHANGED at
  /\ incoming' = [incoming EXCEPT ![c] = Tail(@)]
  /\ UNCHANGED <<connected, peer, owed, result>> /\ Inside

\* The end of the response. The body behind a bare head is not waited for:
\* what came with the head is dropped, and the rest will come.
RecvDone(f) ==
  LET c == conn[f]  p == Head(incoming[c]) IN
  /\ at[f] \in Reading /\ incoming[c] # <<>>
  /\ \/ at[f] = "head" /\ p.part \in {"whole", "bare"}
     \/ at[f] \in Framings /\ p.part = "body"
  /\ \E n \in 1..Len(incoming[c]) :
       /\ n > 1 => p.part = "bare"
       /\ incoming' = [incoming EXCEPT ![c] = SubSeq(@, n + 1, Len(@))]
  /\ Got(f, p.req) /\ Goto(f, "release")
  /\ UNCHANGED <<connected, peer, owed>> /\ Inside

\* The body of another response where a head should be: a parse error.
RecvBad(f) ==
  LET c == conn[f] IN
  /\ at[f] = "head" /\ incoming[c] # <<>> /\ Head(incoming[c]).part \in Stale
  /\ Close(f) /\ Goto(f, "release")
  /\ UNCHANGED result /\ Inside

\* Fault: a timeout is not the end, the loop reads again.
RecvRetries(f) ==
  /\ at[f] \in {"head", "chunked"} /\ peer[conn[f]] # "open"
  /\ Close(f) /\ Goto(f, "release")
  /\ UNCHANGED result /\ Inside

\* read() returns 0 or -1, by timeout too, or the response makes no sense.
RecvFails(f) ==
  /\ at[f] \in {"head", "chunked"}
  /\ Close(f) /\ Goto(f, "release")
  /\ UNCHANGED result /\ Inside

\* readFixSize() of the body: read() returns -1, a huge size_t, so that left
\* grows and the bytes that come no longer fill it.
RecvOverruns(f) ==
  /\ at[f] = "length"
  /\ Goto(f, "overrun")
  /\ UNCHANGED <<connected, wire, result>> /\ Inside

\* It swallows what comes, and only the end of the stream ends it.
Overrun(f) ==
  LET c == conn[f] IN
  /\ at[f] = "overrun" /\ incoming[c] # <<>>
  /\ incoming' = [incoming EXCEPT ![c] = Tail(@)]
  /\ UNCHANGED <<at, connected, peer, owed, result>> /\ Inside

RecvEnds(f) ==
  LET c == conn[f] IN
  /\ at[f] \in {"length", "overrun"} /\ incoming[c] = <<>> /\ peer[c] = "closed"
  /\ Close(f) /\ Goto(f, "release")
  /\ UNCHANGED result /\ Inside
----------------------------------------------------------------------------
(* The server.                                                              *)

\* The rest of a response goes out.
Answer(c) ==
  /\ owed[c] # <<>>
  /\ incoming' = [incoming EXCEPT ![c] = Append(@, Head(owed[c]))]
  /\ owed' = [owed EXCEPT ![c] = Tail(@)]
  /\ UNCHANGED <<peer, at, connected, result>> /\ Inside

\* The rest of its head only.
AnswerHead(c, framing) ==
  LET r == Head(owed[c]).req IN
  /\ owed[c] # <<>> /\ Head(owed[c]).part = "whole"
  /\ incoming' = [incoming EXCEPT ![c] = Append(@, [req |-> r, part |-> framing])]
  /\ owed' = [owed EXCEPT ![c] = <<[req |-> r, part |-> "body"]>> \o Tail(@)]
  /\ UNCHANGED <<peer, at, connected, result>> /\ Inside

\* A few bytes of it, and the rest is still owed. Bytes behind each other that
\* were not read yet are read together.
Drip(c) ==
  LET p == Head(owed[c])
      piece == [req |-> p.req, part |-> IF p.part = "whole" THEN "line" ELSE "bit"]
  IN
  /\ owed[c] # <<>>
  /\ incoming[c] # <<>> => incoming[c][Len(incoming[c])] # piece
  /\ incoming' = [incoming EXCEPT ![c] = Append(@, piece)]
  /\ UNCHANGED <<peer, owed, at, connected, result>> /\ Inside

\* The server closes, or the connection breaks and what is under way is lost.
PeerCloses(c) ==
  /\ c \in live /\ peer[c] = "open"
  /\ \E how \in {"closed", "reset"} :
       /\ peer' = [peer EXCEPT ![c] = how]
       /\ incoming' = [incoming EXCEPT ![c] = IF how = "reset" THEN <<>> ELSE @]
  /\ owed' = [owed EXCEPT ![c] = <<>>]
  /\ UNCHANGED <<at, connected, result>> /\ Inside
----------------------------------------------------------------------------
FiberStep(f) ==
  \/ Reap(f) \/ ConnectFails(f) \/ ReleasePtr(f)
  \/ \E c \in Conns : Connect(f, c)
  \/ SendLate(f) \/ SendFails(f)
  \/ RecvMore(f) \/ RecvDone(f) \/ RecvBad(f) \/ RecvFails(f)
  \/ RecvOverruns(f) \/ Overrun(f) \/ RecvEnds(f)

ServerStep(c) ==
  \/ Answer(c) \/ \E framing \in Framings \cup {"bare"} : AnswerHead(c, framing)
  \/ Drip(c) \/ PeerCloses(c)

Next ==
  \/ \E f \in Fibers : FiberStep(f) \/ Send(f)
  \/ \E f \in Fibers, k \in 0..Len(m_conns) : Pop(f, k)
  \/ \E c \in Conns : CloseKept(c) \/ ServerStep(c)

Spec == Init /\ [][Next]_vars

\* Fibers run, and a read that nothing comes for times out (doRequest() sets
\* the receive timeout). Nobody has to ask, to take a request or to answer.
FairSpec == Spec /\ \A f \in Fibers : WF_vars(FiberStep(f))
----------------------------------------------------------------------------
(* Properties.                                                              *)

Pooled == {m_conns[i] : i \in 1..Len(m_conns)}

\* Every connection that exists is counted and in exactly one place: once in
\* m_conns, or held by one fiber, or in the invalid list of one. None leaks,
\* none is used after it was deleted, and no two fibers share one.
OneOwner ==
  /\ m_total = Cardinality(live)
  /\ live = (Pooled \cup {conn[f] : f \in Fibers} \cup UNION {invalid_conns[f] : f \in Fibers})
              \ {None}
  /\ \A i, j \in 1..Len(m_conns) : m_conns[i] = m_conns[j] => i = j
  /\ \A f \in Fibers :
       /\ Pooled \cap ({conn[f]} \cup invalid_conns[f]) = {}
       /\ conn[f] \notin invalid_conns[f]
       /\ \A g \in Fibers \ {f} :
            ({conn[f]} \cup invalid_conns[f]) \cap ({conn[g]} \cup invalid_conns[g]) \subseteq {None}

\* A request gets its own response, or none: what an earlier request on the
\* connection left unread is never taken for it. This is what close() on
\* every failing path of recvResponse() and ReleasePtr()'s look at
\* isConnected() are for, together.
Paired == \A f \in Fibers : result[f] \in {0, req[f]}

\* A request that does not end has one of four causes: the server never
\* takes it and keeps the connection (there is no send timeout); the server
\* keeps dripping (every read of the loops in recvResponse() has the whole
\* timeout again); writeFixSize() lost the -1 of a connection that was reset;
\* or readFixSize() lost a -1, and the server does not close.
RequestsEnd ==
  \A f \in Fibers :
    \/ []<>(at[f] = "idle")
    \/ <>[](at[f] = "send" /\ peer[conn[f]] = "open")
    \/ []<>(at[f] \in Reading /\ incoming[conn[f]] # <<>>)
    \/ <>[](at[f] = "spin" /\ peer[conn[f]] = "reset")
    \/ <>[](at[f] = "overrun" /\ peer[conn[f]] # "closed")
=============================================================================
