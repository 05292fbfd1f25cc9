-------------------------- MODULE TcpServerProofs ---------------------------
(* What holds of TcpServer for every set of sockets and clients and every   *)
(* number of accept threads: what listens can be closed, and two loops wait *)
(* for one socket only after a restart.                                     *)
EXTENDS TcpServer, TLAPS

USE ServerAssumption
USE DEF server, net, pool, clients, history

\* Closing sockets keeps the types of what the kernel holds.
LEMMA ShutDownType ==
  ASSUME TypeOK, NEW S, ShutDown(S)
  PROVE  /\ listening' \subseteq listening
         /\ backlog' \in [Socks -> SUBSET Clients]
         /\ client' \in [Clients -> {"none", "backlog", "closed"} \cup Served]
<1>1. listening' \subseteq listening BY DEF ShutDown
<1>2. backlog' \in [Socks -> SUBSET Clients] BY DEF ShutDown, TypeOK
<1>3. client' \in [Clients -> {"none", "backlog", "closed"} \cup Served]
  BY DEF ShutDown, TypeOK
<1>4. QED BY <1>1, <1>2, <1>3

\* The calls of the program keep the types.
LEMMA ProgramType ==
  ASSUME TypeOK, ProgramStep
  PROVE  TypeOK'
<1>1. ASSUME NEW S \in SUBSET Socks, Bind(S) PROVE TypeOK'
  BY <1>1 DEF Bind, TypeOK
<1>2. CASE BindFails \/ Destroy
  <2>1. /\ listening' \subseteq listening
        /\ backlog' \in [Socks -> SUBSET Clients]
        /\ client' \in [Clients -> {"none", "backlog", "closed"} \cup Served]
    BY <1>2, ShutDownType DEF BindFails, Destroy, Clear
  <2>2. QED BY <1>2, <2>1 DEF BindFails, Destroy, Clear, TypeOK
<1>3. ASSUME NEW S \in SUBSET Socks, Start(S) PROVE TypeOK'
  <2>1. loop' \in [Loops -> LoopPlaces] BY <1>3 DEF Start, Scheduled, TypeOK, LoopPlaces
  <2>2. starts' \in 0..MaxStarts BY <1>3 DEF Start, Scheduled, TypeOK
  <2>3. QED BY <1>3, <2>1, <2>2 DEF Start, Scheduled, TypeOK
<1>4. CASE Stop
  <2>1. stops' \in 0..MaxStops BY <1>4 DEF Stop, TypeOK
  <2>2. QED BY <1>4, <2>1 DEF Stop, TypeOK
<1>5. QED BY <1>1, <1>2, <1>3, <1>4 DEF ProgramStep

\* The accept loops keep the types.
LEMMA LoopType ==
  ASSUME TypeOK, NEW l \in Loops, Run(l) \/ LoopStep(l) \/ Deliver(l)
  PROVE  TypeOK'
<1>1. ASSUME NEW from, NEW to \in LoopPlaces, Goes(l, from, to)
      PROVE  loop' \in [Loops -> LoopPlaces]
  BY <1>1 DEF Goes, TypeOK
<1>2. loop' \in [Loops -> LoopPlaces]
  <2>1. CASE Run(l) BY <1>1, <2>1 DEF Run, LoopPlaces
  <2>2. CASE Test(l)
    <3>1. (IF m_isStop THEN "ended" ELSE "accept") \in LoopPlaces BY DEF LoopPlaces
    <3>2. QED BY <1>1, <2>2, <3>1 DEF Test
  <2>3. CASE \/ AcceptFails(l) \/ AcceptWaits(l) \/ AddEvent(l) \/ AddEventFails(l) \/ Deliver(l)
             \/ \E c \in Clients : Accept(l, c)
    BY <1>1, <2>3 DEF AcceptFails, AcceptWaits, AddEvent, AddEventFails, Deliver, Accept, LoopPlaces
  <2>4. CASE AddEventTwice(l) BY <2>4 DEF AddEventTwice, TypeOK
  <2>5. QED BY <2>1, <2>2, <2>3, <2>4 DEF LoopStep
<1>3. ASSUME NEW c \in Clients, Accept(l, c) PROVE TypeOK'
  <2>1. client' \in [Clients -> {"none", "backlog", "closed"} \cup Served]
    BY <1>3 DEF Accept, TypeOK, Served
  <2>2. backlog' \in [Socks -> SUBSET Clients] BY <1>3 DEF Accept, TypeOK
  <2>3. QED BY <1>2, <1>3, <2>1, <2>2 DEF Accept, TypeOK
<1>4. CASE \/ Run(l) \/ Test(l) \/ AcceptFails(l) \/ AcceptWaits(l) \/ AddEvent(l)
           \/ AddEventTwice(l) \/ AddEventFails(l) \/ Deliver(l)
  BY <1>2, <1>4 DEF Run, Test, AcceptFails, AcceptWaits, AddEvent, AddEventTwice, AddEventFails,
                    Deliver, TypeOK
<1>5. QED BY <1>3, <1>4 DEF LoopStep

\* The closing keeps the types.
LEMMA ClosingType ==
  ASSUME TypeOK, ClosingBegins \/ ClosingRaces \/ ClosingStep
  PROVE  TypeOK'
<1>1. CASE ClosingBegins \/ ClosingRaces
  <2>1. stops' \in 0..MaxStops BY <1>1 DEF ClosingBegins, ClosingRaces, TypeOK
  <2>2. closing' \in [at : {"none", "cancelAll", "close", "close_f"}, left : SUBSET Socks]
    BY <1>1 DEF ClosingBegins, ClosingRaces, TypeOK
  <2>3. raced' \in BOOLEAN BY <1>1 DEF ClosingBegins, ClosingRaces, TypeOK
  <2>4. QED BY <1>1, <2>1, <2>2, <2>3 DEF ClosingBegins, ClosingRaces, TypeOK
<1>2. CASE ClosingCancels
  <2>1. loop' \in [Loops -> LoopPlaces] BY <1>2 DEF ClosingCancels, TypeOK, LoopPlaces
  <2>2. QED BY <1>2, <2>1 DEF ClosingCancels, TypeOK
<1>3. CASE ClosingCloses \/ ClosingEnds
  <2>1. /\ listening' \subseteq listening
        /\ backlog' \in [Socks -> SUBSET Clients]
        /\ client' \in [Clients -> {"none", "backlog", "closed"} \cup Served]
    BY <1>3, ShutDownType DEF ClosingCloses, ClosingEnds, Clear
  <2>2. QED BY <1>3, <2>1 DEF ClosingCloses, ClosingEnds, Clear, TypeOK
<1>4. QED BY <1>1, <1>2, <1>3 DEF ClosingStep

\* Handlers and clients keep the types.
LEMMA ClientType ==
  ASSUME TypeOK, NEW c \in Clients, HandlerStep(c) \/ ClientStep(c)
  PROVE  TypeOK'
<1>1. ASSUME NEW from, NEW to \in {"closed"} \cup Served, Step(c, from, to),
             asked' \in [Clients -> BOOLEAN]
      PROVE TypeOK'
  <2>1. client' \in [Clients -> {"none", "backlog", "closed"} \cup Served]
    BY <1>1 DEF Step, TypeOK
  <2>2. QED BY <1>1, <2>1 DEF Step, TypeOK
<1>2. CASE HandlerStep(c)
  <2>1. asked' \in [Clients -> BOOLEAN]
    BY <1>2 DEF HandlerStep, Handle, RecvRequest, RecvFails, RecvOverruns, RecvEnds,
                Respond, RespondFails, TypeOK
  <2>2. \E from, to \in {"queued", "recv", "handle", "overrun", "spin", "closed"} : Step(c, from, to)
    BY <1>2 DEF HandlerStep, Handle, RecvRequest, RecvFails, RecvOverruns, RecvEnds,
                Respond, RespondFails
  <2>3. QED BY <1>1, <2>1, <2>2 DEF Served
<1>3. CASE Ask(c) BY <1>3 DEF Ask, TypeOK
<1>4. ASSUME NEW s \in Socks, Dial(c, s) PROVE TypeOK'
  <2>1. client' \in [Clients -> {"none", "backlog", "closed"} \cup Served]
    BY <1>4 DEF Dial, TypeOK
  <2>2. QED BY <1>4, <2>1 DEF Dial, TypeOK
<1>5. ASSUME NEW how \in {"fin", "rst"}, HangUp(c, how) PROVE TypeOK'
  BY <1>5 DEF HangUp, TypeOK
<1>6. QED BY <1>2, <1>3, <1>4, <1>5 DEF ClientStep

LEMMA TypeStep ==
  ASSUME TypeOK, Next
  PROVE  TypeOK'
BY ProgramType, LoopType, ClosingType, ClientType DEF Next
----------------------------------------------------------------------------
(* The inductive invariant. A failing bind() drops m_socks, so it matters   *)
(* that no loop holds a socket of it then: while the server is stopped and  *)
(* the closing is done, the sockets of m_socks are new. The end of the      *)
(* closing drops m_socks, too, and has closed all that listened by then,    *)
(* whatever start() has done meanwhile.                                     *)

Begun(l) == loop[l] # "none"

NewOnes == m_isStop /\ Quiet => \A l \in Loops : l[1] \in m_socks => ~Begun(l)

OneLoop ==
  ~restarted => \A k, l \in Loops : Begun(k) /\ Begun(l) /\ k[1] = l[1] => k = l

IndInv ==
  /\ TypeOK
  /\ AllClosable
  /\ OneAcceptor
  /\ \A l \in Loops : Begun(l) => l[1] \in used
  /\ NewOnes
  /\ OneLoop
  /\ ~raced /\ Closing => listening \subseteq closing.left

\* What a step leaves alone that neither starts loops nor touches sockets.
LEMMA LoopsOnly ==
  ASSUME IndInv, TypeOK',
         UNCHANGED <<m_isStop, m_socks, used, stops, closing, listening, raced, restarted>>,
         \A l \in Loops : Begun(l)' => Begun(l), OneAcceptor'
  PROVE  IndInv'
<1>1. AllClosable' BY DEF IndInv, AllClosable
<1>2. (\A l \in Loops : Begun(l) => l[1] \in used)' BY DEF IndInv
<1>3. NewOnes' BY DEF IndInv, NewOnes, Quiet, Closing
<1>4. OneLoop' BY DEF IndInv, OneLoop
<1>5. (~raced /\ Closing => listening \subseteq closing.left)' BY DEF IndInv, Closing
<1>6. QED BY <1>1, <1>2, <1>3, <1>4, <1>5 DEF IndInv

LEMMA ProgramStepInv ==
  ASSUME IndInv, TypeOK', ProgramStep
  PROVE  IndInv'
<1> USE DEF IndInv, AllClosable, OneAcceptor, NewOnes, OneLoop, Begun, Quiet, Closing
<1>1. ASSUME NEW S \in SUBSET Socks, Bind(S) PROVE IndInv'
  <2>1. UNCHANGED <<m_isStop, stops, loop, failed, restarted>> /\ m_socks' = m_socks \cup S
    BY <1>1 DEF Bind
  <2>2. Closing' = Closing BY <1>1 DEF Bind, TypeOK
  <2>3. NewOnes'
    <3>1. \A l \in Loops : l[1] \in S => ~Begun(l) BY <1>1 DEF Bind
    <3>2. QED BY <2>1, <2>2, <3>1
  <2>4. OneLoop' BY <2>1
  <2>5. AllClosable' /\ (~raced /\ Closing => listening \subseteq closing.left)'
    BY <1>1, <2>2 DEF Bind
  <2>6. (\A l \in Loops : Begun(l) => l[1] \in used)' BY <1>1 DEF Bind
  <2>7. QED BY <2>1, <2>3, <2>4, <2>5, <2>6
<1>2. CASE BindFails
  <2>1. UNCHANGED <<m_isStop, stops, loop, closing, failed, restarted, used>> /\ m_socks' = {}
    BY <1>2 DEF BindFails, Clear
  <2>2. ~raced' => listening' = {}
    <3>1. SUFFICES ASSUME ~raced' PROVE listening' = {} OBVIOUS
    <3>2. ~raced /\ m_isStop /\ Quiet BY <1>2, <3>1 DEF BindFails
    <3>3. \A s \in m_socks : ~Held(s) BY <3>2 DEF Held
    <3>4. listening' = listening \ m_socks BY <1>2, <3>3 DEF BindFails, Clear, ShutDown
    <3>5. QED BY <3>2, <3>4
  <2>3. QED BY <2>1, <2>2
<1>3. ASSUME NEW S \in SUBSET Socks, Start(S) PROVE IndInv'
  <2>1. /\ UNCHANGED <<m_socks, used, listening, stops, closing, failed, raced>> /\ m_isStop' = FALSE
        /\ restarted' = (restarted \/ ~Quiet) /\ m_isStop /\ S \subseteq m_socks
    BY <1>3 DEF Start, Scheduled
  <2>2. \A l \in Loops : Begun(l)' => Begun(l) \/ (l[1] \in S /\ l[2] = starts')
    BY <1>3 DEF Start, Scheduled, TypeOK
  <2>3. OneLoop'
    <3> SUFFICES ASSUME ~restarted', NEW k \in Loops, NEW l \in Loops, Begun(k)', Begun(l)', k[1] = l[1]
                 PROVE  k = l
      OBVIOUS
    <3>1. ~restarted /\ Quiet BY <2>1
    <3>2. \A m \in Loops : m[1] \in m_socks => ~Begun(m) BY <2>1, <3>1
    <3>3. CASE l[1] \in S
      <4>1. k[2] = starts' /\ l[2] = starts' BY <2>1, <2>2, <3>2, <3>3
      <4>2. QED BY <4>1 DEF Loops
    <3>4. CASE l[1] \notin S BY <2>2, <3>1, <3>4
    <3>5. QED BY <3>3, <3>4
  <2>4. (\A l \in Loops : Begun(l) => l[1] \in used)' BY <2>1, <2>2 DEF TypeOK
  <2>5. QED BY <2>1, <2>3, <2>4
<1>4. CASE Stop
  <2>1. stops' # 0 BY <1>4 DEF Stop, TypeOK
  <2>2. QED BY <1>4, <2>1 DEF Stop
<1>5. CASE Destroy
  <2>1. /\ UNCHANGED <<m_isStop, stops, loop, closing, failed, restarted, raced, used>> /\ m_socks' = {}
        /\ ~Closing
    BY <1>5 DEF Destroy, Clear
  <2>2. listening' = listening \ m_socks
    BY <1>5 DEF Destroy, Clear, ShutDown, TypeOK
  <2>3. QED BY <2>1, <2>2
<1>6. QED BY <1>1, <1>2, <1>3, <1>4, <1>5 DEF ProgramStep

LEMMA LoopStepInv ==
  ASSUME IndInv, TypeOK', NEW l \in Loops, Run(l) \/ LoopStep(l) \/ Deliver(l)
  PROVE  IndInv'
<1>1. UNCHANGED <<m_isStop, m_socks, used, stops, closing, listening, raced, restarted>>
  BY DEF Run, LoopStep, Test, AcceptFails, AcceptWaits, AddEvent, AddEventTwice, AddEventFails,
         Accept, Deliver
<1>2. \A k \in Loops : Begun(k)' => Begun(k)
  <2>1. ASSUME NEW from \in LoopPlaces \ {"none"}, NEW to, Goes(l, from, to), NEW k \in Loops, Begun(k)'
        PROVE  Begun(k)
    BY <2>1 DEF Goes, Begun, IndInv, TypeOK
  <2>2. CASE AddEventTwice(l) BY <2>2 DEF AddEventTwice, Begun
  <2>3. CASE \/ Run(l) \/ Test(l) \/ AcceptFails(l) \/ AcceptWaits(l) \/ AddEvent(l)
             \/ AddEventFails(l) \/ Deliver(l) \/ \E c \in Clients : Accept(l, c)
    <3>1. \E from \in LoopPlaces \ {"none"} : \E to : Goes(l, from, to)
      BY <2>3 DEF Run, Test, AcceptFails, AcceptWaits, AddEvent, AddEventFails, Accept, Deliver,
                  LoopPlaces
    <3>2. QED BY <2>1, <3>1
  <2>4. QED BY <2>2, <2>3 DEF LoopStep
<1>3. OneAcceptor'
  <2>1. CASE AddEventTwice(l)
    <3>1. PICK k \in Loops : k[1] = l[1] /\ loop[k] = "blocked" BY <2>1 DEF AddEventTwice
    <3>2. Begun(k) /\ Begun(l) /\ k # l BY <2>1, <3>1 DEF AddEventTwice, Begun
    <3>3. restarted BY <3>1, <3>2 DEF IndInv, OneLoop
    <3>4. QED BY <1>1, <3>3 DEF OneAcceptor
  <2>2. CASE failed' = failed BY <1>1, <2>2 DEF OneAcceptor, IndInv
  <2>3. QED
    BY <2>1, <2>2 DEF Run, LoopStep, Test, AcceptFails, AcceptWaits, AddEvent, AddEventFails, Accept,
                      Deliver
<1>4. QED BY <1>1, <1>2, <1>3, LoopsOnly

LEMMA ClosingStepInv ==
  ASSUME IndInv, TypeOK', ClosingBegins \/ ClosingRaces \/ ClosingStep
  PROVE  IndInv'
<1> USE DEF IndInv, AllClosable, OneAcceptor, NewOnes, OneLoop, Begun, Quiet, Closing
<1>1. CASE ClosingBegins BY <1>1 DEF ClosingBegins
<1>2. CASE ClosingRaces BY <1>2 DEF ClosingRaces
<1>3. CASE ClosingCancels
  <2>1. \A l \in Loops : Begun(l)' = Begun(l) BY <1>3 DEF ClosingCancels, TypeOK
  <2>2. /\ UNCHANGED <<m_isStop, m_socks, used, stops, listening, raced, restarted, failed>>
        /\ Closing /\ Closing' /\ closing'.left = closing.left
    BY <1>3 DEF ClosingCancels, TypeOK
  <2>3. QED BY <2>1, <2>2
<1>4. CASE ClosingCloses BY <1>4 DEF ClosingCloses, ShutDown
<1>5. CASE ClosingEnds
  <2>1. /\ UNCHANGED <<m_isStop, stops, loop, failed, restarted, raced, used>> /\ m_socks' = {}
        /\ listening' \subseteq listening
    BY <1>5 DEF ClosingEnds, Clear, ShutDown
  <2>2. closing.left = {} /\ Closing /\ ~Closing' BY <1>5 DEF ClosingEnds, TypeOK
  <2>3. ~raced => listening = {} BY <2>2
  <2>4. QED BY <2>1, <2>2, <2>3
<1>6. QED BY <1>1, <1>2, <1>3, <1>4, <1>5 DEF ClosingStep

LEMMA ClientStepInv ==
  ASSUME IndInv, TypeOK', NEW c \in Clients, HandlerStep(c) \/ ClientStep(c)
  PROVE  IndInv'
<1>1. UNCHANGED <<server, listening, pool, history>>
  BY DEF HandlerStep, Handle, RecvRequest, RecvFails, RecvOverruns, RecvEnds, Respond, RespondFails,
         Step, ClientStep, Ask, Dial, HangUp
<1>2. QED
  BY <1>1 DEF IndInv, AllClosable, OneAcceptor, NewOnes, OneLoop, Begun, Quiet, Closing

LEMMA IndInvariant == Spec => []IndInv
<1>1. Init => IndInv
  <2> SUFFICES ASSUME Init PROVE IndInv OBVIOUS
  <2>1. TypeOK
    <3>1. loop \in [Loops -> LoopPlaces] BY DEF Init, LoopPlaces
    <3>2. starts \in 0..MaxStarts /\ stops \in 0..MaxStops BY DEF Init
    <3>3. closing \in [at : {"none", "cancelAll", "close", "close_f"}, left : SUBSET Socks]
      BY DEF Init
    <3>4. QED BY <3>1, <3>2, <3>3 DEF Init, TypeOK
  <2>2. \A l \in Loops : ~Begun(l) BY DEF Init, Begun
  <2>3. NewOnes /\ OneLoop BY <2>2 DEF NewOnes, OneLoop
  <2>4. AllClosable /\ OneAcceptor /\ ~Closing BY DEF Init, AllClosable, OneAcceptor, Closing
  <2>5. QED BY <2>1, <2>2, <2>3, <2>4 DEF IndInv
<1>2. IndInv /\ [Next]_vars => IndInv'
  <2> SUFFICES ASSUME IndInv, [Next]_vars PROVE IndInv' OBVIOUS
  <2>1. CASE UNCHANGED vars
    BY <2>1 DEF vars, IndInv, AllClosable, OneAcceptor, NewOnes, OneLoop, Begun, Quiet, Closing, TypeOK
  <2>2. CASE Next
    <3>1. TypeOK' BY <2>2, TypeStep DEF IndInv
    <3>2. QED BY <2>2, <3>1, ProgramStepInv, LoopStepInv, ClosingStepInv, ClientStepInv DEF Next
  <2>3. QED BY <2>1, <2>2
<1>3. QED BY <1>1, <1>2, PTL DEF Spec

\* Every listening socket is in m_socks, where stop() and the destructor find
\* it, whatever bind() calls failed and however start(), stop(), the closing,
\* the loops and the clients interleave, until a bind() fails while the server
\* runs or is being closed, or meets the closing.
THEOREM ClosableTheorem == Spec => []AllClosable
<1>1. IndInv => AllClosable BY DEF IndInv
<1>2. QED BY <1>1, IndInvariant, PTL

\* addEvent()'s assertion that nobody waits for the socket yet holds in every
\* accept loop until start() is called before the closing of the stop() before
\* it is done.
THEOREM AcceptorTheorem == Spec => []OneAcceptor
<1>1. IndInv => OneAcceptor BY DEF IndInv
<1>2. QED BY <1>1, IndInvariant, PTL
=============================================================================
