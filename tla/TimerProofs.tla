---------------------------- MODULE TimerProofs ----------------------------
(* Proofs about Timer for every set of timers, users and pollers and every  *)
(* bound: types, the coherence of the timer set that Timer::cancel() relies *)
(* on, that no timer is collected early and no one-shot timer twice, and    *)
(* that the pollers never all sleep past the earliest timer.                *)
EXTENDS Timer, FiniteSetTheorems, TLAPS

\* The timer whose constructor has run belongs to the one caller that is
\* about to insert it, and still has its callback.
Owned ==
  /\ \A u \in Users : user[u].do = "insert" =>
       user[u].timer \in Ids /\ state[user[u].timer] = "built" /\ m_cb[user[u].timer]
  /\ \A u, v \in Users :
       (user[u].do = "insert" /\ user[v].do = "insert" /\ user[u].timer = user[v].timer) => u = v

\* A poller's copy of the clock is not in the future.
ClockRead == jumps = 0 => \A p \in Pollers : now_ms[p] <= clock

\* m_next - m_ms, the start that reset() goes back to, does not underflow.
Started == \A i \in Ids : m_ms[i] <= m_next[i]

IndInv == TypeOK /\ Owned /\ SetCoherent /\ ClockRead /\ Started

USE TimerAssumption

\* The initial state, with an empty set, satisfies the invariant.
LEMMA InitInv == Init => IndInv
<1> SUFFICES ASSUME Init PROVE IndInv OBVIOUS
<1>1. TypeOK
  <2>1. clock \in Nat /\ m_previouseTime \in Nat BY DEF Init
  <2>2. user \in [Users -> [do : {"idle", "insert", "tickle"}, timer : Ids \cup {None}]]
    BY DEF Init, Idle
  <2>3. poll \in [Pollers -> PollStates] /\ cbs \in [Pollers -> SUBSET Ids]
    BY DEF Init, PollStates
  <2> QED BY <2>1, <2>2, <2>3 DEF Init, TypeOK
<1>2. Owned BY DEF Init, Owned, Idle
<1>3. SetCoherent BY DEF Init, SetCoherent
<1>4. ClockRead /\ Started BY DEF Init, ClockRead, Started
<1> QED BY <1>1, <1>2, <1>3, <1>4 DEF IndInv

\* Steps that leave the timers and their set alone keep the set coherent.
LEMMA CoherentKept ==
  ASSUME SetCoherent, UNCHANGED <<m_timers, m_next, state, m_cb, failed>>
  PROVE  SetCoherent'
BY DEF SetCoherent, Entry

\* Steps of pollers and of the clock do not touch what Owned speaks of.
LEMMA OwnedKept ==
  ASSUME Owned, UNCHANGED <<user, state, m_cb>>
  PROVE  Owned'
BY DEF Owned

\* Two different timers have different entries, and a coherent set tells
\* which timers are in it.
LEMMA EntryOf ==
  ASSUME TypeOK, SetCoherent, NEW e \in m_timers
  PROVE  /\ e[2] \in Ids /\ e = Entry(e[2]) /\ state[e[2]] = "shared" /\ m_cb[e[2]]
         /\ e[1] = m_next[e[2]]
<1>1. e[2] \in Ids BY DEF TypeOK
<1>2. e \in {x \in m_timers : x[2] = e[2]} OBVIOUS
<1>3. state[e[2]] = "shared" /\ m_cb[e[2]] /\ e = Entry(e[2]) BY <1>1, <1>2 DEF SetCoherent
<1> QED BY <1>1, <1>3 DEF Entry

\* Replacing a timer's entry together with its m_next, as refresh() and
\* reset() do, keeps the set coherent.
LEMMA CoherentReplace ==
  ASSUME TypeOK, SetCoherent, NEW i \in Ids, NEW t \in Nat, state[i] = "shared", m_cb[i],
         m_next' = [m_next EXCEPT ![i] = t],
         m_timers' = (m_timers \ {Entry(i)}) \cup {<<t, i>>},
         UNCHANGED <<state, m_cb, failed>>
  PROVE  SetCoherent'
<1> SUFFICES ASSUME NEW j \in Ids
             PROVE {e \in m_timers' : e[2] = j} =
                     IF state'[j] = "shared" /\ m_cb'[j] THEN {Entry(j)'} ELSE {}
    BY DEF SetCoherent
<1>1. CASE j = i BY <1>1 DEF SetCoherent, TypeOK, Entry
<1>2. CASE j # i BY <1>2 DEF SetCoherent, TypeOK, Entry
<1> QED BY <1>1, <1>2

\* What addTimer(val, lock) does to the caller's own state.
LEMMA InsertUser ==
  ASSUME TypeOK, NEW u \in Users, NEW S, NEW e, NEW h \in Ids \cup {None}, Insert(u, S, e, h)
  PROVE  /\ m_timers' = S \cup {e} /\ m_tickled' \in BOOLEAN
         /\ user' \in [Users -> [do : {"idle", "insert", "tickle"}, timer : Ids \cup {None}]]
         /\ \A v \in Users : user'[v].do = "insert" => v # u /\ user'[v] = user[v]
<1>1. m_timers' = S \cup {e} BY DEF Insert
<1>2. m_tickled' \in BOOLEAN BY DEF Insert, TypeOK
<1>3. \E d \in {"idle", "tickle"}, x \in Ids \cup {None} :
        user' = [user EXCEPT ![u] = [do |-> d, timer |-> x]]
  BY DEF Insert, Idle
<1>4. PICK d \in {"idle", "tickle"}, x \in Ids \cup {None} :
        user' = [user EXCEPT ![u] = [do |-> d, timer |-> x]]
  BY <1>3
<1> QED BY <1>1, <1>2, <1>4 DEF TypeOK

\* Timer::Timer() only touches a timer nobody knows yet.
LEMMA ConstructInv ==
  ASSUME IndInv, NEW u \in Users, NEW i \in Ids, NEW ms \in Delays, NEW r \in BOOLEAN,
         Construct(u, i, ms, r)
  PROVE  IndInv'
<1> USE DEF IndInv, Construct, manager, pollers, bounds
<1>1. TypeOK'
  <2>1. ms \in Nat /\ clock + ms \in Nat BY DEF TypeOK
  <2>2. m_next' \in [Ids -> Nat] /\ m_ms' \in [Ids -> Nat] BY <2>1 DEF TypeOK
  <2>3. m_recurring' \in [Ids -> BOOLEAN] /\ m_cb' \in [Ids -> BOOLEAN] BY Zenon DEF TypeOK
  <2>4. state' \in [Ids -> {"fresh", "built", "shared"}] BY DEF TypeOK
  <2>5. user' \in [Users -> [do : {"idle", "insert", "tickle"}, timer : Ids \cup {None}]]
    BY DEF TypeOK
  <2> QED BY <2>2, <2>3, <2>4, <2>5 DEF TypeOK
<1>2. Owned'
  <2>1. \A v \in Users : user[v].do = "insert" => user[v].timer # i BY DEF Owned
  <2>2. ASSUME NEW v \in Users, user'[v].do = "insert"
        PROVE  /\ user'[v].timer \in Ids /\ state'[user'[v].timer] = "built"
               /\ m_cb'[user'[v].timer] /\ (user'[v].timer = i => v = u)
    <3>1. CASE v = u BY <2>2, <3>1 DEF TypeOK
    <3>2. CASE v # u BY <2>1, <2>2, <3>2 DEF TypeOK, Owned
    <3> QED BY <3>1, <3>2
  <2>3. ASSUME NEW v \in Users, NEW w \in Users, user'[v].do = "insert",
               user'[w].do = "insert", user'[v].timer = user'[w].timer
        PROVE  v = w
    <3>1. CASE user'[v].timer = i BY <2>2, <2>3, <3>1
    <3>2. CASE user'[v].timer # i
      <4>1. user'[u].timer = i BY DEF TypeOK
      <4>2. v # u /\ w # u BY <2>3, <3>2, <4>1
      <4>3. user'[v] = user[v] /\ user'[w] = user[w] BY <4>2 DEF TypeOK
      <4> QED BY <2>3, <4>3 DEF Owned
    <3> QED BY <3>1, <3>2
  <2> QED BY <2>2, <2>3 DEF Owned
<1>3. SetCoherent'
  <2> SUFFICES ASSUME NEW j \in Ids
               PROVE {e \in m_timers' : e[2] = j} =
                       IF state'[j] = "shared" /\ m_cb'[j] THEN {Entry(j)'} ELSE {}
      BY DEF SetCoherent
  <2>1. CASE j = i BY <2>1 DEF SetCoherent, TypeOK
  <2>2. CASE j # i BY <2>2 DEF SetCoherent, TypeOK, Entry
  <2> QED BY <2>1, <2>2
<1>4. ClockRead' /\ Started' BY DEF ClockRead, Started, TypeOK
<1> QED BY <1>1, <1>2, <1>3, <1>4

\* The insertion makes the caller's own timer, and no other, shared.
LEMMA AddTimerInv ==
  ASSUME IndInv, NEW u \in Users, AddTimer(u)
  PROVE  IndInv'
<1> DEFINE i == user[u].timer
<1> USE DEF IndInv, AddTimer, pollers, bounds
<1>1. i \in Ids /\ state[i] = "built" /\ m_cb[i] BY DEF Owned
<1>2. Entry(i) \in Nat \X Ids BY <1>1 DEF Entry, TypeOK
<1>3. /\ m_timers' = m_timers \cup {Entry(i)} /\ m_tickled' \in BOOLEAN
      /\ user' \in [Users -> [do : {"idle", "insert", "tickle"}, timer : Ids \cup {None}]]
      /\ \A v \in Users : user'[v].do = "insert" => v # u /\ user'[v] = user[v]
  BY <1>1, InsertUser
<1>4. TypeOK'
  <2>1. m_timers' \subseteq Nat \X Ids BY <1>2, <1>3 DEF TypeOK
  <2>2. state' \in [Ids -> {"fresh", "built", "shared"}] BY DEF TypeOK
  <2> QED BY <2>1, <2>2, <1>3 DEF TypeOK
<1>5. Owned'
  <2>1. \A v \in Users : user'[v].do = "insert" =>
          user'[v].timer \in Ids /\ user'[v].timer # i /\ state[user'[v].timer] = "built" /\ m_cb[user'[v].timer]
    BY <1>3 DEF Owned
  <2>2. \A v \in Users : user'[v].do = "insert" =>
          user'[v].timer \in Ids /\ state'[user'[v].timer] = "built" /\ m_cb'[user'[v].timer]
    BY <2>1, <1>1 DEF TypeOK
  <2> QED BY <1>3, <2>2 DEF Owned
<1>6. SetCoherent'
  <2> SUFFICES ASSUME NEW j \in Ids
               PROVE {e \in m_timers' : e[2] = j} =
                       IF state'[j] = "shared" /\ m_cb'[j] THEN {Entry(j)'} ELSE {}
      BY DEF SetCoherent
  <2>1. CASE j = i
    <3>1. {e \in m_timers : e[2] = j} = {} BY <1>1, <2>1 DEF SetCoherent
    <3>2. state'[j] = "shared" /\ m_cb'[j] BY <1>1, <2>1 DEF TypeOK
    <3>3. Entry(j)' = Entry(i) /\ Entry(i)[2] = j BY <2>1 DEF Entry
    <3> QED BY <1>3, <3>1, <3>2, <3>3
  <2>2. CASE j # i
    <3>1. Entry(i)[2] # j /\ Entry(j)' = Entry(j) BY <2>2 DEF Entry
    <3>2. {e \in m_timers' : e[2] = j} = {e \in m_timers : e[2] = j} BY <1>3, <3>1
    <3>3. state'[j] = state[j] /\ m_cb'[j] = m_cb[j] BY <1>1, <2>2 DEF TypeOK
    <3> QED BY <3>1, <3>2, <3>3 DEF SetCoherent
  <2> QED BY <2>1, <2>2
<1>7. ClockRead' /\ Started' BY DEF ClockRead, Started, TypeOK
<1> QED BY <1>4, <1>5, <1>6, <1>7

\* cancel() finds the entry it erases.
LEMMA CancelInv ==
  ASSUME IndInv, NEW u \in Users, NEW i \in Ids, Cancel(u, i)
  PROVE  IndInv'
<1> USE DEF IndInv, Cancel, Handed, pollers, bounds
<1>1. TypeOK'
  <2>1. m_cb' \in [Ids -> BOOLEAN] BY Zenon DEF TypeOK
  <2>2. failed' \in BOOLEAN BY Zenon DEF TypeOK
  <2>3. m_timers' \subseteq Nat \X Ids BY DEF TypeOK
  <2> QED BY <2>1, <2>2, <2>3 DEF TypeOK
<1>2. Owned'
  <2>1. \A v \in Users : user[v].do = "insert" => user[v].timer # i BY DEF Owned
  <2> QED BY <2>1 DEF Owned, TypeOK
<1>3. Entry(i) \in m_timers BY DEF SetCoherent
<1>4. SetCoherent'
  <2> SUFFICES ASSUME NEW j \in Ids
               PROVE {e \in m_timers' : e[2] = j} =
                       IF state'[j] = "shared" /\ m_cb'[j] THEN {Entry(j)'} ELSE {}
      BY <1>3 DEF SetCoherent
  <2>1. CASE j = i BY <2>1 DEF SetCoherent, TypeOK, Entry
  <2>2. CASE j # i BY <2>2 DEF SetCoherent, TypeOK, Entry
  <2> QED BY <2>1, <2>2
<1>5. ClockRead' /\ Started' BY DEF ClockRead, Started, TypeOK
<1> QED BY <1>1, <1>2, <1>4, <1>5

\* refresh() replaces the timer's entry in the set together with m_next.
LEMMA RefreshInv ==
  ASSUME IndInv, NEW u \in Users, NEW i \in Ids, Refresh(u, i)
  PROVE  IndInv'
<1> USE DEF IndInv, Refresh, Handed, pollers
<1>0. clock + m_ms[i] \in Nat BY DEF TypeOK
<1>1. TypeOK'
  <2>1. m_next' \in [Ids -> Nat] BY <1>0 DEF TypeOK
  <2>2. m_timers' \subseteq Nat \X Ids BY <1>0 DEF TypeOK
  <2>3. changes' \in Nat BY DEF TypeOK
  <2> QED BY <2>1, <2>2, <2>3 DEF TypeOK
<1>2. Owned' BY OwnedKept
<1>3. SetCoherent' BY <1>0, CoherentReplace
<1>4. ClockRead' /\ Started' BY DEF ClockRead, Started, TypeOK
<1> QED BY <1>1, <1>2, <1>3, <1>4

\* reset() does the same, from now or from the timer's last start.
LEMMA ResetInv ==
  ASSUME IndInv, NEW u \in Users, NEW i \in Ids, NEW ms \in Delays, NEW b \in BOOLEAN,
         Reset(u, i, ms, b)
  PROVE  IndInv'
<1> DEFINE start == IF b THEN clock ELSE m_next[i] - m_ms[i]
<1> USE DEF IndInv, Reset, Handed, pollers
<1>0. ms \in Nat /\ start \in Nat /\ ms + start \in Nat BY DEF TypeOK, Started
<1>1. /\ m_timers' = (m_timers \ {Entry(i)}) \cup {<<ms + start, i>>}
      /\ m_tickled' \in BOOLEAN
      /\ user' \in [Users -> [do : {"idle", "insert", "tickle"}, timer : Ids \cup {None}]]
      /\ \A v \in Users : user'[v].do = "insert" => v # u /\ user'[v] = user[v]
  <2>1. Insert(u, m_timers \ {Entry(i)}, <<ms + start, i>>, None) OBVIOUS
  <2> HIDE DEF start
  <2> QED BY <2>1, InsertUser
<1>2. m_next' = [m_next EXCEPT ![i] = ms + start] /\ m_ms' = [m_ms EXCEPT ![i] = ms] OBVIOUS
<1>3. changes' \in Nat BY DEF TypeOK
<1>4. /\ Handed(i) /\ m_cb[i]
      /\ UNCHANGED <<clock, m_previouseTime, m_recurring, m_cb, state, pollers, pipe, fires,
                     jumps, signals, failed>>
  OBVIOUS
<1> HIDE DEF start, Reset
<1>5. TypeOK'
  <2>1. m_next' \in [Ids -> Nat] /\ m_ms' \in [Ids -> Nat] BY <1>0, <1>2 DEF TypeOK
  <2>2. m_timers' \subseteq Nat \X Ids BY <1>0, <1>1 DEF TypeOK
  <2> QED BY <2>1, <2>2, <1>1, <1>3, <1>4 DEF TypeOK
<1>6. Owned' BY <1>1, <1>4 DEF Owned
<1>7. SetCoherent' BY <1>0, <1>1, <1>2, <1>4, CoherentReplace
<1>8. ClockRead' BY <1>4 DEF ClockRead
<1>9. Started' BY <1>0, <1>2 DEF Started, TypeOK
<1> QED BY <1>5, <1>6, <1>7, <1>8, <1>9

\* The wait handed to epoll_wait() is a natural number of milliseconds.
LEMMA TimeoutsNat ==
  ASSUME TypeOK
  PROVE  Timeouts \subseteq Nat
<1>1. \A k \in Keys(m_timers) : k \in Nat BY DEF Keys, TypeOK
<1>2. \A k \in Keys(m_timers) : Wait(k) \in Nat BY <1>1 DEF Wait, TypeOK
<1> QED BY <1>2 DEF Timeouts

\* Steps that touch neither the timers nor their set.
LEMMA QuietInv ==
  ASSUME IndInv, NEW p \in Pollers,
         \/ EnterIdle(p) \/ GetNextTimer(p) \/ EpollWait(p) \/ FdEvent(p) \/ Interrupted(p)
         \/ ReadClock(p) \/ Drain(p)
  PROVE  IndInv'
<1> USE DEF IndInv, manager, fields, bounds
<1>1. CASE EnterIdle(p)
  <2>1. TypeOK' BY <1>1 DEF EnterIdle, TypeOK, PollStates
  <2> QED BY <1>1, <2>1, CoherentKept, OwnedKept DEF EnterIdle, ClockRead, Started
<1>2. CASE GetNextTimer(p)
  <2>1. PICK t \in Nat : /\ left' = [left EXCEPT ![p] = t]
                        /\ next_timeout' = [next_timeout EXCEPT ![p] = t]
    BY <1>2, TimeoutsNat DEF GetNextTimer
  <2>2. TypeOK' BY <1>2, <2>1 DEF GetNextTimer, TypeOK, PollStates
  <2> QED BY <1>2, <2>2, CoherentKept, OwnedKept DEF GetNextTimer, ClockRead, Started
<1>3. CASE EpollWait(p)
  <2>1. TypeOK' BY <1>3 DEF EpollWait, TypeOK, PollStates
  <2> QED BY <1>3, <2>1, CoherentKept, OwnedKept DEF EpollWait, ClockRead, Started
<1>4. CASE ReadClock(p)
  <2>1. TypeOK' BY <1>4 DEF ReadClock, TypeOK, PollStates
  <2>2. ClockRead' BY <1>4 DEF ReadClock, ClockRead, TypeOK
  <2> QED BY <1>4, <2>1, <2>2, CoherentKept, OwnedKept DEF ReadClock, Started
<1>5. CASE FdEvent(p)
  <2>1. TypeOK' BY <1>5 DEF FdEvent, TypeOK, PollStates
  <2> QED BY <1>5, <2>1, CoherentKept, OwnedKept DEF FdEvent, ClockRead, Started
<1>6. CASE Interrupted(p)
  <2>1. TypeOK' BY <1>6 DEF Interrupted, TypeOK, PollStates
  <2> QED BY <1>6, <2>1, CoherentKept, OwnedKept DEF Interrupted, ClockRead, Started
<1>7. CASE Drain(p)
  <2>1. pipe' \in BOOLEAN BY <1>7, Zenon DEF Drain
  <2>2. woken' \in [Pollers -> BOOLEAN] /\ poll' \in [Pollers -> PollStates]
    BY <1>7 DEF Drain, TypeOK, PollStates
  <2>3. TypeOK' BY <1>7, <2>1, <2>2 DEF Drain, TypeOK
  <2> QED BY <1>7, <2>3, CoherentKept, OwnedKept DEF Drain, ClockRead, Started
<1> QED BY <1>1, <1>2, <1>3, <1>4, <1>5, <1>6, <1>7

\* The tickle after addTimer()'s unlock.
LEMMA TickleInv ==
  ASSUME IndInv, NEW u \in Users, Tickle(u)
  PROVE  IndInv'
<1> USE DEF IndInv, Tickle, manager, fields, pollers, bounds
<1>1. TypeOK'
  <2>1. user' \in [Users -> [do : {"idle", "insert", "tickle"}, timer : Ids \cup {None}]]
    BY DEF TypeOK, Idle
  <2>2. pipe' \in BOOLEAN BY Zenon DEF TypeOK
  <2> QED BY <2>1, <2>2 DEF TypeOK
<1>2. Owned'
  <2>1. \A v \in Users : user'[v].do = "insert" => user'[v] = user[v] BY DEF TypeOK, Idle
  <2> QED BY <2>1 DEF Owned
<1> QED BY <1>1, <1>2, CoherentKept DEF ClockRead, Started

\* The expired entries are entries of the set.
LEMMA ExpiredSubset == \A now : Expired(now) \subseteq m_timers
BY DEF Expired

\* listExpiredCb() erases the entries of the timers it collects, puts the
\* recurring ones back under their new m_next and clears the others' callback.
LEMMA ListExpiredInv ==
  ASSUME IndInv, NEW p \in Pollers, ListExpiredCb(p)
  PROVE  IndInv'
<1> DEFINE now == now_ms[p]
           due == {e[2] : e \in Expired(now)}
           again == {i \in due : m_recurring[i]}
<1> USE DEF IndInv, bounds
<1>0. /\ UNCHANGED <<clock, m_ms, m_recurring, state, user, next_timeout, left, now_ms, woken, pipe, fires, jumps,
                     changes, signals, failed>>
      /\ poll' = [poll EXCEPT ![p] = "schedule"]
  BY DEF ListExpiredCb
<1>1. poll' \in [Pollers -> PollStates] BY <1>0 DEF TypeOK, PollStates
<1>2. Owned' /\ ClockRead' /\ (m_next' = m_next => Started')
  <2>1. ClockRead' /\ (m_next' = m_next => Started') BY <1>0 DEF ClockRead, Started
  <2>2. CASE m_timers = {} 
    <3>1. m_cb' = m_cb BY <2>2 DEF ListExpiredCb
    <3> QED BY <1>0, <2>1, <3>1, OwnedKept
  <2>3. CASE m_timers # {}
    <3>1. m_cb' = [i \in Ids |-> m_cb[i] /\ i \notin due \ again] BY <2>3 DEF ListExpiredCb
    <3>2. \A i \in due : state[i] = "shared" BY ExpiredSubset, EntryOf
    <3>3. \A i \in Ids : state[i] = "built" => m_cb'[i] = m_cb[i]
      <4> SUFFICES ASSUME NEW i \in Ids, state[i] = "built" PROVE m_cb'[i] = m_cb[i]
          OBVIOUS
      <4>1. i \notin due BY <3>2
      <4>2. m_cb[i] \in BOOLEAN BY DEF TypeOK
      <4> QED BY <3>1, <4>1, <4>2
    <3> HIDE DEF due, again
    <3> QED BY <1>0, <2>1, <3>3 DEF Owned
  <2> QED BY <2>2, <2>3
<1>3. CASE m_timers = {}
  <2>1. UNCHANGED <<m_timers, m_tickled, m_previouseTime, m_next, m_cb, cbs>>
    BY <1>3 DEF ListExpiredCb, manager
  <2>2. TypeOK' BY <1>0, <1>1, <2>1 DEF TypeOK, bounds
  <2>3. SetCoherent' BY <1>0, <2>1, CoherentKept
  <2> QED BY <1>2, <2>1, <2>2, <2>3
<1>4. CASE m_timers # {}
  <2>1. /\ m_previouseTime' = now
        /\ m_next' = [i \in Ids |-> IF i \in again THEN now + m_ms[i] ELSE m_next[i]]
        /\ m_cb' = [i \in Ids |-> m_cb[i] /\ i \notin due \ again]
        /\ m_timers' = Remaining(now) \cup {<<now + m_ms[i], i>> : i \in again}
        /\ cbs' = [cbs EXCEPT ![p] = due]
        /\ m_tickled' = m_tickled
    BY <1>4 DEF ListExpiredCb
  <2>2. \A e \in Expired(now) : /\ e \in m_timers /\ e[2] \in Ids /\ e = Entry(e[2])
                                /\ state[e[2]] = "shared" /\ m_cb[e[2]]
    BY ExpiredSubset, EntryOf
  <2>3. due \subseteq Ids BY <2>2
  <2>4. \A i \in due : state[i] = "shared" /\ m_cb[i] /\ Entry(i) \in Expired(now) BY <2>2
  <2>5. now \in Nat /\ \A i \in Ids : m_ms[i] \in Nat /\ now + m_ms[i] \in Nat BY DEF TypeOK
  <2>6. Remaining(now) = m_timers \ Expired(now) BY DEF Remaining
  <2>7. \A e \in m_timers : e[2] \in due <=> e \in Expired(now) BY <2>4, EntryOf
  <2>8. again \subseteq due /\ \A i \in due \ again : ~m_recurring[i] OBVIOUS
  <2> HIDE DEF now, due, again
  <2>9. TypeOK'
    <3>1. m_next' \in [Ids -> Nat] BY <2>1, <2>5 DEF TypeOK
    <3>2. m_cb' \in [Ids -> BOOLEAN] BY <2>1, Zenon
    <3>3. m_timers' \subseteq Nat \X Ids BY <2>1, <2>3, <2>5, <2>6, <2>8 DEF TypeOK
    <3>4. cbs' \in [Pollers -> SUBSET Ids] BY <2>1, <2>3 DEF TypeOK
    <3> QED BY <1>0, <1>1, <2>1, <2>5, <3>1, <3>2, <3>3, <3>4 DEF TypeOK
  <2>10. SetCoherent'
    <3> SUFFICES ASSUME NEW j \in Ids
                 PROVE {e \in m_timers' : e[2] = j} =
                         IF state'[j] = "shared" /\ m_cb'[j] THEN {Entry(j)'} ELSE {}
        BY <1>0 DEF SetCoherent
    <3>0. Entry(j)' = <<m_next'[j], j>> /\ state'[j] = state[j] BY <1>0 DEF Entry
    <3>1. CASE j \notin due
      <4>1. m_next'[j] = m_next[j] /\ m_cb'[j] = m_cb[j]
        <5>1. j \notin again BY <2>8, <3>1
        <5>2. m_cb[j] \in BOOLEAN BY DEF TypeOK
        <5>3. m_cb'[j] = m_cb[j] BY <2>1, <3>1, <5>2
        <5> QED BY <2>1, <5>1, <5>3
      <4>2. {e \in m_timers' : e[2] = j} = {e \in m_timers : e[2] = j}
        <5>1. \A i \in again : i # j BY <2>8, <3>1
        <5> QED BY <2>1, <2>6, <2>7, <3>1, <5>1
      <4> QED BY <3>0, <4>1, <4>2 DEF SetCoherent, Entry
    <3>2. CASE j \in again
      <4>1. m_next'[j] = now + m_ms[j] BY <2>1, <3>2
      <4>2. state[j] = "shared" /\ m_cb'[j] BY <2>1, <2>4, <2>8, <3>2
      <4>3. {e \in m_timers' : e[2] = j} = {<<now + m_ms[j], j>>}
        <5>1. j \in due BY <2>8, <3>2
        <5> QED BY <2>1, <2>6, <2>7, <3>2, <5>1
      <4> QED BY <3>0, <4>1, <4>2, <4>3
    <3>3. CASE j \in due \ again
      <4>1. ~m_cb'[j] BY <2>1, <3>3
      <4>2. {e \in m_timers' : e[2] = j} = {}
        <5>1. \A i \in again : i # j BY <3>3
        <5> QED BY <2>1, <2>6, <2>7, <3>3, <5>1
      <4> QED BY <4>1, <4>2
    <3> QED BY <3>1, <3>2, <3>3
  <2>11. Started' BY <1>0, <2>1, <2>5 DEF Started, TypeOK
  <2> QED BY <1>2, <2>9, <2>10, <2>11
<1> QED BY <1>3, <1>4

\* Scheduler::schedule() of what was collected.
LEMMA ScheduleInv ==
  ASSUME IndInv, NEW p \in Pollers, Schedule(p)
  PROVE  IndInv'
<1> USE DEF IndInv, Schedule, manager, fields, bounds
<1>1. TypeOK'
  <2>1. fires' \in [Ids -> Nat] BY DEF TypeOK
  <2>2. cbs' \in [Pollers -> SUBSET Ids] /\ now_ms' \in [Pollers -> Nat] BY DEF TypeOK
  <2>3. poll' \in [Pollers -> PollStates] BY DEF TypeOK, PollStates
  <2> QED BY <2>1, <2>2, <2>3 DEF TypeOK
<1>2. ClockRead' BY DEF ClockRead, TypeOK
<1> QED BY <1>1, <1>2, CoherentKept, OwnedKept DEF Started

\* The passing of time, forward or back.
LEMMA TimeInv ==
  ASSUME IndInv, Tick \/ \E to \in 0..MaxTime : SetBack(to)
  PROVE  IndInv'
<1> USE DEF IndInv, manager, fields, bounds, pollers
<1>1. CASE Tick
  <2>1. TypeOK' BY <1>1 DEF Tick, TypeOK
  <2>2. ClockRead' BY <1>1 DEF Tick, ClockRead, TypeOK
  <2> QED BY <1>1, <2>1, <2>2, CoherentKept, OwnedKept DEF Tick, Started
<1>2. CASE \E to \in 0..MaxTime : SetBack(to)
  <2>1. TypeOK' BY <1>2 DEF SetBack, TypeOK
  <2>2. ClockRead' BY <1>2 DEF SetBack, ClockRead, TypeOK
  <2> QED BY <1>2, <2>1, <2>2, CoherentKept, OwnedKept DEF SetBack, Started
<1> QED BY <1>1, <1>2

\* Every step preserves the invariant.
LEMMA NextInv ==
  ASSUME IndInv, [Next]_vars
  PROVE  IndInv'
<1>1. ASSUME NEW u \in Users, UserStep(u) PROVE IndInv'
  BY <1>1, ConstructInv, AddTimerInv, TickleInv, CancelInv, RefreshInv, ResetInv DEF UserStep
<1>2. ASSUME NEW p \in Pollers, PollerStep(p) \/ FdEvent(p) \/ Interrupted(p) PROVE IndInv'
  BY <1>2, QuietInv, ListExpiredInv, ScheduleInv DEF PollerStep
<1>3. CASE UNCHANGED vars
  <2> USE <1>3 DEF vars, manager, fields, pollers, bounds, IndInv
  <2>1. TypeOK' BY DEF TypeOK
  <2> QED BY <2>1, CoherentKept, OwnedKept DEF ClockRead, Started
<1> QED BY <1>1, <1>2, <1>3, TimeInv DEF Next

\* The invariant holds in every reachable state.
LEMMA Invariance == Spec => []IndInv
<1>1. Init => IndInv BY InitInv
<1>2. IndInv /\ [Next]_vars => IndInv' BY NextInv
<1> QED BY <1>1, <1>2, PTL DEF Spec

\* Every variable keeps its type; in particular the wait computed by
\* getNextTimer() and the start computed by reset() never go below zero.
THEOREM TypeTheorem == Spec => []TypeOK
<1>1. IndInv => TypeOK BY DEF IndInv
<1> QED BY <1>1, Invariance, PTL

\* Timer::cancel() never erases end(): a timer that has its callback is in
\* the set under its present m_next, and only then.
THEOREM CoherenceTheorem == Spec => []SetCoherent
<1>1. IndInv => SetCoherent BY DEF IndInv
<1> QED BY <1>1, Invariance, PTL

\* listExpiredCb() collects no timer before its time, save after a rollover.
THEOREM NeverEarlyTheorem == Spec => NeverEarly
<1> DEFINE Step == \A p \in Pollers : \A i \in cbs'[p] \ cbs[p] :
                     \/ m_next[i] <= (IF jumps = 0 THEN clock ELSE now_ms[p])
                     \/ now_ms[p] < m_previouseTime - Gap
<1>1. ASSUME IndInv, NEW p \in Pollers, NEW i \in cbs'[p] \ cbs[p], ListExpiredCb(p)
      PROVE  \/ m_next[i] <= (IF jumps = 0 THEN clock ELSE now_ms[p])
             \/ now_ms[p] < m_previouseTime - Gap
  <2>1. cbs'[p] = {e[2] : e \in Expired(now_ms[p])} BY <1>1 DEF IndInv, TypeOK, ListExpiredCb
  <2>2. PICK e \in Expired(now_ms[p]) : i = e[2] BY <1>1, <2>1
  <2>3. e \in m_timers BY <2>2, ExpiredSubset
  <2>4. e[1] = m_next[i] /\ i \in Ids BY <1>1, <2>2, <2>3, EntryOf DEF IndInv
  <2>5. CASE DetectClockRollover(now_ms[p]) BY <2>5 DEF DetectClockRollover
  <2>6. CASE ~DetectClockRollover(now_ms[p])
    <3>1. m_next[i] <= now_ms[p] BY <2>2, <2>4, <2>6 DEF Expired
    <3> QED BY <1>1, <2>4, <3>1 DEF IndInv, ClockRead, TypeOK
  <2> QED BY <2>5, <2>6
<1>2. ASSUME IndInv, [Next]_vars PROVE [Step]_vars
  <2>1. ASSUME NEW q \in Pollers, PollerStep(q) PROVE Step
    <3> SUFFICES ASSUME NEW p \in Pollers, NEW i \in cbs'[p] \ cbs[p]
                 PROVE  \/ m_next[i] <= (IF jumps = 0 THEN clock ELSE now_ms[p])
                        \/ now_ms[p] < m_previouseTime - Gap
        OBVIOUS
    <3>1. CASE ListExpiredCb(q)
      <4>1. CASE p = q BY <1>1, <1>2, <3>1, <4>1
      <4>2. CASE p # q BY <1>2, <3>1, <4>2 DEF ListExpiredCb, IndInv, TypeOK
      <4> QED BY <4>1, <4>2
    <3>2. CASE Schedule(q) BY <1>2, <3>2 DEF Schedule, IndInv, TypeOK
    <3> QED BY <2>1, <3>1, <3>2 DEF PollerStep, EnterIdle, GetNextTimer, EpollWait, ReadClock, Drain
  <2>2. ASSUME cbs' = cbs PROVE Step BY <2>2
  <2>3. ASSUME NEW u \in Users, UserStep(u) PROVE cbs' = cbs
    BY <2>3 DEF UserStep, Construct, AddTimer, Tickle, Cancel, Refresh, Reset, pollers
  <2>4. (Tick \/ (\E p \in Pollers : FdEvent(p) \/ Interrupted(p))
               \/ \E to \in 0..MaxTime : SetBack(to)) => cbs' = cbs
    BY DEF Tick, FdEvent, Interrupted, SetBack, pollers
  <2> HIDE DEF Step
  <2> QED BY <1>2, <2>1, <2>2, <2>3, <2>4 DEF Next
<1>3. IndInv /\ [Next]_vars => [Step]_vars BY <1>2
<1>4. Spec => [][Step]_vars BY <1>3, Invariance, PTL DEF Spec
<1> QED BY <1>4 DEF NeverEarly
----------------------------------------------------------------------------
(* One-shot timers.                                                         *)

\* The callback of a one-shot timer is in one place: with the timer, with one
\* poller, or handed to schedule(). Nobody has that of a timer to be built.
Spent ==
  \A i \in Ids :
    /\ state[i] = "fresh" \/ (~m_recurring[i] /\ m_cb[i]) =>
         fires[i] = 0 /\ \A p \in Pollers : i \notin cbs[p]
    /\ ~m_recurring[i] =>
         /\ fires[i] <= 1
         /\ fires[i] = 1 => \A p \in Pollers : i \notin cbs[p]
         /\ \A p, q \in Pollers : i \in cbs[p] /\ i \in cbs[q] => p = q

\* A step that collects and schedules nothing, and gives no old timer a callback.
LEMMA SpentKept ==
  ASSUME Spent, UNCHANGED <<cbs, fires>>,
         \A i \in Ids : \/ m_recurring'[i] = m_recurring[i] /\ (m_cb'[i] => m_cb[i])
                          /\ (state'[i] = "fresh" => state[i] = "fresh")
                       \/ state[i] = "fresh"
  PROVE  Spent'
BY DEF Spent

LEMMA CollectSpent == ASSUME IndInv, Spent, NEW p \in Pollers, ListExpiredCb(p) PROVE Spent'
<1> DEFINE due == {e[2] : e \in Expired(now_ms[p])}
           again == {i \in due : m_recurring[i]}
<1>1. UNCHANGED <<m_recurring, state, fires>> BY DEF ListExpiredCb
<1>2. CASE m_timers = {}
  <2>1. UNCHANGED <<m_cb, cbs>> BY <1>2 DEF ListExpiredCb
  <2> QED BY <1>1, <2>1, SpentKept
<1>3. CASE m_timers # {}
  <2>1. /\ m_cb' = [i \in Ids |-> m_cb[i] /\ i \notin due \ again]
        /\ cbs' = [cbs EXCEPT ![p] = due]
    BY <1>3 DEF ListExpiredCb
  <2>2. \A i \in due : i \in Ids /\ state[i] = "shared" /\ m_cb[i] BY ExpiredSubset, EntryOf DEF IndInv
  <2>3. \A i \in due : ~m_recurring[i] => i \in due \ again OBVIOUS
  <2> HIDE DEF due, again
  <2>4. cbs'[p] = due /\ \A q \in Pollers \ {p} : cbs'[q] = cbs[q] BY <2>1 DEF IndInv, TypeOK
  <2> SUFFICES ASSUME NEW i \in Ids
               PROVE  /\ state[i] = "fresh" \/ (~m_recurring[i] /\ m_cb'[i]) =>
                           fires[i] = 0 /\ \A q \in Pollers : i \notin cbs'[q]
                      /\ ~m_recurring[i] =>
                           /\ fires[i] <= 1
                           /\ fires[i] = 1 => \A q \in Pollers : i \notin cbs'[q]
                           /\ \A q, r \in Pollers : i \in cbs'[q] /\ i \in cbs'[r] => q = r
    BY <1>1 DEF Spent
  <2>5. CASE i \in due
    <3>1. state[i] = "shared" /\ m_cb[i] BY <2>2, <2>5
    <3>2. ~m_recurring[i] => ~m_cb'[i] BY <2>1, <2>3, <2>5
    <3>3. ~m_recurring[i] => fires[i] = 0 /\ \A q \in Pollers : i \notin cbs[q] BY <3>1 DEF Spent
    <3>4. ~m_recurring[i] => \A q \in Pollers : i \in cbs'[q] => q = p BY <2>4, <3>3
    <3> QED BY <3>1, <3>2, <3>3, <3>4
  <2>6. CASE i \notin due
    <3>1. \A q \in Pollers : i \in cbs'[q] => i \in cbs[q] BY <2>4, <2>6
    <3>2. m_cb'[i] => m_cb[i] BY <2>1
    <3> QED BY <3>1, <3>2 DEF Spent
  <2> QED BY <2>5, <2>6
<1> QED BY <1>2, <1>3

LEMMA ScheduleSpent == ASSUME IndInv, Spent, NEW p \in Pollers, Schedule(p) PROVE Spent'
<1>1. UNCHANGED <<m_recurring, m_cb, state>> BY DEF Schedule, fields
<1>2. cbs'[p] = {} /\ \A q \in Pollers \ {p} : cbs'[q] = cbs[q] BY DEF Schedule, IndInv, TypeOK
<1>3. \A i \in Ids : /\ fires[i] \in Nat
                     /\ fires'[i] \in {fires[i], fires[i] + 1}
                     /\ fires'[i] # fires[i] => i \in cbs[p]
  BY DEF Schedule, IndInv, TypeOK
<1> SUFFICES ASSUME NEW i \in Ids
             PROVE  /\ state[i] = "fresh" \/ (~m_recurring[i] /\ m_cb[i]) =>
                         fires'[i] = 0 /\ \A q \in Pollers : i \notin cbs'[q]
                    /\ ~m_recurring[i] =>
                         /\ fires'[i] <= 1
                         /\ fires'[i] = 1 => \A q \in Pollers : i \notin cbs'[q]
                         /\ \A q, r \in Pollers : i \in cbs'[q] /\ i \in cbs'[r] => q = r
  BY <1>1 DEF Spent
<1>4. \A q \in Pollers : i \in cbs'[q] => i \in cbs[q] /\ q # p BY <1>2
<1>5. CASE i \in cbs[p]
  <2>1. state[i] # "fresh" /\ (m_recurring[i] \/ ~m_cb[i]) BY <1>5 DEF Spent
  <2>2. ~m_recurring[i] => /\ fires[i] <= 1 /\ fires[i] # 1
                           /\ \A q \in Pollers : i \in cbs[q] => q = p
    BY <1>5 DEF Spent
  <2>3. ~m_recurring[i] => fires'[i] <= 1 BY <1>3, <2>2
  <2> QED BY <1>4, <2>1, <2>2, <2>3
<1>6. CASE i \notin cbs[p] BY <1>3, <1>4, <1>6 DEF Spent
<1> QED BY <1>5, <1>6

LEMMA SpentStep == ASSUME IndInv, Spent, [Next]_vars PROVE Spent'
<1>1. ASSUME NEW u \in Users, UserStep(u) PROVE Spent'
  <2>1. ASSUME NEW i \in Ids, NEW ms \in Delays, NEW r \in BOOLEAN, Construct(u, i, ms, r) PROVE Spent'
    BY <2>1, SpentKept DEF Construct, pollers, IndInv, TypeOK
  <2>2. CASE AddTimer(u)
    <3>1. \A i \in Ids : state'[i] = "fresh" => state[i] = "fresh" BY <2>2 DEF AddTimer, IndInv, TypeOK
    <3> QED BY <2>2, <3>1, SpentKept DEF AddTimer, pollers
  <2>3. CASE Tickle(u) BY <2>3, SpentKept DEF Tickle, fields, pollers
  <2>4. ASSUME NEW i \in Ids, Cancel(u, i) PROVE Spent'
    <3>1. \A j \in Ids : m_cb'[j] => m_cb[j] BY <2>4 DEF Cancel, IndInv, TypeOK
    <3> QED BY <2>4, <3>1, SpentKept DEF Cancel, pollers
  <2>5. ASSUME NEW i \in Ids, Refresh(u, i) PROVE Spent'
    BY <2>5, SpentKept DEF Refresh, pollers
  <2>6. ASSUME NEW i \in Ids, NEW ms \in Delays, NEW b \in BOOLEAN, Reset(u, i, ms, b) PROVE Spent'
    BY <2>6, SpentKept DEF Reset, pollers
  <2> QED BY <1>1, <2>1, <2>2, <2>3, <2>4, <2>5, <2>6 DEF UserStep
<1>2. ASSUME NEW p \in Pollers, PollerStep(p) \/ FdEvent(p) \/ Interrupted(p) PROVE Spent'
  <2>1. CASE ListExpiredCb(p) BY <2>1, CollectSpent
  <2>2. CASE Schedule(p) BY <2>2, ScheduleSpent
  <2>3. CASE \/ EnterIdle(p) \/ GetNextTimer(p) \/ EpollWait(p) \/ ReadClock(p) \/ FdEvent(p)
             \/ Interrupted(p) \/ Drain(p)
    BY <2>3, SpentKept
       DEF EnterIdle, GetNextTimer, EpollWait, ReadClock, FdEvent, Interrupted, Drain, fields
  <2> QED BY <1>2, <2>1, <2>2, <2>3 DEF PollerStep
<1>3. CASE Tick \/ \E to \in 0..MaxTime : SetBack(to)
  BY <1>3, SpentKept DEF Tick, SetBack, fields, pollers
<1>4. CASE UNCHANGED vars BY <1>4, SpentKept DEF vars, fields, pollers
<1> QED BY <1>1, <1>2, <1>3, <1>4 DEF Next

\* At most one element, none or one.
LEMMA AtMostOne ==
  ASSUME NEW S, \A x, y \in S : x = y
  PROVE  (S = {} /\ Cardinality(S) = 0) \/ (S # {} /\ Cardinality(S) = 1)
<1>1. CASE S = {} BY <1>1, FS_EmptySet
<1>2. CASE S # {}
  <2>1. PICK x : x \in S BY <1>2
  <2>2. S = {x} BY <2>1
  <2> QED BY <1>2, <2>2, FS_Singleton
<1> QED BY <1>1, <1>2

\* A one-shot callback is handed to schedule() at most once, and not after
\* cancel() has returned, by however many pollers at the same time.
THEOREM OneShotTheorem == Spec => []OneShotOnce
<1>1. Init => Spent BY DEF Init, Spent
<1>2. IndInv /\ Spent /\ [Next]_vars => Spent' BY SpentStep
<1>3. IndInv /\ Spent => OneShotOnce
  <2> SUFFICES ASSUME IndInv, Spent, NEW i \in Ids, ~m_recurring[i]
               PROVE  /\ fires[i] + Cardinality({p \in Pollers : i \in cbs[p]}) <= 1
                      /\ m_cb[i] => fires[i] = 0 /\ \A p \in Pollers : i \notin cbs[p]
    BY DEF OneShotOnce
  <2> DEFINE S == {p \in Pollers : i \in cbs[p]}
  <2>1. \A p, q \in S : p = q BY DEF Spent
  <2>2. fires[i] \in Nat /\ fires[i] <= 1 /\ (fires[i] = 1 => S = {}) BY DEF IndInv, TypeOK, Spent
  <2>3. m_cb[i] => fires[i] = 0 /\ \A p \in Pollers : i \notin cbs[p] BY DEF Spent
  <2> HIDE DEF S
  <2>4. (S = {} /\ Cardinality(S) = 0) \/ (S # {} /\ Cardinality(S) = 1) BY <2>1, AtMostOne
  <2>5. fires[i] + Cardinality(S) <= 1 BY <2>2, <2>4
  <2> QED BY <2>3, <2>5 DEF S
<1> QED BY <1>1, <1>2, <1>3, Invariance, PTL DEF Spec
----------------------------------------------------------------------------
(* Sleeping pollers.                                                        *)

\* While the clock has not been set back, no timer is further away than its
\* period: refresh(), which does not tickle, never brings a timer forward.
Dated == jumps = 0 => \A i \in Ids : m_next[i] <= clock + m_ms[i]

LEMMA DatedStep == ASSUME IndInv, Dated, [Next]_vars PROVE Dated'
<1> USE DEF IndInv, TypeOK
<1>1. ASSUME NEW u \in Users, UserStep(u) PROVE Dated'
  <2>1. ASSUME NEW i \in Ids, NEW ms \in Delays, NEW r \in BOOLEAN, Construct(u, i, ms, r) PROVE Dated'
    BY <2>1 DEF Construct, Dated, bounds
  <2>2. CASE AddTimer(u) \/ Tickle(u) BY <2>2 DEF AddTimer, Tickle, Dated, bounds, fields
  <2>3. ASSUME NEW i \in Ids, Cancel(u, i) \/ Refresh(u, i) PROVE Dated'
    BY <2>3 DEF Cancel, Refresh, Dated, bounds
  <2>4. ASSUME NEW i \in Ids, NEW ms \in Delays, NEW b \in BOOLEAN, Reset(u, i, ms, b) PROVE Dated'
    <3>1. /\ m_ms' = [m_ms EXCEPT ![i] = ms]
          /\ m_next' = [m_next EXCEPT ![i] = ms + (IF b THEN clock ELSE m_next[i] - m_ms[i])]
          /\ UNCHANGED <<clock, jumps>>
      BY <2>4 DEF Reset
    <3>2. ms \in Nat OBVIOUS
    <3> QED BY <3>1, <3>2 DEF Dated
  <2> QED BY <1>1, <2>1, <2>2, <2>3, <2>4 DEF UserStep
<1>2. ASSUME NEW p \in Pollers, PollerStep(p) \/ FdEvent(p) \/ Interrupted(p) PROVE Dated'
  <2>1. CASE ListExpiredCb(p)
    <3>1. UNCHANGED <<clock, jumps, m_ms>> BY <2>1 DEF ListExpiredCb, bounds
    <3>2. \A i \in Ids : m_next'[i] = m_next[i] \/ m_next'[i] = now_ms[p] + m_ms[i]
      BY <2>1 DEF ListExpiredCb
    <3>3. jumps = 0 => now_ms[p] <= clock BY DEF ClockRead
    <3> QED BY <3>1, <3>2, <3>3 DEF Dated
  <2>2. CASE Schedule(p) \/ EnterIdle(p) \/ GetNextTimer(p) \/ EpollWait(p) \/ ReadClock(p)
             \/ FdEvent(p) \/ Interrupted(p) \/ Drain(p)
    <3>1. UNCHANGED <<clock, jumps, m_ms, m_next>>
      BY <2>2 DEF Schedule, EnterIdle, GetNextTimer, EpollWait, ReadClock, FdEvent, Interrupted,
                  Drain, fields, bounds
    <3> QED BY <3>1 DEF Dated
  <2> QED BY <1>2, <2>1, <2>2 DEF PollerStep
<1>3. CASE Tick BY <1>3 DEF Tick, Dated, fields, bounds
<1>4. CASE \E to \in 0..MaxTime : SetBack(to) BY <1>4 DEF SetBack, Dated
<1>5. CASE UNCHANGED vars BY <1>5 DEF vars, Dated, fields, bounds
<1> QED BY <1>1, <1>2, <1>3, <1>4, <1>5 DEF Next

\* The wait of p ends by the time the earliest timer is due.
Covers(p) == left[p] = 0 \/ \A e \in m_timers : clock + left[p] <= e[1]

\* Somebody is awake or about to be woken, or there has been no need to wake
\* anybody since the last getNextTimer(), whose caller sleeps short enough.
\* While m_tickled suppresses tickles, the first holds.
Alarm ==
  (jumps = 0 /\ signals = 0) =>
    \/ pipe \/ \E u \in Users : user[u].do = "tickle"
    \/ \E p \in Pollers : poll[p] # "asleep"
    \/ ~m_tickled /\ \E p \in Pollers : Covers(p)

\* A step that wakes nobody and makes no timer earlier than all were.
LEMMA AlarmKept ==
  ASSUME IndInv, Alarm, IndInv', UNCHANGED <<pipe, poll, left, clock, m_tickled, jumps, signals>>,
         \A u \in Users : user[u].do = "tickle" => user'[u].do = "tickle",
         \A e \in m_timers' : \E x \in m_timers : x[1] <= e[1]
  PROVE  Alarm'
<1>1. ASSUME NEW p \in Pollers, Covers(p) PROVE Covers(p)'
  <2>1. SUFFICES ASSUME left[p] # 0, NEW e \in m_timers' PROVE clock + left[p] <= e[1]
    BY DEF Covers
  <2>2. PICK x \in m_timers : x[1] <= e[1] OBVIOUS
  <2>3. clock + left[p] <= x[1] BY <1>1, <2>1 DEF Covers
  <2>4. clock \in Nat /\ left[p] \in Nat /\ x[1] \in Nat /\ e[1] \in Nat BY DEF IndInv, TypeOK
  <2> QED BY <2>2, <2>3, <2>4
<1> QED BY <1>1 DEF Alarm

\* addTimer(val, lock) into S: a timer that comes first is announced, and one
\* that does not changes nothing for those who sleep.
LEMMA InsertAlarm ==
  ASSUME IndInv, Alarm, IndInv', NEW u \in Users, NEW S \in SUBSET m_timers, NEW e \in Nat \X Ids,
         NEW h, Insert(u, S, e, h), user[u].do # "tickle",
         UNCHANGED <<pipe, poll, left, clock, jumps, signals>>
  PROVE  Alarm'
<1>1. m_timers' = S \cup {e} /\ m_tickled \in BOOLEAN BY DEF Insert, IndInv, TypeOK
<1>2. PICK front \in BOOLEAN :
        /\ (\A x \in S : e[1] < x[1]) => front
        /\ IF front /\ ~m_tickled
           THEN /\ m_tickled' = TRUE
                /\ user' = [user EXCEPT ![u] = [do |-> "tickle", timer |-> h]]
           ELSE UNCHANGED m_tickled /\ user' = [user EXCEPT ![u] = Idle]
  BY DEF Insert
<1>3. CASE front /\ ~m_tickled
  <2>1. user'[u].do = "tickle" BY <1>2, <1>3 DEF IndInv, TypeOK
  <2> QED BY <2>1 DEF Alarm
<1>4. CASE ~(front /\ ~m_tickled)
  <2>1. UNCHANGED m_tickled /\ \A v \in Users : user[v].do = "tickle" => user'[v] = user[v]
    BY <1>2, <1>4 DEF IndInv, TypeOK
  <2>2. CASE m_tickled BY <2>1, <2>2 DEF Alarm
  <2>3. CASE ~m_tickled
    <3>1. PICK x \in S : ~(e[1] < x[1]) BY <1>2, <1>4, <2>3
    <3>2. x \in m_timers /\ x[1] \in Nat /\ e[1] \in Nat BY DEF IndInv, TypeOK
    <3>3. x[1] <= e[1] BY <3>1, <3>2
    <3>4. \A y \in m_timers' : \E z \in m_timers : z[1] <= y[1]
      <4> SUFFICES ASSUME NEW y \in m_timers' PROVE \E z \in m_timers : z[1] <= y[1] OBVIOUS
      <4>1. CASE y = e BY <3>2, <3>3, <4>1
      <4>2. CASE y \in m_timers
        <5>1. y[1] \in Nat BY <4>2 DEF IndInv, TypeOK
        <5>2. y[1] <= y[1] BY <5>1
        <5> QED BY <4>2, <5>2
      <4> QED BY <1>1, <4>1, <4>2
    <3> QED BY <2>1, <3>4, AlarmKept
  <2> QED BY <1>1, <2>2, <2>3
<1> QED BY <1>3, <1>4

\* Timers are taken out, or nothing happens to them.
LEMMA SameOrFewer ==
  ASSUME IndInv, m_timers' \subseteq m_timers
  PROVE  \A e \in m_timers' : \E x \in m_timers : x[1] <= e[1]
<1>1. \A e \in m_timers' : e \in m_timers /\ e[1] \in Nat BY DEF IndInv, TypeOK
<1>2. \A e \in m_timers' : e[1] <= e[1] BY <1>1
<1> QED BY <1>1, <1>2

LEMMA UserAlarm ==
  ASSUME Pollers # {}, IndInv, Dated, Alarm, IndInv', NEW u \in Users, UserStep(u)
  PROVE  Alarm'
<1>0. Alarm' \/ (jumps = 0 /\ UNCHANGED jumps)
  <2>1. UNCHANGED jumps
    BY DEF UserStep, Construct, AddTimer, Tickle, Cancel, Refresh, Reset, bounds
  <2> QED BY <2>1 DEF Alarm
<1>1. ASSUME NEW i \in Ids, NEW ms \in Delays, NEW r \in BOOLEAN, Construct(u, i, ms, r) PROVE Alarm'
  <2>1. UNCHANGED <<m_timers, pipe, poll, left, clock, m_tickled, jumps, signals>>
    BY <1>1 DEF Construct, manager, pollers, bounds
  <2>2. \A v \in Users : user[v].do = "tickle" => user'[v].do = "tickle"
    BY <1>1 DEF Construct, Idle, IndInv, TypeOK
  <2> QED BY <2>1, <2>2, SameOrFewer, AlarmKept
<1>2. CASE AddTimer(u)
  <2>1. /\ Insert(u, m_timers, Entry(user[u].timer), user[u].timer) /\ user[u].do = "insert"
        /\ UNCHANGED <<pipe, poll, left, clock, jumps, signals>>
    BY <1>2 DEF AddTimer, pollers, bounds
  <2>2. Entry(user[u].timer) \in Nat \X Ids BY <2>1 DEF Entry, IndInv, Owned, TypeOK
  <2> QED BY <2>1, <2>2, InsertAlarm
<1>3. CASE Tickle(u)
  <2>1. PICK p \in Pollers : TRUE OBVIOUS
  <2>2. pipe' \/ poll[p] = "busy" BY <1>3 DEF Tickle
  <2>3. poll' = poll BY <1>3 DEF Tickle, pollers
  <2> QED BY <2>2, <2>3 DEF Alarm
<1>4. ASSUME NEW i \in Ids, Cancel(u, i) PROVE Alarm'
  <2>1. /\ m_timers' \subseteq m_timers
        /\ UNCHANGED <<user, pipe, poll, left, clock, m_tickled, jumps, signals>>
    BY <1>4 DEF Cancel, pollers, bounds
  <2> QED BY <2>1, SameOrFewer, AlarmKept
<1>5. ASSUME NEW i \in Ids, Refresh(u, i) PROVE Alarm'
  <2>1. /\ m_timers' = (m_timers \ {Entry(i)}) \cup {<<clock + m_ms[i], i>>} /\ Entry(i) \in m_timers
        /\ UNCHANGED <<user, pipe, poll, left, clock, m_tickled, jumps, signals>>
    BY <1>5 DEF Refresh, pollers
  <2>2. CASE jumps = 0
    <3>1. Entry(i)[1] <= clock + m_ms[i] BY <2>2 DEF Entry, Dated
    <3>2. \A e \in m_timers' : \E x \in m_timers : x[1] <= e[1]
      <4> SUFFICES ASSUME NEW e \in m_timers' PROVE \E x \in m_timers : x[1] <= e[1] OBVIOUS
      <4>1. CASE e = <<clock + m_ms[i], i>> BY <2>1, <3>1, <4>1
      <4>2. CASE e \in m_timers
        <5>1. e[1] \in Nat BY <4>2 DEF IndInv, TypeOK
        <5>2. e[1] <= e[1] BY <5>1
        <5> QED BY <4>2, <5>2
      <4> QED BY <2>1, <4>1, <4>2
    <3> QED BY <2>1, <3>2, AlarmKept
  <2> QED BY <1>0, <2>2
<1>6. ASSUME NEW i \in Ids, NEW ms \in Delays, NEW b \in BOOLEAN, Reset(u, i, ms, b) PROVE Alarm'
  <2> DEFINE t == ms + (IF b THEN clock ELSE m_next[i] - m_ms[i])
  <2>1. /\ Insert(u, m_timers \ {Entry(i)}, <<t, i>>, None) /\ user[u] = Idle
        /\ UNCHANGED <<pipe, poll, left, clock, jumps, signals>>
    BY <1>6 DEF Reset, pollers
  <2>2. <<t, i>> \in Nat \X Ids
    <3>1. ms \in Nat BY DEF IndInv
    <3> QED BY <3>1 DEF IndInv, TypeOK, Started
  <2>3. user[u].do # "tickle" BY <2>1 DEF Idle
  <2> HIDE DEF t
  <2> QED BY <2>1, <2>2, <2>3, InsertAlarm
<1> QED BY <1>1, <1>2, <1>3, <1>4, <1>5, <1>6 DEF UserStep

\* getNextTimer()'s answer ends by the time of the first timer.
LEMMA AskCovers ==
  ASSUME IndInv, NEW p \in Pollers, GetNextTimer(p)
  PROVE  Covers(p)' /\ ~m_tickled'
<1>1. PICK t \in Timeouts : left' = [left EXCEPT ![p] = t] BY DEF GetNextTimer
<1>2. left'[p] = t BY <1>1 DEF IndInv, TypeOK
<1>3. UNCHANGED <<clock, m_timers>> /\ ~m_tickled' BY DEF GetNextTimer
<1>4. CASE m_timers = {} BY <1>3, <1>4 DEF Covers
<1>5. CASE m_timers # {}
  <2>1. PICK k \in Keys(m_timers) : /\ \A x \in Keys(m_timers) : k <= x
                                    /\ t = IF Wait(k) > MaxTimeout THEN MaxTimeout ELSE Wait(k)
    BY <1>5 DEF Timeouts
  <2>2. k \in Nat /\ clock \in Nat BY DEF Keys, IndInv, TypeOK
  <2>3. t = 0 \/ clock + t <= k BY <2>1, <2>2 DEF Wait
  <2>4. \A e \in m_timers : k <= e[1] /\ e[1] \in Nat BY <2>1 DEF Keys, IndInv, TypeOK
  <2>5. t \in Nat BY TimeoutsNat DEF IndInv
  <2>6. t = 0 \/ \A e \in m_timers : clock + t <= e[1] BY <2>2, <2>3, <2>4, <2>5
  <2> QED BY <1>2, <1>3, <2>6 DEF Covers
<1> QED BY <1>3, <1>4, <1>5

LEMMA PollerAlarm ==
  ASSUME IndInv, Alarm, IndInv', NEW p \in Pollers, PollerStep(p) \/ FdEvent(p) \/ Interrupted(p)
  PROVE  Alarm'
<1>1. CASE GetNextTimer(p) BY <1>1, AskCovers DEF Alarm
<1>2. CASE Interrupted(p)
  <2>1. signals' # 0 BY <1>2 DEF Interrupted, IndInv, TypeOK
  <2> QED BY <2>1 DEF Alarm
<1>3. CASE \/ EnterIdle(p) \/ EpollWait(p) \/ ReadClock(p) \/ ListExpiredCb(p) \/ Schedule(p)
           \/ FdEvent(p) \/ Drain(p)
  <2>1. poll'[p] # "asleep"
    BY <1>3 DEF EnterIdle, EpollWait, ReadClock, ListExpiredCb, Schedule, FdEvent, Drain,
               IndInv, TypeOK
  <2> QED BY <2>1 DEF Alarm
<1> QED BY <1>1, <1>2, <1>3 DEF PollerStep

\* The clock and the timeouts advance together.
LEMMA TimeAlarm ==
  ASSUME IndInv, Alarm, IndInv', Tick \/ \E to \in 0..MaxTime : SetBack(to)
  PROVE  Alarm'
<1>1. CASE \E to \in 0..MaxTime : SetBack(to)
  <2>1. jumps' # 0 BY <1>1 DEF SetBack, IndInv, TypeOK
  <2> QED BY <2>1 DEF Alarm
<1>2. CASE Tick
  <2>1. UNCHANGED <<m_timers, m_tickled, user, poll, pipe, jumps, signals>>
    BY <1>2 DEF Tick, manager, bounds
  <2>2. ASSUME NEW p \in Pollers, Covers(p) PROVE Covers(p)'
    <3>1. left[p] \in Nat /\ clock \in Nat BY DEF IndInv, TypeOK
    <3>2. left'[p] = (IF left[p] > 0 THEN left[p] - 1 ELSE 0) /\ clock' \in {clock, clock + 1}
      BY <1>2 DEF Tick
    <3>3. left'[p] = 0 \/ (left[p] # 0 /\ clock' + left'[p] <= clock + left[p] /\ left'[p] \in Nat /\ clock' \in Nat)
      BY <3>1, <3>2
    <3>4. \A e \in m_timers : e[1] \in Nat BY DEF IndInv, TypeOK
    <3> QED BY <2>1, <2>2, <3>1, <3>3, <3>4 DEF Covers
  <2> QED BY <2>1, <2>2 DEF Alarm
<1> QED BY <1>1, <1>2

LEMMA AlarmStep ==
  ASSUME Pollers # {}, IndInv, Dated, Alarm, IndInv', [Next]_vars
  PROVE  Alarm'
<1>1. CASE UNCHANGED vars
  <2>1. UNCHANGED <<m_timers, user, pipe, poll, left, clock, m_tickled, jumps, signals>>
    BY <1>1 DEF vars, manager, pollers, bounds
  <2> QED BY <2>1, SameOrFewer, AlarmKept
<1> QED BY <1>1, UserAlarm, PollerAlarm, TimeAlarm DEF Next

\* With any number of pollers, at least one, and of threads that add, reset,
\* refresh and cancel timers: as long as no signal has interrupted a wait and
\* the clock has not been set back, the pollers never all sleep past the
\* earliest timer. The tickle that m_tickled suppresses is never the one that
\* is needed.
THEOREM OversleepTheorem ==
  ASSUME Pollers # {}
  PROVE  Spec => [](jumps = 0 => NoOversleep)
<1>1. Init => Dated BY DEF Init, Dated
<1>2. Init => Alarm BY DEF Init, Alarm
<1>3. IndInv /\ Dated /\ [Next]_vars => Dated' BY DatedStep
<1>4. IndInv /\ Dated /\ Alarm /\ IndInv' /\ [Next]_vars => Alarm' BY AlarmStep
<1>5. IndInv /\ Alarm => (jumps = 0 => NoOversleep) BY DEF Alarm, Covers, NoOversleep, Keys
<1> QED BY <1>1, <1>2, <1>3, <1>4, <1>5, Invariance, PTL DEF Spec
=============================================================================
