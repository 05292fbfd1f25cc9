--------------------------- MODULE HttpPoolProofs ---------------------------
(* No connection of the pool is lost, shared or used after its deletion,    *)
(* and no request gets another's response: for every set of fibers and      *)
(* connections and any number of requests.                                  *)
EXTENDS HttpPool, FiniteSetTheorems, SequenceTheorems, TLAPS

USE PoolAssumption

Held(f) == {conn[f]} \cup invalid_conns[f]

\* OneOwner, connection by connection.
Own ==
  /\ \A c \in Conns : c \in live <=> c \in Pooled \/ \E f \in Fibers : c \in Held(f)
  /\ \A i, j \in 1..Len(m_conns) : m_conns[i] = m_conns[j] => i = j
  /\ \A f \in Fibers : Pooled \cap Held(f) = {} /\ conn[f] \notin invalid_conns[f]
  /\ \A f, g \in Fibers : f # g => Held(f) \cap Held(g) \subseteq {None}

\* What a fiber holds depends on where it is.
Placed ==
  \A f \in Fibers :
    /\ at[f] \in {"idle", "connect"} => conn[f] = None
    /\ at[f] \notin {"idle", "connect", "reap"} => conn[f] \in Conns
    /\ at[f] # "reap" => invalid_conns[f] = {}
    /\ at[f] # "idle" => req[f] # 0

\* The types without the counter, whose type follows from what it counts.
Types ==
  /\ m_conns \in Seq(Conns) /\ live \subseteq Conns
  /\ connected \in [Conns -> BOOLEAN] /\ m_request \in [Conns -> 0..MaxRequest]
  /\ peer \in [Conns -> {"open", "closed", "reset"}]
  /\ owed \in [Conns -> Seq(Parts)] /\ incoming \in [Conns -> Seq(Parts)]
  /\ at \in [Fibers -> Places] /\ conn \in [Fibers -> Conns \cup {None}]
  /\ invalid_conns \in [Fibers -> SUBSET Conns]
  /\ req \in [Fibers -> 0..MaxRequests] /\ requests \in 0..MaxRequests
  /\ result \in [Fibers -> 0..MaxRequests]

Inv == Types /\ Own /\ Placed /\ m_total = Cardinality(live)

LEMMA LiveCount ==
  ASSUME NEW S \in SUBSET Conns
  PROVE  IsFiniteSet(S) /\ Cardinality(S) \in Nat
BY FS_Subset, FS_CardinalityType

LEMMA InvImplies == ASSUME Inv PROVE TypeOK /\ OneOwner
<1>1. m_total \in Nat BY LiveCount DEF Inv, Types
<1>2. TypeOK BY <1>1 DEF Inv, Types, TypeOK
<1>3. Pooled \subseteq Conns BY ElementOfSeq DEF Inv, Types, Pooled
<1>4. live = (Pooled \cup {conn[f] : f \in Fibers} \cup UNION {invalid_conns[f] : f \in Fibers}) \ {None}
  BY <1>3 DEF Inv, Types, Own, Held
<1>5. OneOwner BY <1>4 DEF Inv, Own, Held, OneOwner
<1>6. QED BY <1>2, <1>5

LEMMA PooledType == ASSUME Types PROVE Pooled \subseteq Conns /\ None \notin Pooled
BY ElementOfSeq DEF Types, Pooled
----------------------------------------------------------------------------
(* Who holds what: the four steps that move connections.                    *)

LEMMA PopOwn ==
  ASSUME Inv, NEW f \in Fibers, NEW k \in 0..Len(m_conns), Pop(f, k)
  PROVE  m_conns' \in Seq(Conns) /\ Own' /\ Placed'
<1> DEFINE L == Len(m_conns)
           m == m_conns'
<1>1. m_conns \in Seq(Conns) /\ L \in Nat /\ \A i \in 1..L : m_conns[i] \in Conns
  BY ElementOfSeq, LenProperties DEF Inv, Types
<1>2. /\ m \in Seq(Conns)
      /\ Len(m) = IF k + 2 <= L THEN L - k - 1 ELSE 0
      /\ \A i \in 1..Len(m) : m[i] = m_conns[k + 1 + i]
  <2>1. k + 2 \in Int /\ L \in Int /\ k \in Nat /\ k <= L BY <1>1
  <2>2. \A i \in (k + 2)..L : m_conns[i] \in Conns BY <1>1, <2>1
  <2>3. m = SubSeq(m_conns, k + 2, L) BY DEF Pop
  <2>4. /\ m \in Seq(Conns)
        /\ Len(m) = IF k + 2 <= L THEN L - (k + 2) + 1 ELSE 0
        /\ \A i \in 1..(L - (k + 2) + 1) : m[i] = m_conns[k + 2 + i - 1]
    BY <2>1, <2>2, <2>3, SubSeqProperties
  <2>5. QED BY <2>1, <2>4
<1>3. \A c : c \in Pooled' <=> \E i \in (k + 2)..L : m_conns[i] = c
  <2>1. Pooled' = {m[i] : i \in 1..Len(m)} BY DEF Pooled
  <2>2. ASSUME NEW i \in (k + 2)..L PROVE m_conns[i] \in Pooled'
    <3>1. i - k - 1 \in 1..Len(m) /\ k + 1 + (i - k - 1) = i BY <1>1, <1>2
    <3>2. m[i - k - 1] = m_conns[i] BY <1>2, <3>1
    <3>3. QED BY <2>1, <3>1, <3>2
  <2>3. ASSUME NEW i \in 1..Len(m) PROVE \E j \in (k + 2)..L : m_conns[j] = m[i]
    <3>1. k + 1 + i \in (k + 2)..L BY <1>1, <1>2
    <3>2. QED BY <1>2, <3>1
  <2>4. QED BY <2>1, <2>2, <2>3
<1>4. \A i, j \in 1..Len(m) : m[i] = m[j] => i = j
  <2> SUFFICES ASSUME NEW i \in 1..Len(m), NEW j \in 1..Len(m), m[i] = m[j] PROVE i = j OBVIOUS
  <2>1. k + 1 + i \in 1..L /\ k + 1 + j \in 1..L BY <1>1, <1>2
  <2>2. m_conns[k + 1 + i] = m_conns[k + 1 + j] BY <1>2
  <2>3. k + 1 + i = k + 1 + j BY <2>1, <2>2 DEF Inv, Own
  <2>4. QED BY <1>1, <2>3
<1>5. conn[f] = None /\ invalid_conns[f] = {} BY DEF Pop, Inv, Placed
<1>6. /\ conn' = [conn EXCEPT ![f] = IF k < L THEN m_conns[k + 1] ELSE None]
      /\ invalid_conns' = [invalid_conns EXCEPT ![f] = {m_conns[i] : i \in 1..k}]
      /\ conn \in [Fibers -> Conns \cup {None}] /\ invalid_conns \in [Fibers -> SUBSET Conns]
      /\ UNCHANGED live
  BY DEF Pop, Inv, Types
<1>7. \A c \in Conns : c \in Held(f)' <=> \E i \in 1..L : i <= k + 1 /\ m_conns[i] = c
  BY <1>1, <1>6 DEF Held
<1>8. \A g \in Fibers \ {f} : Held(g)' = Held(g) BY <1>6 DEF Held
<1>9. Held(f) = {None} BY <1>5 DEF Held
<1>10. \A c : c \in Pooled <=> \E i \in 1..L : m_conns[i] = c BY DEF Pooled
<1>11. \A c \in Conns : c \in Pooled <=> c \in Pooled' \/ c \in Held(f)'
  BY <1>1, <1>3, <1>7, <1>10
<1>12. \A c \in Conns : ~(c \in Pooled' /\ c \in Held(f)')
  BY <1>1, <1>3, <1>7 DEF Inv, Own
<1>13. None \notin Pooled' BY <1>1, <1>3
<1>14. Held(f)' \subseteq Conns \cup {None} BY <1>1, <1>6 DEF Held
<1>15. conn'[f] \notin invalid_conns'[f]
  <2>1. CASE k < L
    <3>1. k + 1 \in 1..L /\ \A i \in 1..k : i \in 1..L /\ i # k + 1 BY <1>1, <2>1
    <3>2. \A i \in 1..k : m_conns[i] # m_conns[k + 1] BY <3>1 DEF Inv, Own
    <3>3. conn'[f] = m_conns[k + 1] /\ invalid_conns'[f] = {m_conns[i] : i \in 1..k} BY <1>6, <2>1
    <3>4. QED BY <3>2, <3>3
  <2>2. CASE ~(k < L) BY <1>1, <1>6, <2>2
  <2>3. QED BY <2>1, <2>2
<1>16. Pooled' \subseteq Conns BY <1>1, <1>3
<1>17. Own'
  <2>1. \A c \in Conns : c \in live' <=> c \in Pooled' \/ \E g \in Fibers : c \in Held(g)'
    BY <1>6, <1>8, <1>9, <1>11 DEF Inv, Own
  <2>2. \A g \in Fibers : Pooled' \cap Held(g)' = {} /\ conn'[g] \notin invalid_conns'[g]
    <3>1. Pooled' \cap Held(f)' = {} BY <1>12, <1>16
    <3>2. \A g \in Fibers \ {f} : Pooled' \cap Held(g)' = {} BY <1>8, <1>11, <1>16 DEF Inv, Own
    <3>3. \A g \in Fibers \ {f} : conn'[g] \notin invalid_conns'[g] BY <1>6 DEF Inv, Own
    <3>4. QED BY <1>15, <3>1, <3>2, <3>3
  <2>3. \A g \in Fibers \ {f} : Held(f)' \cap Held(g)' \subseteq {None}
    BY <1>8, <1>11, <1>14 DEF Inv, Own
  <2>4. \A g, h \in Fibers : g # h => Held(g)' \cap Held(h)' \subseteq {None}
    BY <1>8, <2>3 DEF Inv, Own
  <2>5. QED BY <1>4, <2>1, <2>2, <2>4 DEF Own
<1>18. Placed'
  <2>1. requests + 1 # 0 BY DEF Inv, Types
  <2>2. QED BY <1>6, <2>1 DEF Pop, Inv, Types, Placed, Goto
<1>19. QED BY <1>2, <1>17, <1>18

\* A fiber gives up some of what it holds.
LEMMA DroppedOwn ==
  ASSUME Inv, NEW f \in Fibers, NEW S \in SUBSET Conns, UNCHANGED m_conns,
         \A g \in Fibers \ {f} : Held(g)' = Held(g), \A g \in Fibers : conn'[g] \notin invalid_conns'[g],
         Held(f)' = (Held(f) \ S) \cup (Held(f)' \cap {None}), S \subseteq Held(f), live' = live \ S
  PROVE  Own'
<1>1. UNCHANGED Pooled BY DEF Pooled
<1>2. Pooled \subseteq Conns /\ None \notin Pooled BY PooledType DEF Inv
<1>3. \A c \in Conns : c \in Held(f)' <=> c \in Held(f) /\ c \notin S OBVIOUS
<1>4. \A g \in Fibers \ {f} : Held(g) \cap S = {} BY DEF Inv, Own
<1>5. \A c \in Conns : c \in live' <=> c \in Pooled' \/ \E g \in Fibers : c \in Held(g)'
  <2> SUFFICES ASSUME NEW c \in Conns
               PROVE  c \in live' <=> c \in Pooled \/ \E g \in Fibers : c \in Held(g)'
    BY <1>1
  <2>1. CASE c \in S
    <3>1. c \notin Pooled /\ \A g \in Fibers : c \notin Held(g)' BY <1>3, <1>4, <2>1 DEF Inv, Own
    <3>2. QED BY <2>1, <3>1
  <2>2. CASE c \notin S
    <3>1. \A g \in Fibers : c \in Held(g)' <=> c \in Held(g) BY <1>3, <2>2
    <3>2. QED BY <2>2, <3>1 DEF Inv, Own
  <2>3. QED BY <2>1, <2>2
<1>6. \A g \in Fibers : Pooled' \cap Held(g)' = {} BY <1>1, <1>2, <1>3 DEF Inv, Own
<1>7. \A g, h \in Fibers : g # h => Held(g)' \cap Held(h)' \subseteq {None} BY DEF Inv, Own
<1>8. QED BY <1>5, <1>6, <1>7 DEF Inv, Own

LEMMA ReapOwn ==
  ASSUME Inv, NEW f \in Fibers, Reap(f)
  PROVE  Own' /\ Placed' /\ m_total' = Cardinality(live') /\ Types'
<1> DEFINE S == invalid_conns[f]
<1>1. S \subseteq Conns /\ S \subseteq live BY DEF Inv, Types, Own, Held
<1>2. /\ live' = live \ S /\ UNCHANGED <<m_conns, conn>>
      /\ invalid_conns' \in [Fibers -> SUBSET Conns]
      /\ invalid_conns'[f] = {} /\ \A g \in Fibers \ {f} : invalid_conns'[g] = invalid_conns[g]
  BY DEF Reap, Delete, Shut, Inv, Types
<1>3. \A g \in Fibers \ {f} : Held(g)' = Held(g) BY <1>2 DEF Held
<1>4. conn[f] \notin S /\ conn[f] \in Conns \cup {None} BY DEF Inv, Own, Types
<1>5. Held(f)' = {conn[f]} /\ Held(f) = {conn[f]} \cup S BY <1>2 DEF Held
<1>6. \A g \in Fibers : conn'[g] \notin invalid_conns'[g] BY <1>2 DEF Inv, Own
<1>7. Own' BY <1>1, <1>2, <1>3, <1>4, <1>5, <1>6, DroppedOwn
<1>8. m_total' = Cardinality(live')
  <2>1. IsFiniteSet(live) /\ live \cap S = S BY <1>1, LiveCount DEF Inv, Types
  <2>2. Cardinality(live \ S) = Cardinality(live) - Cardinality(live \cap S) BY <2>1, FS_Difference, LiveCount, <1>1
  <2>3. QED BY <1>2, <2>1, <2>2 DEF Reap, Inv
<1>9. at' \in [Fibers -> Places] BY DEF Reap, Goto, Inv, Types, Places
<1>10. /\ connected' \in [Conns -> BOOLEAN] /\ peer' \in [Conns -> {"open", "closed", "reset"}]
       /\ owed' \in [Conns -> Seq(Parts)] /\ incoming' \in [Conns -> Seq(Parts)]
  BY DEF Reap, Delete, Shut, Inv, Types
<1>11. Types' BY <1>2, <1>9, <1>10 DEF Reap, Delete, Shut, Inv, Types
<1>12. Placed' BY <1>2, <1>4 DEF Reap, Goto, Inv, Types, Placed
<1>13. QED BY <1>7, <1>8, <1>11, <1>12

LEMMA ConnectOwn ==
  ASSUME Inv, NEW f \in Fibers, NEW c \in Conns, Connect(f, c)
  PROVE  Own' /\ Placed' /\ m_total' = Cardinality(live') /\ Types'
<1>1. c \notin live /\ conn[f] = None /\ invalid_conns[f] = {} BY DEF Connect, Inv, Placed
<1>2. /\ conn' \in [Fibers -> Conns \cup {None}] /\ conn'[f] = c
      /\ \A g \in Fibers \ {f} : conn'[g] = conn[g]
      /\ UNCHANGED <<m_conns, invalid_conns>> /\ live' = live \cup {c}
  BY DEF Connect, Inv, Types
<1>3. \A g \in Fibers \ {f} : Held(g)' = Held(g) BY <1>2 DEF Held
<1>4. Held(f)' = {c} /\ Held(f) = {None} BY <1>1, <1>2 DEF Held
<1>5. UNCHANGED Pooled BY <1>2 DEF Pooled
<1>6. c \notin Pooled /\ \A g \in Fibers : c \notin Held(g) BY <1>1 DEF Inv, Own
<1>7. Own'
  <2>1. \A d \in Conns : d \in live' <=> d \in Pooled' \/ \E g \in Fibers : d \in Held(g)'
    BY <1>2, <1>3, <1>4, <1>5 DEF Inv, Own
  <2>2. \A g \in Fibers : Pooled' \cap Held(g)' = {} /\ conn'[g] \notin invalid_conns'[g]
    BY <1>1, <1>2, <1>3, <1>4, <1>5, <1>6 DEF Inv, Own
  <2>3. \A g, h \in Fibers : g # h => Held(g)' \cap Held(h)' \subseteq {None}
    BY <1>3, <1>4, <1>6 DEF Inv, Own
  <2>4. QED BY <1>2, <2>1, <2>2, <2>3 DEF Inv, Own
<1>8. m_total' = Cardinality(live')
  <2>1. IsFiniteSet(live) BY LiveCount DEF Inv, Types
  <2>2. Cardinality(live \cup {c}) = Cardinality(live) + 1 BY <1>1, <2>1, FS_AddElement
  <2>3. QED BY <1>2, <2>2 DEF Connect, Inv
<1>9. at' \in [Fibers -> Places] BY DEF Connect, Goto, Inv, Types, Places
<1>10. /\ connected' \in [Conns -> BOOLEAN] /\ peer' \in [Conns -> {"open", "closed", "reset"}]
       /\ m_request' \in [Conns -> 0..MaxRequest]
  BY DEF Connect, Inv, Types
<1>11. Types' BY <1>2, <1>9, <1>10 DEF Connect, Inv, Types
<1>12. Placed' BY <1>1, <1>2 DEF Connect, Goto, Inv, Types, Placed
<1>13. QED BY <1>7, <1>8, <1>11, <1>12

LEMMA ReleaseOwn ==
  ASSUME Inv, NEW f \in Fibers, ReleasePtr(f)
  PROVE  Own' /\ Placed' /\ m_total' = Cardinality(live') /\ Types'
<1>1. conn[f] \in Conns /\ invalid_conns[f] = {} BY DEF ReleasePtr, Inv, Placed
<1> PICK c \in Conns : c = conn[f] BY <1>1
<1>2. /\ conn' \in [Fibers -> Conns \cup {None}] /\ conn'[f] = None
      /\ \A g \in Fibers \ {f} : conn'[g] = conn[g]
      /\ UNCHANGED <<invalid_conns, requests>>
      /\ req' \in [Fibers -> 0..MaxRequests] /\ result' \in [Fibers -> 0..MaxRequests]
      /\ \A g \in Fibers \ {f} : req'[g] = req[g]
  BY DEF ReleasePtr, Return, Inv, Types
<1>3. \A g \in Fibers \ {f} : Held(g)' = Held(g) BY <1>2 DEF Held
<1>4. Held(f)' = {None} /\ Held(f) = {c} BY <1>1, <1>2 DEF Held
<1>5. at' \in [Fibers -> Places] BY DEF ReleasePtr, Return, Goto, Inv, Types, Places
<1>6. Placed' BY <1>1, <1>2 DEF ReleasePtr, Return, Goto, Inv, Types, Placed
<1>7. CASE Worn(c)
  <2>1. Delete({c}) /\ m_total' = m_total - 1 /\ UNCHANGED <<m_conns, m_request>>
    BY <1>7 DEF ReleasePtr
  <2>2. live' = live \ {c} /\ c \in live BY <1>4, <2>1 DEF Delete, Shut, Inv, Own
  <2>3. \A g \in Fibers : conn'[g] \notin invalid_conns'[g] BY <1>1, <1>2 DEF Inv, Own
  <2>4. Own' BY <1>3, <1>4, <2>1, <2>2, <2>3, DroppedOwn
  <2>5. m_total' = Cardinality(live')
    <3>1. IsFiniteSet(live) BY LiveCount DEF Inv, Types
    <3>2. Cardinality(live \ {c}) = Cardinality(live) - 1 BY <2>2, <3>1, FS_RemoveElement
    <3>3. QED BY <2>1, <2>2, <3>2 DEF Inv
  <2>6. /\ connected' \in [Conns -> BOOLEAN] /\ peer' \in [Conns -> {"open", "closed", "reset"}]
        /\ owed' \in [Conns -> Seq(Parts)] /\ incoming' \in [Conns -> Seq(Parts)]
    BY <2>1 DEF Delete, Shut, Inv, Types
  <2>7. Types' BY <1>2, <1>5, <2>1, <2>2, <2>6 DEF Inv, Types
  <2>8. QED BY <1>6, <2>4, <2>5, <2>7
<1>8. CASE ~Worn(c)
  <2>1. /\ m_conns' = Append(m_conns, c) /\ m_request' = [m_request EXCEPT ![c] = @ + 1]
        /\ UNCHANGED <<m_total, live, connected, wire>>
    BY <1>8 DEF ReleasePtr
  <2>2. m_request' \in [Conns -> 0..MaxRequest] BY <1>8, <2>1 DEF Worn, Inv, Types
  <2>3. /\ m_conns' \in Seq(Conns) /\ Len(m_conns') = Len(m_conns) + 1 /\ Len(m_conns) \in Nat
        /\ \A i \in 1..Len(m_conns) : m_conns'[i] = m_conns[i]
        /\ m_conns'[Len(m_conns) + 1] = c
    BY <2>1, AppendProperties, LenProperties DEF Inv, Types
  <2>4. Types' BY <1>2, <1>5, <2>1, <2>2, <2>3 DEF wire, Inv, Types
  <2>5. Pooled' = Pooled \cup {c} BY <2>3 DEF Pooled
  <2>6. c \notin Pooled BY <1>4 DEF Inv, Own
  <2>7. \A i, j \in 1..Len(m_conns') : m_conns'[i] = m_conns'[j] => i = j
    <3>1. \A i \in 1..Len(m_conns) : m_conns[i] # c BY <2>6 DEF Pooled
    <3>2. QED BY <2>3, <3>1 DEF Inv, Own
  <2>8. \A d \in Conns : d \in live' <=> d \in Pooled' \/ \E g \in Fibers : d \in Held(g)'
    BY <1>3, <1>4, <2>1, <2>5 DEF Inv, Own
  <2>9. None \notin Pooled' BY <2>5, PooledType DEF Inv
  <2>10. \A g \in Fibers : Pooled' \cap Held(g)' = {} /\ conn'[g] \notin invalid_conns'[g]
    BY <1>1, <1>2, <1>3, <1>4, <2>5, <2>9 DEF Inv, Own
  <2>11. \A g, h \in Fibers : g # h => Held(g)' \cap Held(h)' \subseteq {None}
    BY <1>3, <1>4 DEF Inv, Own
  <2>12. Own' BY <2>7, <2>8, <2>10, <2>11 DEF Own
  <2>13. QED BY <1>6, <2>1, <2>4, <2>12 DEF Inv
<1>9. QED BY <1>7, <1>8
----------------------------------------------------------------------------
(* The steps that move nothing.                                             *)

LEMMA StaysOwn ==
  ASSUME Inv, UNCHANGED <<m_conns, m_total, live, conn, invalid_conns>>
  PROVE  Own' /\ m_total' = Cardinality(live')
BY DEF Inv, Own, Held, Pooled

\* Sequences, element by element.
LEMMA TailElements ==
  ASSUME NEW P, NEW s \in Seq(P), s # <<>>
  PROVE  /\ Len(s) \in Nat \ {0} /\ Head(s) = s[1] /\ s[1] \in P
         /\ Tail(s) \in Seq(P) /\ Len(Tail(s)) = Len(s) - 1
         /\ \A i \in 1..(Len(s) - 1) : Tail(s)[i] = s[i + 1]
<1>1. Len(s) \in Nat \ {0} BY LenProperties, EmptySeq
<1>2. s[1] \in P BY <1>1, ElementOfSeq
<1>3. QED BY <1>1, <1>2, HeadTailProperties

LEMMA AppendElements ==
  ASSUME NEW P, NEW s \in Seq(P), NEW x \in P
  PROVE  /\ Append(s, x) \in Seq(P) /\ Len(Append(s, x)) = Len(s) + 1 /\ Len(s) \in Nat
         /\ \A i \in 1..Len(s) : Append(s, x)[i] = s[i]
         /\ Append(s, x)[Len(s) + 1] = x
BY AppendProperties, LenProperties

\* The first element is replaced.
LEMMA FirstReplaced ==
  ASSUME NEW P, NEW s \in Seq(P), s # <<>>, NEW x \in P
  PROVE  /\ <<x>> \o Tail(s) \in Seq(P) /\ Len(<<x>> \o Tail(s)) = Len(s)
         /\ (<<x>> \o Tail(s))[1] = x
         /\ \A i \in 2..Len(s) : (<<x>> \o Tail(s))[i] = s[i]
<1>1. /\ Len(s) \in Nat \ {0} /\ Tail(s) \in Seq(P) /\ Len(Tail(s)) = Len(s) - 1
      /\ \A i \in 1..(Len(s) - 1) : Tail(s)[i] = s[i + 1]
  BY TailElements
<1>2. <<x>> \in Seq(P) /\ Len(<<x>>) = 1 /\ <<x>>[1] = x OBVIOUS
<1>3. /\ <<x>> \o Tail(s) \in Seq(P) /\ Len(<<x>> \o Tail(s)) = Len(<<x>>) + Len(Tail(s))
      /\ \A i \in 1..(Len(<<x>>) + Len(Tail(s))) :
           (<<x>> \o Tail(s))[i] = IF i <= Len(<<x>>) THEN <<x>>[i] ELSE Tail(s)[i - Len(<<x>>)]
  BY <1>1, <1>2, ConcatProperties
<1>4. Len(<<x>> \o Tail(s)) = Len(s) BY <1>1, <1>2, <1>3
<1>5. (<<x>> \o Tail(s))[1] = x BY <1>1, <1>2, <1>3
<1>6. ASSUME NEW i \in 2..Len(s) PROVE (<<x>> \o Tail(s))[i] = s[i]
  <2>1. (<<x>> \o Tail(s))[i] = Tail(s)[i - 1] BY <1>1, <1>2, <1>3
  <2>2. i - 1 \in 1..(Len(s) - 1) /\ (i - 1) + 1 = i BY <1>1
  <2>3. QED BY <1>1, <2>1, <2>2
<1>7. QED BY <1>3, <1>4, <1>5, <1>6

\* The first n elements are gone.
LEMMA RestElements ==
  ASSUME NEW P, NEW s \in Seq(P), NEW n \in 1..Len(s)
  PROVE  /\ SubSeq(s, n + 1, Len(s)) \in Seq(P)
         /\ Len(SubSeq(s, n + 1, Len(s))) = Len(s) - n /\ Len(s) \in Nat
         /\ \A i \in 1..(Len(s) - n) : SubSeq(s, n + 1, Len(s))[i] = s[n + i]
<1>1. Len(s) \in Nat BY LenProperties
<1>2. \A i \in (n + 1)..Len(s) : s[i] \in P
  <2>1. \A i \in (n + 1)..Len(s) : i \in 1..Len(s) BY <1>1
  <2>2. QED BY <2>1, ElementOfSeq
<1>3. n + 1 \in Int /\ Len(s) \in Int BY <1>1
<1>4. /\ SubSeq(s, n + 1, Len(s)) \in Seq(P)
      /\ Len(SubSeq(s, n + 1, Len(s))) = IF n + 1 <= Len(s) THEN Len(s) - (n + 1) + 1 ELSE 0
      /\ \A i \in 1..(Len(s) - (n + 1) + 1) : SubSeq(s, n + 1, Len(s))[i] = s[(n + 1) + i - 1]
  BY <1>2, <1>3, SubSeqProperties
<1>5. Len(SubSeq(s, n + 1, Len(s))) = Len(s) - n BY <1>1, <1>4
<1>6. ASSUME NEW i \in 1..(Len(s) - n) PROVE SubSeq(s, n + 1, Len(s))[i] = s[n + i]
  <2>1. i \in 1..(Len(s) - (n + 1) + 1) /\ (n + 1) + i - 1 = n + i BY <1>1
  <2>2. QED BY <1>4, <2>1
<1>7. QED BY <1>1, <1>4, <1>5, <1>6

\* What comes, without the first parts.
LEMMA RestType ==
  ASSUME Inv, NEW c \in Conns, incoming[c] # <<>>,
         \/ incoming' = [incoming EXCEPT ![c] = Tail(@)]
         \/ \E n \in 1..Len(incoming[c]) : incoming' = [incoming EXCEPT ![c] = SubSeq(@, n + 1, Len(@))]
  PROVE  incoming' \in [Conns -> Seq(Parts)] /\ Head(incoming[c]) \in Parts
<1>1. incoming[c] \in Seq(Parts) /\ incoming \in [Conns -> Seq(Parts)] BY DEF Inv, Types
<1>2. Tail(incoming[c]) \in Seq(Parts) /\ Head(incoming[c]) \in Parts BY <1>1, TailElements
<1>3. \A n \in 1..Len(incoming[c]) : SubSeq(incoming[c], n + 1, Len(incoming[c])) \in Seq(Parts)
  BY <1>1, RestElements
<1>4. QED BY <1>1, <1>2, <1>3

\* Closing sockets keeps the types.
LEMMA ShutType ==
  ASSUME Inv, NEW S, Shut(S)
  PROVE  /\ connected' \in [Conns -> BOOLEAN] /\ peer' \in [Conns -> {"open", "closed", "reset"}]
         /\ owed' \in [Conns -> Seq(Parts)] /\ incoming' \in [Conns -> Seq(Parts)]
<1>1. <<>> \in Seq(Parts) OBVIOUS
<1>2. QED BY <1>1 DEF Shut, Inv, Types

\* The steps of a request on its connection.
RequestStep(f) ==
  \/ Send(f) \/ SendLate(f) \/ SendFails(f) \/ RecvMore(f) \/ RecvDone(f) \/ RecvBad(f)
  \/ RecvFails(f) \/ RecvOverruns(f) \/ Overrun(f) \/ RecvEnds(f)

LEMMA RequestTypes == ASSUME Inv, NEW f \in Fibers, RequestStep(f) PROVE Inv'
<1> USE DEF RequestStep
<1>1. UNCHANGED <<m_conns, m_total, live, m_request, conn, invalid_conns, req, requests>>
  BY DEF Send, SendLate, SendFails, RecvMore, RecvDone, RecvBad, RecvFails, RecvOverruns, Overrun,
         RecvEnds, Inside
<1>2. at[f] \in {"send", "overrun"} \cup Reading
  BY DEF Send, SendLate, SendFails, RecvMore, RecvDone, RecvBad, RecvFails, RecvOverruns, Overrun,
         RecvEnds, Reading, Framings
<1>3. conn[f] \in Conns BY <1>2 DEF Inv, Placed, Reading, Framings
<1>4. PICK w \in Places \ {"idle", "connect", "reap"} : at' = [at EXCEPT ![f] = w]
  <2>1. CASE at' = at
    <3>1. at[f] \in Places \ {"idle", "connect", "reap"} BY <1>2 DEF Places, Reading, Framings
    <3>2. at' = [at EXCEPT ![f] = at[f]] BY <2>1 DEF Inv, Types
    <3>3. QED BY <3>1, <3>2
  <2>2. CASE \E where \in {"head", "send", "spin", "release", "overrun"} \cup Framings : Goto(f, where)
    BY <2>2 DEF Goto, Places, Reading, Framings
  <2>3. QED
    BY <2>1, <2>2 DEF Send, SendLate, SendFails, RecvMore, RecvDone, RecvBad, RecvFails, RecvOverruns,
                      Overrun, RecvEnds
<1>5. at' \in [Fibers -> Places] /\ at'[f] = w /\ \A g \in Fibers \ {f} : at'[g] = at[g]
  BY <1>4 DEF Inv, Types
<1>6. Placed'
  <2>1. invalid_conns[f] = {} BY <1>2 DEF Inv, Placed, Reading, Framings
  <2>2. at[f] # "idle" BY <1>2 DEF Reading, Framings
  <2>3. QED BY <1>1, <1>3, <1>5, <2>1, <2>2 DEF Inv, Placed
<1>7. /\ connected' \in [Conns -> BOOLEAN] /\ peer' \in [Conns -> {"open", "closed", "reset"}]
      /\ owed' \in [Conns -> Seq(Parts)] /\ incoming' \in [Conns -> Seq(Parts)]
  <2>1. CASE RecvBad(f) \/ RecvFails(f) \/ RecvEnds(f)
    BY <2>1, ShutType DEF RecvBad, RecvFails, RecvEnds, Close
  <2>2. CASE RecvMore(f) \/ RecvDone(f) \/ Overrun(f)
    <3>1. UNCHANGED <<connected, peer, owed>> BY <2>2 DEF RecvMore, RecvDone, Overrun
    <3>2. /\ incoming[conn[f]] # <<>>
          /\ \/ incoming' = [incoming EXCEPT ![conn[f]] = Tail(@)]
             \/ \E n \in 1..Len(incoming[conn[f]]) :
                  incoming' = [incoming EXCEPT ![conn[f]] = SubSeq(@, n + 1, Len(@))]
      BY <2>2 DEF RecvMore, RecvDone, Overrun
    <3>3. incoming' \in [Conns -> Seq(Parts)] BY <1>3, <3>2, RestType
    <3>4. QED BY <3>1, <3>3 DEF Inv, Types
  <2>3. CASE Send(f)
    <3>1. req[f] \in 1..MaxRequests BY <2>3 DEF Send, Inv, Types, Placed
    <3>2. [req |-> req[f], part |-> "whole"] \in Parts BY <3>1 DEF Parts
    <3>3. owed[conn[f]] \in Seq(Parts) /\ owed \in [Conns -> Seq(Parts)] BY <1>3 DEF Inv, Types
    <3>4. Append(owed[conn[f]], [req |-> req[f], part |-> "whole"]) \in Seq(Parts)
      BY <3>2, <3>3, AppendProperties
    <3>5. owed' \in [Conns -> Seq(Parts)] BY <2>3, <3>3, <3>4 DEF Send
    <3>6. QED BY <2>3, <3>5 DEF Send, Inv, Types
  <2>4. CASE SendLate(f) BY <2>4 DEF SendLate, Inv, Types
  <2>5. CASE SendFails(f) \/ RecvOverruns(f) BY <2>5 DEF SendFails, RecvOverruns, wire, Inv, Types
  <2>6. QED BY <2>1, <2>2, <2>3, <2>4, <2>5
<1>8. result' \in [Fibers -> 0..MaxRequests]
  <2>1. CASE RecvDone(f)
    <3>1. incoming[conn[f]] \in Seq(Parts) /\ incoming[conn[f]] # <<>>
      BY <1>3, <2>1 DEF RecvDone, Inv, Types
    <3>2. Head(incoming[conn[f]]) \in Parts BY <3>1, TailElements
    <3>3. Head(incoming[conn[f]]).req \in 0..MaxRequests BY <3>2 DEF Parts
    <3>4. QED BY <2>1, <3>3 DEF RecvDone, Got, Inv, Types
  <2>2. QED
    BY <2>1 DEF Send, SendLate, SendFails, RecvMore, RecvBad, RecvFails, RecvOverruns, Overrun, RecvEnds,
                Inv, Types
<1>9. Types' BY <1>1, <1>5, <1>7, <1>8 DEF Inv, Types
<1>10. QED BY <1>1, <1>6, <1>9, StaysOwn DEF Inv

\* What a server does that answers: a part goes out, and the part it owed
\* first is done, replaced or left.
Sends(c, x, s) ==
  /\ owed[c] # <<>>
  /\ incoming' = [incoming EXCEPT ![c] = Append(@, x)] /\ owed' = [owed EXCEPT ![c] = s]

BodyOf(p) == [req |-> p.req, part |-> "body"]

AnswerStep(c) ==
  Answer(c) \/ Drip(c) \/ \E framing \in Framings \cup {"bare"} : AnswerHead(c, framing)

LEMMA AnswerSends ==
  ASSUME Inv, NEW c \in Conns, AnswerStep(c)
  PROVE  /\ UNCHANGED <<m_conns, m_total, live, m_request, conn, invalid_conns, req, requests>>
         /\ UNCHANGED <<at, result, peer, connected>>
         /\ owed[c] # <<>> /\ owed[c][1] \in Parts
         /\ \E x \in Parts, s \in Seq(Parts) :
              /\ Sends(c, x, s) /\ x.req = owed[c][1].req
              /\ \/ x = owed[c][1] /\ s = Tail(owed[c])
                 \/ owed[c][1].part # "whole" /\ x.part = "bit" /\ s = owed[c]
                 \/ owed[c][1].part = "whole" /\ x.part = "line" /\ s = owed[c]
                 \/ /\ owed[c][1].part = "whole" /\ x.part \in Framings \cup {"bare"}
                    /\ s = <<BodyOf(owed[c][1])>> \o Tail(owed[c])
<1>1. owed[c] \in Seq(Parts) /\ owed[c] # <<>>
  BY DEF AnswerStep, Answer, Drip, AnswerHead, Inv, Types
<1>2. /\ Head(owed[c]) = owed[c][1] /\ owed[c][1] \in Parts /\ Tail(owed[c]) \in Seq(Parts)
  BY <1>1, TailElements
<1> PICK p \in Parts : p = owed[c][1] BY <1>2
<1>3. p.req \in 1..MaxRequests BY DEF Parts
<1>4. \A part \in {"line", "bare"} \cup Framings \cup Stale : [req |-> p.req, part |-> part] \in Parts
  BY <1>3 DEF Parts
<1>5. BodyOf(p) \in Parts BY <1>4 DEF BodyOf, Stale
<1>6. <<BodyOf(p)>> \o Tail(owed[c]) \in Seq(Parts) BY <1>1, <1>5, FirstReplaced
<1>7. UNCHANGED <<m_conns, m_total, live, m_request, conn, invalid_conns, req, requests>>
  BY DEF AnswerStep, Answer, Drip, AnswerHead, Inside
<1>8. UNCHANGED <<at, result, peer, connected>> BY DEF AnswerStep, Answer, Drip, AnswerHead
<1>9. CASE Answer(c)
  <2>1. Sends(c, p, Tail(owed[c])) BY <1>1, <1>2, <1>9 DEF Answer, Sends
  <2>2. QED BY <1>1, <1>2, <1>7, <1>8, <2>1
<1>10. CASE Drip(c)
  <2>1. CASE p.part = "whole"
    <3>1. PICK x \in Parts : x = [req |-> p.req, part |-> "line"] BY <1>4
    <3>2. x.part = "line" /\ x.req = p.req BY <3>1
    <3>3. owed' = [owed EXCEPT ![c] = owed[c]] BY <1>10 DEF Drip, Inv, Types
    <3>4. Sends(c, x, owed[c]) BY <1>1, <1>2, <1>10, <2>1, <3>1, <3>3 DEF Drip, Sends
    <3>5. QED BY <1>1, <1>7, <1>8, <2>1, <3>2, <3>4
  <2>2. CASE p.part # "whole"
    <3>1. PICK x \in Parts : x = [req |-> p.req, part |-> "bit"] BY <1>4 DEF Stale
    <3>2. x.part = "bit" /\ x.req = p.req BY <3>1
    <3>3. owed' = [owed EXCEPT ![c] = owed[c]] BY <1>10 DEF Drip, Inv, Types
    <3>4. Sends(c, x, owed[c]) BY <1>1, <1>2, <1>10, <2>2, <3>1, <3>3 DEF Drip, Sends
    <3>5. QED BY <1>1, <1>7, <1>8, <2>2, <3>2, <3>4
  <2>3. QED BY <2>1, <2>2
<1>11. ASSUME NEW framing \in Framings \cup {"bare"}, AnswerHead(c, framing)
       PROVE  \E x \in Parts, s \in Seq(Parts) :
                /\ Sends(c, x, s) /\ x.req = p.req
                /\ p.part = "whole" /\ x.part \in Framings \cup {"bare"}
                /\ s = <<BodyOf(p)>> \o Tail(owed[c])
  <2>1. PICK x \in Parts : x = [req |-> p.req, part |-> framing] BY <1>4
  <2>2. x.part = framing /\ x.req = p.req BY <2>1
  <2>3. Sends(c, x, <<BodyOf(p)>> \o Tail(owed[c]))
    BY <1>1, <1>2, <1>11, <2>1 DEF AnswerHead, Sends, BodyOf
  <2>4. p.part = "whole" BY <1>2, <1>11 DEF AnswerHead
  <2>5. QED BY <1>6, <2>2, <2>3, <2>4
<1>12. QED BY <1>1, <1>7, <1>8, <1>9, <1>10, <1>11 DEF AnswerStep

LEMMA ServerTypes ==
  ASSUME Inv, NEW c \in Conns, CloseKept(c) \/ AnswerStep(c) \/ PeerCloses(c)
  PROVE  Inv'
<1>1. /\ UNCHANGED <<m_conns, m_total, live, m_request, conn, invalid_conns, req, requests>>
      /\ UNCHANGED <<at, result>>
  <2>1. CASE AnswerStep(c) BY <2>1, AnswerSends
  <2>2. CASE CloseKept(c) \/ PeerCloses(c) BY <2>2 DEF CloseKept, PeerCloses, Inside
  <2>3. QED BY <2>1, <2>2
<1>2. Placed' BY <1>1 DEF Inv, Placed
<1>3. Types'
  <2>1. CASE CloseKept(c) BY <1>1, <2>1, ShutType DEF CloseKept, Inv, Types
  <2>2. CASE PeerCloses(c)
    <3>1. owed' \in [Conns -> Seq(Parts)] /\ UNCHANGED connected BY <2>2 DEF PeerCloses, Inv, Types
    <3>2. peer' \in [Conns -> {"open", "closed", "reset"}] BY <2>2 DEF PeerCloses, Inv, Types
    <3>3. incoming' \in [Conns -> Seq(Parts)] BY <2>2 DEF PeerCloses, Inv, Types
    <3>4. QED BY <1>1, <3>1, <3>2, <3>3 DEF Inv, Types
  <2>3. CASE AnswerStep(c)
    <3>1. PICK x \in Parts, s \in Seq(Parts) : Sends(c, x, s) BY <2>3, AnswerSends
    <3>2. incoming[c] \in Seq(Parts) BY DEF Inv, Types
    <3>3. Append(incoming[c], x) \in Seq(Parts) BY <3>2, AppendElements
    <3>4. incoming' \in [Conns -> Seq(Parts)] /\ owed' \in [Conns -> Seq(Parts)]
      BY <3>1, <3>3 DEF Sends, Inv, Types
    <3>5. UNCHANGED <<peer, connected>> BY <2>3, AnswerSends
    <3>6. QED BY <1>1, <3>4, <3>5 DEF Inv, Types
  <2>4. QED BY <2>1, <2>2, <2>3
<1>4. QED BY <1>1, <1>2, <1>3, StaysOwn DEF Inv

LEMMA PopInv ==
  ASSUME Inv, NEW f \in Fibers, NEW k \in 0..Len(m_conns), Pop(f, k)
  PROVE  Inv'
<1>1. m_conns' \in Seq(Conns) /\ Own' /\ Placed' BY PopOwn
<1>2. \A i \in 1..Len(m_conns) : m_conns[i] \in Conns BY ElementOfSeq DEF Inv, Types
<1>3. Len(m_conns) \in Nat BY LenProperties DEF Inv, Types
<1>4. conn' \in [Fibers -> Conns \cup {None}]
  <2>1. k < Len(m_conns) => m_conns[k + 1] \in Conns BY <1>2, <1>3
  <2>2. QED BY <2>1 DEF Pop, Inv, Types
<1>5. invalid_conns' \in [Fibers -> SUBSET Conns]
  <2>1. {m_conns[i] : i \in 1..k} \in SUBSET Conns BY <1>2, <1>3
  <2>2. QED BY <2>1 DEF Pop, Inv, Types
<1>6. requests' \in 0..MaxRequests /\ req' \in [Fibers -> 0..MaxRequests] BY DEF Pop, Inv, Types
<1>7. result' \in [Fibers -> 0..MaxRequests] BY DEF Pop, Inv, Types
<1>8. at' \in [Fibers -> Places] BY DEF Pop, Goto, Inv, Types, Places
<1>9. Types' BY <1>1, <1>4, <1>5, <1>6, <1>7, <1>8 DEF Pop, wire, Inv, Types
<1>10. QED BY <1>1, <1>9 DEF Pop, Inv

LEMMA ConnectFailsInv == ASSUME Inv, NEW f \in Fibers, ConnectFails(f) PROVE Inv'
<1>1. UNCHANGED <<m_conns, m_total, live, connected, m_request, wire, conn, invalid_conns, requests>>
  BY DEF ConnectFails
<1>2. Own' /\ m_total' = Cardinality(live') BY <1>1, StaysOwn
<1>3. /\ at' \in [Fibers -> Places] /\ req' \in [Fibers -> 0..MaxRequests]
      /\ result' \in [Fibers -> 0..MaxRequests]
      /\ at'[f] = "idle" /\ \A g \in Fibers \ {f} : at'[g] = at[g] /\ req'[g] = req[g]
  BY DEF ConnectFails, Return, Goto, Inv, Types, Places
<1>4. Types' BY <1>1, <1>3 DEF wire, Inv, Types
<1>5. at[f] = "connect" BY DEF ConnectFails
<1>6. Placed' BY <1>1, <1>3, <1>5 DEF Inv, Placed
<1>7. QED BY <1>2, <1>4, <1>6 DEF Inv

LEMMA InvStep == ASSUME Inv, Next PROVE Inv'
<1>1. ASSUME NEW f \in Fibers, FiberStep(f) \/ Send(f) PROVE Inv'
  BY <1>1, ReapOwn, ConnectOwn, ReleaseOwn, ConnectFailsInv, RequestTypes DEF FiberStep, Inv, RequestStep
<1>2. QED BY <1>1, PopInv, ServerTypes DEF Next, ServerStep, AnswerStep

LEMMA InvStutter == ASSUME Inv, UNCHANGED vars PROVE Inv'
BY DEF vars, wire, Inv, Types, Own, Held, Pooled, Placed

LEMMA InvInit == ASSUME Init PROVE Inv
<1>1. m_conns = <<>> /\ Len(m_conns) = 0 /\ Pooled = {} BY DEF Init, Pooled
<1>2. Types
  <2>1. m_conns \in Seq(Conns) BY <1>1
  <2>2. <<>> \in Seq(Parts) OBVIOUS
  <2>3. owed \in [Conns -> Seq(Parts)] /\ incoming \in [Conns -> Seq(Parts)] BY <2>2 DEF Init
  <2>4. /\ req \in [Fibers -> 0..MaxRequests] /\ requests \in 0..MaxRequests
        /\ result \in [Fibers -> 0..MaxRequests] /\ m_request \in [Conns -> 0..MaxRequest]
    BY DEF Init
  <2>5. at \in [Fibers -> Places] BY DEF Init, Places
  <2>6. QED BY <2>1, <2>3, <2>4, <2>5 DEF Init, Types
<1>3. \A f \in Fibers : Held(f) = {None} BY DEF Init, Held
<1>4. Own BY <1>1, <1>3 DEF Init, Own
<1>5. Placed BY DEF Init, Placed
<1>6. m_total = Cardinality(live) BY FS_EmptySet DEF Init
<1>7. QED BY <1>2, <1>4, <1>5, <1>6 DEF Inv

\* Every variable keeps its type: m_total never wraps below zero, and no
\* connection is used more often than m_maxRequest allows (counting from 0).
THEOREM TypeTheorem == Spec => []TypeOK
<1>1. Inv /\ [Next]_vars => Inv' BY InvStep, InvStutter
<1>2. Inv => TypeOK BY InvImplies
<1>3. QED BY InvInit, <1>1, <1>2, PTL DEF Spec

\* Every connection that exists is counted in m_total and has one owner, the
\* list or a single fiber, whatever fibers, servers and failures do.
THEOREM OwnerTheorem == Spec => []OneOwner
<1>1. Inv /\ [Next]_vars => Inv' BY InvStep, InvStutter
<1>2. Inv => OneOwner BY InvImplies
<1>3. QED BY InvInit, <1>1, <1>2, PTL DEF Spec
----------------------------------------------------------------------------
(* A request gets its own response. A connection that is handed out carries *)
(* at most the rest of a body that an earlier request did not wait for      *)
(* (what a failed request left unread went with the connection, which was   *)
(* closed and therefore deleted instead of being pooled). While a response  *)
(* is read, what is under way on the connection is such a rest and then the *)
(* parts of this response, in their order.                                  *)

\* Nothing but bytes of bodies.
Old(s) == \A i \in 1..Len(s) : s[i].part \in Stale

\* Part p is of response n, or of some body.
Ours(p, n) == p.part \in Stale \/ p.req = n

\* Part p may come before part q in a stream that leads to response n: with its
\* head response n has begun, and when that is complete its body is left.
Before(p, q, n) == p.part \notin Stale => q.req = n /\ (p.part # "line" => q.part \in Stale)

\* What is read before what is owed, on the way to the head of response n.
Flow(s, t, n) ==
  /\ \A i \in 1..Len(s) : Ours(s[i], n)
  /\ \A i \in 1..Len(t) : Ours(t[i], n)
  /\ \A i, j \in 1..Len(s) : i < j => Before(s[i], s[j], n)
  /\ \A i, j \in 1..Len(t) : i < j => Before(t[i], t[j], n)
  /\ \A i \in 1..Len(s), j \in 1..Len(t) : Before(s[i], t[j], n)

\* All of it is the body of response n.
BodyLeft(s, n) == \A i \in 1..Len(s) : s[i].part \in Stale /\ s[i].req = n

Leftovers(c) == Old(incoming[c]) /\ Old(owed[c])
BeforeHead(c, n) == Flow(incoming[c], owed[c], n)
BeforeBody(c, n) == BodyLeft(incoming[c], n) /\ BodyLeft(owed[c], n)

Clean(f) ==
  /\ at[f] \in {"reap", "send"} /\ conn[f] # None => connected[conn[f]] /\ Leftovers(conn[f])
  /\ at[f] = "head" => BeforeHead(conn[f], req[f])
  /\ at[f] \in Framings => BeforeBody(conn[f], req[f])
  /\ at[f] = "release" /\ connected[conn[f]] => Leftovers(conn[f])
  /\ at[f] = "idle" => result[f] = 0

CleanPool == \A c \in Conns : c \notin live \/ (c \in Pooled /\ connected[c]) => Leftovers(c)

PairInv == Inv /\ CleanPool /\ Paired /\ \A f \in Fibers : Clean(f)

LEMMA NothingOld == Old(<<>>)
<1>1. Len(<<>>) = 0 OBVIOUS
<1>2. QED BY <1>1 DEF Old

\* The stream loses its first parts.
LEMMA FlowRest ==
  ASSUME NEW s \in Seq(Parts), NEW t \in Seq(Parts), NEW n, s # <<>>
  PROVE  /\ Flow(s, t, n) => Flow(Tail(s), t, n)
         /\ BodyLeft(s, n) => BodyLeft(Tail(s), n)
<1>1. /\ Len(s) \in Nat \ {0} /\ Len(Tail(s)) = Len(s) - 1
      /\ \A i \in 1..(Len(s) - 1) : Tail(s)[i] = s[i + 1]
  BY TailElements
<1>2. \A i \in 1..Len(Tail(s)) : i + 1 \in 1..Len(s) /\ Tail(s)[i] = s[i + 1] BY <1>1
<1>3. Len(Tail(s)) \in Nat BY <1>1
<1>4. ASSUME Flow(s, t, n) PROVE Flow(Tail(s), t, n)
  <2>1. \A i \in 1..Len(Tail(s)) : Ours(Tail(s)[i], n) BY <1>2, <1>4 DEF Flow
  <2>2. ASSUME NEW i \in 1..Len(Tail(s)), NEW j \in 1..Len(Tail(s)), i < j
        PROVE  Before(Tail(s)[i], Tail(s)[j], n)
    <3>1. i + 1 \in 1..Len(s) /\ j + 1 \in 1..Len(s) /\ i + 1 < j + 1 BY <1>2, <2>2
    <3>2. Before(s[i + 1], s[j + 1], n) BY <1>4, <3>1 DEF Flow
    <3>3. QED BY <1>2, <3>2
  <2>3. \A i \in 1..Len(Tail(s)), j \in 1..Len(t) : Before(Tail(s)[i], t[j], n)
    BY <1>2, <1>4 DEF Flow
  <2>4. QED BY <1>4, <2>1, <2>2, <2>3 DEF Flow
<1>5. ASSUME BodyLeft(s, n) PROVE BodyLeft(Tail(s), n) BY <1>2, <1>5 DEF BodyLeft
<1>6. QED BY <1>4, <1>5

\* When the first part is no byte of a body it is of response n, and behind
\* the end of its head there is its body only.
LEMMA FlowHead ==
  ASSUME NEW s \in Seq(Parts), NEW t \in Seq(Parts), NEW n, s # <<>>, Flow(s, t, n),
         s[1].part \notin Stale
  PROVE  /\ s[1].req = n
         /\ s[1].part # "line" =>
              /\ \A i \in 2..Len(s) : s[i].part \in Stale /\ s[i].req = n
              /\ BodyLeft(t, n)
<1>1. Len(s) \in Nat \ {0} BY TailElements
<1>2. 1 \in 1..Len(s) /\ \A i \in 2..Len(s) : i \in 1..Len(s) /\ 1 < i BY <1>1
<1>3. s[1].req = n BY <1>2 DEF Flow, Ours
<1>4. \A i \in 2..Len(s) : Before(s[1], s[i], n) BY <1>2 DEF Flow
<1>5. \A i \in 1..Len(t) : Before(s[1], t[i], n) BY <1>2 DEF Flow
<1>6. QED BY <1>3, <1>4, <1>5 DEF Before, BodyLeft

\* The new request is the last thing owed.
LEMMA FlowSend ==
  ASSUME NEW s \in Seq(Parts), NEW t \in Seq(Parts), NEW x \in Parts, Old(s), Old(t)
  PROVE  Flow(s, Append(t, x), x.req) /\ \A n : Flow(s, t, n)
<1> DEFINE u == Append(t, x)
<1>1. /\ Len(u) = Len(t) + 1 /\ Len(t) \in Nat
      /\ \A i \in 1..Len(t) : u[i] = t[i]
      /\ u[Len(t) + 1] = x
  BY AppendElements
<1>2. \A i \in 1..Len(u) : u[i].part \in Stale \/ (i = Len(u) /\ u[i] = x) BY <1>1 DEF Old
<1>3. \A i \in 1..Len(u) : Ours(u[i], x.req) BY <1>2 DEF Ours
<1>4. ASSUME NEW i \in 1..Len(u), NEW j \in 1..Len(u), i < j PROVE Before(u[i], u[j], x.req)
  <2>1. i # Len(u) BY <1>1, <1>4
  <2>2. QED BY <1>2, <2>1 DEF Before
<1>5. \A i \in 1..Len(s), j \in 1..Len(u) : Before(s[i], u[j], x.req) BY DEF Old, Before
<1>6. \A i \in 1..Len(s) : Ours(s[i], x.req) BY DEF Old, Ours
<1>7. \A i, j \in 1..Len(s) : i < j => Before(s[i], s[j], x.req) BY DEF Old, Before
<1> HIDE DEF u
<1>8. Flow(s, u, x.req) BY <1>3, <1>4, <1>5, <1>6, <1>7 DEF Flow
<1>9. \A n : Flow(s, t, n) BY DEF Old, Flow, Ours, Before
<1>10. QED BY <1>8, <1>9 DEF u

\* The server sends on: part x goes out and u is owed then.
SentOn(t, x, u) ==
  /\ x.req = t[1].req
  /\ \/ x = t[1] /\ u = Tail(t)
     \/ t[1].part # "whole" /\ x.part = "bit" /\ u = t
     \/ t[1].part = "whole" /\ x.part = "line" /\ u = t
     \/ t[1].part = "whole" /\ x.part \in Framings \cup {"bare"} /\ u = <<BodyOf(t[1])>> \o Tail(t)

\* What is owed then, part by part: an old one at the same or the next place,
\* or the body of the first.
LEMMA OwedThen ==
  ASSUME NEW t \in Seq(Parts), t # <<>>, NEW x \in Parts, NEW u \in Seq(Parts), SentOn(t, x, u)
  PROVE  /\ Len(t) \in Nat \ {0} /\ Len(u) \in Nat
         /\ \/ u = Tail(t) /\ Len(u) = Len(t) - 1 /\ \A i \in 1..Len(u) : i + 1 \in 1..Len(t) /\ u[i] = t[i + 1]
            \/ u = t
            \/ /\ Len(u) = Len(t) /\ u[1] = BodyOf(t[1]) /\ \A i \in 2..Len(u) : u[i] = t[i]
               /\ t[1].part = "whole"
<1>1. /\ Len(t) \in Nat \ {0} /\ Len(Tail(t)) = Len(t) - 1 /\ t[1] \in Parts
      /\ \A i \in 1..(Len(t) - 1) : Tail(t)[i] = t[i + 1]
  BY TailElements
<1>2. CASE u = Tail(t)
  <2>1. Len(u) = Len(t) - 1 /\ Len(u) \in Nat BY <1>1, <1>2
  <2>2. ASSUME NEW i \in 1..Len(u) PROVE i + 1 \in 1..Len(t) /\ u[i] = t[i + 1]
    <3>1. i \in 1..(Len(t) - 1) /\ i + 1 \in 1..Len(t) BY <1>1, <2>1
    <3>2. QED BY <1>1, <1>2, <3>1
  <2>3. QED BY <1>1, <1>2, <2>1, <2>2
<1>3. CASE u = t BY <1>1, <1>3
<1>4. CASE t[1].part = "whole" /\ u = <<BodyOf(t[1])>> \o Tail(t)
  <2>1. t[1].req \in 1..MaxRequests BY <1>1 DEF Parts
  <2>2. BodyOf(t[1]) \in Parts BY <2>1 DEF BodyOf, Parts, Stale
  <2>3. /\ Len(u) = Len(t) /\ u[1] = BodyOf(t[1]) /\ \A i \in 2..Len(t) : u[i] = t[i]
    BY <1>4, <2>2, FirstReplaced
  <2>4. QED BY <1>1, <1>4, <2>3
<1>5. QED BY <1>2, <1>3, <1>4 DEF SentOn

\* Bodies stay bodies.
LEMMA OldSentOn ==
  ASSUME NEW s \in Seq(Parts), NEW t \in Seq(Parts), t # <<>>, NEW x \in Parts, NEW u \in Seq(Parts),
         SentOn(t, x, u), NEW n
  PROVE  /\ Old(s) /\ Old(t) => Old(Append(s, x)) /\ Old(u)
         /\ BodyLeft(s, n) /\ BodyLeft(t, n) => BodyLeft(Append(s, x), n) /\ BodyLeft(u, n)
<1>1. /\ Len(Append(s, x)) = Len(s) + 1 /\ Len(s) \in Nat
      /\ \A i \in 1..Len(s) : Append(s, x)[i] = s[i]
      /\ Append(s, x)[Len(s) + 1] = x
  BY AppendElements
<1>2. Len(t) \in Nat \ {0} BY OwedThen
<1>3. ASSUME Old(t) PROVE x.part \in Stale /\ Old(u)
  <2>1. t[1].part \in Stale BY <1>2, <1>3 DEF Old
  <2>2. t[1].part # "whole" BY <2>1 DEF Stale
  <2>3. x.part \in Stale BY <2>1, <2>2 DEF SentOn, Stale
  <2>4. u = t \/ \A i \in 1..Len(u) : i + 1 \in 1..Len(t) /\ u[i] = t[i + 1] BY <2>2, OwedThen
  <2>5. Old(u) BY <1>3, <2>4 DEF Old
  <2>6. QED BY <2>3, <2>5
<1>4. ASSUME BodyLeft(t, n) PROVE BodyLeft(u, n) /\ x.req = n
  <2>1. t[1].part \in Stale /\ t[1].req = n BY <1>2, <1>4 DEF BodyLeft
  <2>2. t[1].part # "whole" BY <2>1 DEF Stale
  <2>3. u = t \/ \A i \in 1..Len(u) : i + 1 \in 1..Len(t) /\ u[i] = t[i + 1] BY <2>2, OwedThen
  <2>4. BodyLeft(u, n) BY <1>4, <2>3 DEF BodyLeft
  <2>5. QED BY <2>1, <2>4 DEF SentOn
<1>5. BodyLeft(t, n) => Old(t) BY DEF BodyLeft, Old
<1>6. \A i \in 1..Len(Append(s, x)) :
    (i \in 1..Len(s) /\ Append(s, x)[i] = s[i]) \/ Append(s, x)[i] = x
  BY <1>1
<1>7. Old(s) /\ Old(t) => Old(Append(s, x)) BY <1>3, <1>6 DEF Old
<1>8. BodyLeft(s, n) /\ BodyLeft(t, n) => BodyLeft(Append(s, x), n)
  BY <1>3, <1>4, <1>5, <1>6 DEF BodyLeft
<1>9. QED BY <1>3, <1>4, <1>7, <1>8

\* The order is kept.
LEMMA FlowSentOn ==
  ASSUME NEW s \in Seq(Parts), NEW t \in Seq(Parts), t # <<>>, NEW x \in Parts, NEW u \in Seq(Parts),
         SentOn(t, x, u), NEW n, Flow(s, t, n)
  PROVE  Flow(Append(s, x), u, n)
<1> DEFINE a == Append(s, x)
<1>1. /\ Len(a) = Len(s) + 1 /\ Len(s) \in Nat
      /\ \A i \in 1..Len(s) : a[i] = s[i]
      /\ a[Len(s) + 1] = x
  BY AppendElements
<1> HIDE DEF a
<1>2. /\ Len(t) \in Nat \ {0} /\ Len(u) \in Nat
      /\ \/ u = Tail(t) /\ Len(u) = Len(t) - 1 /\ \A i \in 1..Len(u) : i + 1 \in 1..Len(t) /\ u[i] = t[i + 1]
         \/ u = t
         \/ /\ Len(u) = Len(t) /\ u[1] = BodyOf(t[1]) /\ \A i \in 2..Len(u) : u[i] = t[i]
            /\ t[1].part = "whole"
  BY OwedThen
<1>3. 1 \in 1..Len(t) BY <1>2
<1>4. BodyOf(t[1]).part \in Stale /\ BodyOf(t[1]).req = t[1].req BY DEF BodyOf, Stale
<1>5. Ours(t[1], n) BY <1>3 DEF Flow
<1>6. \A i \in 1..Len(s) : Before(s[i], t[1], n) BY <1>3 DEF Flow
<1>7. \A j \in 2..Len(t) : Before(t[1], t[j], n)
  <2>1. \A j \in 2..Len(t) : j \in 1..Len(t) /\ 1 < j BY <1>2
  <2>2. QED BY <1>3, <2>1 DEF Flow
<1>8. Ours(x, n) BY <1>5 DEF SentOn, Ours, Stale
<1>9. \A i \in 1..Len(s) : Before(s[i], x, n)
  <2> SUFFICES ASSUME NEW i \in 1..Len(s) PROVE Before(s[i], x, n) OBVIOUS
  <2>1. Before(s[i], t[1], n) BY <1>6
  <2>2. CASE x = t[1] BY <2>1, <2>2
  <2>3. CASE x.part = "bit" BY <2>1, <2>3 DEF Before, SentOn, Stale
  <2>4. CASE t[1].part = "whole" BY <2>1, <2>4 DEF Before, SentOn, Stale
  <2>5. QED BY <2>2, <2>3, <2>4 DEF SentOn
<1>10. \A i \in 1..Len(a) : Ours(a[i], n) BY <1>1, <1>8 DEF Flow
<1>11. ASSUME NEW i \in 1..Len(a), NEW j \in 1..Len(a), i < j PROVE Before(a[i], a[j], n)
  <2>1. i \in 1..Len(s) BY <1>1, <1>11
  <2>2. CASE j \in 1..Len(s) BY <1>1, <1>11, <2>1, <2>2 DEF Flow
  <2>3. CASE j = Len(s) + 1 BY <1>1, <1>9, <2>1, <2>3
  <2>4. QED BY <1>1, <2>2, <2>3
\* what is owed then comes behind old parts that came behind a part p
<1>12. ASSUME NEW p, \A j \in 1..Len(t) : Before(p, t[j], n) PROVE \A j \in 1..Len(u) : Before(p, u[j], n)
  <2>1. CASE u = Tail(t) /\ \A i \in 1..Len(u) : i + 1 \in 1..Len(t) /\ u[i] = t[i + 1]
    BY <1>12, <2>1
  <2>2. CASE u = t BY <1>12, <2>2
  <2>3. CASE Len(u) = Len(t) /\ u[1] = BodyOf(t[1]) /\ \A i \in 2..Len(u) : u[i] = t[i]
    <3>1. Before(p, u[1], n) BY <1>3, <1>4, <1>12, <2>3 DEF Before
    <3>2. \A j \in 2..Len(u) : Before(p, u[j], n)
      <4>1. \A j \in 2..Len(u) : j \in 1..Len(t) BY <1>2, <2>3
      <4>2. QED BY <1>12, <2>3, <4>1
    <3>3. \A j \in 1..Len(u) : j = 1 \/ j \in 2..Len(u) BY <1>2
    <3>4. QED BY <3>1, <3>2, <3>3
  <2>4. QED BY <1>2, <2>1, <2>2, <2>3
<1>13. \A i \in 1..Len(s), j \in 1..Len(u) : Before(s[i], u[j], n)
  <2> SUFFICES ASSUME NEW i \in 1..Len(s) PROVE \A j \in 1..Len(u) : Before(s[i], u[j], n) OBVIOUS
  <2>1. \A j \in 1..Len(t) : Before(s[i], t[j], n) BY DEF Flow
  <2>2. QED BY <1>12, <2>1
<1>14. \A j \in 1..Len(u) : Before(x, u[j], n)
  <2>1. CASE x.part \in Stale BY <2>1 DEF Before
  <2>2. CASE x = t[1] /\ u = Tail(t)
    <3>1. \A j \in 1..Len(u) : j + 1 \in 2..Len(t) /\ u[j] = t[j + 1]
      <4>1. Len(Tail(t)) = Len(t) - 1 /\ \A i \in 1..(Len(t) - 1) : Tail(t)[i] = t[i + 1] BY TailElements
      <4>2. Len(u) = Len(t) - 1 /\ Len(t) \in Nat BY <1>2, <2>2, <4>1
      <4>3. ASSUME NEW j \in 1..Len(u) PROVE j + 1 \in 2..Len(t) /\ u[j] = t[j + 1]
        <5>1. j \in 1..(Len(t) - 1) /\ j + 1 \in 2..Len(t) BY <4>2
        <5>2. QED BY <2>2, <4>1, <5>1
      <4>4. QED BY <4>3
    <3>2. QED BY <1>7, <2>2, <3>1
  <2>3. CASE /\ t[1].part = "whole" /\ x.req = t[1].req
             /\ (u = t /\ x.part = "line") \/ u = <<BodyOf(t[1])>> \o Tail(t)
    <3>1. t[1].part \notin Stale /\ t[1].part # "line" BY <2>3 DEF Stale
    <3>2. x.req = n /\ t[1].req = n BY <1>5, <2>3, <3>1 DEF Ours
    <3>3. \A j \in 2..Len(t) : t[j].req = n /\ t[j].part \in Stale BY <1>7, <3>1 DEF Before
    <3>4. CASE u = t /\ x.part = "line"
      <4>1. \A j \in 1..Len(u) : u[j].req = n
        <5>1. \A j \in 1..Len(u) : j = 1 \/ j \in 2..Len(t) BY <1>2, <3>4
        <5>2. QED BY <3>2, <3>3, <3>4, <5>1
      <4>2. QED BY <3>4, <4>1 DEF Before
    <3>5. CASE u = <<BodyOf(t[1])>> \o Tail(t)
      <4>1. t[1] \in Parts /\ t[1].req \in 1..MaxRequests
        <5>1. t[1] \in Parts BY TailElements
        <5>2. QED BY <5>1 DEF Parts
      <4>2. BodyOf(t[1]) \in Parts BY <4>1 DEF BodyOf, Parts, Stale
      <4>3. Len(u) = Len(t) /\ u[1] = BodyOf(t[1]) /\ \A i \in 2..Len(t) : u[i] = t[i]
        BY <3>5, <4>2, FirstReplaced
      <4>4. \A j \in 1..Len(u) : u[j].req = n /\ u[j].part \in Stale
        <5>1. \A j \in 1..Len(u) : j = 1 \/ j \in 2..Len(t) BY <1>2, <4>3
        <5>2. QED BY <1>4, <3>2, <3>3, <4>3, <5>1
      <4>5. QED BY <4>4 DEF Before
    <3>6. QED BY <2>3, <3>4, <3>5
  <2>4. QED BY <2>1, <2>2, <2>3 DEF SentOn, Stale
<1>15. \A i \in 1..Len(a), j \in 1..Len(u) : Before(a[i], u[j], n)
  <2> SUFFICES ASSUME NEW i \in 1..Len(a), NEW j \in 1..Len(u) PROVE Before(a[i], u[j], n) OBVIOUS
  <2>1. CASE i \in 1..Len(s) BY <1>1, <1>13, <2>1
  <2>2. CASE i = Len(s) + 1 BY <1>1, <1>14, <2>2
  <2>3. QED BY <1>1, <2>1, <2>2
<1>16. \A j \in 1..Len(u) : Ours(u[j], n)
  <2>1. CASE u = Tail(t) /\ \A i \in 1..Len(u) : i + 1 \in 1..Len(t) /\ u[i] = t[i + 1]
    BY <2>1 DEF Flow
  <2>2. CASE u = t BY <2>2 DEF Flow
  <2>3. CASE Len(u) = Len(t) /\ u[1] = BodyOf(t[1]) /\ \A i \in 2..Len(u) : u[i] = t[i]
    <3>1. Ours(u[1], n) BY <1>4, <2>3 DEF Ours
    <3>2. \A j \in 1..Len(u) : j = 1 \/ (j \in 2..Len(u) /\ j \in 1..Len(t)) BY <1>2, <2>3
    <3>3. QED BY <2>3, <3>1, <3>2 DEF Flow
  <2>4. QED BY <1>2, <2>1, <2>2, <2>3
<1>17. ASSUME NEW i \in 1..Len(u), NEW j \in 1..Len(u), i < j PROVE Before(u[i], u[j], n)
  <2>1. CASE u = Tail(t) /\ \A k \in 1..Len(u) : k + 1 \in 1..Len(t) /\ u[k] = t[k + 1]
    <3>1. i + 1 \in 1..Len(t) /\ j + 1 \in 1..Len(t) /\ i + 1 < j + 1 BY <1>17, <2>1
    <3>2. Before(t[i + 1], t[j + 1], n) BY <3>1 DEF Flow
    <3>3. QED BY <2>1, <3>2
  <2>2. CASE u = t BY <1>17, <2>2 DEF Flow
  <2>3. CASE Len(u) = Len(t) /\ u[1] = BodyOf(t[1]) /\ \A k \in 2..Len(u) : u[k] = t[k]
    <3>1. CASE i = 1 BY <1>4, <2>3, <3>1 DEF Before
    <3>2. CASE i # 1
      <4>1. i \in 2..Len(u) /\ j \in 2..Len(u) /\ i \in 1..Len(t) /\ j \in 1..Len(t)
        BY <1>2, <1>17, <2>3, <3>2
      <4>2. Before(t[i], t[j], n) BY <1>17, <4>1 DEF Flow
      <4>3. QED BY <2>3, <4>1, <4>2
    <3>3. QED BY <3>1, <3>2
  <2>4. QED BY <1>2, <2>1, <2>2, <2>3
<1>18. Flow(a, u, n) BY <1>10, <1>11, <1>15, <1>16, <1>17 DEF Flow
<1>19. QED BY <1>18 DEF a

\* A fiber that is somewhere with a connection has one nobody else has.
LEMMA Alone ==
  ASSUME Inv, NEW f \in Fibers, conn[f] # None
  PROVE  /\ conn[f] \in Conns /\ conn[f] \in live /\ conn[f] \notin Pooled
         /\ \A g \in Fibers \ {f} : conn[g] # conn[f]
<1>1. conn[f] \in Conns BY DEF Inv, Types
<1>2. QED BY <1>1 DEF Inv, Own, Held

\* What is true of a fiber depends on its connection only.
LEMMA CleanKept ==
  ASSUME Inv, NEW g \in Fibers, Clean(g), at'[g] = at[g], conn'[g] = conn[g], req'[g] = req[g],
         at[g] = "idle" => result'[g] = result[g],
         conn[g] # None =>
           /\ owed'[conn[g]] = owed[conn[g]] /\ incoming'[conn[g]] = incoming[conn[g]]
           /\ connected'[conn[g]] = connected[conn[g]]
  PROVE  Clean(g)'
<1>1. at[g] \in {"head", "release"} \cup Framings => conn[g] \in Conns
  BY DEF Inv, Placed, Framings
<1>2. CASE conn[g] # None BY <1>2 DEF Clean, Leftovers, BeforeHead, BeforeBody
<1>3. CASE conn[g] = None BY <1>1, <1>3 DEF Clean
<1>4. QED BY <1>2, <1>3

\* A step on the connection of f leaves everybody else alone.
LEMMA Elsewhere ==
  ASSUME PairInv, NEW f \in Fibers, NEW c \in Conns, c = conn[f],
         \A d \in Conns \ {c} : owed'[d] = owed[d] /\ incoming'[d] = incoming[d] /\ connected'[d] = connected[d],
         UNCHANGED <<conn, live, m_conns, req>>,
         \A g \in Fibers \ {f} : at'[g] = at[g] /\ result'[g] = result[g]
  PROVE  CleanPool' /\ \A g \in Fibers \ {f} : Clean(g)'
<1>1. Inv BY DEF PairInv
<1>2. c \in live /\ c \notin Pooled /\ \A g \in Fibers \ {f} : conn[g] # c BY <1>1, Alone
<1>3. UNCHANGED Pooled BY DEF Pooled
<1>4. CleanPool' BY <1>2, <1>3 DEF PairInv, CleanPool, Leftovers
<1>5. ASSUME NEW g \in Fibers \ {f} PROVE Clean(g)'
  <2>1. conn[g] # None => conn[g] \in Conns \ {c} BY <1>2 DEF PairInv, Inv, Types
  <2>2. QED BY <1>1, <2>1, CleanKept DEF PairInv
<1>6. QED BY <1>4, <1>5

\* Reading takes a part of the response, and when it is complete nothing but
\* its body is left.
LEMMA RecvPair ==
  ASSUME PairInv, NEW f \in Fibers, RecvMore(f) \/ RecvDone(f)
  PROVE  Clean(f)' /\ Paired'
<1>1. at[f] \in Reading /\ conn[f] \in Conns
  BY DEF RecvMore, RecvDone, PairInv, Inv, Placed, Reading, Framings
<1> PICK c \in Conns : c = conn[f] BY <1>1
<1> PICK n \in 0..MaxRequests : n = req[f] BY DEF PairInv, Inv, Types
<1>2. /\ incoming[c] # <<>> /\ incoming[c] \in Seq(Parts) /\ owed[c] \in Seq(Parts)
      /\ UNCHANGED <<owed, conn, req, connected>> /\ Clean(f)
  BY DEF RecvMore, RecvDone, Inside, PairInv, Inv, Types
<1> PICK s \in Seq(Parts) : s = incoming[c] BY <1>2
<1> PICK t \in Seq(Parts) : t = owed[c] BY <1>2
<1>3. s # <<>> /\ Head(s) = s[1] /\ Len(s) \in Nat \ {0} BY <1>2, TailElements
<1>4. CASE RecvMore(f)
  <2>1. incoming'[c] = Tail(s) /\ UNCHANGED result BY <1>4 DEF RecvMore, PairInv, Inv, Types
  <2>2. CASE at[f] = "head" /\ s[1].part = "line" /\ UNCHANGED at
    <3>1. Flow(s, t, n) BY <1>2, <2>2 DEF Clean, BeforeHead
    <3>2. Flow(Tail(s), t, n) BY <1>3, <3>1, FlowRest
    <3>3. BeforeHead(c, n)' BY <1>2, <2>1, <3>2 DEF BeforeHead
    <3>4. QED BY <1>2, <2>1, <2>2, <3>3 DEF Clean, Framings, PairInv, Paired
  <2>3. CASE at[f] = "head" /\ s[1].part \in Framings /\ Goto(f, s[1].part)
    <3>1. Flow(s, t, n) BY <1>2, <2>3 DEF Clean, BeforeHead
    <3>2. s[1].part \notin Stale /\ s[1].part # "line" BY <2>3 DEF Framings, Stale
    <3>3. (\A i \in 2..Len(s) : s[i].part \in Stale /\ s[i].req = n) /\ BodyLeft(t, n)
      BY <1>3, <3>1, <3>2, FlowHead
    <3>4. BodyLeft(Tail(s), n)
      <4>1. Len(Tail(s)) = Len(s) - 1 /\ \A i \in 1..(Len(s) - 1) : Tail(s)[i] = s[i + 1]
        BY <1>3, TailElements
      <4>2. \A i \in 1..Len(Tail(s)) : i + 1 \in 2..Len(s) /\ Tail(s)[i] = s[i + 1] BY <1>3, <4>1
      <4>3. QED BY <3>3, <4>2 DEF BodyLeft
    <3>5. BeforeBody(c, n)' BY <1>2, <2>1, <3>3, <3>4 DEF BeforeBody
    <3>6. at'[f] \in Framings BY <2>3 DEF Goto, PairInv, Inv, Types
    <3>7. QED BY <1>2, <2>1, <3>5, <3>6 DEF Clean, Framings, PairInv, Paired
  <2>4. CASE at[f] \in Framings /\ s[1].part = "bit" /\ UNCHANGED at
    <3>1. BodyLeft(s, n) /\ BodyLeft(t, n) BY <1>2, <2>4 DEF Clean, BeforeBody
    <3>2. BodyLeft(Tail(s), n) BY <1>3, <3>1, FlowRest
    <3>3. BeforeBody(c, n)' BY <1>2, <2>1, <3>1, <3>2 DEF BeforeBody
    <3>4. QED BY <1>2, <2>1, <2>4, <3>3 DEF Clean, Framings, PairInv, Paired
  <2>5. QED BY <1>3, <1>4, <2>2, <2>3, <2>4 DEF RecvMore
<1>5. CASE RecvDone(f)
  <2>1. PICK m \in 1..Len(s) : incoming'[c] = SubSeq(s, m + 1, Len(s))
    BY <1>5 DEF RecvDone, PairInv, Inv, Types
  <2>2. at'[f] = "release" /\ result' = [result EXCEPT ![f] = s[1].req]
    BY <1>3, <1>5 DEF RecvDone, Goto, Got, PairInv, Inv, Types
  <2>3. s[1].req = n /\ (\A i \in 2..Len(s) : s[i].part \in Stale) /\ Old(t)
    <3>1. CASE at[f] = "head" /\ s[1].part \in {"whole", "bare"}
      <4>1. Flow(s, t, n) BY <1>2, <3>1 DEF Clean, BeforeHead
      <4>2. s[1].part \notin Stale /\ s[1].part # "line" BY <3>1 DEF Stale
      <4>3. /\ s[1].req = n /\ BodyLeft(t, n)
            /\ \A i \in 2..Len(s) : s[i].part \in Stale /\ s[i].req = n
        BY <1>3, <4>1, <4>2, FlowHead
      <4>4. QED BY <4>3 DEF BodyLeft, Old
    <3>2. CASE at[f] \in Framings
      <4>1. BodyLeft(s, n) /\ BodyLeft(t, n) BY <1>2, <3>2 DEF Clean, BeforeBody
      <4>2. 1 \in 1..Len(s) /\ \A i \in 2..Len(s) : i \in 1..Len(s) BY <1>3
      <4>3. QED BY <4>1, <4>2 DEF BodyLeft, Old
    <3>3. QED BY <1>3, <1>5, <3>1, <3>2 DEF RecvDone
  <2>4. Old(SubSeq(s, m + 1, Len(s)))
    <3>1. /\ Len(SubSeq(s, m + 1, Len(s))) = Len(s) - m
          /\ \A i \in 1..(Len(s) - m) : SubSeq(s, m + 1, Len(s))[i] = s[m + i]
      BY RestElements
    <3>2. \A i \in 1..(Len(s) - m) : m + i \in 2..Len(s) BY <1>3
    <3>3. QED BY <2>3, <3>1, <3>2 DEF Old
  <2>5. Leftovers(c)' BY <1>2, <2>1, <2>3, <2>4 DEF Leftovers
  <2>6. Clean(f)' BY <1>2, <2>2, <2>5 DEF Clean, Framings
  <2>7. Paired' BY <1>2, <2>2, <2>3 DEF Paired, PairInv, Inv, Types
  <2>8. QED BY <2>6, <2>7
<1>6. QED BY <1>4, <1>5

LEMMA RequestPair == ASSUME PairInv, NEW f \in Fibers, RequestStep(f) PROVE PairInv'
<1>1. Inv /\ Inv' BY RequestTypes DEF PairInv
<1>2. at[f] \in {"send", "overrun"} \cup Reading
  BY DEF RequestStep, Send, SendLate, SendFails, RecvMore, RecvDone, RecvBad, RecvFails, RecvOverruns,
         Overrun, RecvEnds, Reading, Framings
<1>3. conn[f] \in Conns BY <1>1, <1>2 DEF Inv, Placed, Reading, Framings
<1> PICK c \in Conns : c = conn[f] BY <1>3
<1>4. UNCHANGED <<m_conns, live, conn, req>>
  BY DEF RequestStep, Send, SendLate, SendFails, RecvMore, RecvDone, RecvBad, RecvFails, RecvOverruns,
         Overrun, RecvEnds, Inside
<1>5. \A g \in Fibers \ {f} : at'[g] = at[g] /\ result'[g] = result[g]
  BY <1>1 DEF RequestStep, Send, SendLate, SendFails, RecvMore, RecvDone, RecvBad, RecvFails,
              RecvOverruns, Overrun, RecvEnds, Goto, Got, Inv, Types
<1>6. \A d \in Conns \ {c} : owed'[d] = owed[d] /\ incoming'[d] = incoming[d] /\ connected'[d] = connected[d]
  <2>1. CASE RecvBad(f) \/ RecvFails(f) \/ RecvEnds(f)
    <3>1. Shut({c}) BY <2>1 DEF RecvBad, RecvFails, RecvEnds, Close
    <3>2. \A d \in Conns \ {c} : owed'[d] = owed[d] /\ incoming'[d] = incoming[d] BY <3>1 DEF Shut
    <3>3. \A d \in Conns \ {c} : connected'[d] = connected[d] BY <1>1, <3>1 DEF Shut, Inv, Types
    <3>4. QED BY <3>2, <3>3
  <2>2. CASE \/ Send(f) \/ SendLate(f) \/ SendFails(f) \/ RecvMore(f) \/ RecvDone(f)
             \/ RecvOverruns(f) \/ Overrun(f)
    BY <1>1, <2>2 DEF Send, SendLate, SendFails, RecvMore, RecvDone, RecvOverruns, Overrun, wire,
                      Inv, Types
  <2>3. QED BY <2>1, <2>2 DEF RequestStep
<1>7. CleanPool' /\ \A g \in Fibers \ {f} : Clean(g)' BY <1>4, <1>5, <1>6, Elsewhere
<1>8. Clean(f)' /\ Paired'
  <2>1. CASE RecvMore(f) \/ RecvDone(f) BY <2>1, RecvPair
  <2>2. CASE Send(f) \/ SendLate(f)
    <3>1. connected[c] /\ Leftovers(c) BY <1>3, <2>2 DEF Send, SendLate, PairInv, Clean
    <3> PICK s \in Seq(Parts) : s = incoming[c] BY <1>1 DEF Inv, Types
    <3> PICK t \in Seq(Parts) : t = owed[c] BY <1>1 DEF Inv, Types
    <3>2. UNCHANGED <<incoming, result, connected>> BY <2>2 DEF Send, SendLate
    <3>3. req[f] \in 1..MaxRequests BY <1>1, <2>2 DEF Send, SendLate, Inv, Types, Placed
    <3>4. PICK x \in Parts : x = [req |-> req[f], part |-> "whole"] BY <3>3 DEF Parts
    <3>5. x.req = req[f] BY <3>4
    <3>6. Flow(s, Append(t, x), req[f]) /\ Flow(s, t, req[f]) BY <3>1, <3>5, FlowSend DEF Leftovers
    <3>7. CASE Send(f)
      <4>1. at'[f] = "head" /\ owed'[c] = Append(t, x) BY <1>1, <3>4, <3>7 DEF Send, Goto, Inv, Types
      <4>2. BeforeHead(c, req[f])' BY <1>4, <3>2, <3>6, <4>1 DEF BeforeHead
      <4>3. QED BY <1>4, <3>2, <4>1, <4>2 DEF Clean, Framings, PairInv, Paired
    <3>8. CASE SendLate(f)
      <4>1. at'[f] \in {"head", "send"} /\ UNCHANGED owed BY <1>1, <3>8 DEF SendLate, Goto, Inv, Types
      <4>2. BeforeHead(c, req[f])' BY <1>4, <3>2, <3>6, <4>1 DEF BeforeHead
      <4>3. Leftovers(c)' /\ connected'[c] BY <3>1, <3>2, <4>1 DEF Leftovers
      <4>4. Clean(f)' BY <1>4, <4>1, <4>2, <4>3 DEF Clean, Framings
      <4>5. QED BY <1>4, <3>2, <4>4 DEF PairInv, Paired
    <3>9. QED BY <2>2, <3>7, <3>8
  <2>3. CASE SendFails(f) \/ RecvOverruns(f) \/ Overrun(f)
    <3>1. at'[f] \in {"spin", "overrun"} /\ UNCHANGED result
      BY <1>1, <2>3 DEF SendFails, RecvOverruns, Overrun, Goto, Inv, Types
    <3>2. QED BY <1>4, <3>1 DEF Clean, Framings, PairInv, Paired
  <2>4. CASE RecvBad(f) \/ RecvFails(f) \/ RecvEnds(f)
    <3>1. at'[f] = "release" /\ ~connected'[c] /\ UNCHANGED result
      BY <1>1, <2>4 DEF RecvBad, RecvFails, RecvEnds, Close, Shut, Goto, Inv, Types
    <3>2. QED BY <1>4, <3>1 DEF Clean, Framings, PairInv, Paired
  <2>5. QED BY <2>1, <2>2, <2>3, <2>4 DEF RequestStep
<1>9. QED BY <1>1, <1>7, <1>8 DEF PairInv

\* The server sends a part of what it owes, to a fiber that reads or into a
\* connection that waits in the list.
LEMMA AnswerPair == ASSUME PairInv, NEW c \in Conns, AnswerStep(c) PROVE PairInv'
<1>1. Inv /\ Inv' BY ServerTypes DEF PairInv
<1>2. UNCHANGED <<m_conns, live, conn, req, at, connected, result>> BY <1>1, AnswerSends
<1> PICK s \in Seq(Parts) : s = incoming[c] BY <1>1 DEF Inv, Types
<1> PICK t \in Seq(Parts) : t = owed[c] BY <1>1 DEF Inv, Types
<1>3. t # <<>> BY <1>1, AnswerSends
<1>4. PICK x \in Parts, u \in Seq(Parts) : Sends(c, x, u) /\ SentOn(t, x, u)
  BY <1>1, AnswerSends DEF SentOn
<1>5. /\ incoming'[c] = Append(s, x) /\ owed'[c] = u
      /\ \A d \in Conns \ {c} : owed'[d] = owed[d] /\ incoming'[d] = incoming[d]
  BY <1>1, <1>4 DEF Sends, Inv, Types
<1>6. Leftovers(c) => Leftovers(c)' BY <1>3, <1>4, <1>5, OldSentOn DEF Leftovers
<1>7. CleanPool' BY <1>2, <1>5, <1>6 DEF PairInv, CleanPool, Pooled, Leftovers
<1>8. ASSUME NEW g \in Fibers PROVE Clean(g)'
  <2>1. CASE conn[g] # c
    <3>1. conn[g] # None => conn[g] \in Conns \ {c} BY <1>1, <2>1 DEF Inv, Types
    <3>2. QED BY <1>1, <1>2, <1>5, <3>1, CleanKept DEF PairInv
  <2>2. CASE conn[g] = c
    <3>1. Clean(g) BY DEF PairInv
    <3> PICK n : n = req[g] OBVIOUS
    <3>2. BeforeHead(c, n) => BeforeHead(c, n)' BY <1>3, <1>4, <1>5, FlowSentOn DEF BeforeHead
    <3>3. BeforeBody(c, n) => BeforeBody(c, n)' BY <1>3, <1>4, <1>5, OldSentOn DEF BeforeBody
    <3>4. QED BY <1>2, <1>6, <2>2, <3>1, <3>2, <3>3 DEF Clean
  <2>3. QED BY <2>1, <2>2
<1>9. Paired' BY <1>2 DEF PairInv, Paired
<1>10. QED BY <1>1, <1>7, <1>8, <1>9 DEF PairInv

\* A closing server, or a caller that closes a pooled socket, adds nothing.
LEMMA ClosingPair == ASSUME PairInv, NEW c \in Conns, PeerCloses(c) \/ CloseKept(c) PROVE PairInv'
<1>1. Inv /\ Inv' BY ServerTypes DEF PairInv
<1>2. UNCHANGED <<m_conns, live, conn, req, at, result>> BY DEF PeerCloses, CloseKept, Inside
<1>3. /\ \A d \in Conns \ {c} : /\ owed'[d] = owed[d] /\ incoming'[d] = incoming[d]
                                /\ connected'[d] = connected[d]
      /\ owed'[c] = <<>> /\ incoming'[c] \in {<<>>, incoming[c]}
      /\ connected'[c] => connected[c]
  BY <1>1 DEF PeerCloses, CloseKept, Shut, Inv, Types
<1>4. Len(owed'[c]) = 0 /\ (incoming'[c] = incoming[c] \/ Len(incoming'[c]) = 0) BY <1>3
<1>5. Leftovers(c) => Leftovers(c)' BY <1>4 DEF Leftovers, Old
<1>6. CleanPool' BY <1>2, <1>3, <1>5 DEF PairInv, CleanPool, Pooled, Leftovers
<1>7. Paired' BY <1>2 DEF PairInv, Paired
<1>8. ASSUME NEW g \in Fibers PROVE Clean(g)'
  <2>1. CASE conn[g] # c
    <3>1. conn[g] # None => conn[g] \in Conns \ {c} BY <1>1, <2>1 DEF Inv, Types
    <3>2. QED BY <1>1, <1>2, <1>3, <3>1, CleanKept DEF PairInv
  <2>2. CASE conn[g] = c
    <3>1. c \notin Pooled /\ Clean(g) BY <1>1, <2>2, Alone DEF PairInv
    <3>2. PeerCloses(c) BY <3>1 DEF CloseKept, Pooled
    <3>3. UNCHANGED connected BY <3>2 DEF PeerCloses
    <3> PICK n : n = req[g] OBVIOUS
    <3>4. BeforeHead(c, n) => BeforeHead(c, n)' BY <1>4 DEF BeforeHead, Flow
    <3>5. BeforeBody(c, n) => BeforeBody(c, n)' BY <1>4 DEF BeforeBody, BodyLeft
    <3>6. QED BY <1>2, <1>5, <2>2, <3>1, <3>3, <3>4, <3>5 DEF Clean
  <2>3. QED BY <2>1, <2>2
<1>9. QED BY <1>1, <1>6, <1>7, <1>8 DEF PairInv

\* The invalid connections are nobody else's.
LEMMA ReapPair == ASSUME PairInv, NEW f \in Fibers, Reap(f) PROVE PairInv'
<1>1. Inv /\ Inv' BY ReapOwn DEF PairInv, Inv
<1> DEFINE S == invalid_conns[f]
<1>2. S \subseteq Conns BY <1>1 DEF Inv, Types
<1>3. UNCHANGED <<m_conns, conn, req, result>> /\ live' = live \ S BY DEF Reap, Delete, Shut
<1>4. /\ \A d \in Conns \ S : /\ owed'[d] = owed[d] /\ incoming'[d] = incoming[d]
                              /\ connected'[d] = connected[d]
      /\ \A d \in S : owed'[d] = <<>> /\ incoming'[d] = <<>> /\ ~connected'[d]
  BY <1>1, <1>2 DEF Reap, Delete, Shut, Inv, Types
<1>5. \A g \in Fibers : conn[g] # None => conn[g] \in Conns \ S
  <2> SUFFICES ASSUME NEW g \in Fibers, conn[g] # None PROVE conn[g] \in Conns \ S OBVIOUS
  <2>1. CASE g = f BY <1>1, <2>1 DEF Inv, Own, Types
  <2>2. CASE g # f BY <1>1, <2>2 DEF Inv, Own, Types, Held
  <2>3. QED BY <2>1, <2>2
<1>6. CleanPool'
  <2>1. \A d \in S : Leftovers(d)' BY <1>2, <1>4, NothingOld DEF Leftovers
  <2>2. \A d \in Conns \ S : Leftovers(d) => Leftovers(d)' BY <1>4 DEF Leftovers
  <2>3. QED BY <1>2, <1>3, <1>4, <2>1, <2>2 DEF PairInv, CleanPool, Pooled
<1>7. Paired' BY <1>3 DEF PairInv, Paired
<1>8. at[f] = "reap" /\ at'[f] = (IF conn[f] = None THEN "connect" ELSE "send")
      /\ \A g \in Fibers \ {f} : at'[g] = at[g]
  BY <1>1 DEF Reap, Goto, Inv, Types
<1>9. \A g \in Fibers \ {f} : Clean(g)' BY <1>1, <1>3, <1>4, <1>5, <1>8, CleanKept DEF PairInv
<1>10. Clean(f)'
  <2>1. CASE conn[f] = None BY <1>8, <2>1 DEF Clean, Framings
  <2>2. CASE conn[f] # None
    <3>1. connected[conn[f]] /\ Leftovers(conn[f]) BY <1>8, <2>2 DEF PairInv, Clean
    <3>2. connected'[conn[f]] /\ Leftovers(conn[f])'
      BY <1>3, <1>4, <1>5, <2>2, <3>1 DEF Leftovers
    <3>3. QED BY <1>3, <1>8, <2>2, <3>2 DEF Clean, Framings
  <2>3. QED BY <2>1, <2>2
<1>11. QED BY <1>1, <1>6, <1>7, <1>9, <1>10 DEF PairInv

\* A connection is new and empty, or there is none.
LEMMA ConnectPair ==
  ASSUME PairInv, NEW f \in Fibers, ConnectFails(f) \/ \E c \in Conns : Connect(f, c)
  PROVE  PairInv'
<1>1. CASE ConnectFails(f)
  <2>1. Inv /\ Inv' BY <1>1, ConnectFailsInv DEF PairInv
  <2>2. UNCHANGED <<m_conns, live, conn, owed, incoming, connected>>
    BY <1>1 DEF ConnectFails, wire
  <2>3. /\ at'[f] = "idle" /\ req'[f] = 0 /\ result'[f] = 0
        /\ \A g \in Fibers \ {f} : at'[g] = at[g] /\ req'[g] = req[g] /\ result'[g] = result[g]
    BY <1>1, <2>1 DEF ConnectFails, Return, Goto, Inv, Types
  <2>4. CleanPool' /\ Paired' BY <2>2, <2>3 DEF PairInv, CleanPool, Paired, Pooled, Leftovers
  <2>5. \A g \in Fibers \ {f} : Clean(g)' BY <2>1, <2>2, <2>3, CleanKept DEF PairInv
  <2>6. Clean(f)' BY <2>3 DEF Clean, Framings
  <2>7. QED BY <2>1, <2>4, <2>5, <2>6 DEF PairInv
<1>2. ASSUME NEW c \in Conns, Connect(f, c) PROVE PairInv'
  <2>1. Inv /\ Inv' BY <1>2, ConnectOwn DEF PairInv, Inv
  <2>2. /\ c \notin live /\ live' = live \cup {c}
        /\ UNCHANGED <<m_conns, req, result, owed, incoming>>
    BY <1>2 DEF Connect
  <2>3. /\ connected'[c] /\ \A d \in Conns \ {c} : connected'[d] = connected[d]
        /\ conn'[f] = c /\ \A g \in Fibers \ {f} : conn'[g] = conn[g]
        /\ at'[f] = "send" /\ \A g \in Fibers \ {f} : at'[g] = at[g]
    BY <1>2, <2>1 DEF Connect, Goto, Inv, Types
  <2>4. Leftovers(c) BY <2>2 DEF PairInv, CleanPool
  <2>5. CleanPool' /\ Paired' BY <2>2, <2>3, <2>4 DEF PairInv, CleanPool, Paired, Pooled, Leftovers
  <2>6. ASSUME NEW g \in Fibers \ {f} PROVE Clean(g)'
    <3>1. conn[g] # None => conn[g] \in Conns \ {c} BY <2>1, <2>2, Alone
    <3>2. QED BY <2>1, <2>2, <2>3, <3>1, CleanKept DEF PairInv
  <2>7. Clean(f)' BY <2>2, <2>3, <2>4 DEF Clean, Leftovers, Framings
  <2>8. QED BY <2>1, <2>5, <2>6, <2>7 DEF PairInv
<1>3. QED BY <1>1, <1>2

\* What is taken from the list is connected, hence empty.
LEMMA PopPair ==
  ASSUME PairInv, NEW f \in Fibers, NEW k \in 0..Len(m_conns), Pop(f, k)
  PROVE  PairInv'
<1>1. Inv /\ Inv' BY PopInv DEF PairInv
<1>2. UNCHANGED <<live, owed, incoming, connected>> BY DEF Pop, wire
<1>3. /\ at[f] = "idle" /\ at'[f] = "reap" /\ UNCHANGED result
      /\ \A g \in Fibers \ {f} : /\ at'[g] = at[g] /\ conn'[g] = conn[g] /\ req'[g] = req[g]
      /\ conn'[f] = IF k < Len(m_conns) THEN m_conns[k + 1] ELSE None
  BY <1>1 DEF Pop, Goto, Inv, Types
<1>4. Len(m_conns) \in Nat /\ m_conns \in Seq(Conns) BY <1>1, LenProperties DEF Inv, Types
<1>5. Pooled' \subseteq Pooled
  <2>1. k + 2 \in Int /\ Len(m_conns) \in Int /\ k \in Nat /\ k <= Len(m_conns) BY <1>4
  <2>2. \A i \in (k + 2)..Len(m_conns) : m_conns[i] \in Conns
    <3>1. \A i \in (k + 2)..Len(m_conns) : i \in 1..Len(m_conns) BY <2>1
    <3>2. QED BY <1>4, <3>1, ElementOfSeq
  <2>3. m_conns' = SubSeq(m_conns, k + 2, Len(m_conns)) BY DEF Pop
  <2>4. /\ Len(m_conns') = IF k + 2 <= Len(m_conns) THEN Len(m_conns) - (k + 2) + 1 ELSE 0
        /\ \A i \in 1..(Len(m_conns) - (k + 2) + 1) : m_conns'[i] = m_conns[k + 2 + i - 1]
    BY <2>1, <2>2, <2>3, SubSeqProperties
  <2>5. ASSUME NEW i \in 1..Len(m_conns') PROVE m_conns'[i] \in Pooled
    <3>1. i \in 1..(Len(m_conns) - (k + 2) + 1) /\ k + 2 + i - 1 \in 1..Len(m_conns) BY <2>1, <2>4
    <3>2. m_conns'[i] = m_conns[k + 2 + i - 1] BY <2>4, <3>1
    <3>3. QED BY <3>1, <3>2 DEF Pooled
  <2>6. QED BY <2>5 DEF Pooled
<1>6. CleanPool' BY <1>2, <1>5 DEF PairInv, CleanPool, Leftovers
<1>7. Paired' BY <1>3 DEF PairInv, Paired, Clean
<1>8. \A g \in Fibers \ {f} : Clean(g)' BY <1>1, <1>2, <1>3, CleanKept DEF PairInv
<1>9. Clean(f)'
  <2>1. CASE k < Len(m_conns)
    <3>1. k + 1 \in 1..Len(m_conns) /\ m_conns[k + 1] \in Conns BY <1>4, <2>1, ElementOfSeq
    <3>2. m_conns[k + 1] \in Pooled /\ connected[m_conns[k + 1]] BY <2>1, <3>1 DEF Pooled, Pop, Valid
    <3>3. Leftovers(m_conns[k + 1]) BY <3>1, <3>2 DEF PairInv, CleanPool
    <3>4. QED BY <1>2, <1>3, <2>1, <3>2, <3>3 DEF Clean, Leftovers, Framings
  <2>2. CASE ~(k < Len(m_conns)) BY <1>3, <2>2 DEF Clean, Framings
  <2>3. QED BY <2>1, <2>2
<1>10. QED BY <1>1, <1>6, <1>7, <1>8, <1>9 DEF PairInv

\* What goes back to the list is connected, hence was read to the end.
LEMMA ReleasePair == ASSUME PairInv, NEW f \in Fibers, ReleasePtr(f) PROVE PairInv'
<1>1. Inv /\ Inv' BY ReleaseOwn DEF PairInv, Inv
<1>2. at[f] = "release" /\ conn[f] \in Conns BY <1>1 DEF ReleasePtr, Inv, Placed
<1> PICK c \in Conns : c = conn[f] BY <1>2
<1>3. c \in live /\ c \notin Pooled /\ \A g \in Fibers \ {f} : conn[g] # c BY <1>1, <1>2, Alone
<1>4. /\ at'[f] = "idle" /\ conn'[f] = None /\ req'[f] = 0 /\ result'[f] = 0
      /\ \A g \in Fibers \ {f} : /\ at'[g] = at[g] /\ conn'[g] = conn[g] /\ req'[g] = req[g]
                                 /\ result'[g] = result[g]
  BY <1>1 DEF ReleasePtr, Return, Goto, Inv, Types
<1>5. \A d \in Conns \ {c} : owed'[d] = owed[d] /\ incoming'[d] = incoming[d] /\ connected'[d] = connected[d]
  <2>1. CASE Worn(c)
    <3>1. Delete({c}) BY <2>1 DEF ReleasePtr
    <3>2. QED BY <1>1, <3>1 DEF Delete, Shut, Inv, Types
  <2>2. CASE ~Worn(c) BY <2>2 DEF ReleasePtr, wire
  <2>3. QED BY <2>1, <2>2
<1>6. \A g \in Fibers \ {f} : Clean(g)'
  <2>1. \A g \in Fibers \ {f} : conn[g] # None => conn[g] \in Conns \ {c} BY <1>1, <1>3 DEF Inv, Types
  <2>2. QED BY <1>1, <1>4, <1>5, <2>1, CleanKept DEF PairInv
<1>7. Clean(f)' BY <1>4 DEF Clean, Framings
<1>8. Paired' BY <1>4 DEF PairInv, Paired
<1>9. CleanPool'
  <2>1. CASE Worn(c)
    <3>1. owed'[c] = <<>> /\ incoming'[c] = <<>> /\ live' = live \ {c} /\ UNCHANGED m_conns
      BY <1>1, <2>1 DEF ReleasePtr, Delete, Shut
    <3>2. Leftovers(c)' BY <3>1, NothingOld DEF Leftovers
    <3>3. QED BY <1>5, <3>1, <3>2 DEF PairInv, CleanPool, Pooled, Leftovers
  <2>2. CASE ~Worn(c)
    <3>1. UNCHANGED <<live, connected, owed, incoming>> /\ m_conns' = Append(m_conns, c)
      BY <2>2 DEF ReleasePtr, wire
    <3>2. connected[c] BY <2>2 DEF Worn
    <3>3. Leftovers(c) BY <1>2, <3>2 DEF PairInv, Clean
    <3>4. /\ Len(m_conns') = Len(m_conns) + 1 /\ Len(m_conns) \in Nat
          /\ \A i \in 1..Len(m_conns) : m_conns'[i] = m_conns[i]
          /\ m_conns'[Len(m_conns) + 1] = c
      BY <1>1, <3>1, AppendProperties, LenProperties DEF Inv, Types
    <3>5. Pooled' = Pooled \cup {c} BY <3>4 DEF Pooled
    <3>6. QED BY <3>1, <3>3, <3>5 DEF PairInv, CleanPool, Leftovers
  <2>3. QED BY <2>1, <2>2
<1>10. QED BY <1>1, <1>6, <1>7, <1>8, <1>9 DEF PairInv

LEMMA PairStep == ASSUME PairInv, Next PROVE PairInv'
<1>1. ASSUME NEW f \in Fibers, FiberStep(f) \/ Send(f) PROVE PairInv'
  BY <1>1, ReapPair, ConnectPair, ReleasePair, RequestPair DEF FiberStep, RequestStep
<1>2. ASSUME NEW c \in Conns, CloseKept(c) \/ ServerStep(c) PROVE PairInv'
  BY <1>2, AnswerPair, ClosingPair DEF ServerStep, AnswerStep
<1>3. QED BY <1>1, <1>2, PopPair DEF Next

LEMMA PairStutter == ASSUME PairInv, UNCHANGED vars PROVE PairInv'
<1>1. Inv /\ Inv' BY InvStutter DEF PairInv
<1>2. UNCHANGED <<m_conns, live, connected, owed, incoming, at, conn, req, result>> BY DEF vars, wire
<1>3. CleanPool' /\ Paired' BY <1>2 DEF PairInv, CleanPool, Paired, Pooled, Leftovers
<1>4. \A g \in Fibers : Clean(g)' BY <1>1, <1>2, CleanKept DEF PairInv
<1>5. QED BY <1>1, <1>3, <1>4 DEF PairInv

LEMMA PairInit == ASSUME Init PROVE PairInv
<1>1. Inv BY InvInit
<1>2. CleanPool /\ Paired BY NothingOld DEF Init, CleanPool, Leftovers, Paired
<1>3. \A f \in Fibers : Clean(f) BY DEF Init, Clean, Framings
<1>4. QED BY <1>1, <1>2, <1>3 DEF PairInv

\* A request gets its own response or none, for any number of fibers that
\* share the pool, whatever is late, lost or left unread on a connection.
THEOREM PairedTheorem == Spec => []Paired
<1>1. PairInv /\ [Next]_vars => PairInv' BY PairStep, PairStutter
<1>2. PairInv => Paired BY DEF PairInv
<1>3. QED BY PairInit, <1>1, <1>2, PTL DEF Spec
=============================================================================
