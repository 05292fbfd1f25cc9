--------------------------- MODULE ByteArrayProofs --------------------------
(* Proofs about ByteArray for blocks of any size.                           *)
EXTENDS ByteArray, TLAPS, SequenceTheorems, WellFoundedInduction

LEMMA Base == BaseSize \in Nat /\ BaseSize > 0
BY ByteArrayAssumption

USE Base
----------------------------------------------------------------------------
(* Arithmetic: quotient and remainder, and least elements.                  *)

\* Two multiples differ by at least one.
LEMMA Multiples ==
  ASSUME NEW q \in Int, NEW p \in Int, q < p
  PROVE  q * BaseSize + BaseSize <= p * BaseSize
<1>1. p - q >= 1 OBVIOUS
<1>2. (p - q) * BaseSize >= BaseSize BY <1>1
<1>3. (p - q) * BaseSize = p * BaseSize - q * BaseSize OBVIOUS
<1>4. p * BaseSize \in Int /\ q * BaseSize \in Int OBVIOUS
<1> QED BY <1>2, <1>3, <1>4

LEMMA DivMod ==
  ASSUME NEW a \in Nat
  PROVE  /\ a = (a \div BaseSize) * BaseSize + (a % BaseSize)
         /\ a \div BaseSize \in Nat /\ a % BaseSize \in 0..(BaseSize - 1)
<1>1. a = BaseSize * (a \div BaseSize) + (a % BaseSize) OBVIOUS
<1>2. a \div BaseSize \in Nat OBVIOUS
<1>3. a % BaseSize \in 0..(BaseSize - 1) OBVIOUS
<1> QED BY <1>1, <1>2, <1>3

\* Quotient and remainder are unique.
LEMMA DivUnique ==
  ASSUME NEW a \in Nat, NEW q \in Int, NEW r \in 0..(BaseSize - 1), a = q * BaseSize + r
  PROVE  a \div BaseSize = q /\ a % BaseSize = r
<1>1. PICK p \in Nat : p = a \div BaseSize BY DivMod
<1>2. PICK s \in 0..(BaseSize - 1) : s = a % BaseSize BY DivMod
<1>3. a = p * BaseSize + s BY <1>1, <1>2, DivMod
<1>4. p * BaseSize \in Int /\ q * BaseSize \in Int OBVIOUS
<1>5. ~(p < q) BY <1>3, <1>4, Multiples
<1>6. ~(q < p) BY <1>3, <1>4, Multiples
<1>7. p = q BY <1>5, <1>6
<1>8. s = r BY <1>3, <1>4, <1>7
<1> QED BY <1>1, <1>2, <1>7, <1>8

\* The block and the place in it of a position that lies j behind another.
LEMMA DivShift ==
  ASSUME NEW a \in Nat, NEW j \in Nat
  PROVE  /\ (a + j) \div BaseSize = a \div BaseSize + ((a % BaseSize) + j) \div BaseSize
         /\ (a + j) % BaseSize = ((a % BaseSize) + j) % BaseSize
<1>1. PICK p \in Nat, s \in 0..(BaseSize - 1) :
        p = a \div BaseSize /\ s = a % BaseSize /\ a = p * BaseSize + s
  BY DivMod
<1>2. s + j \in Nat OBVIOUS
<1>3. PICK q \in Nat, r \in 0..(BaseSize - 1) :
        q = (s + j) \div BaseSize /\ r = (s + j) % BaseSize /\ s + j = q * BaseSize + r
  BY <1>2, DivMod
<1>4. a + j = (p + q) * BaseSize + r
  <2>1. (p + q) * BaseSize = p * BaseSize + q * BaseSize OBVIOUS
  <2>2. p * BaseSize \in Int /\ q * BaseSize \in Int OBVIOUS
  <2> QED BY <1>1, <1>3, <2>1, <2>2
<1>5. p + q \in Int /\ a + j \in Nat OBVIOUS
<1>6. (a + j) \div BaseSize = p + q /\ (a + j) % BaseSize = r BY <1>4, <1>5, DivUnique
<1> QED BY <1>1, <1>3, <1>6

\* Which blocks hold the positions below and at the capacity.
LEMMA DivBelow ==
  ASSUME NEW a \in Nat, NEW n \in Nat
  PROVE  /\ a < n * BaseSize <=> a \div BaseSize < n
         /\ a = n * BaseSize => a \div BaseSize = n
<1>1. PICK p \in Nat, s \in 0..(BaseSize - 1) : p = a \div BaseSize /\ a = p * BaseSize + s
  BY DivMod
<1>2. p * BaseSize \in Int /\ n * BaseSize \in Int OBVIOUS
<1>3. p < n => a < n * BaseSize BY <1>1, <1>2, Multiples
<1>4. n < p => ~(a <= n * BaseSize) BY <1>1, <1>2, Multiples
<1>5. n = p => n * BaseSize = p * BaseSize OBVIOUS
<1>6. n = p => ~(a < n * BaseSize) BY <1>1, <1>2, <1>5
<1> QED BY <1>1, <1>2, <1>3, <1>4, <1>6

\* Every set of natural numbers that is not empty has a least element.
LEMMA LeastNatural ==
  ASSUME NEW T \in SUBSET Nat, T # {}
  PROVE  \E m \in T : \A k \in T : m <= k
<1>1. PICK m \in T : \A y \in T : ~(<<y, m>> \in OpToRel(<, Nat))
  BY NatLessThanWellFounded, WFMin, Zenon
<1>2. \A y \in T : ~(y < m) BY <1>1 DEF OpToRel
<1> QED BY <1>2
----------------------------------------------------------------------------
(* The groups of an integer. The recursive function exists, since a number  *)
(* of more than one group is larger than the rest of its groups, and yields *)
(* a byte string for every number.                                          *)

LEMMA RadixFacts == Radix \in Nat /\ Radix > 1
BY WidthAssumption

LEMMA RestSmaller ==
  ASSUME NEW u \in Nat, u >= Radix
  PROVE  u \div Radix \in 0..(u - 1)
<1>1. PICK R \in Nat : R = Radix /\ R > 1 BY RadixFacts
<1>2. PICK q \in Nat : q = u \div R BY <1>1
<1>3. PICK r \in Nat : r = u % R BY <1>1
<1>4. u = R * q + r BY <1>1, <1>2, <1>3
<1>5. q > 0
  <2>1. r < R BY <1>1, <1>3
  <2>2. q = 0 => R * q = 0 BY <1>1, <1>2
  <2> QED BY <1>1, <1>2, <1>3, <1>4, <2>1, <2>2
<1>6. R * q > q
  <2>1. (R - 1) * q > 0 BY <1>1, <1>5
  <2>2. (R - 1) * q = R * q - q
    <3> HIDE <1>1, <1>2
    <3>1. R \in Int /\ q \in Int OBVIOUS
    <3> QED BY ONLY <3>1, SMT
  <2>3. R * q \in Int BY <1>1, <1>2
  <2> QED BY <1>2, <2>1, <2>2, <2>3
<1>7. R * q \in Int BY <1>1, <1>2
<1>8. q < u BY <1>2, <1>3, <1>4, <1>6, <1>7
<1> QED BY <1>1, <1>2, <1>8

\* The value at u when h has those below, and a function that is right up to n.
GroupsAt(h, u) == IF u < Radix THEN <<u>> ELSE <<(u % Radix) + Radix>> \o h[u \div Radix]
RightUpTo(n, h) == \A u \in 0..n : h[u] = GroupsAt(h, u)

LEMMA RightSame ==
  ASSUME NEW n \in Nat, NEW m \in Nat, NEW h, NEW g, RightUpTo(n, h), RightUpTo(m, g),
         NEW v \in Nat, v <= n, v <= m
  PROVE  h[v] = g[v]
<1> DEFINE T == {u \in Nat : u <= n /\ u <= m /\ h[u] # g[u]}
<1> SUFFICES ASSUME T # {} PROVE FALSE OBVIOUS
<1>1. PICK u \in T : \A k \in T : u <= k BY LeastNatural
<1>2. u \in 0..n /\ u \in 0..m /\ h[u] # g[u] OBVIOUS
<1>3. h[u] = GroupsAt(h, u) /\ g[u] = GroupsAt(g, u) BY <1>2 DEF RightUpTo
<1>4. u >= Radix => h[u \div Radix] = g[u \div Radix]
  <2> SUFFICES ASSUME u >= Radix PROVE h[u \div Radix] = g[u \div Radix] OBVIOUS
  <2>1. PICK w \in 0..(u - 1) : w = u \div Radix BY RestSmaller
  <2>2. w \notin T BY <1>1, <2>1
  <2> QED BY <1>2, <2>1, <2>2
<1>5. GroupsAt(h, u) = GroupsAt(g, u) BY <1>4, RadixFacts DEF GroupsAt
<1> QED BY <1>2, <1>3, <1>5

LEMMA RightExists == \A n \in Nat : \E h : RightUpTo(n, h)
<1> DEFINE T == {n \in Nat : ~\E h : RightUpTo(n, h)}
<1> SUFFICES ASSUME T # {} PROVE FALSE OBVIOUS
<1>1. PICK n \in T : \A k \in T : n <= k BY LeastNatural
<1>2. n \in Nat /\ ~\E h : RightUpTo(n, h) OBVIOUS
<1>3. CASE n = 0
  <2> DEFINE h == [u \in {0} |-> <<0>>]
  <2>1. \A u \in 0..0 : u = 0 /\ h[u] = <<0>> OBVIOUS
  <2> HIDE DEF h
  <2>2. RightUpTo(0, h)
    <3>1. ASSUME NEW u \in 0..0 PROVE h[u] = GroupsAt(h, u)
      <4>1. u = 0 /\ h[u] = <<0>> BY <2>1
      <4>2. u < Radix BY <4>1, RadixFacts
      <4> QED BY <4>1, <4>2, Zenon DEF GroupsAt
    <3> QED BY <3>1 DEF RightUpTo
  <2> QED BY <1>2, <1>3, <2>2
<1>4. CASE n # 0
  <2>1. n - 1 \in Nat /\ n - 1 \notin T BY <1>1, <1>2, <1>4
  <2>2. PICK g : RightUpTo(n - 1, g) BY <2>1
  <2> DEFINE h == [u \in 0..n |-> IF u < n THEN g[u] ELSE GroupsAt(g, n)]
  <2>3. ASSUME NEW u \in 0..n PROVE h[u] = GroupsAt(h, u)
    <3>1. h[u] = GroupsAt(g, u)
      <4>1. CASE u < n
        <5>1. u \in 0..(n - 1) BY <1>2, <4>1
        <5> QED BY <2>2, <4>1, <5>1 DEF RightUpTo
      <4>2. CASE u = n BY <4>2
      <4> QED BY <1>2, <4>1, <4>2
    <3>2. u >= Radix => h[u \div Radix] = g[u \div Radix]
      <4> SUFFICES ASSUME u >= Radix PROVE h[u \div Radix] = g[u \div Radix] OBVIOUS
      <4>1. PICK w \in 0..(u - 1) : w = u \div Radix BY <1>2, RestSmaller
      <4>2. w \in 0..n /\ w < n BY <1>2, <4>1
      <4> QED BY <4>1, <4>2
    <3> HIDE DEF h
    <3> QED BY <1>2, <3>1, <3>2, RadixFacts DEF GroupsAt
  <2>4. RightUpTo(n, h) BY <2>3 DEF RightUpTo
  <2> QED BY <1>2, <2>4
<1> QED BY <1>3, <1>4

LEMMA GroupsDef == \A u \in Nat : Groups[u] = GroupsAt(Groups, u)
<1> DEFINE Part(n) == CHOOSE h : RightUpTo(n, h)
           g == [u \in Nat |-> Part(u)[u]]
<1>1. \A n \in Nat : RightUpTo(n, Part(n)) BY RightExists
<1>2. ASSUME NEW u \in Nat PROVE g[u] = GroupsAt(g, u)
  <2> HIDE DEF Part
  <2>1. g[u] = Part(u)[u] OBVIOUS
  <2>2. u \in 0..u OBVIOUS
  <2>3. Part(u)[u] = GroupsAt(Part(u), u) BY <1>1, <2>2 DEF RightUpTo
  <2>4. u >= Radix => g[u \div Radix] = Part(u)[u \div Radix]
    <3> SUFFICES ASSUME u >= Radix PROVE g[u \div Radix] = Part(u)[u \div Radix] OBVIOUS
    <3>1. PICK w \in Nat : w = u \div Radix /\ w <= u BY RestSmaller
    <3>2. RightUpTo(w, Part(w)) /\ RightUpTo(u, Part(u)) BY <1>1
    <3>3. Part(w)[w] = Part(u)[w] BY <3>1, <3>2, RightSame
    <3> QED BY <3>1, <3>3
  <2> HIDE DEF g
  <2> QED BY <2>1, <2>3, <2>4, RadixFacts DEF GroupsAt
<1> HIDE DEF g
<1>3. \E h : h = [u \in Nat |-> GroupsAt(h, u)]
  <2>1. g = [u \in Nat |-> GroupsAt(g, u)] BY <1>2 DEF g
  <2> QED BY <2>1
<1>4. Groups = [u \in Nat |-> GroupsAt(Groups, u)] BY <1>3 DEF Groups, GroupsAt
<1> QED BY <1>4

\* Every number is written as a byte string, which is not empty.
LEMMA GroupsType == \A u \in Nat : Groups[u] \in Seq(Nat) /\ Len(Groups[u]) > 0
<1> DEFINE T == {u \in Nat : ~(Groups[u] \in Seq(Nat) /\ Len(Groups[u]) > 0)}
<1> SUFFICES ASSUME T # {} PROVE FALSE OBVIOUS
<1>1. PICK u \in T : \A k \in T : u <= k BY LeastNatural
<1>2. u \in Nat /\ Groups[u] = GroupsAt(Groups, u) BY GroupsDef
<1>3. CASE u < Radix
  <2>1. Groups[u] = <<u>> BY <1>2, <1>3 DEF GroupsAt
  <2>2. <<u>> \in Seq(Nat) /\ Len(<<u>>) = 1 BY <1>2
  <2>3. Groups[u] \in Seq(Nat) /\ Len(Groups[u]) > 0 BY <2>1, <2>2
  <2> QED BY <2>3
<1>4. CASE ~(u < Radix)
  <2>0. u >= Radix BY <1>2, <1>4, RadixFacts
  <2>1. PICK w \in 0..(u - 1) : w = u \div Radix BY <1>2, <2>0, RestSmaller
  <2>2. w \notin T /\ w \in Nat BY <1>1, <1>2, <2>1
  <2>3. PICK s \in Seq(Nat) : s = Groups[w] /\ Len(s) > 0 BY <2>2
  <2>4. PICK d \in Nat : d = (u % Radix) + Radix
    <3>1. PICK R \in Nat : R = Radix /\ R > 1 BY RadixFacts
    <3>2. (u % R) + R \in Nat BY <1>2, <3>1
    <3> QED BY <3>1, <3>2
  <2>5. Groups[u] = <<d>> \o s BY <1>2, <1>4, <2>1, <2>3, <2>4 DEF GroupsAt
  <2>6. <<d>> \in Seq(Nat) /\ Len(<<d>>) = 1 OBVIOUS
  <2>7. <<d>> \o s \in Seq(Nat) /\ Len(<<d>> \o s) = 1 + Len(s) BY <2>6, ConcatProperties
  <2>8. Groups[u] \in Seq(Nat) /\ Len(Groups[u]) > 0 BY <2>3, <2>5, <2>7
  <2> QED BY <2>8
<1> QED BY <1>3, <1>4
----------------------------------------------------------------------------
(* The chain of blocks: enough of them, and m_cur on the right one.         *)

Block == [0..BaseSize - 1 -> Nat]

Types ==
  /\ m_position \in Nat /\ m_size \in Nat /\ m_capacity \in Nat
  /\ blocks \in Seq(Block) /\ Len(blocks) >= 1

\* The inductive invariant: CurCoherent needs no more than the types, and
\* the first block, which clear() keeps.
CurInv == Types /\ CurCoherent

\* The block of position v in a chain of n, and null behind the last one.
BlockOf(v, n) == IF v = n * BaseSize THEN nullptr ELSE v \div BaseSize + 1

LEMMA CurAtIs ==
  ASSUME NEW v \in Nat, NEW n \in Nat, v <= n * BaseSize
  PROVE  CurAt(v, n) = BlockOf(v, n)
<1>1. n * BaseSize \in Nat OBVIOUS
<1>2. v < n * BaseSize <=> v \div BaseSize < n BY DivBelow
<1> QED BY <1>1, <1>2 DEF CurAt, BlockOf

\* addCapacity() makes room for size bytes behind the position.
LEMMA Room ==
  ASSUME CurInv, NEW size \in Nat
  PROVE  /\ NewBlocks(size) \in Nat
         /\ m_capacity + NewBlocks(size) * BaseSize = (Len(blocks) + NewBlocks(size)) * BaseSize
         /\ m_position + size <= (Len(blocks) + NewBlocks(size)) * BaseSize
<1>1. PICK n \in Nat : n = Len(blocks) BY LenProperties DEF CurInv, Types
<1>2. /\ m_position \in Nat /\ m_capacity \in Nat
      /\ m_capacity = n * BaseSize /\ m_position <= m_capacity
  BY <1>1 DEF CurInv, Types, CurCoherent
<1>3. CASE getCapacity >= size
  <2>1. NewBlocks(size) = 0 BY <1>3 DEF NewBlocks
  <2>2. m_position + size <= m_capacity BY <1>2, <1>3 DEF getCapacity
  <2>3. 0 * BaseSize = 0 OBVIOUS
  <2>4. n + 0 = n OBVIOUS
  <2> QED BY <1>1, <1>2, <2>1, <2>2, <2>3, <2>4
<1>4. CASE ~(getCapacity >= size)
  <2> DEFINE x == size - getCapacity + BaseSize - 1
  <2>1. x \in Nat /\ x - (BaseSize - 1) = size - (m_capacity - m_position)
    BY <1>2, <1>4 DEF getCapacity
  <2>2. NewBlocks(size) = x \div BaseSize BY <1>4 DEF NewBlocks
  <2> HIDE DEF x
  <2>3. PICK q \in Nat, r \in 0..(BaseSize - 1) : q = x \div BaseSize /\ x = q * BaseSize + r
    BY <2>1, DivMod
  <2>4. q * BaseSize \in Nat /\ n * BaseSize \in Nat OBVIOUS
  <2>5. (n + q) * BaseSize = n * BaseSize + q * BaseSize OBVIOUS
  <2>6. q * BaseSize >= size - (m_capacity - m_position) BY <1>2, <2>1, <2>3, <2>4
  <2>7. m_position + size <= n * BaseSize + q * BaseSize BY <1>2, <2>4, <2>6
  <2> QED BY <1>1, <1>2, <2>2, <2>3, <2>5, <2>7
<1> QED BY <1>3, <1>4

\* And leaves m_cur on the block of the position, the array full or not.
LEMMA Here ==
  ASSUME CurInv, NEW size \in Nat, size > 0
  PROVE  CurAfter(size) = m_position \div BaseSize + 1
<1>1. PICK n \in Nat : n = Len(blocks) BY LenProperties DEF CurInv, Types
<1>2. /\ m_position \in Nat /\ m_capacity \in Nat
      /\ m_capacity = n * BaseSize /\ m_position <= m_capacity
      /\ m_cur = IF m_position = m_capacity THEN nullptr ELSE m_position \div BaseSize + 1
  BY <1>1 DEF CurInv, Types, CurCoherent
<1>3. CASE m_position = m_capacity
  <2>1. getCapacity = 0 BY <1>2, <1>3 DEF getCapacity
  <2>2. PICK q \in Nat : q = NewBlocks(size) BY Room
  <2>3. m_position + size <= (n + q) * BaseSize BY <1>1, <2>2, Room
  <2>4. q > 0
    <3>1. SUFFICES ASSUME q = 0 PROVE FALSE OBVIOUS
    <3>2. n + q = n BY <3>1
    <3> QED BY <1>2, <1>3, <2>3, <3>2
  <2>5. CurAfter(size) = n + 1 BY <1>1, <2>1, <2>2, <2>4 DEF CurAfter
  <2>6. m_position \div BaseSize = n BY <1>2, <1>3, DivBelow
  <2> QED BY <2>5, <2>6
<1>4. CASE m_position # m_capacity
  <2>1. getCapacity # 0 BY <1>2, <1>4 DEF getCapacity
  <2> QED BY <1>2, <1>4, <2>1 DEF CurAfter
<1> QED BY <1>3, <1>4

\* From the block of the position the loops of read() and write() find byte j
\* where position + j is, and end on the block of the position behind.
LEMMA PlaceIs ==
  ASSUME m_position \in Nat, NEW j \in Nat
  PROVE  Place(m_position \div BaseSize + 1, j)
           = <<(m_position + j) \div BaseSize + 1, (m_position + j) % BaseSize>>
<1>1. PICK p \in Nat : p = m_position \div BaseSize BY DivMod
<1>2. PICK s \in Nat : s = npos BY DivMod DEF npos
<1>3. PICK q \in Nat : q = (s + j) \div BaseSize BY DivMod
<1>4. (m_position + j) \div BaseSize = p + q /\ (m_position + j) % BaseSize = (s + j) % BaseSize
  BY <1>1, <1>2, <1>3, DivShift DEF npos
<1>5. p + 1 + q = p + q + 1 OBVIOUS
<1> QED BY <1>1, <1>2, <1>3, <1>4, <1>5 DEF Place

LEMMA Walk ==
  ASSUME m_position \in Nat, NEW size \in Nat, NEW n \in Nat,
         m_position + size <= n * BaseSize
  PROVE  /\ size > 0 => Reaches(m_position \div BaseSize + 1, size, n)
         /\ CurBehind(m_position \div BaseSize + 1, size, n) = BlockOf(m_position + size, n)
<1>1. PICK p \in Nat : p = m_position \div BaseSize BY DivMod
<1>2. PICK s \in Nat : s = npos BY DivMod DEF npos
<1>3. n * BaseSize \in Nat OBVIOUS
<1>4. size > 0 => Reaches(p + 1, size, n)
  <2> SUFFICES ASSUME size > 0 PROVE Reaches(p + 1, size, n) OBVIOUS
  <2>1. PICK j \in Nat : j = size - 1 OBVIOUS
  <2>2. PICK q \in Nat : q = (s + j) \div BaseSize BY DivMod
  <2>3. (m_position + j) \div BaseSize = p + q BY <1>1, <1>2, <2>2, DivShift DEF npos
  <2>4. m_position + j \in Nat /\ m_position + j < n * BaseSize BY <1>3, <2>1
  <2>5. p + q < n BY <2>3, <2>4, DivBelow
  <2>6. s + size - 1 = s + j BY <2>1
  <2>7. p + 1 + q <= n BY <2>5
  <2> QED BY <1>2, <2>2, <2>6, <2>7 DEF Reaches, nullptr
<1>5. CurBehind(p + 1, size, n) = BlockOf(m_position + size, n)
  <2>1. PICK q \in Nat : q = (s + size) \div BaseSize BY DivMod
  <2>2. (m_position + size) \div BaseSize = p + q BY <1>1, <1>2, <2>1, DivShift DEF npos
  <2>3. m_position + size \in Nat OBVIOUS
  <2>4. m_position + size < n * BaseSize <=> p + q < n BY <2>2, <2>3, DivBelow
  <2>5. m_position + size = n * BaseSize <=> ~(p + 1 + q <= n) BY <1>3, <2>3, <2>4
  <2>6. CurBehind(p + 1, size, n) = IF p + 1 + q <= n THEN p + 1 + q ELSE nullptr
    BY <1>2, <2>1 DEF CurBehind
  <2>7. p + 1 + q = p + q + 1 OBVIOUS
  <2> QED BY <2>2, <2>5, <2>6, <2>7 DEF BlockOf
<1> QED BY <1>1, <1>4, <1>5
----------------------------------------------------------------------------
(* No call crashes, and each leaves m_cur on the block of the position.     *)

LEMMA AppendedIs ==
  ASSUME CurInv, NEW size \in Nat, NEW x \in Nat
  PROVE  /\ Appended(size, x) \in Seq(Block)
         /\ Len(Appended(size, x)) = Len(blocks) + NewBlocks(size)
         /\ \A b \in 1..Len(blocks) : Appended(size, x)[b] = blocks[b]
<1>1. PICK q \in Nat : q = NewBlocks(size) BY Room
<1> DEFINE more == [i \in 1..q |-> NewNode(x)]
<1>2. NewNode(x) \in Block BY DEF NewNode, Block
<1>3. more \in Seq(Block) /\ Len(more) = q BY <1>2
<1>4. blocks \in Seq(Block) BY DEF CurInv, Types
<1>5. Appended(size, x) = blocks \o more BY <1>1 DEF Appended
<1> HIDE DEF more
<1>6. /\ blocks \o more \in Seq(Block)
      /\ Len(blocks \o more) = Len(blocks) + Len(more)
      /\ \A b \in 1..(Len(blocks) + Len(more)) :
           (blocks \o more)[b] = IF b <= Len(blocks) THEN blocks[b] ELSE more[b - Len(blocks)]
  BY <1>3, <1>4, ConcatProperties
<1>7. Len(blocks) \in Nat /\ Len(more) \in Nat BY <1>3, <1>4, LenProperties
<1> QED BY <1>1, <1>3, <1>5, <1>6, <1>7

LEMMA StoreType ==
  ASSUME NEW chain \in Seq(Block), NEW bs \in Seq(Nat), NEW cur
  PROVE  Store(bs, cur, chain) \in Seq(Block) /\ Len(Store(bs, cur, chain)) = Len(chain)
<1>1. PICK n \in Nat : n = Len(chain) /\ DOMAIN chain = 1..n BY LenProperties
<1>2. ASSUME NEW b \in 1..n, NEW k \in 0..(BaseSize - 1)
      PROVE  Store(bs, cur, chain)[b][k] \in Nat
  <2> DEFINE hits == {j \in 1..Len(bs) : Place(cur, j - 1) = <<b, k>>}
             byte == IF hits = {} THEN chain[b][k] ELSE bs[CHOOSE j \in hits : TRUE]
  <2>1. Store(bs, cur, chain)[b][k] = byte BY <1>1 DEF Store
  <2>2. CASE hits = {}
    <3>1. chain[b] \in Block BY <1>1, ElementOfSeq
    <3> QED BY <2>1, <2>2, <3>1 DEF Block
  <2>3. CASE hits # {}
    <3>1. (CHOOSE j \in hits : TRUE) \in hits BY <2>3
    <3>2. (CHOOSE j \in hits : TRUE) \in 1..Len(bs) BY <3>1
    <3> HIDE DEF hits
    <3>3. bs[CHOOSE j \in hits : TRUE] \in Nat BY <3>2, ElementOfSeq
    <3> QED BY <2>1, <2>3, <3>3
  <2> QED BY <2>2, <2>3
<1>3. Store(bs, cur, chain) = [b \in 1..n |-> Store(bs, cur, chain)[b]] BY <1>1 DEF Store
<1>4. ASSUME NEW b \in 1..n PROVE Store(bs, cur, chain)[b] \in Block
  <2>1. Store(bs, cur, chain)[b] = [k \in 0..BaseSize - 1 |-> Store(bs, cur, chain)[b][k]]
    BY <1>1 DEF Store
  <2> QED BY <1>2, <2>1 DEF Block
<1>5. Store(bs, cur, chain) \in [1..n -> Block] BY <1>3, <1>4
<1> QED BY <1>1, <1>5, LenProperties, SeqDef

\* What a call that moves to v in a chain of n blocks has to do.
MovesTo(v, n) ==
  /\ blocks' \in Seq(Block) /\ Len(blocks') = n /\ m_capacity' = n * BaseSize
  /\ m_position' = v
  /\ m_size' = IF v > m_size THEN v ELSE m_size
  /\ m_cur' = BlockOf(v, n)
  /\ crashed' = crashed

LEMMA MovesKeep ==
  ASSUME CurInv, NEW n \in Nat, NEW v \in Nat, n >= Len(blocks), v <= n * BaseSize,
         MovesTo(v, n)
  PROVE  CurInv'
<1>1. PICK l \in Nat : l = Len(blocks) BY LenProperties DEF CurInv, Types
<1>2. l >= 1 /\ m_size \in Nat /\ m_size <= l * BaseSize BY <1>1 DEF CurInv, Types, CurCoherent
<1>3. l * BaseSize <= n * BaseSize
  <2>1. l < n => l * BaseSize + BaseSize <= n * BaseSize BY Multiples
  <2>2. l * BaseSize \in Int /\ n * BaseSize \in Int OBVIOUS
  <2> QED BY <1>1, <2>1, <2>2
<1>4. n * BaseSize \in Nat /\ l * BaseSize \in Nat OBVIOUS
<1>5. Types' BY <1>1, <1>2, <1>4 DEF Types, MovesTo
<1>6. m_position' <= m_size' /\ m_size' <= m_capacity' BY <1>2, <1>3, <1>4 DEF MovesTo
<1>7. CurCoherent' BY <1>6 DEF CurCoherent, MovesTo, BlockOf, CurInv
<1> QED BY <1>5, <1>7 DEF CurInv

\* m_cur is the block of the position.
LEMMA CurIs ==
  ASSUME CurInv
  PROVE  /\ Len(blocks) \in Nat /\ m_position \in Nat
         /\ m_cur = BlockOf(m_position, Len(blocks))
         /\ m_position <= Len(blocks) * BaseSize
         /\ getReadSize \in Nat /\ m_position + getReadSize <= Len(blocks) * BaseSize
         /\ getReadSize > 0 => m_cur = m_position \div BaseSize + 1
<1>1. PICK n \in Nat : n = Len(blocks) BY LenProperties DEF CurInv, Types
<1>2. n * BaseSize \in Nat OBVIOUS
<1> QED BY <1>1, <1>2 DEF CurInv, Types, CurCoherent, BlockOf, getReadSize

LEMMA WriteGoes ==
  ASSUME CurInv, NEW bs \in Seq(Nat), NEW new, WriteBytes(bs, new)
  PROVE  /\ MovesTo(m_position + Len(bs), Len(blocks) + NewBlocks(Len(bs)))
         /\ \E x \in Junk : blocks' = Store(bs, CurAfter(Len(bs)), Appended(Len(bs), x))
         /\ buf' = bs
         /\ written' = (written \ Overwritten(m_position, m_position + Len(bs))) \cup new
<1>1. PICK size \in Nat : size = Len(bs) BY LenProperties
<1>2. PICK n \in Nat : n = Len(blocks) + NewBlocks(size)
  <2>1. NewBlocks(size) \in Nat BY Room
  <2>2. Len(blocks) \in Nat BY CurIs
  <2> QED BY <2>1, <2>2
<1>3. m_position \in Nat /\ m_position + size <= n * BaseSize BY <1>2, Room, CurIs
<1>4. size > 0 => Reaches(CurAfter(size), size, n) BY <1>3, Here, Walk
<1>5. /\ \E x \in Junk : blocks' = Store(bs, CurAfter(size), Appended(size, x))
      /\ m_capacity' = m_capacity + NewBlocks(size) * BaseSize
      /\ m_cur' = IF size = 0 THEN m_cur ELSE CurBehind(CurAfter(size), size, n)
      /\ m_position' = m_position + size
      /\ m_size' = IF m_position' > m_size THEN m_position' ELSE m_size
      /\ buf' = bs /\ crashed' = crashed
      /\ written' = (written \ Overwritten(m_position, m_position + size)) \cup new
  BY <1>1, <1>2, <1>4 DEF WriteBytes
<1>6. PICK x \in Junk : blocks' = Store(bs, CurAfter(size), Appended(size, x)) BY <1>5
<1>7. x \in Nat BY ByteArrayAssumption
<1>8. blocks' \in Seq(Block) /\ Len(blocks') = n BY <1>2, <1>6, <1>7, AppendedIs, StoreType
<1>9. m_cur' = BlockOf(m_position + size, n)
  <2>1. CASE size = 0
    <3>1. getCapacity >= size BY <2>1 DEF CurInv, Types, CurCoherent, getCapacity
    <3>2. NewBlocks(size) = 0 BY <3>1 DEF NewBlocks
    <3>3. n = Len(blocks) /\ m_position + size = m_position BY <1>2, <1>3, <2>1, <3>2, CurIs
    <3> QED BY <1>5, <2>1, <3>3, CurIs
  <2>2. CASE size # 0 BY <1>3, <1>5, <2>2, Here, Walk
  <2> QED BY <2>1, <2>2
<1>10. m_capacity' = n * BaseSize BY <1>2, <1>5, Room
<1> QED BY <1>1, <1>2, <1>5, <1>8, <1>9, <1>10 DEF MovesTo

LEMMA RecvGoes ==
  ASSUME CurInv, NEW len \in Nat, NEW bs \in Seq(Nat), Recv(len, bs)
  PROVE  /\ Len(bs) \in 1..len
         /\ MovesTo(m_position + Len(bs), Len(blocks) + NewBlocks(len))
         /\ \E x \in Junk : blocks' = Store(bs, CurAfter(len), Appended(len, x))
         /\ buf' = bs
         /\ written' = written \ Overwritten(m_position, m_position + Len(bs))
<1>1. PICK size \in Nat : size = Len(bs) BY LenProperties
<1>2. PICK n \in Nat : n = Len(blocks) + NewBlocks(len)
  <2>1. NewBlocks(len) \in Nat BY Room
  <2>2. Len(blocks) \in Nat BY CurIs
  <2> QED BY <2>1, <2>2
<1>3. m_position \in Nat /\ m_position + len <= n * BaseSize BY <1>2, Room, CurIs
<1>4. size \in 1..len BY <1>1 DEF Recv
<1>5. Reaches(CurAfter(len), len, n) BY <1>3, <1>4, Here, Walk
<1>6. /\ \E x \in Junk : blocks' = Store(bs, CurAfter(len), Appended(len, x))
      /\ m_capacity' = m_capacity + NewBlocks(len) * BaseSize
      /\ Moved(m_position + size, n)
      /\ buf' = bs /\ crashed' = crashed
      /\ written' = written \ Overwritten(m_position, m_position + size)
  BY <1>1, <1>2, <1>5 DEF Recv
<1>7. PICK x \in Junk : blocks' = Store(bs, CurAfter(len), Appended(len, x)) BY <1>6
<1>8. x \in Nat BY ByteArrayAssumption
<1>9. blocks' \in Seq(Block) /\ Len(blocks') = n BY <1>2, <1>7, <1>8, AppendedIs, StoreType
<1>10. m_position + size \in Nat /\ m_position + size <= n * BaseSize
  <2>1. n * BaseSize \in Nat OBVIOUS
  <2> QED BY <1>3, <1>4, <2>1
<1>11. m_cur' = BlockOf(m_position + size, n) BY <1>6, <1>10, CurAtIs DEF Moved
<1>12. m_capacity' = n * BaseSize BY <1>2, <1>6, Room
<1> QED BY <1>1, <1>2, <1>4, <1>6, <1>9, <1>11, <1>12 DEF MovesTo, Moved

\* The array grows, and nothing else happens.
LEMMA RecvFailsGoes ==
  ASSUME CurInv, NEW len \in Nat, len > 0, RecvFails(len)
  PROVE  /\ MovesTo(m_position, Len(blocks) + NewBlocks(len))
         /\ \E x \in Junk : blocks' = Appended(len, x)
         /\ UNCHANGED <<m_position, m_size, written>> /\ buf' = <<>>
<1>1. PICK n \in Nat : n = Len(blocks) + NewBlocks(len)
  <2>1. NewBlocks(len) \in Nat BY Room
  <2>2. Len(blocks) \in Nat BY CurIs
  <2> QED BY <2>1, <2>2
<1>2. m_position \in Nat /\ m_position + len <= n * BaseSize BY <1>1, Room, CurIs
<1>3. Reaches(CurAfter(len), len, n) BY <1>2, Here, Walk
<1>4. /\ \E x \in Junk : blocks' = Appended(len, x)
      /\ m_capacity' = m_capacity + NewBlocks(len) * BaseSize
      /\ m_cur' = CurAfter(len) /\ buf' = <<>>
      /\ UNCHANGED <<m_position, m_size, crashed, written>>
  BY <1>1, <1>3 DEF RecvFails
<1>5. PICK x \in Junk : blocks' = Appended(len, x) BY <1>4
<1>6. x \in Nat BY ByteArrayAssumption
<1>7. blocks' \in Seq(Block) /\ Len(blocks') = n BY <1>1, <1>5, <1>6, AppendedIs
<1>8. m_cur' = BlockOf(m_position, n)
  <2>1. n * BaseSize \in Nat OBVIOUS
  <2>2. m_position # n * BaseSize BY <1>2, <2>1
  <2> QED BY <1>4, <2>2, Here DEF BlockOf
<1>9. m_capacity' = n * BaseSize BY <1>1, <1>4, Room
<1>10. ~(m_position > m_size) BY DEF CurInv, Types, CurCoherent
<1> QED BY <1>1, <1>4, <1>7, <1>8, <1>9, <1>10 DEF MovesTo

\* A read of size bytes: of read(), of send() and of readInt32().
Reads(size) ==
  /\ size \in 1..getReadSize
  /\ MovesTo(m_position + size, Len(blocks))
  /\ blocks' = blocks /\ m_size' = m_size
  /\ buf' = Fetch(size)

LEMMA ReadsMove ==
  ASSUME CurInv, NEW size \in 1..getReadSize,
         m_cur' = BlockOf(m_position + size, Len(blocks)), m_position' = m_position + size,
         m_size' = m_size, UNCHANGED <<m_capacity, blocks, crashed>>
  PROVE  MovesTo(m_position + size, Len(blocks))
<1>1. m_position + size <= m_size BY CurIs DEF getReadSize, CurInv, Types
<1>2. ~(m_position + size > m_size) BY <1>1, CurIs DEF CurInv, Types
<1> QED BY <1>2 DEF MovesTo, CurInv, Types, CurCoherent

LEMMA ReadGoes ==
  ASSUME CurInv, 0 \notin ReadSizes, NEW size \in ReadSizes, Read(size)
  PROVE  Reads(size)
<1>1. size \in Nat /\ size > 0 BY ByteArrayAssumption
<1>2. size \in 1..getReadSize BY <1>1, CurIs DEF Read
<1>3. /\ m_cur = m_position \div BaseSize + 1 /\ m_position \in Nat /\ Len(blocks) \in Nat
  BY <1>2, CurIs
<1>4. m_position + size <= Len(blocks) * BaseSize
  <2>1. Len(blocks) * BaseSize \in Nat BY <1>3
  <2> QED BY <1>2, <2>1, CurIs
<1>5. /\ Reaches(m_cur, size, Len(blocks))
      /\ CurBehind(m_cur, size, Len(blocks)) = BlockOf(m_position + size, Len(blocks))
  BY <1>1, <1>3, <1>4, Walk
<1>6. /\ buf' = Fetch(size) /\ m_cur' = BlockOf(m_position + size, Len(blocks))
      /\ m_position' = m_position + size /\ UNCHANGED <<m_size, m_capacity, blocks, crashed>>
  BY <1>1, <1>5 DEF Read
<1> QED BY <1>2, <1>6, ReadsMove DEF Reads

LEMMA SendGoes ==
  ASSUME CurInv, NEW len \in Nat, NEW size \in Nat, Send(len, size)
  PROVE  Reads(size)
<1> DEFINE most == IF len > getReadSize THEN getReadSize ELSE len
<1>1. most \in Nat /\ most <= getReadSize BY CurIs
<1>2. size \in 1..most BY DEF Send
<1>3. size \in 1..getReadSize BY <1>1, <1>2, CurIs
<1>4. /\ m_cur = m_position \div BaseSize + 1 /\ m_position \in Nat /\ Len(blocks) \in Nat
  BY <1>3, CurIs
<1>5. /\ m_position + most <= Len(blocks) * BaseSize
      /\ m_position + size <= Len(blocks) * BaseSize
  <2>1. Len(blocks) * BaseSize \in Nat BY <1>4
  <2> QED BY <1>1, <1>2, <2>1, CurIs
<1>6. Reaches(m_cur, most, Len(blocks))
  <2>1. most > 0 BY <1>1, <1>2
  <2> HIDE DEF most
  <2> QED BY <1>1, <1>4, <1>5, <2>1, Walk
<1>7. /\ buf' = Fetch(size) /\ Moved(m_position + size, Len(blocks))
      /\ UNCHANGED <<m_capacity, blocks, crashed>>
  BY <1>6 DEF Send
<1>8. m_cur' = BlockOf(m_position + size, Len(blocks)) BY <1>4, <1>5, <1>7, CurAtIs DEF Moved
<1>9. m_size' = m_size
  <2>1. ~(m_position + size > m_size) BY <1>3, CurIs DEF getReadSize, CurInv, Types
  <2> QED BY <1>7, <2>1 DEF Moved
<1> QED BY <1>3, <1>7, <1>8, <1>9, ReadsMove DEF Reads, Moved

\* readUint32() reads as far as the least place where a group is the last.
LEMMA GroupCountIs ==
  ASSUME NEW bs, LastGroup(bs) # {}, Len(bs) \in Nat
  PROVE  GroupCount(bs) \in 1..Len(bs)
<1>1. LastGroup(bs) \subseteq 1..Len(bs) BY DEF LastGroup
<1>2. LastGroup(bs) \in SUBSET Nat BY <1>1
<1>3. \E k \in LastGroup(bs) : \A m \in LastGroup(bs) : k <= m BY <1>2, LeastNatural
<1>4. GroupCount(bs) \in LastGroup(bs) BY <1>3 DEF GroupCount
<1> QED BY <1>1, <1>4

LEMMA ReadIntGoes ==
  ASSUME CurInv, ReadInt
  PROVE  \E size \in Nat : Reads(size)
<1>1. PICK n \in Nat : n = getReadSize BY CurIs
<1> DEFINE rest == Fetch(n)
           whole == LastGroup(rest) # {}
           size == IF whole THEN GroupCount(rest) ELSE n
<1>2. n > 0 BY <1>1 DEF ReadInt
<1>3. Len(rest) = n BY DEF Fetch
<1>4. size \in 1..n
  <2> HIDE DEF rest
  <2> QED BY <1>2, <1>3, GroupCountIs
<1>5. /\ m_cur = m_position \div BaseSize + 1 /\ m_position \in Nat /\ Len(blocks) \in Nat
      /\ m_position + n <= Len(blocks) * BaseSize
  BY <1>1, <1>2, CurIs
<1>6. Reaches(m_cur, n, Len(blocks)) BY <1>2, <1>5, Walk
<1>7. /\ buf' = Fetch(size) /\ m_cur' = CurBehind(m_cur, size, Len(blocks))
      /\ m_position' = m_position + size /\ UNCHANGED <<m_size, m_capacity, blocks, crashed>>
  BY <1>1, <1>6 DEF ReadInt
<1> HIDE DEF size
<1>8. size \in Nat /\ m_position + size <= Len(blocks) * BaseSize
  <2>1. Len(blocks) * BaseSize \in Nat BY <1>5
  <2> QED BY <1>4, <1>5, <2>1
<1>9. m_cur' = BlockOf(m_position + size, Len(blocks)) BY <1>5, <1>7, <1>8, Walk
<1>10. MovesTo(m_position + size, Len(blocks)) BY <1>1, <1>4, <1>7, <1>9, ReadsMove
<1> QED BY <1>1, <1>4, <1>7, <1>8, <1>10 DEF Reads

LEMMA ToStringGoes ==
  ASSUME CurInv, ToString
  PROVE  /\ getReadSize > 0 /\ buf' = Fetch(getReadSize)
         /\ UNCHANGED <<m_position, m_size, m_capacity, blocks, m_cur, crashed>>
<1>1. getReadSize \in Nat /\ getReadSize > 0 BY CurIs DEF ToString
<1>2. Reaches(m_cur, getReadSize, Len(blocks)) BY <1>1, CurIs, Walk
<1> QED BY <1>1, <1>2 DEF ToString

LEMMA SetPositionGoes ==
  ASSUME CurInv, NEW v \in Nat, SetPosition(v)
  PROVE  /\ MovesTo(v, Len(blocks)) /\ v <= Len(blocks) * BaseSize
         /\ blocks' = blocks /\ buf' = <<>>
<1>1. v <= Len(blocks) * BaseSize BY DEF SetPosition, CurInv, CurCoherent
<1>2. CurAt(v, Len(blocks)) = BlockOf(v, Len(blocks)) BY <1>1, CurIs, CurAtIs
<1> QED BY <1>1, <1>2 DEF SetPosition, Moved, MovesTo, CurInv, Types, CurCoherent

\* The bytes of writeInt32().
LEMMA IntBytes ==
  ASSUME NEW v \in Ints
  PROVE  Groups[EncodeZigzag(v)] \in Seq(Nat)
<1>1. v \in Int BY ByteArrayAssumption
<1>2. EncodeZigzag(v) \in Nat BY <1>1 DEF EncodeZigzag
<1> QED BY <1>2, GroupsType

LEMMA CurInit == Init => CurInv
<1> SUFFICES ASSUME Init PROVE CurInv OBVIOUS
<1>1. PICK x \in Junk : blocks = <<NewNode(x)>> BY DEF Init
<1>2. x \in Nat BY ByteArrayAssumption
<1>3. NewNode(x) \in Block BY <1>2 DEF NewNode, Block
<1>4. blocks \in Seq(Block) /\ Len(blocks) = 1 BY <1>1, <1>3
<1>5. 0 \div BaseSize = 0
  <2>1. 0 = 0 * BaseSize + 0 /\ 0 \in 0..(BaseSize - 1) OBVIOUS
  <2> QED BY <2>1, DivUnique
<1>6. 1 * BaseSize = BaseSize OBVIOUS
<1> QED BY <1>4, <1>5, <1>6 DEF Init, CurInv, Types, CurCoherent

LEMMA GrownMore ==
  ASSUME CurInv, NEW size \in Nat, NEW len \in Nat, size <= len
  PROVE  /\ Len(blocks) + NewBlocks(len) \in Nat /\ Len(blocks) + NewBlocks(len) >= Len(blocks)
         /\ m_position + size \in Nat
         /\ m_position + size <= (Len(blocks) + NewBlocks(len)) * BaseSize
<1>1. PICK q \in Nat : q = NewBlocks(len) BY Room
<1>2. PICK n \in Nat : n = Len(blocks) BY CurIs
<1>3. m_position \in Nat /\ m_position + len <= (n + q) * BaseSize BY <1>1, <1>2, Room, CurIs
<1>4. (n + q) * BaseSize \in Nat OBVIOUS
<1> QED BY <1>1, <1>2, <1>3, <1>4

LEMMA WriteKeeps ==
  ASSUME CurInv, NEW bs \in Seq(Nat), NEW new, WriteBytes(bs, new)
  PROVE  CurInv'
<1>1. Len(bs) \in Nat BY LenProperties
<1> QED BY <1>1, WriteGoes, GrownMore, MovesKeep

LEMMA RecvKeeps ==
  ASSUME CurInv, NEW len \in Nat, NEW bs \in Seq(Nat), Recv(len, bs)
  PROVE  CurInv'
<1>1. Len(bs) \in Nat /\ Len(bs) <= len BY RecvGoes
<1> QED BY <1>1, RecvGoes, GrownMore, MovesKeep

LEMMA RecvFailsKeeps ==
  ASSUME CurInv, NEW len \in Nat, len > 0, RecvFails(len)
  PROVE  CurInv'
<1>1. PICK n \in Nat : n = Len(blocks) + NewBlocks(len) /\ n >= Len(blocks)
  BY GrownMore
<1>2. m_position \in Nat /\ m_position + 0 <= n * BaseSize BY <1>1, CurIs, GrownMore
<1>3. m_position <= n * BaseSize BY <1>2
<1>4. MovesTo(m_position, n) BY <1>1, RecvFailsGoes
<1> QED BY <1>1, <1>2, <1>3, <1>4, MovesKeep

LEMMA ReadsKeep ==
  ASSUME CurInv, NEW size \in Nat, Reads(size)
  PROVE  CurInv'
<1>1. PICK n \in Nat : n = Len(blocks) BY CurIs
<1>2. n * BaseSize \in Nat OBVIOUS
<1>3. m_position + size \in Nat /\ m_position + size <= n * BaseSize
  BY <1>1, <1>2, CurIs DEF Reads
<1>4. n >= Len(blocks) BY <1>1
<1> QED BY <1>1, <1>3, <1>4, MovesKeep DEF Reads

LEMMA ClearKeeps ==
  ASSUME CurInv, Clear
  PROVE  CurInv'
<1>1. 1 \in 1..Len(blocks) BY CurIs DEF CurInv, Types
<1>2. blocks[1] \in Block BY <1>1, ElementOfSeq DEF CurInv, Types
<1>3. blocks' \in Seq(Block) /\ Len(blocks') = 1 BY <1>2 DEF Clear
<1>4. 0 \div BaseSize = 0
  <2>1. 0 = 0 * BaseSize + 0 /\ 0 \in 0..(BaseSize - 1) OBVIOUS
  <2> QED BY <2>1, DivUnique
<1>5. 1 * BaseSize = BaseSize OBVIOUS
<1> QED BY <1>3, <1>4, <1>5 DEF Clear, CurInv, Types, CurCoherent

LEMMA CurStep ==
  ASSUME 0 \notin ReadSizes, CurInv, [Next]_vars
  PROVE  CurInv'
<1>1. ASSUME NEW bs \in Raw, Write(bs) PROVE CurInv'
  <2>1. bs \in Seq(Nat) BY ByteArrayAssumption
  <2> QED BY <1>1, <2>1, WriteKeeps DEF Write
<1>2. ASSUME NEW bs \in Raw, NEW len \in 1..BaseSize + 1, Recv(len, bs) PROVE CurInv'
  <2>1. bs \in Seq(Nat) BY ByteArrayAssumption
  <2>2. len \in Nat OBVIOUS
  <2> QED BY <1>2, <2>1, <2>2, RecvKeeps
<1>3. ASSUME NEW v \in Ints, WriteInt(v) PROVE CurInv'
  BY <1>3, IntBytes, WriteKeeps DEF WriteInt
<1>4. ASSUME NEW size \in ReadSizes, Read(size) PROVE CurInv'
  <2>1. size \in Nat BY ByteArrayAssumption
  <2> QED BY <1>4, <2>1, ReadGoes, ReadsKeep
<1>5. ASSUME NEW size \in ReadSizes, NEW len \in ReadSizes, Send(len, size) PROVE CurInv'
  <2>1. size \in Nat /\ len \in Nat BY ByteArrayAssumption
  <2> QED BY <1>5, <2>1, SendGoes, ReadsKeep
<1>6. ASSUME NEW v \in 0..MaxBlocks * BaseSize, SetPosition(v) PROVE CurInv'
  <2>1. v \in Nat OBVIOUS
  <2>2. Len(blocks) \in Nat /\ Len(blocks) >= Len(blocks) BY CurIs
  <2> QED BY <1>6, <2>1, <2>2, SetPositionGoes, MovesKeep
<1>7. CASE ReadInt BY <1>7, ReadIntGoes, ReadsKeep
<1>8. CASE ToString
  <2>1. UNCHANGED <<m_position, m_size, m_capacity, blocks, m_cur, crashed>>
    BY <1>8, ToStringGoes
  <2> QED BY <2>1 DEF CurInv, Types, CurCoherent
<1>9. CASE Clear BY <1>9, ClearKeeps
<1>10. CASE UNCHANGED vars BY <1>10 DEF vars, CurInv, Types, CurCoherent
<1>11. ASSUME NEW len \in 1..BaseSize + 1, RecvFails(len) PROVE CurInv'
  <2>1. len \in Nat /\ len > 0 OBVIOUS
  <2> QED BY <1>11, <2>1, RecvFailsKeeps
<1> QED BY <1>1, <1>2, <1>3, <1>4, <1>5, <1>6, <1>7, <1>8, <1>9, <1>10, <1>11 DEF Next

\* For every block size, all byte strings and integers and any number of
\* blocks: m_cur is the block of the position, null exactly when the array is
\* full, through every write, read, receive, send, seek and clear, and no
\* call follows a null pointer; provided that nobody reads 0 bytes.
THEOREM CurTheorem ==
  ASSUME 0 \notin ReadSizes
  PROVE  Spec => []CurCoherent
<1>1. Init => CurInv BY CurInit
<1>2. CurInv /\ [Next]_vars => CurInv' BY CurStep
<1>3. CurInv => CurCoherent BY DEF CurInv
<1> QED BY <1>1, <1>2, <1>3, PTL DEF Spec
----------------------------------------------------------------------------
(* A ByteArray is a file: the bytes of a chain, in the order of their       *)
(* positions, are the content.                                              *)

\* Byte i of a chain, counted from 1, and the bytes up to m_size.
ByteAt(chain, i) == chain[(i - 1) \div BaseSize + 1][(i - 1) % BaseSize]
Content == [i \in 1..m_size |-> ByteAt(blocks, i)]

LEMMA PlaceExists ==
  ASSUME NEW n \in Nat, NEW i \in Nat, i >= 1, i <= n * BaseSize
  PROVE  /\ (i - 1) \div BaseSize + 1 \in 1..n
         /\ (i - 1) % BaseSize \in 0..(BaseSize - 1)
<1>1. PICK a \in Nat : a = i - 1 OBVIOUS
<1>2. n * BaseSize \in Nat OBVIOUS
<1>3. a < n * BaseSize BY <1>1, <1>2
<1>4. a \div BaseSize < n BY <1>3, DivBelow
<1>5. a \div BaseSize \in Nat /\ a % BaseSize \in 0..(BaseSize - 1) BY DivMod
<1>6. a \div BaseSize + 1 \in 1..n BY <1>4, <1>5
<1> QED BY <1>1, <1>5, <1>6

LEMMA ByteAtType ==
  ASSUME NEW chain \in Seq(Block), NEW i \in Nat, i >= 1, i <= Len(chain) * BaseSize
  PROVE  ByteAt(chain, i) \in Nat
<1>1. Len(chain) \in Nat BY LenProperties
<1>2. PICK b \in 1..Len(chain) : b = (i - 1) \div BaseSize + 1 BY <1>1, PlaceExists
<1>3. PICK k \in 0..(BaseSize - 1) : k = (i - 1) % BaseSize BY <1>1, PlaceExists
<1>4. chain[b] \in Block BY ElementOfSeq
<1> QED BY <1>2, <1>3, <1>4 DEF ByteAt, Block

LEMMA ContentType ==
  ASSUME CurInv
  PROVE  Content \in Seq(Nat) /\ Len(Content) = m_size /\ m_size \in Nat
<1>1. /\ m_size \in Nat /\ blocks \in Seq(Block) /\ m_size <= Len(blocks) * BaseSize
  BY DEF CurInv, Types, CurCoherent
<1>2. ASSUME NEW i \in 1..m_size PROVE ByteAt(blocks, i) \in Nat
  <2>1. Len(blocks) * BaseSize \in Nat BY CurIs
  <2>2. i \in Nat /\ i >= 1 /\ i <= Len(blocks) * BaseSize BY <1>1, <2>1
  <2> QED BY <1>1, <2>2, ByteAtType
<1> QED BY <1>1, <1>2 DEF Content

\* Two positions are in the same place of the same block only if they are equal.
LEMMA PlaceUnique ==
  ASSUME NEW a \in Nat, NEW b \in Nat,
         a \div BaseSize + 1 = b \div BaseSize + 1, a % BaseSize = b % BaseSize
  PROVE  a = b
<1>1. PICK p \in Nat : p = a \div BaseSize BY DivMod
<1>2. PICK q \in Nat : q = b \div BaseSize BY DivMod
<1>3. p = q BY <1>1, <1>2
<1> QED BY <1>1, <1>2, <1>3, DivMod

\* What the loop of read() collects is that part of the content.
LEMMA FetchIs ==
  ASSUME CurInv, NEW size \in 1..getReadSize
  PROVE  Fetch(size) = SubSeq(Content, m_position + 1, m_position + size)
<1>1. /\ m_position \in Nat /\ m_size \in Nat /\ getReadSize \in Nat
      /\ m_position + getReadSize = m_size
      /\ m_cur = m_position \div BaseSize + 1
  BY CurIs DEF CurInv, Types, getReadSize
<1>2. size \in Nat /\ size >= 1 /\ m_position + size <= m_size BY <1>1
<1>3. ASSUME NEW j \in 1..size PROVE Fetch(size)[j] = Content[m_position + j]
  <2>1. PICK k \in Nat : k = j - 1 BY <1>2
  <2>2. Place(m_cur, k) = <<(m_position + k) \div BaseSize + 1, (m_position + k) % BaseSize>>
    BY <1>1, PlaceIs
  <2>3. m_position + k = m_position + j - 1 BY <1>1, <1>2, <2>1
  <2>4. Fetch(size)[j] = blocks[Place(m_cur, k)[1]][Place(m_cur, k)[2]] BY <2>1 DEF Fetch
  <2>5. Fetch(size)[j] = ByteAt(blocks, m_position + j)
    <3>1. /\ Place(m_cur, k)[1] = (m_position + k) \div BaseSize + 1
          /\ Place(m_cur, k)[2] = (m_position + k) % BaseSize
      BY <2>2
    <3>2. Fetch(size)[j] = blocks[(m_position + k) \div BaseSize + 1][(m_position + k) % BaseSize]
      BY <2>4, <3>1, Zenon
    <3>3. PICK a : a = m_position + k OBVIOUS
    <3>4. PICK i \in Nat : i = m_position + j /\ i - 1 = a BY <1>1, <1>2, <2>1, <3>3
    <3>5. Fetch(size)[j] = blocks[a \div BaseSize + 1][a % BaseSize] BY <3>2, <3>3, Zenon
    <3>6. ByteAt(blocks, i) = blocks[a \div BaseSize + 1][a % BaseSize]
      BY <3>4, Zenon DEF ByteAt
    <3> QED BY <3>4, <3>5, <3>6
  <2>6. m_position + j \in 1..m_size BY <1>1, <1>2
  <2> QED BY <2>5, <2>6 DEF Content
<1>4. Fetch(size) = [j \in 1..size |-> Fetch(size)[j]] BY DEF Fetch
<1>5. Fetch(size) = [j \in 1..size |-> Content[m_position + j]] BY <1>3, <1>4
<1>6. SubSeq(Content, m_position + 1, m_position + size)
        = [j \in 1..size |-> Content[m_position + j]]
  <2>1. Content \in Seq(Nat) /\ Len(Content) = m_size BY ContentType
  <2> HIDE DEF Content
  <2> QED BY <1>1, <1>2, <2>1
<1> QED BY <1>5, <1>6

\* What the loop of write() leaves in the chain: the bytes at their positions,
\* and everything else as it was.
LEMMA StoreIs ==
  ASSUME m_position \in Nat, NEW chain \in Seq(Block), NEW bs \in Seq(Nat), NEW cur,
         Len(bs) > 0 => cur = m_position \div BaseSize + 1,
         NEW i \in Nat, i >= 1, i <= Len(chain) * BaseSize
  PROVE  ByteAt(Store(bs, cur, chain), i)
           = IF i \in (m_position + 1)..(m_position + Len(bs)) THEN bs[i - m_position]
             ELSE ByteAt(chain, i)
<1>1. PICK n \in Nat : n = Len(chain) BY LenProperties
<1>2. PICK size \in Nat : size = Len(bs) BY LenProperties
<1>3. PICK b \in 1..n : b = (i - 1) \div BaseSize + 1 BY <1>1, PlaceExists
<1>4. PICK k \in 0..(BaseSize - 1) : k = (i - 1) % BaseSize BY <1>1, PlaceExists
<1> DEFINE hits == {j \in 1..size : Place(cur, j - 1) = <<b, k>>}
<1>5. ByteAt(Store(bs, cur, chain), i)
        = IF hits = {} THEN chain[b][k] ELSE bs[CHOOSE j \in hits : TRUE]
  BY <1>1, <1>2, <1>3, <1>4 DEF ByteAt, Store
<1>6. ASSUME NEW j \in 1..size PROVE j \in hits <=> m_position + j = i
  <2>1. PICK h \in Nat : h = j - 1 BY <1>2
  <2>2. cur = m_position \div BaseSize + 1 BY <1>2
  <2>3. Place(cur, j - 1) = <<(m_position + h) \div BaseSize + 1, (m_position + h) % BaseSize>>
    BY <2>1, <2>2, PlaceIs
  <2>4. i - 1 \in Nat /\ m_position + h \in Nat OBVIOUS
  <2>5. j \in hits <=> /\ (m_position + h) \div BaseSize + 1 = (i - 1) \div BaseSize + 1
                       /\ (m_position + h) % BaseSize = (i - 1) % BaseSize
    BY <1>3, <1>4, <2>3
  <2>6. j \in hits <=> m_position + h = i - 1
    <3> HIDE DEF hits
    <3> QED BY <2>4, <2>5, PlaceUnique
  <2> HIDE DEF hits
  <2> QED BY <1>2, <2>1, <2>6
<1>7. hits \subseteq 1..size OBVIOUS
<1> HIDE DEF hits
<1>8. CASE i \in (m_position + 1)..(m_position + size)
  <2>1. i - m_position \in 1..size /\ m_position + (i - m_position) = i BY <1>2, <1>8
  <2>2. i - m_position \in hits BY <1>6, <2>1
  <2>3. \A j \in hits : j = i - m_position BY <1>2, <1>6, <1>7
  <2>4. (CHOOSE j \in hits : TRUE) \in hits BY <2>2
  <2> QED BY <1>2, <1>5, <1>8, <2>2, <2>3, <2>4
<1>9. CASE ~(i \in (m_position + 1)..(m_position + size))
  <2>1. hits = {} BY <1>2, <1>6, <1>7, <1>9
  <2> QED BY <1>2, <1>3, <1>4, <1>5, <1>9, <2>1 DEF ByteAt
<1> QED BY <1>8, <1>9

\* The step of a write of bs, and of the other bytes.
Written(bs) ==
  /\ m_position' = m_position + Len(bs)
  /\ Len(Content') = IF m_position' > Len(Content) THEN m_position' ELSE Len(Content)
  /\ \A i \in 1..Len(Content') :
       Content'[i] = IF i \in (m_position + 1)..m_position' THEN bs[i - m_position]
                     ELSE Content[i]

LEMMA WriteContent ==
  ASSUME CurInv, CurInv', NEW bs \in Seq(Nat), NEW len \in Nat, Len(bs) <= len, NEW x \in Junk,
         blocks' = Store(bs, CurAfter(len), Appended(len, x)),
         Len(bs) > 0 => CurAfter(len) = m_position \div BaseSize + 1,
         m_position' = m_position + Len(bs),
         m_size' = IF m_position' > m_size THEN m_position' ELSE m_size
  PROVE  Written(bs)
<1>1. PICK size \in Nat : size = Len(bs) BY LenProperties
<1>2. PICK p \in Nat : p = m_position BY CurIs
<1>3. PICK m \in Nat : m = m_size /\ m <= Len(blocks) * BaseSize BY DEF CurInv, Types, CurCoherent
<1>4. m_position' = p + size /\ m_size' = IF p + size > m THEN p + size ELSE m
  BY <1>1, <1>2, <1>3
<1>5. /\ Len(Content) = m /\ Len(Content') = m_size'
  <2>1. (Len(Content) = m_size)' BY ContentType, PTL
  <2> QED BY <1>3, <2>1, ContentType
<1> DEFINE chain == Appended(len, x)
<1>6. x \in Nat BY ByteArrayAssumption
<1>7. /\ chain \in Seq(Block) /\ Len(blocks') = Len(chain)
      /\ \A b \in 1..Len(blocks) : chain[b] = blocks[b]
  BY <1>6, AppendedIs, StoreType
<1>8. ASSUME NEW i \in 1..m_size'
      PROVE  Content'[i] = IF i \in (p + 1)..(p + size) THEN bs[i - p] ELSE Content[i]
  <2>1. i \in Nat /\ i >= 1 /\ i <= m_size' BY <1>1, <1>2, <1>3, <1>4
  <2>2. i <= Len(chain) * BaseSize
    <3>1. m_size' \in Nat /\ m_size' <= Len(blocks') * BaseSize /\ Len(blocks') \in Nat
      <4>1. (m_size \in Nat /\ m_size <= Len(blocks) * BaseSize)' BY DEF CurInv, Types, CurCoherent
      <4>2. (Len(blocks) \in Nat)' BY CurIs, PTL
      <4> QED BY <4>1, <4>2
    <3>2. Len(blocks') * BaseSize \in Nat BY <3>1
    <3> QED BY <1>7, <2>1, <3>1, <3>2
  <2>3. Content'[i] = ByteAt(blocks', i) BY DEF Content
  <2>4. ByteAt(blocks', i) = IF i \in (p + 1)..(p + size) THEN bs[i - p] ELSE ByteAt(chain, i)
    <3> HIDE DEF chain
    <3>1. blocks' = Store(bs, CurAfter(len), chain) BY DEF chain
    <3> QED BY <1>1, <1>2, <1>7, <2>1, <2>2, <3>1, StoreIs
  <2>5. ~(i \in (p + 1)..(p + size)) => ByteAt(chain, i) = Content[i]
    <3> SUFFICES ASSUME ~(i \in (p + 1)..(p + size)) PROVE ByteAt(chain, i) = Content[i] OBVIOUS
    <3>1. p <= m BY <1>2, <1>3 DEF CurInv, CurCoherent
    <3>2. i \in 1..m BY <1>1, <1>2, <1>3, <1>4, <2>1, <3>1
    <3>3. Len(blocks) \in Nat /\ Len(blocks) * BaseSize \in Nat BY CurIs
    <3>4. i <= Len(blocks) * BaseSize BY <1>3, <3>2, <3>3
    <3>5. (i - 1) \div BaseSize + 1 \in 1..Len(blocks) BY <2>1, <3>3, <3>4, PlaceExists
    <3> HIDE DEF chain
    <3>6. ByteAt(chain, i) = ByteAt(blocks, i) BY <1>7, <3>5, Zenon DEF ByteAt
    <3>7. Content[i] = ByteAt(blocks, i) BY <1>3, <3>2 DEF Content
    <3> QED BY <3>6, <3>7
  <2> QED BY <2>3, <2>4, <2>5
<1> QED BY <1>1, <1>2, <1>4, <1>5, <1>8 DEF Written

LEMMA WriteMaps ==
  ASSUME Written(buf')
  PROVE  File!Write
BY Zenon DEF Written, File!Write, Content, ByteAt

LEMMA ReadsMap ==
  ASSUME CurInv, NEW size \in Nat, Reads(size)
  PROVE  \E n \in 0..Len(Content) : File!Read(n)
<1>1. /\ size \in 1..getReadSize /\ buf' = Fetch(size) /\ m_position' = m_position + size
      /\ blocks' = blocks /\ m_size' = m_size
  BY DEF Reads, MovesTo
<1>2. size \in 0..Len(Content) /\ size <= Len(Content) - m_position
  BY <1>1, CurIs, ContentType DEF getReadSize
<1>3. Content' = Content BY <1>1 DEF Content
<1>4. buf' = SubSeq(Content, m_position + 1, m_position + size) BY <1>1, FetchIs
<1>5. File!Read(size) BY <1>1, <1>2, <1>3, <1>4, Zenon DEF File!Read, Content, ByteAt
<1> QED BY <1>2, <1>5

LEMMA PeekMaps ==
  ASSUME CurInv, ToString
  PROVE  File!Peek
<1>1. /\ getReadSize > 0 /\ buf' = Fetch(getReadSize)
      /\ UNCHANGED <<m_position, m_size, blocks>>
  BY ToStringGoes
<1>2. getReadSize \in 1..getReadSize BY <1>1, CurIs
<1>3. buf' = SubSeq(Content, m_position + 1, m_position + getReadSize) BY <1>1, <1>2, FetchIs
<1>4. m_position + getReadSize = Len(Content) BY CurIs, ContentType DEF getReadSize
<1>5. Content' = Content BY <1>1 DEF Content
<1>6. buf' = SubSeq(Content, m_position + 1, Len(Content)) BY <1>3, <1>4
<1> QED BY <1>1, <1>5, <1>6, Zenon DEF File!Peek, Content, ByteAt

LEMMA SeekMaps ==
  ASSUME CurInv, CurInv', NEW v \in Nat, SetPosition(v)
  PROVE  File!Seek
<1>1. /\ m_position' = v /\ m_size' = IF v > m_size THEN v ELSE m_size
      /\ blocks' = blocks /\ buf' = <<>>
  BY SetPositionGoes DEF MovesTo
<1>2. Content \in Seq(Nat) /\ Len(Content) = m_size /\ m_size \in Nat BY ContentType
<1>3. Content' \in Seq(Nat) /\ Len(Content') = m_size'
  <2>1. (Content \in Seq(Nat) /\ Len(Content) = m_size)' BY ContentType, PTL
  <2> QED BY <2>1
<1>4. \A i \in 1..m_size : Content'[i] = Content[i]
  <2>1. \A i \in 1..m_size : i \in 1..m_size' BY <1>1, <1>2
  <2> QED BY <1>1, <2>1 DEF Content
<1>5. Len(Content') = IF m_position' > Len(Content) THEN m_position' ELSE Len(Content)
  BY <1>1, <1>2, <1>3
<1>6. SubSeq(Content', 1, Len(Content)) = Content
  <2> DEFINE s == Content'
             t == Content
  <2>1. s \in Seq(Nat) /\ t \in Seq(Nat) /\ Len(t) <= Len(s) BY <1>1, <1>2, <1>3
  <2>2. \A i \in 1..Len(t) : s[i] = t[i] BY <1>2, <1>4
  <2> HIDE DEF s, t
  <2>3. SubSeq(s, 1, Len(t)) = t BY <2>1, <2>2
  <2> QED BY <2>3 DEF s, t
<1> QED BY <1>1, <1>5, <1>6, Zenon DEF File!Seek, Content, ByteAt

LEMMA ClearMaps ==
  ASSUME CurInv, CurInv', Clear
  PROVE  File!Clear
<1>1. m_position' = 0 /\ m_size' = 0 /\ buf' = <<>> BY DEF Clear
<1>2. Content' \in Seq(Nat) /\ Len(Content') = m_size'
  <2>1. (Content \in Seq(Nat) /\ Len(Content) = m_size)' BY ContentType, PTL
  <2> QED BY <2>1
<1>3. Content' = <<>>
  <2> DEFINE s == Content'
  <2>1. s \in Seq(Nat) /\ Len(s) = 0 BY <1>1, <1>2
  <2> HIDE DEF s
  <2>2. s = <<>> BY <2>1, EmptySeq
  <2> QED BY <2>2 DEF s
<1> QED BY <1>1, <1>3, Zenon DEF File!Clear, Content, ByteAt

LEMMA WriteBytesMaps ==
  ASSUME CurInv, NEW bs \in Seq(Nat), NEW new, WriteBytes(bs, new)
  PROVE  Written(bs) /\ File!Write
<1>1. CurInv' BY WriteKeeps
<1>2. Len(bs) \in Nat /\ Len(bs) <= Len(bs) BY LenProperties
<1>3. PICK x \in Junk : blocks' = Store(bs, CurAfter(Len(bs)), Appended(Len(bs), x))
  BY WriteGoes
<1>4. Len(bs) > 0 => CurAfter(Len(bs)) = m_position \div BaseSize + 1 BY <1>2, Here
<1>5. /\ m_position' = m_position + Len(bs) /\ buf' = bs
      /\ m_size' = IF m_position' > m_size THEN m_position' ELSE m_size
  BY WriteGoes DEF MovesTo
<1>6. Written(bs) BY <1>1, <1>2, <1>3, <1>4, <1>5, WriteContent
<1>7. Written(buf') BY <1>5, <1>6
<1> QED BY <1>6, <1>7, WriteMaps

LEMMA RecvMaps ==
  ASSUME CurInv, NEW len \in Nat, NEW bs \in Seq(Nat), Recv(len, bs)
  PROVE  Written(bs) /\ File!Write
<1>1. CurInv' BY RecvKeeps
<1>2. Len(bs) <= len /\ len > 0 BY RecvGoes
<1>3. PICK x \in Junk : blocks' = Store(bs, CurAfter(len), Appended(len, x)) BY RecvGoes
<1>4. CurAfter(len) = m_position \div BaseSize + 1 BY <1>2, Here
<1>5. /\ m_position' = m_position + Len(bs) /\ buf' = bs
      /\ m_size' = IF m_position' > m_size THEN m_position' ELSE m_size
  BY RecvGoes DEF MovesTo
<1>6. Written(bs) BY <1>1, <1>2, <1>3, <1>4, <1>5, WriteContent
<1>7. Written(buf') BY <1>5, <1>6
<1> QED BY <1>6, <1>7, WriteMaps

\* New blocks behind the last one hold no byte of the content.
LEMMA GrownContent ==
  ASSUME CurInv, NEW len \in Nat, NEW x \in Junk, blocks' = Appended(len, x), m_size' = m_size
  PROVE  Content' = Content
<1>1. PICK m \in Nat : m = m_size /\ m <= Len(blocks) * BaseSize
  BY DEF CurInv, Types, CurCoherent
<1>2. x \in Nat BY ByteArrayAssumption
<1>3. \A b \in 1..Len(blocks) : blocks'[b] = blocks[b] BY <1>2, AppendedIs
<1>4. Len(blocks) \in Nat /\ Len(blocks) * BaseSize \in Nat BY CurIs
<1>5. ASSUME NEW i \in 1..m PROVE ByteAt(blocks', i) = ByteAt(blocks, i)
  <2>1. i \in Nat /\ i >= 1 /\ i <= Len(blocks) * BaseSize BY <1>1, <1>4
  <2>2. (i - 1) \div BaseSize + 1 \in 1..Len(blocks) BY <1>4, <2>1, PlaceExists
  <2> QED BY <1>3, <2>2, Zenon DEF ByteAt
<1>6. Content = [i \in 1..m |-> ByteAt(blocks, i)] BY <1>1 DEF Content
<1>7. Content' = [i \in 1..m |-> ByteAt(blocks', i)] BY <1>1 DEF Content
<1> QED BY <1>5, <1>6, <1>7

LEMMA RecvFailsMaps ==
  ASSUME CurInv, NEW len \in Nat, len > 0, RecvFails(len)
  PROVE  Content' = Content /\ File!Seek
<1>1. UNCHANGED <<m_position, m_size>> /\ buf' = <<>> BY RecvFailsGoes
<1>2. PICK x \in Junk : blocks' = Appended(len, x) BY RecvFailsGoes
<1>3. Content' = Content BY <1>1, <1>2, GrownContent
<1>4. Content \in Seq(Nat) /\ Len(Content) = m_size /\ m_size \in Nat BY ContentType
<1>5. m_position \in Nat /\ m_position <= m_size BY DEF CurInv, Types, CurCoherent
<1>6. Len(Content') = IF m_position' > Len(Content) THEN m_position' ELSE Len(Content)
  BY <1>1, <1>3, <1>4, <1>5
<1>7. SubSeq(Content', 1, Len(Content)) = Content
  <2> DEFINE t == Content
  <2>1. t \in Seq(Nat) /\ Content' = t BY <1>3, <1>4
  <2> HIDE DEF t
  <2>2. SubSeq(t, 1, Len(t)) = t BY <2>1
  <2> QED BY <2>1, <2>2 DEF t
<1> QED BY <1>1, <1>3, <1>6, <1>7, Zenon DEF File!Seek, Content, ByteAt

LEMMA ReadsNext ==
  ASSUME CurInv, NEW size \in Nat, Reads(size)
  PROVE  File!Next
BY ReadsMap, Zenon DEF File!Next, Content, ByteAt

LEMMA FileInit == Init => File!Init
<1> SUFFICES ASSUME Init PROVE File!Init OBVIOUS
<1>1. m_position = 0 /\ m_size = 0 /\ buf = <<>> BY DEF Init
<1>2. Content \in Seq(Nat) /\ Len(Content) = 0 BY <1>1, CurInit, ContentType
<1>3. Content = <<>>
  <2> HIDE DEF Content
  <2> QED BY <1>2, EmptySeq
<1> QED BY <1>1, <1>3, Zenon DEF File!Init, Content, ByteAt

LEMMA FileStep ==
  ASSUME 0 \notin ReadSizes, CurInv, [Next]_vars
  PROVE  [File!Next]_(File!vars)
<1>1. ASSUME NEW bs \in Raw, Write(bs) PROVE File!Next
  <2>1. bs \in Seq(Nat) BY ByteArrayAssumption
  <2>2. File!Write BY <1>1, <2>1, WriteBytesMaps DEF Write
  <2> QED BY <2>2, Zenon DEF File!Next
<1>2. ASSUME NEW bs \in Raw, NEW len \in 1..BaseSize + 1, Recv(len, bs) PROVE File!Next
  <2>1. bs \in Seq(Nat) BY ByteArrayAssumption
  <2>2. len \in Nat OBVIOUS
  <2>3. File!Write BY <1>2, <2>1, <2>2, RecvMaps
  <2> QED BY <2>3, Zenon DEF File!Next
<1>3. ASSUME NEW v \in Ints, WriteInt(v) PROVE File!Next
  <2>1. File!Write BY <1>3, IntBytes, WriteBytesMaps DEF WriteInt
  <2> QED BY <2>1, Zenon DEF File!Next
<1>4. ASSUME NEW size \in ReadSizes, Read(size) PROVE File!Next
  <2>1. size \in Nat BY ByteArrayAssumption
  <2> QED BY <1>4, <2>1, ReadGoes, ReadsNext
<1>5. ASSUME NEW size \in ReadSizes, NEW len \in ReadSizes, Send(len, size) PROVE File!Next
  <2>1. size \in Nat /\ len \in Nat BY ByteArrayAssumption
  <2> QED BY <1>5, <2>1, SendGoes, ReadsNext
<1>6. ASSUME NEW v \in 0..MaxBlocks * BaseSize, SetPosition(v) PROVE File!Next
  <2>1. v \in Nat OBVIOUS
  <2>2. SetPosition(v) => Next BY DEF Next
  <2>3. CurInv' BY <1>6, <2>2, CurStep
  <2>4. File!Seek BY <1>6, <2>1, <2>3, SeekMaps
  <2> QED BY <2>4, Zenon DEF File!Next
<1>7. CASE ReadInt BY <1>7, ReadIntGoes, ReadsNext
<1>8. CASE ToString
  <2>1. File!Peek BY <1>8, PeekMaps
  <2> QED BY <2>1, Zenon DEF File!Next
<1>9. CASE Clear
  <2>1. CurInv' BY <1>9, ClearKeeps
  <2>2. File!Clear BY <1>9, <2>1, ClearMaps
  <2> QED BY <2>2, Zenon DEF File!Next
<1>10. CASE UNCHANGED vars
  <2>1. UNCHANGED <<m_position, m_size, blocks, buf>> BY <1>10 DEF vars
  <2>2. Content' = Content BY <2>1 DEF Content
  <2>3. UNCHANGED File!vars BY <2>1, <2>2 DEF File!vars, Content, ByteAt
  <2> QED BY <2>3
<1>11. ASSUME NEW len \in 1..BaseSize + 1, RecvFails(len) PROVE File!Next
  <2>1. len \in Nat /\ len > 0 OBVIOUS
  <2>2. File!Seek BY <1>11, <2>1, RecvFailsMaps
  <2> QED BY <2>2, Zenon DEF File!Next
<1> QED BY <1>1, <1>2, <1>3, <1>4, <1>5, <1>6, <1>7, <1>8, <1>9, <1>10, <1>11 DEF Next

\* The chain of blocks implements the file of bytes, for every block size and
\* whatever falls on a boundary between blocks: what write(), writeInt32() or
\* recv() put at a position is what read(), readInt32(), toString() or send()
\* find there, until it is overwritten or cleared.
THEOREM KeepsTheorem ==
  ASSUME 0 \notin ReadSizes
  PROVE  Spec => KeepsBytes
<1>1. Init => CurInv BY CurInit
<1>2. CurInv /\ [Next]_vars => CurInv' BY CurStep
<1>3. Init => File!Init BY FileInit
<1>4. CurInv /\ [Next]_vars => [File!Next]_(File!vars) BY FileStep
<1>5. Spec => File!Spec BY <1>1, <1>2, <1>3, <1>4, PTL DEF Spec, File!Spec
<1> QED BY <1>5 DEF KeepsBytes
----------------------------------------------------------------------------
(* Integers are read back: recursion along the natural numbers, for Weight  *)
(* and the sums of readUint32().                                            *)

\* h starts with z and goes on by the steps of g, up to n.
Started(z, g, n, h) ==
  h[0] = z /\ \A k \in 0..(n - 1) : h[k] \in Nat /\ h[k + 1] = g[k][h[k]] /\ h[k + 1] \in Nat

LEMMA StartedExists ==
  ASSUME NEW z \in Nat, NEW g \in [Nat -> [Nat -> Nat]]
  PROVE  \A n \in Nat : \E h : Started(z, g, n, h)
<1> DEFINE T == {n \in Nat : ~\E h : Started(z, g, n, h)}
<1> SUFFICES ASSUME T # {} PROVE FALSE OBVIOUS
<1>1. PICK n \in T : \A k \in T : n <= k BY LeastNatural
<1>2. n \in Nat /\ ~\E h : Started(z, g, n, h) OBVIOUS
<1>3. CASE n = 0
  <2> DEFINE h == [u \in {0} |-> z]
  <2>1. h[0] = z OBVIOUS
  <2> HIDE DEF h
  <2>2. Started(z, g, 0, h) BY <2>1 DEF Started
  <2> QED BY <1>2, <1>3, <2>2
<1>4. CASE n # 0
  <2>1. PICK m \in Nat : m + 1 = n /\ m \notin T
    <3>1. n - 1 \in Nat /\ (n - 1) + 1 = n BY <1>2, <1>4
    <3> HIDE DEF T
    <3>2. ~(n <= n - 1) BY <1>2
    <3>3. n - 1 \notin T BY <1>1, <3>2, Zenon
    <3> QED BY <3>1, <3>3
  <2>2. PICK f : Started(z, g, m, f) BY <2>1
  <2>3. f[m] \in Nat
    <3>1. CASE m = 0 BY <2>2, <3>1 DEF Started
    <3>2. CASE m # 0
      <4>1. m - 1 \in 0..(m - 1) /\ (m - 1) + 1 = m BY <3>2
      <4> QED BY <2>2, <4>1 DEF Started
    <3> QED BY <3>1, <3>2
  <2> DEFINE h == [u \in 0..n |-> IF u < n THEN f[u] ELSE g[m][f[m]]]
  <2>4. h[0] = z BY <2>1, <2>2 DEF Started
  <2>5. ASSUME NEW k \in 0..(n - 1)
        PROVE  h[k] \in Nat /\ h[k + 1] = g[k][h[k]] /\ h[k + 1] \in Nat
    <3>1. CASE k < m
      <4>1. k \in 0..(m - 1) /\ k \in 0..n /\ k + 1 \in 0..n /\ k < n /\ k + 1 < n
        BY <2>1, <3>1
      <4>2. h[k] = f[k] /\ h[k + 1] = f[k + 1] BY <4>1
      <4> QED BY <2>2, <4>1, <4>2 DEF Started
    <3>2. CASE k = m
      <4>1. k \in 0..n /\ k + 1 \in 0..n /\ k < n /\ ~(k + 1 < n) BY <2>1, <3>2
      <4>2. h[k] = f[m] /\ h[k + 1] = g[m][f[m]] BY <3>2, <4>1
      <4>3. g[m][f[m]] \in Nat BY <2>3
      <4> QED BY <2>3, <3>2, <4>2, <4>3
    <3> QED BY <2>1, <3>1, <3>2
  <2> HIDE DEF h
  <2>6. Started(z, g, n, h) BY <2>4, <2>5 DEF Started
  <2> QED BY <1>2, <2>6
<1> QED BY <1>3, <1>4

LEMMA Iterates ==
  ASSUME NEW z \in Nat, NEW g \in [Nat -> [Nat -> Nat]]
  PROVE  \E h : /\ h \in [Nat -> Nat] /\ h[0] = z
                /\ \A k \in Nat : h[k + 1] = g[k][h[k]]
<1> DEFINE Part(n) == CHOOSE h : Started(z, g, n, h)
           h == [n \in Nat |-> Part(n)[n]]
<1>1. \A n \in Nat : Started(z, g, n, Part(n)) BY StartedExists
<1> HIDE DEF Part
<1>2. ASSUME NEW n \in Nat, NEW m \in Nat
      PROVE  \A v \in Nat : v <= n /\ v <= m => Part(n)[v] = Part(m)[v]
  <2>1. PICK a, b : a = Part(n) /\ b = Part(m) OBVIOUS
  <2>2. Started(z, g, n, a) /\ Started(z, g, m, b) BY <1>1, <2>1
  <2> DEFINE T == {u \in Nat : u <= n /\ u <= m /\ a[u] # b[u]}
  <2>3. T = {}
    <3> SUFFICES ASSUME T # {} PROVE FALSE OBVIOUS
    <3>1. PICK u \in T : \A k \in T : u <= k BY LeastNatural
    <3>2. u \in Nat /\ u <= n /\ u <= m /\ a[u] # b[u] OBVIOUS
    <3>3. u # 0 BY <2>2, <3>2 DEF Started
    <3>4. PICK k \in Nat : k + 1 = u
      <4>1. u - 1 \in Nat /\ (u - 1) + 1 = u BY <3>2, <3>3
      <4> QED BY <4>1
    <3>5. k \notin T /\ k \in 0..(n - 1) /\ k \in 0..(m - 1) BY <3>1, <3>2, <3>4
    <3>6. a[k] = b[k] BY <3>5
    <3>7. a[k + 1] = g[k][a[k]] /\ b[k + 1] = g[k][b[k]] BY <2>2, <3>5 DEF Started
    <3> QED BY <3>2, <3>4, <3>6, <3>7
  <2> QED BY <2>1, <2>3
<1>3. h[0] = z BY <1>1 DEF Started
<1>4. ASSUME NEW k \in Nat PROVE h[k] \in Nat /\ h[k + 1] = g[k][h[k]]
  <2>1. PICK n \in Nat : n = k + 1 OBVIOUS
  <2>2. Started(z, g, n, Part(n)) /\ Started(z, g, k, Part(k)) BY <1>1
  <2>3. Part(n)[k] = Part(k)[k]
    <3>1. k \in Nat /\ k <= n /\ k <= k BY <2>1
    <3> QED BY <1>2, <3>1
  <2>4. k \in 0..(n - 1) BY <2>1
  <2>5. Part(n)[k] \in Nat /\ Part(n)[k + 1] = g[k][Part(n)[k]] BY <2>2, <2>4 DEF Started
  <2>6. h[k] = Part(k)[k] /\ h[k + 1] = Part(n)[k + 1] BY <2>1
  <2> QED BY <2>3, <2>5, <2>6
<1>5. h \in [Nat -> Nat] BY <1>4
<1> HIDE DEF h
<1> QED BY <1>3, <1>4, <1>5

LEMMA WeightIs ==
  /\ Weight \in [Nat -> Nat] /\ Weight[0] = 1
  /\ \A k \in Nat : Weight[k + 1] = Radix * Weight[k]
<1>1. PICK R \in Nat : R = Radix /\ R > 1 BY RadixFacts
<1> DEFINE g == [k \in Nat |-> [x \in Nat |-> R * x]]
<1>2. g \in [Nat -> [Nat -> Nat]]
  <2>1. \A x \in Nat : R * x \in Nat OBVIOUS
  <2> QED BY <2>1
<1>3. \A k \in Nat, x \in Nat : g[k][x] = R * x OBVIOUS
<1> HIDE DEF g
<1>4. PICK h : h \in [Nat -> Nat] /\ h[0] = 1 /\ \A k \in Nat : h[k + 1] = g[k][h[k]]
  <2>1. 1 \in Nat OBVIOUS
  <2> QED BY <1>2, <2>1, Iterates, Zenon
<1>5. \A k \in Nat : h[k + 1] = R * h[k] BY <1>3, <1>4
<1>6. ASSUME NEW k \in Nat PROVE h[k] = IF k = 0 THEN 1 ELSE R * h[k - 1]
  <2>1. CASE k = 0 BY <1>4, <2>1
  <2>2. CASE k # 0
    <3>1. k - 1 \in Nat /\ (k - 1) + 1 = k BY <2>2
    <3>2. h[(k - 1) + 1] = R * h[k - 1] BY <1>5, <3>1
    <3> QED BY <2>2, <3>1, <3>2
  <2> QED BY <2>1, <2>2
<1>7. h = [k \in Nat |-> IF k = 0 THEN 1 ELSE Radix * h[k - 1]] BY <1>1, <1>4, <1>6
<1>8. Weight = [k \in Nat |-> IF k = 0 THEN 1 ELSE Radix * Weight[k - 1]]
  <2>1. \E w : w = [k \in Nat |-> IF k = 0 THEN 1 ELSE Radix * w[k - 1]] BY <1>7
  <2> QED BY <2>1 DEF Weight
<1> DEFINE T == {k \in Nat : Weight[k] # h[k]}
<1>9. T = {}
  <2> SUFFICES ASSUME T # {} PROVE FALSE OBVIOUS
  <2>1. PICK u \in T : \A k \in T : u <= k BY LeastNatural
  <2>2. u \in Nat /\ Weight[u] # h[u] OBVIOUS
  <2>3. u # 0 BY <1>4, <1>8, <2>2
  <2>4. u - 1 \in Nat /\ u - 1 \notin T BY <2>1, <2>2, <2>3
  <2>5. Weight[u - 1] = h[u - 1] BY <2>4
  <2>6. Weight[u] = Radix * Weight[u - 1] BY <1>8, <2>2, <2>3
  <2>7. h[u] = Radix * h[u - 1] BY <1>1, <1>6, <2>2, <2>3
  <2> QED BY <2>2, <2>5, <2>6, <2>7
<1>10. \A k \in Nat : Weight[k] = h[k] BY <1>9
<1>11. Weight = h BY <1>4, <1>8, <1>10
<1> QED BY <1>1, <1>4, <1>5, <1>11

LEMMA WeightPositive == \A k \in Nat : Weight[k] \in Nat /\ Weight[k] > 0
<1> DEFINE T == {k \in Nat : ~(Weight[k] > 0)}
<1>1. T = {}
  <2> SUFFICES ASSUME T # {} PROVE FALSE OBVIOUS
  <2>1. PICK u \in T : \A k \in T : u <= k BY LeastNatural
  <2>2. u \in Nat /\ ~(Weight[u] > 0) OBVIOUS
  <2>3. u # 0 BY <2>2, WeightIs
  <2>4. PICK k \in Nat : k + 1 = u
    <3>1. u - 1 \in Nat /\ (u - 1) + 1 = u BY <2>2, <2>3
    <3> QED BY <3>1
  <2>5. k \notin T BY <2>1, <2>2, <2>4
  <2>6. Weight[k] > 0 /\ Weight[k] \in Nat BY <2>5, WeightIs
  <2>7. Weight[u] = Radix * Weight[k] BY <2>4, WeightIs
  <2>8. ASSUME NEW a \in Nat, NEW b \in Nat, a > 0, b > 0 PROVE a * b > 0 BY <2>8
  <2>9. Radix \in Nat /\ Radix > 0 BY RadixFacts
  <2>10. Radix * Weight[k] > 0 BY <2>6, <2>8, <2>9
  <2> QED BY <2>2, <2>7, <2>10
<1>2. \A k \in Nat : Weight[k] > 0 BY <1>1
<1> QED BY <1>2, WeightIs

\* What readUint32() has when it has read k bytes.
Sum(bs) ==
  LET sum[k \in 0..Len(bs)] ==
        IF k = 0 THEN 0 ELSE sum[k - 1] + (bs[k] % Radix) * Weight[k - 1]
  IN sum

LEMMA SumIs ==
  ASSUME NEW bs \in Seq(Nat)
  PROVE  /\ Sum(bs)[0] = 0
         /\ \A k \in 0..(Len(bs) - 1) :
              /\ Sum(bs)[k] \in Nat
              /\ Sum(bs)[k + 1] = Sum(bs)[k] + (bs[k + 1] % Radix) * Weight[k]
<1>1. PICK n \in Nat : n = Len(bs) BY LenProperties
<1>2. PICK R \in Nat : R = Radix /\ R > 1 BY RadixFacts
<1> DEFINE t == [k \in Nat |-> IF k < n THEN (bs[k + 1] % R) * Weight[k] ELSE 0]
           g == [k \in Nat |-> [x \in Nat |-> x + t[k]]]
<1>3. t \in [Nat -> Nat]
  <2>1. ASSUME NEW k \in Nat, k < n PROVE (bs[k + 1] % R) * Weight[k] \in Nat
    <3>1. k + 1 \in 1..n BY <2>1
    <3>2. bs[k + 1] \in Nat BY <1>1, <3>1, ElementOfSeq
    <3>3. PICK r \in Nat : r = bs[k + 1] % R BY <1>2, <3>2
    <3>4. PICK w \in Nat : w = Weight[k] BY WeightIs
    <3>5. r * w \in Nat OBVIOUS
    <3> QED BY <3>3, <3>4, <3>5
  <2> QED BY <2>1
<1>4. g \in [Nat -> [Nat -> Nat]] /\ \A k \in Nat, x \in Nat : g[k][x] = x + t[k]
  <2> HIDE DEF t
  <2> QED BY <1>3
<1>5. \A k \in Nat : k < n => t[k] = (bs[k + 1] % R) * Weight[k] OBVIOUS
<1> HIDE DEF t, g
<1>6. PICK h : h \in [Nat -> Nat] /\ h[0] = 0 /\ \A k \in Nat : h[k + 1] = g[k][h[k]]
  <2>1. 0 \in Nat OBVIOUS
  <2> QED BY <1>4, <2>1, Iterates, Zenon
<1>7. \A k \in Nat : h[k] \in Nat /\ h[k + 1] = h[k] + t[k] BY <1>4, <1>6
<1> DEFINE f == [k \in 0..n |-> h[k]]
<1>8. ASSUME NEW k \in 0..n
      PROVE  f[k] = IF k = 0 THEN 0 ELSE f[k - 1] + (bs[k] % R) * Weight[k - 1]
  <2>1. CASE k = 0 BY <1>6, <2>1
  <2>2. CASE k # 0
    <3>1. PICK m \in Nat : m = k - 1 BY <2>2
    <3>2. m + 1 = k /\ m < n /\ m \in 0..n BY <2>2, <3>1
    <3>3. h[m + 1] = h[m] + t[m] BY <1>7
    <3>4. t[m] = (bs[m + 1] % R) * Weight[m] BY <1>5, <3>2
    <3>5. f[k] = h[m + 1] /\ f[k - 1] = h[m] BY <3>1, <3>2
    <3> HIDE DEF f
    <3>6. f[k] = f[k - 1] + (bs[k] % R) * Weight[k - 1] BY <3>1, <3>2, <3>3, <3>4, <3>5
    <3> QED BY <2>2, <3>6
  <2> QED BY <2>1, <2>2
<1>9. f = [k \in 0..n |-> IF k = 0 THEN 0 ELSE f[k - 1] + (bs[k] % R) * Weight[k - 1]]
  <2>1. f = [k \in 0..n |-> f[k]] OBVIOUS
  <2> HIDE DEF f
  <2> QED BY <1>8, <2>1
<1> HIDE DEF f
<1>10. \E s : s = [k \in 0..Len(bs) |-> IF k = 0 THEN 0
                                        ELSE s[k - 1] + (bs[k] % Radix) * Weight[k - 1]]
  BY <1>1, <1>2, <1>9
<1>11. Sum(bs) = [k \in 0..n |-> IF k = 0 THEN 0
                                 ELSE Sum(bs)[k - 1] + (bs[k] % R) * Weight[k - 1]]
  BY <1>1, <1>2, <1>10 DEF Sum
<1>12. PICK s : s = Sum(bs) OBVIOUS
<1>13. \A k \in 0..n : s[k] = IF k = 0 THEN 0 ELSE s[k - 1] + (bs[k] % R) * Weight[k - 1]
  BY <1>11, <1>12
<1>14. s[0] = 0 BY <1>13
<1>15. \A k \in 0..(n - 1) : s[k + 1] = s[k] + (bs[k + 1] % R) * Weight[k]
  <2> SUFFICES ASSUME NEW k \in 0..(n - 1) PROVE s[k + 1] = s[k] + (bs[k + 1] % R) * Weight[k]
    OBVIOUS
  <2>1. PICK m \in 0..n : m = k + 1 /\ m # 0 /\ m - 1 = k OBVIOUS
  <2>2. s[m] = s[m - 1] + (bs[m] % R) * Weight[m - 1] BY <1>13, <2>1
  <2> QED BY <2>1, <2>2
<1> DEFINE T == {k \in Nat : k <= n /\ s[k] # h[k]}
<1>16. T = {}
  <2> SUFFICES ASSUME T # {} PROVE FALSE OBVIOUS
  <2>1. PICK u \in T : \A k \in T : u <= k BY LeastNatural
  <2>2. u \in Nat /\ u <= n /\ s[u] # h[u] OBVIOUS
  <2>3. u # 0 BY <1>6, <1>14, <2>2
  <2>4. PICK k \in Nat : k + 1 = u
    <3>1. u - 1 \in Nat /\ (u - 1) + 1 = u BY <2>2, <2>3
    <3> QED BY <3>1
  <2>5. k \notin T /\ k \in 0..(n - 1) /\ k < n BY <2>1, <2>2, <2>4
  <2>6. s[k] = h[k] BY <2>5
  <2>7. s[k + 1] = s[k] + (bs[k + 1] % R) * Weight[k] BY <1>15, <2>5
  <2>8. h[k + 1] = h[k] + (bs[k + 1] % R) * Weight[k] BY <1>5, <1>7, <2>5
  <2> QED BY <2>2, <2>4, <2>6, <2>7, <2>8
<1>17. \A k \in 0..(n - 1) : s[k] \in Nat
  <2> SUFFICES ASSUME NEW k \in 0..(n - 1) PROVE s[k] \in Nat OBVIOUS
  <2>1. k \in Nat /\ k <= n /\ k \notin T BY <1>16
  <2>2. s[k] = h[k] BY <2>1
  <2> QED BY <1>7, <2>1, <2>2
<1> QED BY <1>1, <1>2, <1>12, <1>14, <1>15, <1>17
----------------------------------------------------------------------------
(* What writeUint32() writes and readUint32() makes of it.                  *)

\* The first group of a longer number, and the others.
SplitAs(u, w, r, q) ==
  /\ w < u /\ r < Radix /\ u = Radix * w + r
  /\ q = Groups[w]
  /\ Len(Groups[u]) = Len(q) + 1 /\ Groups[u][1] = r + Radix
  /\ \A i \in 1..Len(q) : Groups[u][i + 1] = q[i]

LEMMA GroupsSplit ==
  ASSUME NEW u \in Nat, u >= Radix
  PROVE  \E w \in Nat, r \in Nat, q \in Seq(Nat) : SplitAs(u, w, r, q)
<1>1. PICK R \in Nat : R = Radix /\ R > 1 BY RadixFacts
<1>2. PICK w \in 0..(u - 1) : w = u \div Radix BY RestSmaller
<1>3. PICK r \in Nat : r = u % R /\ r < R BY <1>1
<1>4. u = R * w + r BY <1>1, <1>2, <1>3
<1>5. PICK q \in Seq(Nat) : q = Groups[w] BY <1>2, GroupsType
<1>6. ~(u < R) BY <1>1
<1>7. Groups[u] = <<r + R>> \o q BY <1>1, <1>2, <1>3, <1>5, <1>6, GroupsDef DEF GroupsAt
<1>8. PICK d \in Nat : d = r + R OBVIOUS
<1>9. <<d>> \in Seq(Nat) /\ Len(<<d>>) = 1 /\ <<d>>[1] = d OBVIOUS
<1>10. /\ Len(<<d>> \o q) = 1 + Len(q)
       /\ \A i \in 1..(1 + Len(q)) :
            (<<d>> \o q)[i] = IF i <= 1 THEN <<d>>[i] ELSE q[i - 1]
  BY <1>9, ConcatProperties
<1>11. Len(q) \in Nat BY LenProperties
<1>12. (<<d>> \o q)[1] = d BY <1>9, <1>10, <1>11
<1>13. \A i \in 1..Len(q) : (<<d>> \o q)[i + 1] = q[i]
  <2> SUFFICES ASSUME NEW i \in 1..Len(q) PROVE (<<d>> \o q)[i + 1] = q[i] OBVIOUS
  <2>1. i + 1 \in 1..(1 + Len(q)) /\ ~(i + 1 <= 1) /\ (i + 1) - 1 = i BY <1>11
  <2> QED BY <1>10, <2>1
<1>14. PICK s : s = <<d>> \o q OBVIOUS
<1>15. Groups[u] = s /\ Len(s) = Len(q) + 1 /\ s[1] = d /\ \A i \in 1..Len(q) : s[i + 1] = q[i]
  BY <1>7, <1>8, <1>10, <1>11, <1>12, <1>13, <1>14
<1>16. w \in Nat /\ w < u BY <1>2
<1>17. SplitAs(u, w, r, q) BY <1>1, <1>3, <1>4, <1>5, <1>8, <1>15, <1>16 DEF SplitAs
<1> QED BY <1>16, <1>17

LEMMA GroupsShort ==
  ASSUME NEW u \in Nat, u < Radix
  PROVE  Groups[u] = <<u>> /\ Len(Groups[u]) = 1 /\ Groups[u][1] = u
<1>1. Groups[u] = <<u>> BY GroupsDef DEF GroupsAt
<1> QED BY <1>1

\* Exactly the last group has the high bit clear.
Ended(g) == g[Len(g)] < Radix /\ \A k \in 1..(Len(g) - 1) : g[k] >= Radix

LEMMA GroupsEnd == \A u \in Nat : Ended(Groups[u])
<1> DEFINE T == {u \in Nat : ~Ended(Groups[u])}
<1>1. T = {}
  <2> SUFFICES ASSUME T # {} PROVE FALSE OBVIOUS
  <2>1. PICK u \in T : \A k \in T : u <= k BY LeastNatural
  <2>2. u \in Nat /\ ~Ended(Groups[u]) OBVIOUS
  <2>3. Radix \in Nat /\ Radix > 1 BY RadixFacts
  <2>4. CASE u < Radix
    <3>1. Len(Groups[u]) = 1 /\ Groups[u][1] = u BY <2>2, <2>4, GroupsShort
    <3>2. Ended(Groups[u]) BY <2>4, <3>1 DEF Ended
    <3> QED BY <2>2, <3>2
  <2>5. CASE ~(u < Radix)
    <3>1. u >= Radix BY <2>2, <2>3, <2>5
    <3>0. PICK w \in Nat, r \in Nat, q \in Seq(Nat) : SplitAs(u, w, r, q)
      BY <2>2, <3>1, GroupsSplit
    <3>2. /\ w < u /\ q = Groups[w]
          /\ Len(Groups[u]) = Len(q) + 1 /\ Groups[u][1] = r + Radix
          /\ \A i \in 1..Len(q) : Groups[u][i + 1] = q[i]
      BY <3>0 DEF SplitAs
    <3>3. w \notin T BY <2>1, <2>2, <3>2
    <3>4. Ended(q) BY <3>2, <3>3
    <3>5. Len(q) \in Nat /\ Len(q) > 0 BY <3>2, GroupsType, LenProperties
    <3>6. PICK s : s = Groups[u] OBVIOUS
    <3>7. s[Len(s)] < Radix
      <4>1. Len(q) \in 1..Len(q) BY <3>5
      <4>2. s[Len(q) + 1] = q[Len(q)] BY <3>2, <3>6, <4>1
      <4>3. Len(s) = Len(q) + 1 BY <3>2, <3>6
      <4> QED BY <3>4, <4>2, <4>3 DEF Ended
    <3>8. ASSUME NEW k \in 1..(Len(s) - 1) PROVE s[k] >= Radix
      <4>1. CASE k = 1 BY <2>3, <3>2, <3>6, <4>1
      <4>2. CASE k # 1
        <5>1. PICK i \in 1..(Len(q) - 1) : k = i + 1 BY <3>2, <3>5, <3>6, <4>2
        <5>2. i \in 1..Len(q) BY <3>5
        <5>3. s[k] = q[i] BY <3>2, <3>6, <5>1, <5>2
        <5> QED BY <3>4, <5>3 DEF Ended
      <4> QED BY <4>1, <4>2
    <3>9. Ended(s) BY <3>7, <3>8 DEF Ended
    <3> QED BY <2>2, <3>6, <3>9
  <2> QED BY <2>4, <2>5
<1> QED BY <1>1

\* A number below the weight of group m has m groups at most.
LEMMA GroupsFew ==
  \A u \in Nat : \A m \in Nat : m > 0 /\ u < Weight[m] => Len(Groups[u]) <= m
<1> DEFINE Bad(u) == \E m \in Nat : m > 0 /\ u < Weight[m] /\ ~(Len(Groups[u]) <= m)
           T == {u \in Nat : Bad(u)}
<1>1. T = {}
  <2> SUFFICES ASSUME T # {} PROVE FALSE OBVIOUS
  <2>1. PICK u \in T : \A k \in T : u <= k BY LeastNatural
  <2>2. PICK m \in Nat : u \in Nat /\ m > 0 /\ u < Weight[m] /\ ~(Len(Groups[u]) <= m) OBVIOUS
  <2>3. PICK R \in Nat : R = Radix /\ R > 1 BY RadixFacts
  <2>4. u >= R
    <3>1. SUFFICES ASSUME u < R PROVE FALSE BY <2>2, <2>3
    <3>2. Len(Groups[u]) = 1 BY <2>2, <2>3, <3>1, GroupsShort
    <3> QED BY <2>2, <3>2
  <2>0. PICK w \in Nat, r \in Nat, q \in Seq(Nat) : SplitAs(u, w, r, q)
    BY <2>2, <2>3, <2>4, GroupsSplit
  <2>5. w < u /\ u = Radix * w + r /\ q = Groups[w] /\ Len(Groups[u]) = Len(q) + 1
    BY <2>0 DEF SplitAs
  <2>6. PICK k \in Nat : k + 1 = m
    <3>1. m - 1 \in Nat /\ (m - 1) + 1 = m BY <2>2
    <3> QED BY <3>1
  <2>7. PICK v \in Nat : v = Weight[k] /\ Weight[m] = R * v BY <2>3, <2>6, WeightIs
  <2>8. w < v
    <3>1. SUFFICES ASSUME w >= v PROVE FALSE OBVIOUS
    <3>2. R * w >= R * v
      <4>1. PICK d \in Nat : w = v + d
        <5>1. w - v \in Nat /\ w = v + (w - v) BY <3>1
        <5> QED BY <5>1
      <4>2. R * (v + d) = R * v + R * d OBVIOUS
      <4>3. R * d \in Nat /\ R * v \in Nat OBVIOUS
      <4> QED BY <4>1, <4>2, <4>3
    <3>3. R * w \in Nat /\ R * v \in Nat OBVIOUS
    <3> QED BY <2>2, <2>3, <2>5, <2>7, <3>2, <3>3
  <2>9. k > 0
    <3>1. SUFFICES ASSUME k = 0 PROVE FALSE OBVIOUS
    <3>2. v = 1 BY <2>7, <3>1, WeightIs
    <3>3. R * v = R BY <3>2
    <3> QED BY <2>2, <2>4, <2>7, <3>3
  <2>10. ~(u <= w) BY <2>2, <2>5
  <2>11. ~Bad(w)
    <3>1. w \notin T
      <4> HIDE DEF T
      <4> QED BY <2>1, <2>10
    <3> HIDE DEF Bad
    <3> QED BY <3>1
  <2>12. Len(Groups[w]) <= k BY <2>7, <2>8, <2>9, <2>11
  <2>13. Len(q) \in Nat BY LenProperties
  <2> QED BY <2>2, <2>5, <2>6, <2>12, <2>13
<1> QED BY <1>1

LEMMA ModSmall ==
  ASSUME NEW d \in Nat, NEW r \in Nat, r < d
  PROVE  r % d = r /\ (r + d) % d = r
<1>1. ASSUME NEW a \in Nat, NEW k \in Nat, a = r + k * d PROVE a % d = r
  <2>1. PICK q \in Nat : q = a \div d OBVIOUS
  <2>2. PICK s \in Nat : s = a % d /\ s < d OBVIOUS
  <2>3. a = d * q + s BY <2>1, <2>2
  <2>4. ASSUME NEW x \in Nat, NEW y \in Nat, x < y PROVE x * d + d <= y * d
    <3>1. y - x >= 1 BY <2>4
    <3>2. (y - x) * d >= d BY <3>1
    <3>3. (y - x) * d = y * d - x * d OBVIOUS
    <3>4. x * d \in Int /\ y * d \in Int OBVIOUS
    <3> QED BY <3>2, <3>3, <3>4
  <2>5. q * d \in Nat /\ k * d \in Nat /\ d * q = q * d OBVIOUS
  <2>6. ~(q < k) BY <1>1, <2>2, <2>3, <2>4, <2>5
  <2>7. ~(k < q) BY <1>1, <2>2, <2>3, <2>4, <2>5
  <2>8. q = k BY <2>6, <2>7
  <2> QED BY <1>1, <2>2, <2>3, <2>5, <2>8
<1>2. r = r + 0 * d OBVIOUS
<1>3. r + d = r + 1 * d /\ r + d \in Nat OBVIOUS
<1>4. r % d = r BY <1>1, <1>2
<1>5. (r + d) % d = r BY <1>1, <1>3
<1> QED BY <1>4, <1>5

\* bs holds the groups of r behind its first k bytes.
Holds(bs, k, r) ==
  /\ k + Len(Groups[r]) <= Len(bs)
  /\ \A i \in 1..Len(Groups[r]) : bs[k + i] = Groups[r][i]

\* Reading them adds r, shifted by k groups.
LEMMA SumGroups ==
  ASSUME NEW bs \in Seq(Nat)
  PROVE  \A r \in Nat : \A k \in Nat : Holds(bs, k, r) =>
           Sum(bs)[k + Len(Groups[r])] = Sum(bs)[k] + Weight[k] * r
<1> DEFINE Bad(r) == \E k \in Nat : Holds(bs, k, r) /\
                       Sum(bs)[k + Len(Groups[r])] # Sum(bs)[k] + Weight[k] * r
           T == {r \in Nat : Bad(r)}
<1>1. T = {}
  <2> SUFFICES ASSUME T # {} PROVE FALSE OBVIOUS
  <2>1. PICK u \in T : \A k \in T : u <= k BY LeastNatural
  <2>2. PICK k \in Nat : /\ u \in Nat /\ Holds(bs, k, u)
                         /\ Sum(bs)[k + Len(Groups[u])] # Sum(bs)[k] + Weight[k] * u
    OBVIOUS
  <2>3. PICK R \in Nat : R = Radix /\ R > 1 BY RadixFacts
  <2>4. PICK n \in Nat : n = Len(bs) BY LenProperties
  <2>5. Len(Groups[u]) \in Nat /\ Len(Groups[u]) > 0 BY <2>2, GroupsType, LenProperties
  <2>6. 1 \in 1..Len(Groups[u]) /\ k \in 0..(n - 1) BY <2>2, <2>4, <2>5 DEF Holds
  <2>7. PICK W \in Nat : W = Weight[k] BY WeightIs
  <2>8. PICK S \in Nat : S = Sum(bs)[k] BY <2>4, <2>6, SumIs
  <2>9. Sum(bs)[k + 1] = S + (bs[k + 1] % R) * W BY <2>3, <2>4, <2>6, <2>7, <2>8, SumIs
  <2>10. bs[k + 1] = Groups[u][1] BY <2>2, <2>6 DEF Holds
  <2>11. CASE u < R
    <3>1. Len(Groups[u]) = 1 /\ Groups[u][1] = u BY <2>2, <2>3, <2>11, GroupsShort
    <3>2. u % R = u BY <2>2, <2>11, ModSmall
    <3>3. Sum(bs)[k + 1] = S + u * W BY <2>9, <2>10, <3>1, <3>2
    <3>4. u * W = W * u BY <2>2
    <3> QED BY <2>2, <2>7, <2>8, <3>1, <3>3, <3>4
  <2>12. CASE ~(u < R)
    <3>1. u >= Radix BY <2>2, <2>3, <2>12
    <3>2. PICK w \in Nat, r \in Nat, q \in Seq(Nat) : SplitAs(u, w, r, q)
      BY <2>2, <3>1, GroupsSplit
    <3>3. /\ w < u /\ r < R /\ u = R * w + r /\ q = Groups[w]
          /\ Len(Groups[u]) = Len(q) + 1 /\ Groups[u][1] = r + R
          /\ \A i \in 1..Len(q) : Groups[u][i + 1] = q[i]
      BY <2>3, <3>2 DEF SplitAs
    <3>4. PICK m \in Nat : m = Len(q) BY LenProperties
    <3>5. (r + R) % R = r BY <3>3, ModSmall
    <3>6. Sum(bs)[k + 1] = S + r * W BY <2>9, <2>10, <3>3, <3>5
    <3>7. Holds(bs, k + 1, w)
      <4>1. k + 1 + m <= n
        <5>1. k + Len(Groups[u]) <= n BY <2>2, <2>4 DEF Holds
        <5>2. Len(Groups[u]) = m + 1 BY <3>3, <3>4
        <5> QED BY <5>1, <5>2
      <4>2. ASSUME NEW i \in 1..m PROVE bs[k + 1 + i] = q[i]
        <5>1. PICK j \in Nat : j = i + 1 /\ j \in 1..Len(Groups[u]) /\ k + j = k + 1 + i
          BY <3>3, <3>4
        <5>2. bs[k + j] = Groups[u][j] BY <2>2, <5>1 DEF Holds
        <5>3. Groups[u][j] = q[i] BY <3>3, <3>4, <5>1
        <5> QED BY <5>1, <5>2, <5>3
      <4> QED BY <2>4, <3>3, <3>4, <4>1, <4>2 DEF Holds
    <3>8. ~Bad(w)
      <4>1. w \notin T
        <5> HIDE DEF T
        <5>1. ~(u <= w) BY <2>2, <3>3
        <5> QED BY <2>1, <5>1
      <4> HIDE DEF Bad
      <4> QED BY <4>1
    <3>9. PICK l \in Nat : l = k + 1 OBVIOUS
    <3>10. Sum(bs)[l + Len(Groups[w])] = Sum(bs)[l] + Weight[l] * w BY <3>7, <3>8, <3>9
    <3>11. Weight[l] = R * W BY <2>3, <2>7, <3>9, WeightIs
    <3>12. l + Len(Groups[w]) = k + Len(Groups[u])
      <4>1. Len(Groups[w]) = m /\ Len(Groups[u]) = m + 1 BY <3>3, <3>4
      <4> QED BY <3>9, <4>1
    <3>13. Sum(bs)[k + Len(Groups[u])] = S + r * W + R * W * w
      BY <3>6, <3>9, <3>10, <3>11, <3>12
    <3>14. r * W + R * W * w = W * u
      <4>1. W * (R * w + r) = W * (R * w) + W * r OBVIOUS
      <4>2. W * (R * w) = R * W * w OBVIOUS
      <4>3. W * r = r * W OBVIOUS
      <4>4. r * W \in Nat /\ R * W * w \in Nat OBVIOUS
      <4> QED BY <3>3, <4>1, <4>2, <4>3, <4>4
    <3>15. r * W \in Nat /\ R * W * w \in Nat OBVIOUS
    <3>16. Sum(bs)[k + Len(Groups[u])] = S + W * u BY <3>13, <3>14, <3>15
    <3> QED BY <2>2, <2>7, <2>8, <3>16
  <2> QED BY <2>11, <2>12
<1> QED BY <1>1

LEMMA Zigzag ==
  ASSUME NEW v \in Ints
  PROVE  EncodeZigzag(v) \in Nat /\ EncodeZigzag(v) < 2^Width /\ DecodeZigzag(EncodeZigzag(v)) = v
<1>1. PICK h \in Nat : h = 2^(Width - 1) /\ 2^Width = 2 * h BY WidthAssumption
<1>2. v \in Int /\ -h <= v /\ v <= h - 1
  <2>1. v \in -h..(h - 1) BY <1>1, ByteArrayAssumption
  <2> QED BY <2>1
<1>3. EncodeZigzag(v) \in Nat /\ EncodeZigzag(v) < 2 * h BY <1>2 DEF EncodeZigzag
<1>4. DecodeZigzag(EncodeZigzag(v)) = v BY <1>2 DEF EncodeZigzag, DecodeZigzag
<1> QED BY <1>1, <1>3, <1>4

\* readUint32() stops behind the last group of an integer, and has its value.
LEMMA UngroupIs ==
  ASSUME NEW rest \in Seq(Nat), NEW u \in Nat, u < 2^Width, Holds(rest, 0, u)
  PROVE  LastGroup(rest) # {} /\ Ungroup(rest) = u
<1>1. PICK L \in Nat : L = Len(Groups[u]) /\ L > 0 BY GroupsType, LenProperties
<1>2. PICK n \in Nat : n = Len(rest) BY LenProperties
<1>3. L <= n /\ \A i \in 1..L : rest[i] = Groups[u][i]
  <2>1. 0 + L <= n /\ \A i \in 1..L : rest[0 + i] = Groups[u][i] BY <1>1, <1>2 DEF Holds
  <2> QED BY <1>1, <1>2, <2>1
<1>4. PICK G \in Nat : G = MaxGroups /\ L <= G
  <2>1. MaxGroups \in Nat /\ MaxGroups > 0 BY WidthAssumption
  <2>2. PICK W \in Nat : W = Weight[MaxGroups] BY <2>1, WeightIs
  <2>3. u < W BY <2>2, WidthAssumption
  <2> QED BY <1>1, <2>1, <2>2, <2>3, GroupsFew
<1>5. Ended(Groups[u]) BY GroupsEnd
<1>6. L \in LastGroup(rest)
  <2>1. rest[L] < Radix BY <1>1, <1>3, <1>5 DEF Ended
  <2> QED BY <1>1, <1>2, <1>3, <2>1 DEF LastGroup
<1>7. ASSUME NEW k \in LastGroup(rest) PROVE k \in Nat /\ L <= k
  <2>1. k \in 1..n /\ (k = G \/ rest[k] < Radix) BY <1>2, <1>4 DEF LastGroup
  <2>2. SUFFICES ASSUME k < L PROVE FALSE BY <1>1, <2>1
  <2>3. k # G BY <1>4, <2>1, <2>2
  <2>4. k \in 1..(L - 1) /\ k \in 1..L BY <1>1, <2>1, <2>2
  <2>5. Groups[u][k] >= Radix BY <1>1, <1>5, <2>4 DEF Ended
  <2>6. rest[k] = Groups[u][k] BY <1>3, <2>4
  <2>7. rest[k] \in Nat BY <1>2, <2>1, ElementOfSeq
  <2> QED BY <2>1, <2>3, <2>5, <2>6, <2>7, RadixFacts
<1>8. GroupCount(rest) = L
  <2>1. \E k \in LastGroup(rest) : \A m \in LastGroup(rest) : k <= m BY <1>6, <1>7
  <2>2. /\ GroupCount(rest) \in LastGroup(rest)
        /\ \A m \in LastGroup(rest) : GroupCount(rest) <= m
    BY <2>1 DEF GroupCount
  <2>3. GroupCount(rest) <= L /\ L <= GroupCount(rest) /\ GroupCount(rest) \in Nat
    BY <1>6, <1>7, <2>2
  <2> QED BY <2>3
<1>9. Ungroup(rest) = Sum(rest)[GroupCount(rest)] % 2^Width BY DEF Ungroup, Sum
<1>10. Sum(rest)[L] = u
  <2>1. Sum(rest)[0 + L] = Sum(rest)[0] + Weight[0] * u BY <1>1, SumGroups
  <2>2. Sum(rest)[0] = 0 /\ Weight[0] = 1 BY SumIs, WeightIs
  <2>3. 0 + L = L /\ 0 + 1 * u = u OBVIOUS
  <2> QED BY <2>1, <2>2, <2>3
<1>11. u % 2^Width = u BY ModSmall, WidthAssumption
<1> QED BY <1>6, <1>8, <1>9, <1>10, <1>11
----------------------------------------------------------------------------
(* The bytes of an integer stay where they were written.                    *)

IntAt(w) ==
  /\ w.pos \in Nat /\ w.val \in Ints /\ w.bytes = Groups[EncodeZigzag(w.val)]
  /\ w.pos + Len(w.bytes) <= Len(Content)
  /\ \A i \in 1..Len(w.bytes) : Content[w.pos + i] = w.bytes[i]

IntsInv == CurInv /\ \A w \in written : IntAt(w)

LEMMA IntLen ==
  ASSUME NEW w, IntAt(w)
  PROVE  w.bytes \in Seq(Nat) /\ Len(w.bytes) \in Nat
<1>1. w.bytes \in Seq(Nat) BY IntBytes DEF IntAt
<1> QED BY <1>1, LenProperties

\* A step that leaves the bytes of w alone.
LEMMA IntStays ==
  ASSUME NEW w, IntAt(w), Len(Content) \in Nat, Len(Content') \in Nat,
         Len(Content') >= Len(Content),
         \A i \in 1..Len(w.bytes) : Content'[w.pos + i] = Content[w.pos + i]
  PROVE  IntAt(w)'
<1>1. Len(w.bytes) \in Nat BY IntLen
<1>2. w.pos \in Nat /\ w.pos + Len(w.bytes) <= Len(Content) BY DEF IntAt
<1>3. w.pos + Len(w.bytes) <= Len(Content') BY <1>1, <1>2
<1>4. \A i \in 1..Len(w.bytes) : Content'[w.pos + i] = w.bytes[i] BY DEF IntAt
<1>5. w.val \in Ints /\ w.bytes = Groups[EncodeZigzag(w.val)] BY DEF IntAt
<1> HIDE DEF Content
<1> QED BY <1>2, <1>3, <1>4, <1>5 DEF IntAt

LEMMA IntsKept ==
  ASSUME IntsInv, Content' = Content, written' = written
  PROVE  \A w \in written' : IntAt(w)'
<1>1. ASSUME NEW w \in written PROVE IntAt(w)'
  <2>1. IntAt(w) BY DEF IntsInv
  <2>2. Len(Content) \in Nat BY ContentType DEF IntsInv
  <2>3. Len(Content') >= Len(Content) BY <2>2
  <2> HIDE DEF Content
  <2> QED BY <2>1, <2>2, <2>3, IntStays
<1> QED BY <1>1

LEMMA IntsSame ==
  ASSUME IntsInv, UNCHANGED <<m_size, blocks, written>>
  PROVE  \A w \in written' : IntAt(w)'
<1>1. Content' = Content BY DEF Content
<1> QED BY <1>1, IntsKept

LEMMA WriteInts ==
  ASSUME IntsInv, CurInv', NEW bs \in Seq(Nat), NEW new, Written(bs),
         written' = (written \ Overwritten(m_position, m_position + Len(bs))) \cup new,
         \A w \in new : /\ w.pos = m_position /\ w.bytes = bs
                        /\ w.val \in Ints /\ bs = Groups[EncodeZigzag(w.val)]
  PROVE  \A w \in written' : IntAt(w)'
<1>1. PICK size \in Nat : size = Len(bs) BY LenProperties
<1>2. PICK p \in Nat : p = m_position BY CurIs DEF IntsInv
<1>3. PICK m \in Nat : m = Len(Content) BY ContentType DEF IntsInv
<1>4. PICK l \in Nat : l = Len(Content')
  <2>1. (Content \in Seq(Nat) /\ Len(Content) = m_size /\ m_size \in Nat)' BY ContentType, PTL
  <2> QED BY <2>1
<1>5. /\ l = IF p + size > m THEN p + size ELSE m
      /\ \A i \in 1..l : Content'[i] = IF i \in (p + 1)..(p + size) THEN bs[i - p] ELSE Content[i]
  <2>1. m_position' = p + size BY <1>1, <1>2 DEF Written
  <2> HIDE DEF Content
  <2> QED BY <1>2, <1>3, <1>4, <2>1 DEF Written
<1>6. l >= m /\ l >= p + size BY <1>5
<1> HIDE DEF Content
<1>7. ASSUME NEW w \in written, w \notin Overwritten(p, p + size) PROVE IntAt(w)'
  <2>1. IntAt(w) BY DEF IntsInv
  <2>2. PICK n \in Nat : n = Len(w.bytes) BY <2>1, IntLen
  <2>3. PICK q \in Nat : q = w.pos /\ q + n <= m BY <1>3, <2>1, <2>2 DEF IntAt
  <2>4. ~(q < p + size /\ p < q + n) BY <1>7, <2>2, <2>3 DEF Overwritten
  <2>5. ASSUME NEW i \in 1..n PROVE Content'[q + i] = Content[q + i]
    <3>1. q + i \in 1..l /\ ~(q + i \in (p + 1)..(p + size)) BY <1>6, <2>3, <2>4
    <3> QED BY <1>5, <3>1
  <2> QED BY <1>3, <1>4, <1>6, <2>1, <2>2, <2>3, <2>5, IntStays
<1>8. ASSUME NEW w \in new PROVE IntAt(w)'
  <2>1. /\ w.pos = p /\ w.bytes = bs /\ w.val \in Ints /\ w.bytes = Groups[EncodeZigzag(w.val)]
    BY <1>2
  <2>2. p + size <= l BY <1>6
  <2>3. ASSUME NEW i \in 1..size PROVE Content'[p + i] = bs[i]
    <3>1. p + i \in 1..l /\ p + i \in (p + 1)..(p + size) /\ (p + i) - p = i BY <1>6
    <3> QED BY <1>5, <3>1
  <2> QED BY <1>1, <1>2, <1>4, <2>1, <2>2, <2>3 DEF IntAt
<1>9. written' = (written \ Overwritten(p, p + size)) \cup new BY <1>1, <1>2
<1> QED BY <1>7, <1>8, <1>9

LEMMA SeekInts ==
  ASSUME IntsInv, CurInv', NEW v \in Nat, SetPosition(v)
  PROVE  \A w \in written' : IntAt(w)'
<1>1. /\ m_size' = IF v > m_size THEN v ELSE m_size
      /\ blocks' = blocks
  BY SetPositionGoes DEF MovesTo, IntsInv
<1>2. written' = written BY DEF SetPosition
<1>3. Len(Content) = m_size /\ m_size \in Nat BY ContentType DEF IntsInv
<1>4. Len(Content') = m_size'
  <2>1. (Len(Content) = m_size)' BY ContentType, PTL
  <2> QED BY <2>1
<1>5. m_size' \in Nat /\ m_size' >= m_size BY <1>1, <1>3
<1>6. \A i \in 1..m_size : Content'[i] = Content[i]
  <2>1. \A i \in 1..m_size : i \in 1..m_size' BY <1>3, <1>5
  <2> QED BY <1>1, <2>1 DEF Content
<1> HIDE DEF Content
<1>7. ASSUME NEW w \in written PROVE IntAt(w)'
  <2>1. IntAt(w) BY DEF IntsInv
  <2>2. PICK n \in Nat : n = Len(w.bytes) BY <2>1, IntLen
  <2>3. PICK q \in Nat : q = w.pos /\ q + n <= m_size BY <1>3, <2>1, <2>2 DEF IntAt
  <2>4. ASSUME NEW i \in 1..n PROVE Content'[q + i] = Content[q + i]
    <3>1. q + i \in 1..m_size BY <1>3, <2>3
    <3> QED BY <1>6, <3>1
  <2> QED BY <1>3, <1>4, <1>5, <2>1, <2>2, <2>3, <2>4, IntStays
<1> QED BY <1>2, <1>7

LEMMA IntsStep ==
  ASSUME 0 \notin ReadSizes, IntsInv, [Next]_vars
  PROVE  IntsInv'
<1>1. CurInv /\ CurInv' BY CurStep DEF IntsInv
<1>2. SUFFICES \A w \in written' : IntAt(w)' BY <1>1 DEF IntsInv
<1>3. ASSUME NEW bs \in Raw, Write(bs) PROVE \A w \in written' : IntAt(w)'
  <2>1. bs \in Seq(Nat) BY ByteArrayAssumption
  <2>2. WriteBytes(bs, {}) BY <1>3 DEF Write
  <2>3. written' = (written \ Overwritten(m_position, m_position + Len(bs))) \cup {}
    BY <1>1, <2>1, <2>2, WriteGoes
  <2>4. Written(bs) BY <1>1, <2>1, <2>2, WriteBytesMaps
  <2>5. PICK new : new = {} OBVIOUS
  <2>6. written' = (written \ Overwritten(m_position, m_position + Len(bs))) \cup new
    BY <2>3, <2>5
  <2>7. \A w \in new : /\ w.pos = m_position /\ w.bytes = bs
                       /\ w.val \in Ints /\ bs = Groups[EncodeZigzag(w.val)]
    BY <2>5
  <2> QED BY <1>1, <2>1, <2>4, <2>6, <2>7, WriteInts
<1>4. ASSUME NEW bs \in Raw, NEW len \in 1..BaseSize + 1, Recv(len, bs)
      PROVE  \A w \in written' : IntAt(w)'
  <2>1. bs \in Seq(Nat) BY ByteArrayAssumption
  <2>2. len \in Nat OBVIOUS
  <2>3. written' = (written \ Overwritten(m_position, m_position + Len(bs))) \cup {}
    BY <1>1, <1>4, <2>1, <2>2, RecvGoes
  <2>4. Written(bs) BY <1>1, <1>4, <2>1, <2>2, RecvMaps
  <2>5. PICK new : new = {} OBVIOUS
  <2>6. written' = (written \ Overwritten(m_position, m_position + Len(bs))) \cup new
    BY <2>3, <2>5
  <2>7. \A w \in new : /\ w.pos = m_position /\ w.bytes = bs
                       /\ w.val \in Ints /\ bs = Groups[EncodeZigzag(w.val)]
    BY <2>5
  <2> QED BY <1>1, <2>1, <2>4, <2>6, <2>7, WriteInts
<1>5. ASSUME NEW v \in Ints, WriteInt(v) PROVE \A w \in written' : IntAt(w)'
  <2>1. PICK bs \in Seq(Nat) : bs = Groups[EncodeZigzag(v)] BY IntBytes
  <2>2. PICK new : new = {[pos |-> m_position, bytes |-> bs, val |-> v]} OBVIOUS
  <2>3. WriteBytes(bs, new) BY <1>5, <2>1, <2>2 DEF WriteInt
  <2>4. written' = (written \ Overwritten(m_position, m_position + Len(bs))) \cup new
    BY <1>1, <2>3, WriteGoes
  <2>5. Written(bs) BY <1>1, <2>3, WriteBytesMaps
  <2>6. \A w \in new : /\ w.pos = m_position /\ w.bytes = bs
                       /\ w.val \in Ints /\ bs = Groups[EncodeZigzag(w.val)]
    BY <2>1, <2>2
  <2> QED BY <1>1, <2>4, <2>5, <2>6, WriteInts
<1>6. ASSUME NEW size \in ReadSizes, Read(size) PROVE \A w \in written' : IntAt(w)'
  <2>1. UNCHANGED <<m_size, blocks, written>> BY <1>6 DEF Read, Crash
  <2> QED BY <2>1, IntsSame
<1>7. ASSUME NEW size \in ReadSizes, NEW len \in ReadSizes, Send(len, size)
      PROVE  \A w \in written' : IntAt(w)'
  <2>1. size \in Nat /\ len \in Nat BY ByteArrayAssumption
  <2>2. UNCHANGED <<m_size, blocks>> BY <1>1, <1>7, <2>1, SendGoes DEF Reads
  <2>3. written' = written BY <1>7 DEF Send, Crash
  <2> QED BY <2>2, <2>3, IntsSame
<1>8. ASSUME NEW v \in 0..MaxBlocks * BaseSize, SetPosition(v) PROVE \A w \in written' : IntAt(w)'
  <2>1. v \in Nat OBVIOUS
  <2> QED BY <1>1, <1>8, <2>1, SeekInts
<1>9. CASE ReadInt
  <2>1. UNCHANGED <<m_size, blocks, written>> BY <1>9 DEF ReadInt, Crash
  <2> QED BY <2>1, IntsSame
<1>10. CASE ToString
  <2>1. UNCHANGED <<m_size, blocks, written>> BY <1>10 DEF ToString, Crash
  <2> QED BY <2>1, IntsSame
<1>11. CASE Clear BY <1>11 DEF Clear
<1>12. CASE UNCHANGED vars
  <2>1. UNCHANGED <<m_size, blocks, written>> BY <1>12 DEF vars
  <2> QED BY <2>1, IntsSame
<1>13. ASSUME NEW len \in 1..BaseSize + 1, RecvFails(len) PROVE \A w \in written' : IntAt(w)'
  <2>1. len \in Nat /\ len > 0 OBVIOUS
  <2>2. Content' = Content BY <1>1, <1>13, <2>1, RecvFailsMaps
  <2>3. written' = written BY <1>1, <1>13, <2>1, RecvFailsGoes
  <2> QED BY <2>2, <2>3, IntsKept
<1> QED BY <1>3, <1>4, <1>5, <1>6, <1>7, <1>8, <1>9, <1>10, <1>11, <1>12, <1>13 DEF Next

\* readInt32() at the place of an integer finds its groups and returns it.
LEMMA ReadBack ==
  ASSUME IntsInv, ReadInt, NEW w \in written, m_position = w.pos
  PROVE  value' = w.val
<1>1. CurInv /\ IntAt(w) BY DEF IntsInv
<1>2. PICK n \in Nat : n = getReadSize /\ n > 0 BY <1>1, CurIs DEF ReadInt
<1>3. PICK p \in Nat : p = m_position /\ p + n = m_size
  BY <1>1, <1>2, CurIs DEF getReadSize, CurInv, Types
<1>4. Content \in Seq(Nat) /\ Len(Content) = m_size BY <1>1, ContentType
<1>5. PICK rest : rest = Fetch(n) OBVIOUS
<1>6. rest = SubSeq(Content, p + 1, p + n)
  <2>1. n \in 1..getReadSize BY <1>2
  <2> QED BY <1>1, <1>3, <1>5, <2>1, FetchIs
<1>7. rest \in Seq(Nat) /\ Len(rest) = n /\ \A i \in 1..n : rest[i] = Content[p + i]
  <2> HIDE DEF Content
  <2>1. p + 1 \in Int /\ p + n \in Int /\ p + 1 <= p + n /\ (p + n) - (p + 1) + 1 = n BY <1>2
  <2>2. \A i \in (p + 1)..(p + n) : Content[i] \in Nat
    <3> SUFFICES ASSUME NEW i \in (p + 1)..(p + n) PROVE Content[i] \in Nat OBVIOUS
    <3>1. i \in 1..Len(Content) BY <1>3, <1>4
    <3> QED BY <1>4, <3>1, ElementOfSeq
  <2>3. /\ rest \in Seq(Nat) /\ Len(rest) = n
        /\ \A i \in 1..n : rest[i] = Content[(p + 1) + i - 1]
    BY <1>6, <2>1, <2>2, SubSeqProperties
  <2>4. \A i \in 1..n : (p + 1) + i - 1 = p + i BY <1>2
  <2> QED BY <2>3, <2>4
<1>8. PICK u \in Nat : u = EncodeZigzag(w.val) /\ u < 2^Width /\ DecodeZigzag(u) = w.val
  BY <1>1, Zigzag DEF IntAt
<1>9. Holds(rest, 0, u)
  <2>1. w.bytes = Groups[u] BY <1>1, <1>8 DEF IntAt
  <2>2. PICK l \in Nat : l = Len(Groups[u]) BY <1>1, <2>1, IntLen
  <2>3. /\ w.pos = p /\ p + l <= m_size
        /\ \A i \in 1..l : Content[p + i] = Groups[u][i]
    BY <1>1, <1>3, <1>4, <2>1, <2>2 DEF IntAt
  <2>4. l <= n BY <1>3, <2>3
  <2>5. \A i \in 1..l : rest[0 + i] = Groups[u][i]
    <3> SUFFICES ASSUME NEW i \in 1..l PROVE rest[0 + i] = Groups[u][i] OBVIOUS
    <3>1. 0 + i = i /\ i \in 1..n BY <2>4
    <3>2. rest[i] = Content[p + i] BY <1>7, <3>1
    <3> QED BY <2>3, <3>1, <3>2
  <2> QED BY <1>7, <2>2, <2>4, <2>5 DEF Holds
<1>10. LastGroup(rest) # {} /\ Ungroup(rest) = u BY <1>7, <1>8, <1>9, UngroupIs
<1>11. Reaches(m_cur, n, Len(blocks)) BY <1>1, <1>2, CurIs, Walk
<1>12. value' = DecodeZigzag(Ungroup(rest)) BY <1>2, <1>5, <1>10, <1>11 DEF ReadInt
<1> QED BY <1>8, <1>10, <1>12

\* For every width of integers and of groups, block size and history: what
\* readInt32() returns at the place of an integer that writeInt32() wrote is
\* that integer, whatever was written, received, sent or sought in between,
\* as long as its bytes were not overwritten.
THEOREM ReadBackTheorem ==
  ASSUME 0 \notin ReadSizes
  PROVE  Spec => IntsReadBack
<1>1. Init => IntsInv BY CurInit DEF Init, IntsInv
<1>2. IntsInv /\ [Next]_vars => IntsInv' BY IntsStep
<1>3. IntsInv =>
        [\A w \in written :
           (ReadInt /\ m_position = w.pos) => (crashed' \/ value' = w.val)]_vars
  BY ReadBack
<1> QED BY <1>1, <1>2, <1>3, PTL DEF Spec, IntsReadBack
=============================================================================
