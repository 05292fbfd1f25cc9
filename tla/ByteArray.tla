----------------------------- MODULE ByteArray ------------------------------
(* ByteArray (net/bytearray.cc): bytes in a chain of blocks of equal size,  *)
(* a position, and a cached pointer m_cur to the block of the position; and *)
(* SocketStream::read() and write() on it (streams/socket_stream.cc).       *)
(*                                                                          *)
(* Integers of Width bits are written in groups of GroupBits bits, the      *)
(* lowest first; 32 (or 64) and 7 in the code.                              *)
EXTENDS Integers, Sequences

CONSTANTS
  BaseSize,           \* m_baseSize
  Junk,               \* what a new block holds
  Width, GroupBits,
  Raw,                \* byte strings that are written
  Ints,               \* integers that are written
  ReadSizes,          \* sizes passed to read()
  MaxBlocks           \* bound: blocks of the array

ASSUME ByteArrayAssumption ==
  /\ BaseSize \in Nat \ {0} /\ Width \in Nat \ {0} /\ GroupBits \in Nat \ {0}
  /\ Ints \subseteq -(2^(Width - 1))..(2^(Width - 1) - 1) /\ ReadSizes \subseteq Nat
  /\ MaxBlocks \in Nat \ {0} /\ Junk # {} /\ Junk \subseteq Nat /\ Raw \subseteq Seq(Nat)

VARIABLES
  m_position, m_size, m_capacity,
  blocks, m_cur,      \* the chain from m_root, and the place of a block in it
  crashed,            \* a null pointer was followed
  buf,                \* the bytes the last call was given or has returned
  value,              \* the integer it has returned, if it is readInt32()
  written             \* the integers written and not overwritten: where, what

vars == <<m_position, m_size, m_capacity, blocks, m_cur, crashed, buf, value, written>>

nullptr == 0
NewNode(x) == [k \in 0..BaseSize - 1 |-> x]

Init ==
  /\ m_position = 0 /\ m_size = 0 /\ m_capacity = BaseSize
  /\ \E x \in Junk : blocks = <<NewNode(x)>>
  /\ m_cur = 1 /\ crashed = FALSE /\ buf = <<>> /\ value = 0 /\ written = {}
----------------------------------------------------------------------------
getReadSize == m_size - m_position
getCapacity == m_capacity - m_position
npos == m_position % BaseSize

\* How many blocks addCapacity(size) appends, rounded up.
NewBlocks(size) ==
  IF getCapacity >= size THEN 0 ELSE (size - getCapacity + BaseSize - 1) \div BaseSize

Appended(size, x) == blocks \o [i \in 1..NewBlocks(size) |-> NewNode(x)]

\* Fault: m_cur stays null when the array was full.
CurForgotten(size) == m_cur

\* addCapacity() moves m_cur to the first new block when nothing was left.
CurAfter(size) == IF NewBlocks(size) > 0 /\ getCapacity = 0 THEN Len(blocks) + 1 ELSE m_cur

\* The blocks that the loops of read() and write() go through from block cur
\* of n for size bytes: they exist; byte j lies there; m_cur afterwards.
Reaches(cur, size, n) ==
  cur # nullptr /\ (size > 0 => cur + (npos + size - 1) \div BaseSize <= n)
Place(cur, j) == <<cur + (npos + j) \div BaseSize, (npos + j) % BaseSize>>

\* Fault: at the end of a block m_cur stays on it.
CurLingers(cur, size, n) == cur + (npos + size - 1) \div BaseSize

CurBehind(cur, size, n) ==
  LET c == cur + (npos + size) \div BaseSize IN IF c <= n THEN c ELSE nullptr

Fetch(size) ==
  [j \in 1..size |-> LET p == Place(m_cur, j - 1) IN blocks[p[1]][p[2]]]
Store(bs, cur, chain) ==
  [b \in 1..Len(chain) |-> [k \in 0..BaseSize - 1 |->
    LET hits == {j \in 1..Len(bs) : Place(cur, j - 1) = <<b, k>>}
    IN IF hits = {} THEN chain[b][k] ELSE bs[CHOOSE j \in hits : TRUE]]]

Fits(size) == Len(blocks) + NewBlocks(size) <= MaxBlocks

Crash ==
  /\ crashed' = TRUE
  /\ UNCHANGED <<m_position, m_size, m_capacity, blocks, m_cur, buf, value, written>>

\* An integer written is forgotten when bytes from..upto - 1 change.
Overwritten(from, upto) == {w \in written : w.pos < upto /\ from < w.pos + Len(w.bytes)}

\* write(), for strings, fixed-size integers and files; new holds what is
\* known of the bytes.
WriteBytes(bs, new) ==
  LET size == Len(bs)  cur == CurAfter(size)  n == Len(blocks) + NewBlocks(size) IN
  /\ ~crashed /\ Fits(size)
  /\ IF size > 0 /\ ~Reaches(cur, size, n) THEN Crash
     ELSE /\ \E x \in Junk : blocks' = Store(bs, cur, Appended(size, x))
          /\ m_capacity' = m_capacity + NewBlocks(size) * BaseSize
          /\ m_cur' = IF size = 0 THEN m_cur ELSE CurBehind(cur, size, n)
          /\ m_position' = m_position + size
          /\ m_size' = IF m_position' > m_size THEN m_position' ELSE m_size
          /\ buf' = bs
          /\ written' = (written \ Overwritten(m_position, m_position + size)) \cup new
          /\ value' = 0 /\ UNCHANGED crashed

Write(bs) == WriteBytes(bs, {})

\* read(), behind its check (which throws and changes nothing).
Read(size) ==
  /\ ~crashed /\ size <= getReadSize
  /\ IF ~Reaches(m_cur, size, Len(blocks)) THEN Crash
     ELSE /\ buf' = Fetch(size)
          /\ m_cur' = IF size = 0 THEN m_cur ELSE CurBehind(m_cur, size, Len(blocks))
          /\ m_position' = m_position + size
          /\ UNCHANGED <<m_size, m_capacity, blocks, crashed, written>> /\ value' = 0

\* toString() and writeToFile(): the rest, from m_cur on.
ToString ==
  /\ ~crashed /\ getReadSize > 0
  /\ IF ~Reaches(m_cur, getReadSize, Len(blocks)) THEN Crash
     ELSE /\ buf' = Fetch(getReadSize)
          /\ UNCHANGED <<m_position, m_size, m_capacity, blocks, m_cur, crashed, written>> /\ value' = 0

\* The walk of setPosition() from m_root.
CurAt(v, n) == IF v \div BaseSize < n THEN v \div BaseSize + 1 ELSE nullptr

\* setPosition(), behind its check.
Moved(v, n) ==
  /\ m_position' = v
  /\ m_size' = IF v > m_size THEN v ELSE m_size
  /\ m_cur' = CurAt(v, n)

SetPosition(v) ==
  /\ ~crashed /\ v <= m_capacity
  /\ Moved(v, Len(blocks))
  /\ buf' = <<>> /\ value' = 0
  /\ UNCHANGED <<m_capacity, blocks, crashed, written>>

\* The first block keeps what is in it.
Clear ==
  /\ ~crashed
  /\ m_position' = 0 /\ m_size' = 0 /\ m_capacity' = BaseSize
  /\ blocks' = <<blocks[1]>> /\ m_cur' = 1 /\ written' = {}
  /\ buf' = <<>> /\ value' = 0 /\ UNCHANGED crashed

\* SocketStream::read(ba, len): getWriteBuffers(), of which recv() fills the
\* beginning with bs, and setPosition().
Recv(len, bs) ==
  LET cur == CurAfter(len)  n == Len(blocks) + NewBlocks(len) IN
  /\ ~crashed /\ Fits(len) /\ Len(bs) \in 1..len
  /\ IF ~Reaches(cur, len, n) THEN Crash
     ELSE /\ \E x \in Junk : blocks' = Store(bs, cur, Appended(len, x))
          /\ m_capacity' = m_capacity + NewBlocks(len) * BaseSize
          /\ Moved(m_position + Len(bs), n)
          /\ buf' = bs
          /\ written' = written \ Overwritten(m_position, m_position + Len(bs))
          /\ value' = 0 /\ UNCHANGED crashed

\* The same when recv() brings nothing: the array has grown all the same.
RecvFails(len) ==
  LET cur == CurAfter(len)  n == Len(blocks) + NewBlocks(len) IN
  /\ ~crashed /\ Fits(len)
  /\ IF ~Reaches(cur, len, n) THEN Crash
     ELSE /\ \E x \in Junk : blocks' = Appended(len, x)
          /\ m_capacity' = m_capacity + NewBlocks(len) * BaseSize
          /\ m_cur' = cur
          /\ buf' = <<>> /\ value' = 0
          /\ UNCHANGED <<m_position, m_size, crashed, written>>

\* SocketStream::write(ba, len): getReadBuffers(), of which send() takes the
\* first size bytes, and setPosition().
Send(len, size) ==
  LET most == IF len > getReadSize THEN getReadSize ELSE len IN
  /\ ~crashed /\ size \in 1..most
  /\ IF ~Reaches(m_cur, most, Len(blocks)) THEN Crash
     ELSE /\ buf' = Fetch(size)
          /\ Moved(m_position + size, Len(blocks))
          /\ UNCHANGED <<m_capacity, blocks, crashed, written>> /\ value' = 0
----------------------------------------------------------------------------
(* Integers of variable length.                                             *)

Radix == 2^GroupBits

\* Fault: positive numbers collide with negative ones.
EncodeZigzagShort(v) == IF v < 0 THEN -v * 2 - 2 ELSE v * 2

EncodeZigzag(v) == IF v < 0 THEN -v * 2 - 1 ELSE v * 2
DecodeZigzag(u) == IF u % 2 = 0 THEN u \div 2 ELSE -(u \div 2) - 1

\* writeUint32(): groups, each but the last with the high bit set.
Groups[u \in Nat] ==
  IF u < Radix THEN <<u>> ELSE <<(u % Radix) + Radix>> \o Groups[u \div Radix]

\* readUint32(): the number of bytes it reads, the weight of a group (behind
\* k others), and their value.
MaxGroups == (Width + GroupBits - 1) \div GroupBits
LastGroup(bs) == {k \in 1..Len(bs) : k = MaxGroups \/ bs[k] < Radix}
GroupCount(bs) == CHOOSE k \in LastGroup(bs) : \A m \in LastGroup(bs) : k <= m
Weight[k \in Nat] == IF k = 0 THEN 1 ELSE Radix * Weight[k - 1]
Ungroup(bs) ==
  LET sum[k \in 0..Len(bs)] ==
        IF k = 0 THEN 0 ELSE sum[k - 1] + (bs[k] % Radix) * Weight[k - 1]
  IN sum[GroupCount(bs)] % 2^Width

\* Arithmetic of the widths: a group has a bit or more, an integer has Width
\* of them and its groups have room for it.
ASSUME WidthAssumption ==
  /\ Radix \in Nat \ {0, 1} /\ 2^Width \in Nat /\ 2^(Width - 1) \in Nat
  /\ 2^Width = 2 * 2^(Width - 1) /\ 2^Width <= Weight[MaxGroups] /\ MaxGroups \in Nat \ {0}

WriteInt(v) ==
  LET bs == Groups[EncodeZigzag(v)] IN
  WriteBytes(bs, {[pos |-> m_position, bytes |-> bs, val |-> v]})

\* When the bytes end too early the last read throws, behind the others.
ReadInt ==
  LET rest == Fetch(getReadSize) IN
  /\ ~crashed /\ getReadSize > 0
  /\ IF ~Reaches(m_cur, getReadSize, Len(blocks)) THEN Crash
     ELSE LET whole == LastGroup(rest) # {}
              size == IF whole THEN GroupCount(rest) ELSE getReadSize
          IN /\ buf' = Fetch(size)
             /\ value' = IF whole THEN DecodeZigzag(Ungroup(rest)) ELSE 0
             /\ m_cur' = CurBehind(m_cur, size, Len(blocks))
             /\ m_position' = m_position + size
             /\ UNCHANGED <<m_size, m_capacity, blocks, crashed, written>>
----------------------------------------------------------------------------
Next ==
  \/ \E bs \in Raw : Write(bs) \/ \E len \in 1..BaseSize + 1 : Recv(len, bs)
  \/ \E len \in 1..BaseSize + 1 : RecvFails(len)
  \/ \E v \in Ints : WriteInt(v)
  \/ \E size \in ReadSizes : Read(size) \/ \E len \in ReadSizes : Send(len, size)
  \/ \E v \in 0..MaxBlocks * BaseSize : SetPosition(v)
  \/ ReadInt \/ ToString \/ Clear

Spec == Init /\ [][Next]_vars
----------------------------------------------------------------------------
(* Properties.                                                              *)

File == INSTANCE ByteFile WITH
  pos <- m_position,
  content <- [i \in 1..m_size |-> blocks[(i - 1) \div BaseSize + 1][(i - 1) % BaseSize]]

\* Whatever the calls and however their bytes fall on the blocks, a ByteArray
\* is a file of bytes with a position: what is read or sent is what was
\* written there last.
KeepsBytes == File!Spec

\* The cached m_cur is the block of m_position, null exactly when the array
\* is full, and no null pointer is ever followed. (Except by read() of 0
\* bytes at the end of a full array, as for an empty string.)
CurCoherent ==
  /\ ~crashed
  /\ m_position <= m_size /\ m_size <= m_capacity /\ m_capacity = Len(blocks) * BaseSize
  /\ m_cur = IF m_position = m_capacity THEN nullptr ELSE m_position \div BaseSize + 1

\* readInt32() at the place of an integer written by writeInt32() and not
\* overwritten since returns it, the smallest one too, on whatever blocks
\* its bytes lie.
IntsReadBack ==
  [][\A w \in written :
       (ReadInt /\ m_position = w.pos) => (crashed' \/ value' = w.val)]_vars
=============================================================================
