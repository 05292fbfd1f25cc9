------------------------------ MODULE ByteFile ------------------------------
(* What a ByteArray promises: a file of bytes with a position. Reading and  *)
(* writing move the position, a peek does not, and moving it beyond the end *)
(* extends the file by bytes nobody chose.                                  *)
EXTENDS Naturals, Sequences

VARIABLES
  content, pos,
  buf       \* the bytes the last call was given or has returned

vars == <<content, pos, buf>>

Init == content = <<>> /\ pos = 0 /\ buf = <<>>

Write ==
  /\ pos' = pos + Len(buf')
  /\ Len(content') = IF pos' > Len(content) THEN pos' ELSE Len(content)
  /\ \A i \in 1..Len(content') :
       content'[i] = IF i \in (pos + 1)..pos' THEN buf'[i - pos] ELSE content[i]

Read(n) ==
  /\ n <= Len(content) - pos
  /\ buf' = SubSeq(content, pos + 1, pos + n)
  /\ pos' = pos + n
  /\ UNCHANGED content

Peek ==
  /\ buf' = SubSeq(content, pos + 1, Len(content))
  /\ UNCHANGED <<content, pos>>

Seek ==
  /\ Len(content') = IF pos' > Len(content) THEN pos' ELSE Len(content)
  /\ SubSeq(content', 1, Len(content)) = content
  /\ buf' = <<>>

Clear == content' = <<>> /\ pos' = 0 /\ buf' = <<>>

Next == Write \/ (\E n \in 0..Len(content) : Read(n)) \/ Peek \/ Seek \/ Clear

Spec == Init /\ [][Next]_vars
=============================================================================
