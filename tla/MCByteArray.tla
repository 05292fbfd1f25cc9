---------------------------- MODULE MCByteArray -----------------------------
(* Instances of ByteArray for TLC.                                          *)
EXTENDS ByteArray

Strings == {<<7>>, <<6, 2, 1>>}
Numbers == {-4, 1}
=============================================================================
