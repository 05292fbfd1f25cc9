---------------------------- MODULE MCTcpServer -----------------------------
(* Instances of TcpServer for TLC.                                          *)
EXTENDS TcpServer, TLC

CONSTANTS s1, c1
=============================================================================
