----------------------------- MODULE MCHttpPool -----------------------------
(* Instances of HttpPool for TLC.                                           *)
EXTENDS HttpPool, TLC

CONSTANTS a, b, x, y
=============================================================================
