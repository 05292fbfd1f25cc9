------------------------------- MODULE MCHook -------------------------------
(* Instances of Hook for TLC.                                               *)
EXTENDS Hook, TLC

CONSTANTS a, b, s

Writing == {WRITE}
=============================================================================
