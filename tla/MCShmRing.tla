----------------------------- MODULE MCShmRing -----------------------------
(* Model-checking instance of ShmRing.                                     *)
EXTENDS ShmRing, TLC
=============================================================================
