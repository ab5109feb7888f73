--------------------------- MODULE MCShmRingProbe ---------------------------
(* Model-checking instance of ShmRingProbe.                                *)
EXTENDS ShmRingProbe, TLC
=============================================================================
