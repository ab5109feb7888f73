--------------------------- MODULE MCInferenceRpc ---------------------------
(* Model-checking instance of InferenceRpc.                                *)
EXTENDS InferenceRpc, TLC
CONSTANTS g1, p1
=============================================================================
