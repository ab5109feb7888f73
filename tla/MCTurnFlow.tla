----------------------------- MODULE MCTurnFlow -----------------------------
(* Model-checking instance of TurnFlow.                                    *)
EXTENDS TurnFlow, TLC
=============================================================================
