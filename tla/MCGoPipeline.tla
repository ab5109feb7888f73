---------------------------- MODULE MCGoPipeline ----------------------------
(* Model-checking instance of GoPipeline.                                  *)
EXTENDS GoPipeline, TLC
=============================================================================
