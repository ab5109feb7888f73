---------------------------- MODULE MCActorPool ----------------------------
(* Model-checking instance of ActorPool: both kinds of collector.            *)
EXTENDS ActorPool, TLC

BothKinds == {"cfr", "ppo"}
=============================================================================
