---------------------------- MODULE MCTrainLoop ----------------------------
(* Model-checking instance of TrainLoop: every paradigm with a serial        *)
(* collector, PPO and CFR with an asynchronous one, and several cadences    *)
(* and numbers of checkpoints kept.                                         *)
EXTENDS TrainLoop, TLC
CONSTANTS a1, a2

Cfg(kind, async, limit, batches, batch, warmup, every, capacity, units, saveEvery, keep) ==
  [kind |-> kind, async |-> async, limit |-> limit, batches |-> batches, batch |-> batch,
   warmup |-> warmup, every |-> every, capacity |-> capacity, units |-> units,
   saveEvery |-> saveEvery, keep |-> keep]

SerialConfigs(saveEvery, keep) == {
  Cfg("bc",  FALSE, 3, 2, 1, 0, 0, 2, 1, saveEvery, keep),
  Cfg("az",  FALSE, 4, 1, 2, 2, 0, 3, 1, saveEvery, keep),
  Cfg("dmc", FALSE, 8, 2, 2, 2, 0, 3, 1, saveEvery, keep),
  Cfg("cfr", FALSE, 3, 1, 2, 0, 0, 3, 1, saveEvery, keep),
  Cfg("ppo", FALSE, 3, 1, 1, 0, 0, 4, 1, saveEvery, keep)}
AsyncConfigs == {
  Cfg("ppo", TRUE, 3, 1, 1, 0, 0, 4, 2, 1, 1),
  Cfg("cfr", TRUE, 4, 2, 1, 0, 3, 3, 1, 2, 0)}
AllConfigs == SerialConfigs(1, 1) \cup SerialConfigs(2, 2) \cup SerialConfigs(1, 0) \cup AsyncConfigs
=============================================================================
