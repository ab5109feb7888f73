----------------------------- MODULE TrainLoop -----------------------------
(***************************************************************************)
(* The training driver (run_pipeline of training/core/pipeline.py), the    *)
(* step_schedule of its five paradigms, the checkpoints it writes and the  *)
(* resume from one of them, with the actors of an asynchronous collector.  *)
(*                                                                         *)
(* Weights are the number of updates they have had.  A transition is the   *)
(* episode it comes from and the weights that played it; one unit of a     *)
(* plan stands for its n_episodes.  The random streams are the number of   *)
(* draws.  A Crash is a kill of the process or an exception out of the     *)
(* loop (the NaN guard, a full rollout buffer): neither saves anything.    *)
(* Evaluation is left out: tools.runs passes no evaluation server.         *)
(***************************************************************************)
EXTENDS Integers, Sequences, FiniteSets

CONSTANTS Configs,    \* the configurations: kind, async, limit, batches, batch,
                      \* warmup, every (sync_weights_every_train_steps), capacity,
                      \* units of a plan, saveEvery, keep (keep_last_n, 0 for all)
          RingSize,   \* capacity of the historical opponents
          Actors,     \* actors of an asynchronous collector
          QueueSize,  \* capacity of their queue
          MaxResumes  \* bound: restarts of a run

ASSUME TrainAssumption ==
  /\ RingSize \in Nat \ {0} /\ QueueSize \in Nat \ {0} /\ MaxResumes \in Nat
  /\ \A c \in Configs :
       /\ c.kind \in {"bc", "az", "dmc", "cfr", "ppo"} /\ c.async \in BOOLEAN
       /\ c.limit \in Nat /\ c.batches \in Nat \ {0} /\ c.batch \in Nat \ {0}
       /\ c.warmup \in Nat /\ c.every \in Nat /\ c.capacity \in Nat \ {0}
       /\ c.units \in Nat \ {0} /\ c.saveEvery \in Nat /\ c.keep \in Nat

VARIABLES
  cfg,        \* the configuration of the run
  pc,         \* where the driver is; "down" once the process is gone
  st,         \* PipelineState
  plan,       \* the StepPlan of this iteration
  net,        \* the network
  buffer,     \* the transitions it trains on
  runtime,    \* draws of the random streams, episode_seq, historical opponents
  drained,    \* units taken from the queue in this collect
  after,      \* where to go when the save is done
  files,      \* ckpt_<step>.pt on disk
  latest,     \* latest.pt
  published,  \* weights in shared memory
  playing,    \* weights each actor plays its episode with
  queue,      \* episodes of the actors
  resumes,    \* number of restarts
  seen,       \* history: the first state with which each step was begun
  saved       \* history: what the last completed ckpt file of this run holds

driver == <<pc, st, plan, net, buffer, runtime, drained, after>>
disk   == <<files, latest>>
actors == <<playing, queue>>
hist   == <<resumes, seen, saved>>
vars   == <<cfg, driver, disk, published, actors, hist>>

None  == [none |-> TRUE]
Torn  == [torn |-> TRUE]
Fresh == [step |-> 0, episodes |-> 0, transitions |-> 0, train |-> 0, lastCkpt |-> -1]
Start == [draws |-> 0, episode |-> 0, opponents |-> <<>>]

\* A collector whose state, with the buffer's, is part of the checkpoint.
Complete == cfg.kind = "dmc" /\ ~cfg.async

(***************************************************************************)
(* step_schedule                                                           *)
(***************************************************************************)
FinishedAt(s) ==
  CASE cfg.kind = "az"  -> s.episodes >= cfg.limit
    [] cfg.kind = "dmc" -> s.transitions >= cfg.limit
    [] OTHER            -> s.step >= cfg.limit
Finished == FinishedAt(st)

WarmingUp == cfg.kind \in {"az", "dmc"} /\ st.transitions < cfg.warmup

SyncDue_Once == cfg.async /\ st.train = 0
SyncDue ==
  cfg.async /\ cfg.kind # "bc" /\ st.train % (IF cfg.every > 1 THEN cfg.every ELSE 1) = 0

StepSchedule ==
  [collect |-> ~Finished /\ (cfg.kind = "bc" => st.step = 0),
   train   |-> ~Finished /\ ~WarmingUp,
   sync    |-> ~Finished /\ ~WarmingUp /\ SyncDue,
   clear   |-> ~Finished /\ cfg.kind = "ppo",
   advance |-> IF Finished THEN 0 ELSE 1]

(***************************************************************************)
(* One iteration of run_pipeline                                           *)
(***************************************************************************)
Live == [st |-> st, net |-> net, buffer |-> buffer, runtime |-> runtime]

Init ==
  /\ cfg \in Configs
  /\ pc = "head" /\ st = Fresh /\ plan = None /\ net = 0 /\ buffer = <<>>
  /\ runtime = Start /\ drained = 0 /\ after = "head"
  /\ files = <<>> /\ latest = None
  /\ published = 0 /\ playing = [a \in Actors |-> 0] /\ queue = <<>>
  /\ resumes = 0 /\ seen = <<>> /\ saved = None

Schedule ==
  /\ pc = "head"
  /\ plan' = StepSchedule
  /\ pc' = IF plan'.collect THEN "collect" ELSE "train"
  /\ drained' = 0
  /\ seen' = IF Complete /\ st.step \notin DOMAIN seen
               THEN [k \in DOMAIN seen \cup {st.step} |->
                       IF k = st.step THEN Live ELSE seen[k]]
               ELSE seen
  /\ UNCHANGED <<cfg, st, net, buffer, runtime, after, disk, published, actors, resumes, saved>>

\* Transitions of the e-th episode.
Yield(e) == 1 + (e % 2)

\* buffer.push: beyond the capacity the oldest go (CFR's reservoir replaces a
\* random one).
Push(out) ==
  LET b == buffer \o out
  IN  buffer' = SubSeq(b, IF Len(b) > cfg.capacity THEN Len(b) - cfg.capacity + 1 ELSE 1, Len(b))

AfterCollect(episodes, transitions) ==
  st' = [st EXCEPT !.episodes = @ + episodes, !.transitions = @ + transitions]

\* A serial collector plays with the network that is trained.
CollectSerial ==
  /\ pc = "collect" /\ ~cfg.async
  /\ LET e == runtime.episode + 1
         n == IF cfg.kind = "bc" THEN cfg.capacity ELSE Yield(e)
     IN  /\ Push([i \in 1 .. n |-> [episode |-> e, ver |-> net]])
         /\ AfterCollect(IF cfg.kind = "bc" THEN 0 ELSE 1, n)
         /\ runtime' = [runtime EXCEPT !.episode = e, !.draws = @ + 1]
  /\ pc' = "train"
  /\ UNCHANGED <<cfg, plan, net, drained, after, disk, published, actors, hist>>

\* An asynchronous one drains the queue of its actors, up to a deadline.
Drain ==
  /\ pc = "collect" /\ cfg.async /\ drained < cfg.units /\ queue # <<>>
  /\ Push(<<[episode |-> 0, ver |-> Head(queue)]>>)
  /\ AfterCollect(1, 1)
  /\ queue' = Tail(queue) /\ drained' = drained + 1
  /\ UNCHANGED <<cfg, pc, plan, net, runtime, after, disk, published, playing, hist>>

DrainEnd ==
  /\ pc = "collect" /\ cfg.async
  /\ pc' = "train"
  /\ UNCHANGED <<cfg, st, plan, net, buffer, runtime, drained, after, disk, published,
                 actors, hist>>

\* n_train_batches updates, none while the buffer is short of a batch.
Train ==
  /\ pc = "train"
  /\ LET n == IF plan.train /\ Len(buffer) >= cfg.batch THEN cfg.batches ELSE 0
     IN  /\ net' = net + n
         /\ st' = [st EXCEPT !.train = @ + n]
         /\ runtime' = [runtime EXCEPT !.draws = @ + n]
  /\ pc' = "sync"
  /\ UNCHANGED <<cfg, plan, buffer, drained, after, disk, published, actors, hist>>

SyncWeights ==
  /\ pc = "sync"
  /\ published' = IF plan.sync THEN net ELSE published
  /\ pc' = "end"
  /\ UNCHANGED <<cfg, st, plan, net, buffer, runtime, drained, after, disk, actors, hist>>

ShouldSave ==
  /\ cfg.saveEvery > 0
  /\ st.step - (IF st.lastCkpt < 0 THEN 0 ELSE st.lastCkpt) >= cfg.saveEvery

AddSnapshot ==
  LET ring == Append(runtime.opponents, net)
  IN  [runtime EXCEPT !.opponents =
         SubSeq(ring, IF Len(ring) > RingSize THEN 2 ELSE 1, Len(ring))]

\* Mutants of EndIteration: rollouts are not cleared; the step does not advance.
EndIteration_KeepData ==
  /\ pc = "end"
  /\ st' = [st EXCEPT !.lastCkpt = IF ShouldSave THEN st.step ELSE @,
                      !.step = @ + plan.advance]
  /\ runtime' = IF ShouldSave /\ cfg.kind = "dmc" THEN AddSnapshot ELSE runtime
  /\ after' = IF plan.advance = 0 THEN "final" ELSE "head"
  /\ pc' = IF ShouldSave THEN "save" ELSE after'
  /\ UNCHANGED <<cfg, plan, net, buffer, drained, disk, published, actors, hist>>
EndIteration_Stay ==
  /\ pc = "end" /\ pc' = "head"
  /\ UNCHANGED <<cfg, st, plan, net, buffer, runtime, drained, after, disk, published,
                 actors, hist>>

\* The rest of the iteration: buffer.clear, the decision to save, the snapshot
\* for the historical opponents, and the advance of the step before the save.
EndIteration ==
  /\ pc = "end"
  /\ buffer' = IF plan.clear THEN <<>> ELSE buffer
  /\ st' = [st EXCEPT !.lastCkpt = IF ShouldSave THEN st.step ELSE @,
                      !.step = @ + plan.advance]
  /\ runtime' = IF ShouldSave /\ cfg.kind = "dmc" THEN AddSnapshot ELSE runtime
  /\ after' = IF plan.advance = 0 THEN "final" ELSE "head"
  /\ pc' = IF ShouldSave THEN "save" ELSE after'
  /\ UNCHANGED <<cfg, plan, net, drained, disk, published, actors, hist>>

(***************************************************************************)
(* CheckpointManager.save                                                  *)
(***************************************************************************)
Final ==
  /\ pc = "final"
  /\ pc' = "save" /\ after' = "done"
  /\ UNCHANGED <<cfg, st, plan, net, buffer, runtime, drained, disk, published, actors, hist>>

Payload_NoBuffer ==
  [st |-> st, net |-> net,
   runtime |-> IF Complete THEN [buffer |-> <<>>, rest |-> runtime] ELSE None]
Payload ==
  [st |-> st, net |-> net,
   runtime |-> IF Complete THEN [buffer |-> buffer, rest |-> runtime] ELSE None]

Write(k, content) ==
  files' = [j \in DOMAIN files \cup {k} |-> IF j = k THEN content ELSE files[j]]

\* torch.save opens the file, which is torn until it has returned.
SaveOpen ==
  /\ pc = "save"
  /\ Write(st.step, Torn) /\ pc' = "writing"
  /\ UNCHANGED <<cfg, st, plan, net, buffer, runtime, drained, after, latest, published,
                 actors, hist>>

\* Mutant: the write goes on in the background when save returns.
SaveWritten_Unflushed ==
  /\ pc = "writing"
  /\ pc' = "copy" /\ saved' = Payload
  /\ UNCHANGED <<cfg, st, plan, net, buffer, runtime, drained, after, disk, published,
                 actors, resumes, seen>>
SaveWritten ==
  /\ pc = "writing"
  /\ Write(st.step, Payload) /\ pc' = "copy"
  /\ saved' = Payload
  /\ UNCHANGED <<cfg, st, plan, net, buffer, runtime, drained, after, latest, published,
                 actors, resumes, seen>>

\* shutil.copy2 to latest.pt.
CopyOpen ==
  /\ pc = "copy"
  /\ latest' = Torn /\ pc' = "copying"
  /\ UNCHANGED <<cfg, st, plan, net, buffer, runtime, drained, after, files, published,
                 actors, hist>>

CopyDone ==
  /\ pc = "copying"
  /\ latest' = files[st.step] /\ pc' = "prune"
  /\ UNCHANGED <<cfg, st, plan, net, buffer, runtime, drained, after, files, published,
                 actors, hist>>

\* All but the keep files with the highest step are unlinked, oldest first.
Older == {k \in DOMAIN files : Cardinality({j \in DOMAIN files : j > k}) >= cfg.keep}

Prune ==
  /\ pc = "prune" /\ cfg.keep > 0
  /\ \E k \in Older :
       /\ \A j \in Older : k <= j
       /\ files' = [j \in DOMAIN files \ {k} |-> files[j]]
  /\ UNCHANGED <<cfg, driver, latest, published, actors, hist>>

SaveDone ==
  /\ pc = "prune" /\ (cfg.keep > 0 => Older = {})
  /\ pc' = after
  /\ UNCHANGED <<cfg, st, plan, net, buffer, runtime, drained, after, disk, published,
                 actors, hist>>

(***************************************************************************)
(* Crash and resume                                                        *)
(***************************************************************************)
Crash ==
  /\ pc \notin {"done", "down"}
  /\ pc' = "down" /\ st' = Fresh /\ plan' = None /\ net' = 0 /\ buffer' = <<>>
  /\ runtime' = Start /\ drained' = 0 /\ after' = "head"
  /\ published' = 0 /\ playing' = [a \in Actors |-> 0] /\ queue' = <<>>
  /\ UNCHANGED <<cfg, disk, hist>>

Loadable == ({files[k] : k \in DOMAIN files} \cup {latest}) \ {Torn, None}

\* The operator names a checkpoint.  The collector has been made, and has
\* published the untrained network, before the checkpoint is loaded.
Resume ==
  /\ pc = "down" /\ resumes < MaxResumes
  /\ \E p \in Loadable :
       /\ st' = p.st /\ net' = p.net
       /\ buffer'  = IF Complete THEN p.runtime.buffer ELSE <<>>
       /\ runtime' = IF Complete THEN p.runtime.rest ELSE Start
       /\ saved' = p
  /\ pc' = "head" /\ resumes' = resumes + 1
  /\ UNCHANGED <<cfg, plan, drained, after, disk, published, actors, seen>>

(***************************************************************************)
(* The actors of an asynchronous collector                                 *)
(***************************************************************************)
Running == cfg.async /\ pc \notin {"done", "down"}

\* provider.update_weights, between two episodes.
Poll(a) ==
  /\ Running /\ playing[a] # published
  /\ playing' = [playing EXCEPT ![a] = published]
  /\ UNCHANGED <<cfg, driver, disk, published, queue, hist>>

\* An episode ends and is queued; it is lost when the queue is full.
Episode(a) ==
  /\ Running /\ Len(queue) < QueueSize
  /\ queue' = Append(queue, playing[a])
  /\ UNCHANGED <<cfg, driver, disk, published, playing, hist>>

(***************************************************************************)
(* Specification                                                           *)
(***************************************************************************)
Iteration == Schedule \/ CollectSerial \/ Drain \/ DrainEnd \/ Train \/ SyncWeights \/ EndIteration
Save      == Final \/ SaveOpen \/ SaveWritten \/ CopyOpen \/ CopyDone \/ Prune \/ SaveDone

Next == Iteration \/ Save \/ Crash \/ Resume \/ \E a \in Actors : Poll(a) \/ Episode(a)
Spec == Init /\ [][Next]_vars
\* The driver runs; nobody is obliged to resume, and actors may be slow.
FairSpec == Spec /\ WF_vars(Iteration \/ Save)

(***************************************************************************)
(* Properties                                                              *)
(***************************************************************************)
TypeOK ==
  /\ cfg \in Configs
  /\ pc \in {"head", "collect", "train", "sync", "end", "save", "writing", "copy",
             "copying", "prune", "final", "done", "down"}
  /\ st \in [step : Nat, episodes : Nat, transitions : Nat, train : Nat, lastCkpt : Nat \cup {-1}]
  /\ st.lastCkpt <= st.step /\ net = st.train
  /\ Len(buffer) <= cfg.capacity /\ Len(runtime.opponents) <= RingSize
  /\ published <= net \/ pc = "down"
  /\ Len(queue) <= QueueSize /\ drained <= cfg.units

\* A run of the serial DMC collector that is killed, however often and in
\* whatever step of a save, and resumed from whatever checkpoint goes through
\* the same states as one that never stopped: weights, buffer, random streams,
\* historical opponents and counters at the head of a step do not depend on it.
ResumeRepeats ==
  Complete /\ pc = "head" /\ ~Finished /\ st.step \in DOMAIN seen => seen[st.step] = Live

\* Once a checkpoint of a run that is not over has been written, its content can
\* be loaded from some file at any moment: while the next one or latest.pt is
\* half written, while old ones are pruned, and after a kill at any of these
\* points.  (Over, it cannot: the save after the last step opens the file of
\* that step again, and with keep = 1 there is no other but latest.pt.)
UnfinishedRecoverable == saved # None /\ ~FinishedAt(saved.st) => saved \in Loadable

\* PPO trains only on what its present weights have played.
OnPolicy == cfg.kind = "ppo" /\ pc = "train" => \A i \in DOMAIN buffer : buffer[i].ver = net
\* The same for a serial collector, across kills and resumes.
SerialOnPolicy == ~cfg.async => OnPolicy

\* Since the first synchronisation of a process, the weights of the actors are
\* behind by less than any common multiple of cadence and updates.
Common(n) == n % cfg.batches = 0 /\ (cfg.every > 1 => n % cfg.every = 0)
SyncLag ==
  cfg.async /\ pc = "head" /\ published > 0 =>
    \A n \in 1 .. (cfg.batches * (cfg.every + 1)) : Common(n) => net - published <= n - cfg.batches

\* A run that is not killed comes to its end, whatever its actors do.
Finishes == [](pc = "head" => <>(pc \in {"done", "down"}))
=============================================================================
