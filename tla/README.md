# gicg_sim: a TLA+ model of its engine driver and its training system

gicg_sim is a simulator of a two-player dice-and-cards game with a training
system around it. The engine (`gicg_engine`, Go) plays the game; its rules are
DSL hooks (`data/`). Actor processes (`gicg_actor`, Go) play episodes against a
network and send them through shared memory to one training process
(`training`, Python), which serves inference and publishes weights.

The training system runs one of five paradigms (`dmc`, `az`, `cfr`, `ppo`, `bc`)
in one loop, with a collector that plays in process or on actors of its own, and
`tools/runs` keeps a registry of the runs.

This directory holds TLA+ modules of the parts whose control is hard to test,
TLC configurations that check them on small instances, and TLAPS proofs of
their main properties for every value of the constants.

    tlc -workers 2 -config ShmRing_pass.cfg MCShmRingProbe
    tlapm ShmRingProofs.tla

## Inventory

| component | state | operations | interacts with | hard behaviour | what makes it correct |
|---|---|---|---|---|---|
| transition ring: `shm_unix.c`, `transition_writer_shm.go`, `ring_shm.py` | head, tail, count, a status byte per slot, headers and payloads in shared memory | push (with retry and deadline), pop, diagnostic probe | actors of several processes push, the collector pops | lock-free interleavings across processes, death in mid-push, full ring | capacity accounted for, slots owned by one, no torn, lost, repeated or reordered frame, the consumer drains |
| turn and round driver: `action_step.go`, `action_execute*.go`, `action_preparing.go`, `round.go`, `forced_switch.go` | phase, round, turn, first end, declared ends, prepared skills, active and living characters, winner, pending replacement | Step, StepTarget, GetLegalActions, NewRound, EndPhase | calls DSL hooks, which call back (damage, death, switches, set_preparing) | re-entrant callbacks, suspension in mid-handler, game over in mid-handler, recursion of flipTurn and ResolvePreparing | always somebody to act, the right one, with a legal choice; a game ends once, with its result |
| continuation: `continuation.go` | root snapshot, recorded choices, log boundary | suspend by panic, replay on resume | driver, snapshot pool, event log, clones | a Step replayed from its root with recorded inputs, sampling while it waits, roots shared by games and clones | a resumed Step equals an uninterrupted one |
| damage, counters, event frames: `damage.go`, `game_counter.go` | counters, event stack, deferred queues | DealDamage, WriteCounter, Defer, DrainDeferred | driver, hooks | nested frames, queue grown while drained | every deferred effect runs once, in its frame |
| buffs: `buffs.go`, `buff_schedule.go`, `buff_round.go` | list of instances with serials | schedule, fire, remove | hooks | removal while a schedule fires | hooks in creation order, removed ones not fired |
| interpreter and rules: `interp/`, `data/` | DSL environment | builtins | driver | as the callbacks above | |
| dice, costs, tune | dice counters | enumeration of payments, pay | driver | small boundaries | a payment enumerated can be paid |
| snapshots, clones, checkpoints | pooled copies | snapshot, restore, release | continuation, search | sharing of pooled memory | a released snapshot has no other user |
| observation, tokenizer, event log, C API, records | buffers | encode, append | Python | none (pure or I/O) | |
| tree search: `gicg_mcts` | tree with visit counts and virtual losses, channels of work, requests and replies | rollout (select, add, expand, back up), dispatch, search | engine clones, the evaluator in Python | goroutines on one tree, each with a list of legal actions of its own that may repeat some, bounded channels, failures in any of them | no more children of an action than one list has of it, a choice always possible, replies go to their rollouts, visits add up, the search returns |
| actor pool, paradigm loop, inference client (Go): `gicg_actor`, `cmd/gicg_actor` | connections, request ids, alive actors | run, request, exit on signal | ring, server | timeouts, exit in the middle of anything | a reply goes to its request |
| inference server, listener, clients: `training/core/actor` | request queue, response queue per client, batch, cached embedding | infer, weights, stop | actors, trainer | batches of several clients, processes that write what they queue later, weights that arrive meanwhile, stale replies, stop with requests queued | each request is answered once, with its own row, by one version of the weights |
| Go subprocess pipeline: `go_subprocess*.py` | server, ring, list of processes, assembler | bring-up by the first collect, collect, close | all of the above | failure half-way, processes that do not come up or do not obey | nothing outlives it, in the right order, and no episode is lost |
| asynchronous collectors, weights, runtime of Python actors: `cfr/_async.py`, `ppo/_async.py`, `weights_shm.py`, `runtime.py`, `actor_process.py` | slots with header, payload, lock; list of actors; queue | publish, poll, collect, close | driver, actors | torn or stale weights, failure at any step of construction, actors that do not obey, or die with the lock of a slot or of their stop event | whole and current weights, nothing outlives close, close returns |
| training driver, schedules, checkpoints: `pipeline.py`, `protocols.py`, `checkpoint.py`, the five `paradigm.py` | step, counters, network, buffer, random streams, files | schedule, collect, train, synchronise, save, resume | collectors, disk | kills in the middle of a save, fields saved on the wrong side of a boundary | a run can be resumed, and repeats itself |
| run registry: `tools/runs` | numbered directories, versioned snapshots, metadata, lock files | train, resume, mark, recover | driver | commands that race and stop anywhere, between two files of a pair too | numbers given once, versions of one command, outcomes kept |
| Python ring, buffers, evaluation, networks, env wrapper, web, other tools | | | | sequential, numerical or I/O | |

`PROJECT.json` lists the components with their files and the hazards with their
lines.

## Modules

| module | what it is |
|---|---|
| `ShmRing` | the ring at the grain of single atomic instructions, with the push loop of `TransitionWriterShm` and the death of producers |
| `MpscChannel` | what the ring promises: a bounded queue whose places are claimed, then made ready, then received in claim order |
| `ShmRingProbe` | `ShmRing` with the collector's diagnostic scan, which runs in the consumer's thread |
| `ShmRingProofs` | the theorems about the ring: safety, order and accounting, the scan of the collector, refinement of `MpscChannel` |
| `TurnFlow` | the turn and round driver |
| `Continuation` | suspension and replay of an operation, with the snapshots and clones that share its past |
| `Coroutine` | what continuations promise: games that keep their stack |
| `InferenceRpc` | the inference server, its connection handlers and both kinds of client |
| `RpcService` | what the inference server promises its actors: a register of weights and calls that are answered at one moment |
| `GoPipeline` | the collector of DMC on Go processes: bring-up, collects, shutdown. Its ring is the channel of `MpscChannel`, its server the one of `InferenceRpc`, both seen from outside |
| `ActorPool` | the asynchronous collectors of CFR and PPO: construction, publication of weights, actors, close |
| `TrainLoop` | the training driver with the five schedules, its checkpoints and resumes |
| `RunRegistry` | the registry of training runs |
| `TreeSearch` | the parallel tree search of the Go engine |
| `EngineProofs` | the theorems about `TurnFlow` and `Continuation`, and the refinement of `Coroutine` |
| `InferenceRpcProofs`, `GoPipelineProofs`, `TrainLoopProofs`, `RunRegistryProofs`, `ActorPoolProofs`, `TreeSearchProofs` | the theorems about the others |
| `MC...` | instances for TLC: configurations, model values, symmetry; `MCShmRingProbe` is the ring with its probe |

Operators whose name ends in `_Something` after the name of another
(`Push_Overwrite`, `Closes_InTry`) are variants of it with a plausible bug. No
specification uses them; replaced by one, a run finds the property it belongs to
violated.

### ShmRing

`head`, `tail`, `count`, `status`, `hdr`, `body` are the shared memory. A
producer's `pc`, `cnt`, `old` are its place in `shm_ring_push` and the locals
`cnt` and `old_tail`; `seq` is how many frames it is done with. `cpc`, `chdr`,
`cbody` are the consumer's place in `shm_ring_pop` and what it has copied. Each
load, compare-and-swap and store that another process can observe is one
action, named after what it does: `LoadCount`, `CasCount`, `LoadTail`,
`CasTail`, `WriteHeader`, `WritePayload`, `Publish` for the push;
`PopBegin` (the load of count; head belongs to the consumer),
`PopFull`/`PopTransient` (the load of status), `PopHeader`, `PopPayload`,
`PopRelease`, `PopAdvance`, `PopUncount` for the pop. The compare-and-swaps are
strong (weak = 0 in the C code), and the acquire and release orders of the code
are what makes interleaving semantics right for it: status orders header and
payload in both directions. `PushFull`, `Retry` and `GiveUp` are the loop of
`TransitionWriterShm.Push`; time is left out, so a deadline may pass at any
full ring.

`Crash` stops a producer for ever and leaves the memory as it is. It is what
SIGKILL does, and what `os.Exit(0)` of the SIGTERM handler in `pool.go` does to
the other goroutines.

A frame is `<<p, n>>`, the n-th frame of producer p, written to the header and
the payload separately. `claims` (the frames of claimed slots, in claim order),
`delivered` and `dropped` are history variables; no guard reads them.

Left out: `shm_create` in use by two runs at once, attach and detach, payloads
too long for a slot (refused before any shared write), the response slots of the
same file, which production no longer uses, and wrap-around of 32-bit counters
(count stays within the capacity; head and tail are taken modulo it).

### TurnFlow

The variables are the fields of `Game` the driver decides on. `task` is the Go
stack of the running Step as the sequence of what is left to do: stages of rules
(`skill`, `card`, `switch`, `prepared`, and the end-phase stages) and calls
(`flipTurn`, `resolvePreparing`, `checkActionPhaseEnd`, `final`). A player's
choice (`UseSkill`, `PlayCard`, `Switch`, `EndTurn`, ...) performs the handler's
assignments up to its first hooks and pushes the rest; each later action
performs the part of the handler up to the next hooks.

Rules are DSL, so a stage of them is any number of the effects rules have on
these variables, in any order:

- `Defeat`: damage brings a character to 0. `SetAlive` and `checkWin` run at
  once; when it was the active one and the game goes on, the death check queues
  a request on the frame of `DealDamage`, which drains its queue right after the
  write of HP. So the Step suspends at once (`asking`), and only
  `ChooseReplacement` can go on. A background character that falls between the
  queueing and the request is the same as one that fell before.
- `DefeatOverloaded`: the rule of a lethal overload switches the next living
  character in during the death callback, so nobody is asked.
- `ForceSwitchTo`: the switches without a choice (overload, a skill of
  砂糖, the cards 鹤归之时 and 复刻). It cannot name a fallen character or the
  active one.
- `SetPreparing`: a skill queues a prepared skill for its owner.

Whether an action is a battle action is decided by hooks, so `battle` is free.
Once the game is over no further hook is fired, and every handler but
`resolvePreparing` returns: `FinishRules` keeps that difference.

Left out: dice, hands, costs, and Tune, which changes nothing else (so which
cards or skills can be paid for is free, a superset of the code's choices);
skills that a status forbids; the pending card target, a path that the joint
actions of `GetLegalActions` replaced; reward tallies and the event log. The
start of a round is one step, since no hook under `data/` for it does more than
touch dice, cards and counters. A suspended Step is replayed by the code from a
snapshot; here it simply goes on, as in `Coroutine`, which `Continuation`
implements.

`mover` is a history variable: who made the last battle action of the round.

### Continuation

A Step that asks a player cannot keep its Go stack. It panics out of it, and the
game waits with a continuation (`cont`): the snapshot of the state it began in
(`root`), the operation, the choices made so far, each with a snapshot of the
state it was made in, and whose log it told and how long that was (`of`,
`base`). `status` says where the continuation is: in `g.executing` (running), in
`g.resume` (waiting), nowhere. `pending` is `PendingAction` or `PendingDice`,
`next` is `execution.next`, and `stack` the Go and DSL frames there are while
the operation runs.

- `Begin` is `runBoundary`, `Move` any piece of an operation between two
  requests. `Suspend` and `TakeChoice` are `requestDeferredInput` and
  `requestDiceInput`, when there is no recorded choice left and when there is;
  `Finish` and `FailRule` are the ends of `runExecution`.
- `ResumeTarget` keeps the waiting state with the choice, puts the root back,
  rewinds the log and starts the operation again. A log shorter than `base`
  fails the game.
- `Sample` stands for the setters of hands, decks and seeds by which a search
  samples what a player cannot see. `SnapshotPooled`, `RestoreFromSnap` and
  `ReleaseSnap` are what they are called in the code; `Collect` is Go's garbage
  collector. A clone is a game that restores a snapshot of another, and shares
  the root and the states of the choices with it.

What the rules do is a parameter: `Does`, `Moves`, `Wants`, `Answer`, `Legal`
are functions of state and stack. That they are functions, so that a replay
that is given the same states does the same, is what `ExecuteEffect` asks of an
effect (`effect.go:9`: keep gameplay state in the Game, not in captured
variables); random numbers come from the state.

`path` (of a continuation), `at` and `kept` are history: the states the
operation would have gone through without a suspension, how far along them the
running one is, and the log when it was resumed. `SeenData`, `SeenStatus`,
`SeenStack`, `SeenTold`, `SeenLog` are the refinement mapping: while an operation
is replayed, its game is seen waiting, with the state and the log it had when
the player chose; the last `TakeChoice` of a replay is the abstract `Choose`.

A game that has a log is only given back waiting operations that began on that
log (`RestoreFromSnap`); its callers suspend the log around everything else. A
continuation of another game is not rewound, which is `of`.

Left out: the public cause of a request, round snapshots and the step number
inside the log, operations begun inside operations (they run in the same stack),
`Reset`, and checkpoints, which are refused while a game waits.

### InferenceRpc

`requestQ` and `responseQ` are the multiprocessing queues, `up` and `down` the
frames on a Go actor's connection. `put` only leaves an item with its process,
whose feeder thread pickles it and writes it into the pipe later: `outbox` is
what the owner, the server (for all its handler threads) and each Python actor
have put, `PutRequest` the put, `Feed` a write. So the request queue is in order
for each process and for nothing else, and a state dict that takes long to
pickle is overtaken by the requests of others. A response queue has one
producer, whose feeder only delays it. The server loop is cut where others can
act: `Poll` (head of the loop), `GetEmpty`, `Get`, `LoadWeights`, `Fill` (the
inner loop that fills a batch until `MaxBatch` or the deadline, `BatchClosed`),
`Decode`, `ForwardBatch`, `Dispatch` (one reply per step), `ServerExit`. A load
that raises leaves the old weights with their cache (`LoadWeights`); a decode
may miss the cached embedding or fail; a forward may fail and takes its batch
with it. `Forward`, `TakeReply` and `StopReply` are a connection's handler
thread, which drops replies of another id; `Request`, `ReceiveSocket`,
`ReceiveQueue`, `Timeout`, `ConnectionLost`, `NextEpisode` and `Return` are the
actors. `Return` ends an actor whose request failed, as `runActor` and
`actor_main` do: that is what keeps a late reply from being read as another's.
`Started`, `UpdateNetwork`, `StopServer` and `Reap` are the owner.

Rows are triples: what was asked, with which weights, with an embedding of which
weights. Left out: clients inside the server's process, CUDA streams, metrics,
profiles, frames that do not parse, a state dict of which `load_state_dict` has
copied a part when it raises, a client killed while its feeder holds the write
lock of the queue, and a signal that meets the server inside `is_set`, which
`GoPipeline` has.

`RpcService` is this service without queues, batches, caches, threads and
failures: a call is asked, answered at one moment (several at once, by one
forward), then returned or given up. Its weights only go on to newer ones that
were published; they may pass over some, whose load failed, and nothing is
promised of when they go on, nor that a call made after a publication meets it:
the feeder threads leave no such order. `Calls(c)` collects what the connection,
the queues, the batch and its rows hold for actor `c`, a request or a reply to
it; `SeenCall`, the one there is, and `SeenResult` are the refinement mapping.
The abstract `Serve` is the `ForwardBatch` of the server, or the `Decode` that
misses; `Load` is a `Get` or `Fill` that takes weights; all moves between
queues, feeders' too, are stutters. So no call is lost in the server or answered
twice, and a row is of one version throughout.

### GoPipeline

`pc` is the collector's place in `collect`, `spawn_pipeline`, its undoing, and
`close`; `procs` and `i` its list of processes and the one it is at. `go` and
`announced` are the processes and the READY lines; `frames` the ring, `ready`
the episodes in the assembler, `returned` those handed over. A process may be
slow, silent, killed, or deaf to SIGTERM; `Terminate` is
`GoSubprocessHandle.terminate`, which kills in the end. `Undo` is where a failed
bring-up goes: shutdown of what there is. `SpawnStrays` is an exception in
`GoSubprocessHandle.spawn` between `Popen` and the wait for READY: the process
runs and nobody has a handle (`stray`), so `AllOrNothing` and `ShutdownOrder`
except it. The server's stop event is a `multiprocessing.Event`, whose `set` and
`is_set` take a lock: `ServerJams` is a signal that meets the server inside
`is_set`, whose handler then waits for the lock its own thread holds, and a
server may die inside `is_set` (`ServerDies`); `latched` says that the lock is
lost, and `InferenceServer.stop` then waits in `set` for ever. `Cut` is an
exception that is not an Exception (Ctrl-C) in the middle of either: it leaves
what there is, and `AllOrNothing` excludes it because the code does nothing
about it. The loop of `collect` never looks at its processes, so that with all
of them dead each collect waits for its deadline: `Returns` holds and nothing
better does.

### ActorPool

The trainer's `pc` goes through construction (slots written, actors spawned and
listed), `setup` (what `run_pipeline` does between `make_collector` and its
`try`), the loop, and close: `Runtime.close` with the ladder of
`ActorProcess.terminate` (event, join, SIGTERM, join, SIGKILL) for each listed
actor. A slot is a header and a payload, written and read in two steps under a
lock; CFR has two slots, PPO one. An actor boots (reads every slot), asks its
stop event, plays, puts into a queue that may be full, polls; a put that raises
costs the episode (`PutFails`). `Failure` is an exception or Ctrl-C at any step,
in which case the `with` of `write` gives the lock back over a slot half
written; `Dies` is the death of an actor at any step, which keeps the locks it
holds. The stop event is a `multiprocessing.Event`: `Look` and `Play` or `Leave`
are the two ends of `is_set`, between which the actor holds the event's lock
(`latch`), and `SetStop` waits for it without a timeout. `Interrupt` is the
handler of SIGTERM or SIGINT, which calls `set`; inside `is_set` it waits for a
lock that the actor holds itself (`jammed`). After that, or after a death there,
`SetStop` never gets the lock, which `CloseReturns` excepts. `Closes` says when
somebody cleans up: in the constructor only CFR does, in `setup` nobody, later
`run_pipeline` does. `asked` (what was published when the last poll began),
`published`, `entered` and `orphan` are history. One failure per run is
modelled: a second Ctrl-C in the middle of close ends it with `_closed` already
set. The order in which the feeder threads of the queue mix the episodes of
several actors is left out, as no property looks at it. Nothing in production
calls the watcher, `snapshot`, `install_signal_handlers` or the evaluation
workers.

### TrainLoop

`pc` is the place in the body of `run_pipeline`; `st` is `PipelineState`. The
five `step_schedule`s are one definition by cases, with the cadence of
`async_sync_weights_due`. Weights are the number of updates they have had, a
transition is the episode and the weights that played it, a random stream is
the number of draws from it; a checkpoint holds what `save` puts into it, which
for a serial DMC collector includes buffer, streams, episode counter and
historical opponents. `save` is cut into opening the step's file (`SaveOpen`,
the file is torn), writing it, opening and writing `latest.pt`, pruning. `Crash`
is a kill or an exception at any step; `Resume` loads any file that can be
loaded. Left out: evaluation (`tools.runs` passes no evaluation server),
metrics, the NaN guard but as a crash, devices.

### RunRegistry

Each process runs one command at a time: `StartFresh`, `StartResume`,
`StartMark`, `StartRecover`, then the steps between which files change or locks
are taken. `flock`s go when their holder ends. `WriteLeaf` and `WriteResolved`
are the two files of a version, with the check between them that may raise; the
next version is found among the cfg_resolved files alone (`NextVersion`). `Stop`
ends a command at any step; `FreshFails` removes the directory of a run whose
phase B has not returned, also when it has already written its metadata.
`TrainBegins` makes `ckpts/`, from which on there is something to resume. The
status "done" stands for "failed" as well. Left out: remote runs, commands that
only read, other fields of the metadata (a resume that writes back what it read
before the lock loses notes of a mark; the model has the execution and no
property about it), a file whose text a kill cuts short, and full names that
collide.

The code has executions no property excludes, and the model has them too: a
resume that fails between its two files leaves a cfg_leaf that the next resume
overwrites under the same number; a recover that looked for metadata before there
was any writes over what has been recorded since (`Recovering` in `OutcomeKept`;
see Findings); a
directory removed while another command waits for its lock is made again by that
command (`revived`), and one run may be resumed while it is still being trained,
after which either trainer closes what the other recorded.

### TreeSearch

`tree` is the pool of nodes: expanded or not, children as pairs of entry and
node, visits, virtual losses. An entry `<<a, i>>` is the i-th occurrence of
action `a` in a list: the engine lists an action for each card of the hand, and
names it after the card, so two copies of a card give two entries of one id. A
list is expanded into a child for each of its entries (`Grown`), or for each
whose action has none yet (`Missing`); `Descend` finds the first child of an
action, as `selectAndMap` does. So an action may have several children, and
`OneChild` says how many, and that only the first is ever visited. A worker's
`wpc` is its place in `startRollout2` and `commitRollout`; each step is what
happens under one lock or with one atomic value: `Query` (legal actions, and the
flag that the node is expanded), `Check` and `Add` (under the read and the write
lock of the node), `Descend` (choice, step of the game, virtual loss), `Commit`
(expansion under the lock), `Backup` node by node. `sendq` and `pending` are the
bounded channels, `asked` the requests that wait in Python, `done` a job's
channel. `Breaks` is any error of the rules, at any place where they run. The
legal actions of two rollouts in one node may differ, because each plays with a
hidden state of its own.

The choice of a child is free among the legal ones: the scores (values, priors,
visits and virtual losses) decide how good a search is, and only that. Left out:
the capacity of the node pool (`NRollouts*300+2048` nodes; `Alloc` panics when
they are used up, which `commitRollout` does not recover), profiles, the search
written in Python. A failed rollout leaves its virtual losses, as
`RevertVirtualLoss` has no caller: the tree of a failed search is thrown away,
which is why `VisitsAdd` speaks of searches that report none. One search is
modelled: its callbacks keep their requests to themselves.

## What the runs check

| run | instance | states | shows |
|---|---|---|---|
| `ring` | 2 producers, 2 slots, 2 frames each, all may die | 102,096 | `CountAccounted`, `NoTornDelivery`, `Accounted`, `ImplementsChannel`, `Drains`, and `HealthyMeansPop` of the probe |
| `ring_crash` | 2 producers, 1 frame each, one may die | | `TransientEnds` is violated: see Findings |
| `turn_safety` | teams of 3, timeout at round 2 | 229,405 | `Standing`, `NeverStuck`, `OverExactly`, `TurnHolder`, `NoDoubleTurn`, `StepReturns` |
| `continuation` | a game with a log and a clone, 4 snapshots, an operation of up to two requests | 301,380 | `SharedKept`, `ImplementsCoroutine` |
| `infer_pass` | a Go and a Python actor, 2 requests each, batches of 2, 1 update | 441,926 | `NoStaleReply`, `EmbeddingCurrent`, `ImplementsService`, `Answered` |
| `infer_static` | the same | | `StaticAtHand` is violated: see Findings |
| `go_pipeline` | 2 processes, ring of 2, collects of 2, 3 episodes each | 417,944 | `AllOrNothing`, `ShutdownOrder`, `EpisodesAccounted`, `Returns` |
| `actor_pool` | CFR and PPO, 2 actors, queue of 1, 2 publications | 451,846 | `CollectedWhole`, `CollectedFresh`, `NothingOutlives`, `CloseReturns` |
| `train_pass` | 17 configurations of 5 paradigms, 2 kills | 248,473 | `ResumeRepeats`, `UnfinishedRecoverable`, `SerialOnPolicy`, `SyncLag`, `Finishes` |
| `registry` | 2 processes, 4 commands, symmetric | 527,745 | `UniqueNumber`, `VersionOwned`, `PairKept`, `OutcomeKept` |
| `registry_recover` | the same | | `TerminalFrozen` is violated: see Findings |
| `tree_search` | 2 workers, 3 rollouts, 2 actions in lists that repeat them, depth 2 | 259,909 | `OneChild`, `NeverPanics`, `OwnReply`, `VisitsAdd`, `SearchReturns` |

Bounds. The ring: two producers lose compare-and-swaps to each other; with two
slots and four frames every index wraps and the ring is full with a producer
waiting, or dead with a slot claimed. A third producer, to write while two
others compete, is left to the theorems, which hold for any number of producers,
slots and frames. The driver: a team of three has an active character, a
background one that can fall without a request, and a third so that a
replacement is a choice; two rounds contain the start of a round after a first
end, and the timeout at its boundary. The real timeout round is 10. `MaxSeq` and
the timeout are the only bounds on counters; `TimeoutRound` is also a constant
of the game. The cap `MaxRounds` is 0 in the run and free in the theorems.

The continuation: the operation asks twice at most, with a random draw in between
that it keeps in a local and that decides whether it asks again, so a replay
with another state goes another way. With four snapshots (its root, two
choices, one that is held) a game gets back an operation whose log was cut
shorter in between, which needs logs of up to three entries (`MaxLog`). Once the
clone takes part, the constraint `Few` leaves three snapshots and three entries:
enough for a root that both wait with, a choice of each, and either of them done
first.

Inference: a batch of two holds requests of both kinds of client, or one request
and a weights message between two; two requests per actor give a first of an
episode, one that relies on the cache, and a late reply to an earlier one; one
update splits requests into before and after, and its item may stay in the
owner's outbox past all of them. Pipeline: two processes so that the second can
fail when the first is up, and a ring that fills. Pool: two actors so that one
can hold a lock, or be listed, while the other is not; a second publication is
the first an actor polls for. Training: serial runs of every paradigm saving
every step or every other one and keeping one, two or all files, and
asynchronous PPO and CFR, with a cadence of three that does not divide by two
updates per iteration; two kills let a resumed run be killed in the save that
overwrites what it came from. Registry: four commands are the fewest for two
runs one of which is resumed by two commands; two processes are enough for each
race of two commands, and are interchangeable (a third process can only join a
third command to a race, which is left to the theorems). Search: two workers
race to expand one node and to add to it, a third rollout meets what they left,
and a depth of two has a node below one whose children differ between rollouts;
the lists repeat an action both when a node is expanded and when it is added to;
`sendCh` and `pending` hold two, and fill. `workCh` holds four and does not: its
feeder never waits in the run.

Deadlock checking is off in every run, because every part may really stop: the
ring when all frames are sent or every producer is dead and the consumer waits,
the search when it has returned, the training parts when they are done, closed
or out of commands, a game when it has failed, the driver when the game is
over. That the driver stops in
no other state is the invariant `NeverStuck`.

Fairness. Ring: weak fairness of the consumer, which polls in a loop, and of
each live producer inside a push. Nothing obliges an actor to begin a push, to
die, or to reach its deadline. Driver: weak fairness of the handlers' own steps,
since a Step is sequential Go code; nothing obliges a player to choose or a rule
to have an effect. A stage may end at any time, so rules that loop for ever are
excluded only by `FinishRules` being continuously enabled, as the interpreter's
hooks return. Inference: the server loop, the handler threads, the feeder thread
of the server and the receiving side of a Go actor run; nothing obliges the
owner's feeder or a Python actor's to write, an actor to ask, an owner to update
or stop, or a deadline to pass. Pipeline: the collector runs and its deadlines
pass, a server that is told to stop does, unless a signal met it inside
`is_set`; nothing obliges a Go process to come up, play or obey. Pool: close
runs, and its joins have timeouts. Its `set` waits for the lock of an event,
which an actor holds for the moment of an `is_set` and leaves free for the
episode that follows: strong fairness for `SetStop`, weak fairness for the end
of an `is_set` that no signal meets. But for that, actors may hang in the
engine. Training: the driver runs; actors may be slow and nobody need resume a
run. Search: the scheduler of Go is fair to goroutines, and a callback into
Python returns, with an answer or an error. The registry and the continuation
have no liveness property: every command may give up, and no player need choose.

## Findings

1. `ring_crash`. `shm_ring_pop` calls an unpublished head slot transient and
   relies on the next call. When a producer's process dies between claiming the
   slot and storing FULL (it exits on SIGTERM without waiting for its actors),
   the state lasts for ever, and the frames of all other producers queue up
   behind it. All safety properties still hold with such deaths (`ring`).
2. `registry_recover`. Terminal statuses are said to be frozen but for a resume
   (`mark.py:15-18`, `schema.py:28-29`), and recover to refuse to overwrite an
   existing `metadata.toml` (`recover.py:159-162`). It looks for one without a
   lock and writes much later, over whatever there is: a recover that met a fresh
   run between its `cfg_resolved.toml` and its metadata, and goes on when that
   run has ended, replaces done, failed or killed by unknown. `OutcomeKept` says
   what is left: nothing else takes an outcome away.
3. `infer_static`. Loading weights empties the server's cache of static
   embeddings, but the actors send the static observation only with the first
   request of an episode and hear of no update. The next request of the episode
   fails, and its actor ends.

Met as well, each an execution of the model without a run of its own:

- Behaviour cloning loads its data set at step 0 only (`bc/paradigm.py:155`), and
  its buffer is not in the checkpoint. A resumed run counts its epochs to the end
  without an update, where `bc/paradigm.py:129` promises one epoch over the data
  set per iteration. `ResumeRepeats` speaks of the DMC runs.
- The comments on `Preparing` (`game.go:106-108`, `builtins_adr0012.go:14-16`) say
  that its owner's next turn is resolved instead of letting the player choose.
  `flipTurn` does that, but `executeEndTurn` and `newRound` hand the turn over
  without it: an opponent who answers a preparation by ending the round gives its
  owner an ordinary turn first.
- `resume.py:252-254` says that the files of a failed resume stay as an audit
  trail and that the next one takes the next number. That holds once
  cfg_resolved_v<N> is written; before, the number is taken again and the
  cfg_leaf overwritten.
- The ladder of `ActorProcess.terminate` ends in SIGKILL, "the only guaranteed
  shutdown path" (`actor_process.py:267-268`), but begins with `stop_event.set()`,
  which waits without a timeout for a lock that an actor killed or signalled
  inside `is_set` never gives back. `InferenceServer.stop` begins the same way.
- A request made after `update_network` may be answered with older weights, as
  feeder threads of several processes write the request queue. Nothing promises
  otherwise.
- Lists of legal actions repeat ids. A node then has several children for one
  action, against the comment of `addNewActionsUniform`, which knows of races of
  goroutines only; selection finds the first, and the prior the network gave to
  the others is lost.

## What is proved

For every value of the constants, under the assumption named in each module
(`RingAssumption`, `TurnAssumption`, `ContinuationAssumption`, `RpcAssumption`,
`PipelineAssumption`, `TrainAssumption`, `RegistryAssumption`, `PoolAssumption`,
`TreeSearchAssumption`: sizes that are positive, sets that are finite or
disjoint; for the continuation, that the rules are functions and that a choice
is an answer to the request it is offered for; for the search, that a list of
legal actions is not empty and numbers the occurrences of an action from 1):

- `ShmRingProofs`: `TypeCorrect`, `CountCorrect`, `Exclusive`, `Owned`,
  `NeverTorn`. The properties are not inductive alone. The invariant ties every
  producer past `CasTail` to one place of `claims`, and that place to the slot it
  loaded; the claimed slots are then `Len(claims)` consecutive ones from
  `First`, `tail` is the one after them, and since `count` bounds their number
  by the capacity they are distinct. What is in a slot follows: EMPTY while its
  owner is writing, else FULL with the claimed frame in header and payload.
  `HealthyPops` (of `ShmRingProbe`, with the scan of the collector): only the
  consumer empties a slot, so what the scan saw FULL stays so until the pop.
  `InOrder`, `NothingLost`, and `RingImplementsChannel`: the window of claimed
  slots, each ready when FULL, is the queue of `MpscChannel`; `CasTail` claims,
  `Publish` makes ready, `PopRelease` receives, and every other step stutters.
  Claiming needs room in the queue, which is what the reservation of `count`
  gives.
- `EngineProofs`, the driver: `TypeCorrect`, `AlwaysStanding`, `OverCorrect`, `TurnHeld`,
  `Alternate`, `Final`, `GoesOn`. The inductive invariant `IInv` says which shapes `task`
  can have in each phase (`Shape`), that a request is only pending while rules
  run and its owner's active character is the one that fell (`Asks`,
  `Standing`), and who holds the turn at each call left in the task (`Holding`,
  `Taking`): this is what carries `TurnHolder` and `NoDoubleTurn` across the
  steps where no player is to act. `GoesOn` is `NeverStuck` with the guards of
  the actions spelled out in place of ENABLED.
- `EngineProofs`, the continuation: `ContinuationTypes`, `SharedStateKept`,
  `ReplaysMeetTheirChoices` and `SuspensionIsNotSeen`, for any rules, any number
  of games, clones, snapshots and choices. Nothing here is inductive alone: that
  a replay is right needs the recorded states unchanged, and that they are
  unchanged needs to know who may still release them. The invariant `RInv` says
  that the snapshots a live continuation points to are in no pool and in no
  hands and hold what was put there (`Intact`), so that its path is a run of the
  rules from its root, with its choices put in at the recorded states
  (`Traced`); that a running game is somewhere on this path (`Runs`) and ends a
  replay where it was suspended; that the log is the part kept plus what the
  path tells (`Tells`, `OwnLog`); and that the root of an operation that has not
  waited is its own only (`Sole`), which is why `Finish` may release it. Games,
  held snapshots and clones share continuations, so each part is stated of a
  continuation wherever it is held, and a step of one game leaves those of the
  others as they were. `ReplaysMeetTheirChoices` says that the two errors the
  code keeps for a replay that lost its way (`continuation.go:138` and `:180`)
  cannot occur. `SuspensionIsNotSeen` maps every step to one of `Coroutine` or
  to a stutter: a replay is a stutter up to its last choice.
- `InferenceRpcProofs`: `TypeCorrect`, `RowsOwn`, `NoneStale`,
  `EmbeddingsCurrent`, `ServiceKept`. The invariant has two parts. `Fresh`: the
  pipe of the request queue and the owner's outbox behind it hold, in order,
  updates that are newer than what the network holds, which is all the order
  there is (`Updates`). `Whole`: a request that is
  waited for is in exactly one place, on the connection, in an outbox, in the
  queue, in the batch, decoded, as a row, as a reply; so a row scattered to a client finds it
  waiting for that row and no other. One place makes one call (`OneCall`), and
  with a server that carries nothing over from one batch to the next (`Clean`)
  each step is a step of `RpcService` or leaves all calls as they were
  (`StepSeen`).
- `GoPipelineProofs`: `TypeCorrect`, `NothingLeft`, `InOrder`, `NothingLost`. At each place of
  the collector the invariant says which parts exist (`Progress`, `Parts`) and
  that every living process is in the list or is the one being spawned
  (`Owned`), or the stray one: the undoing of a bring-up then reaches all the
  others. The episodes
  handed over, assembled and in the ring are one sequence, `Handed`, to which a
  push appends and in which pops and returns only move the borders; that a
  client's episodes are numbered as it plays them (`Numbered`) makes each push a
  new last one of its client (`Account`).
- `TrainLoopProofs`: `TypeCorrect`, `Recoverable`, `TrainsOnPolicy`,
  `ResumesRepeat`, `NotFarBehind`. A checkpoint that is still needed is in a file that the save
  in progress does not write, or in `latest.pt` (`Kept`, `Order`). One iteration
  of a serial DMC run is a function `Iterated` of the state at its head; the
  state at every step, in memory or in a file, is that of the step before it,
  iterated (`Repeating`), so that it does not matter from where a run came. For
  the lag of the actors the invariant remembers the number of updates at which
  the last synchronisation was decided (`Behind`). Every network, on disk too,
  has a whole multiple of the updates of an iteration (`Whole`), so the next
  joint multiple of updates and cadence is met, not stepped over, and the
  decision is taken there before the iteration trains (`Decided`).
- `RunRegistryProofs`: `TypeCorrect`, `NumbersUnique`, `VersionsOwned`,
  `PairsKept`, `OutcomesKept`. Until it has `ckpts/`, a new run's directory
  belongs to the command that made it (`Own`); a directory with `ckpts/` is never
  removed (`Trained`); commands that hold or wait for a lock bound the numbers
  and versions given so far (`Bounds`, `NewNumber`, `Versioned`), and who is
  between two steps of a critical section has its lock (`Held`). What the
  metadata names has been written (`Named`). On top of this `Paired`: a
  command that comes to write its cfg_resolved finds its own leaf still there,
  since nobody else writes in that directory meanwhile (`OneWriter`), and its
  number is above those of all complete pairs.
- `ActorPoolProofs`: `TypeCorrect`, `WholeWeights`, `FreshWeights`,
  `NothingLeft`. As long as the trainer has not failed, a slot that is not being
  written holds one publication in header and payload (`Same`), and who reads
  or writes it holds its lock (`Reads`, `Holds`). A slot is not older than the
  last publication that is complete (`NotOld`), so an actor that polls loads
  networks not older than that (`Follows`). The list is a prefix of the actors,
  and one that is up is listed, or being appended, or was when a failure came
  (`Prefix`, `Known`): close, which goes through the list, misses that one only.

- `TreeSearchProofs`: `TypeCorrect`, `NoTwins`, `ChildToChoose`, `RepliesMatch`,
  `AllCounted`, all from `Inductive == Spec => []IInv`. `Shape`: a child is
  younger than its parent and nodes are only appended, so the nodes stay a tree,
  and the children of one action come from different entries of one list
  (`OneEach`). That all but the first stay without visits and losses
  (`Unvisited`) is a second layer: no path goes through them (`Losses`). `PathInv`: the path of a worker goes
  down this tree and ends at the node it works at. `Jobs`: a leaf that is being
  evaluated is in exactly one place, `sendCh`, the sender's hands, `pending` or
  the receiver's, and `Replies` lines up the jobs that have been sent with the
  requests Python holds, which is why replies need no identifier; once
  something has failed no worker uses one. `Losses`: a node carries at least the
  virtual losses of the workers whose path it is on. `Bounded`: visits and
  losses of a node, with the workers that may still come there, are no more
  than the rollouts taken. `Flow`, while nothing has failed: what a node has
  seen is what ended there, what went on to its children, and the workers that
  are there now. When all workers are gone the last two give `VisitsAdd`.
  Visits are summed as the number of pairs of a child and one of its visits
  (`ChildVisits`), which the library's facts on finite sets can count.

By theorem only: of the ring `Exclusive` (`SlotExclusive`), `Owned`
(`EmptyMeansOwned`), `CountBounded` (in `CountCorrect`), and `PerProducerOrder`
(`InOrder`), which the channel it implements has as well; `OwnRow` (`RowsOwn`),
which the service has as well; `Final`
(`OverIsFinal`) and `GoesOn` of the driver; `ReplaysMeetTheirChoices` of the
continuation; and the types of every module.

Only model-checked: liveness (`Drains`, `StepReturns`, `Answered`, `Returns`,
`CloseReturns`, `Finishes`, `SearchReturns`) and `NeverStuck` as it is stated,
with ENABLED, both out of the proof system's reach; and the three violations.
Every other property of a passing run is a theorem.

## Not modelled

- Damage, counters, buffs, interpreter, rules: which hooks run in which order
  depends on the rules, some hundred files of DSL. `TurnFlow` lets them do
  anything they could do to the turn, `Continuation` takes them as a parameter.
- Of the tree search: values, priors and scores, which no property could call
  wrong, the capacity of the node pool, and the search written in Python.
- Dice, costs, observation, tokenizer, networks, losses, metrics: pure
  enumeration, encoding and arithmetic.
- What a snapshot copies of each field of a game, checkpoints of a game, the
  contents of the event log, C API, environment wrapper, web, other tools: sequential
  code, formats and I/O.
- Weights watcher, `WeightsSHM.snapshot`, the runtime's signal handlers and
  evaluation workers: nothing in production calls them.
- The ring of the Python DMC actors, which is under one lock. (Their server is
  never given the trainer's network: `sync_weights` writes shared memory only.)
- Evaluation servers and periodic evaluation, which `tools.runs` does not use.

## Next

The refinement of `ActorPool`'s slots to abstract registers, stated as those of
the ring and the inference server are; the deferred queue of event frames as
rules of `Continuation`.
