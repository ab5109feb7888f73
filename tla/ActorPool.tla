----------------------------- MODULE ActorPool -----------------------------
(***************************************************************************)
(* The pool of Python actors behind the asynchronous collectors of CFR and *)
(* PPO: construction, publication of weights through WeightsSHM, the loop  *)
(* of actor_main, the queue of episodes, and the ladder of close.          *)
(*                                                                         *)
(* Weights are the version of the publication they come from; a slot has a *)
(* header and a payload, which are written and read under its lock, one    *)
(* after the other.  CFR publishes its two heads in two slots, PPO its     *)
(* network in one.  A Failure is an exception in the trainer or Ctrl-C;    *)
(* a second one, while close runs, is left out.                            *)
(*                                                                         *)
(* An actor's stop_event is a multiprocessing.Event: set and is_set take   *)
(* its lock, which no death and no signal gives back, and wait for it      *)
(* without a timeout.  The order in which the feeder threads of the queue  *)
(* mix the episodes of several actors, and the episodes that die in them,  *)
(* are left out: no property looks at the order of the queue or counts it. *)
(***************************************************************************)
EXTENDS Integers, Sequences, FiniteSets

CONSTANTS Kinds,      \* of collector: "cfr", "ppo"
          N,          \* number of actors
          QueueSize,  \* capacity of the queue
          MaxVersion  \* bound: publications

ASSUME PoolAssumption ==
  /\ Kinds \subseteq {"cfr", "ppo"}
  /\ N \in Nat \ {0} /\ QueueSize \in Nat \ {0} /\ MaxVersion \in Nat \ {0}

Actors  == 1 .. N
Heads   == {1, 2}
Free    == 0
Trainer == -1
Cold    == -1

VARIABLES
  kind,       \* the kind of collector
  pc, at,     \* where the trainer is, and with which slot or actor
  building,   \* the collector's constructor has not returned
  entered,    \* history: run_pipeline has entered its try
  version,    \* _weights_version
  published,  \* history: the last version all of whose slots are written
  listed,     \* Runtime._actor_procs
  orphan,     \* history: the actor started but not yet listed when building failed
  linked,     \* slots whose shared memory exists
  header,     \* of each slot
  payload,    \* of each slot
  lock,       \* of each slot: Free, Trainer or an actor
  proc,       \* each actor's process: "none", "up" or "gone"
  stop,       \* each actor's stop_event
  latch,      \* whether the lock of that event is taken
  apc,        \* where each actor is: "look" is inside is_set
  head, step, \* the slot each actor reads, and where in WeightsSHM.read it is
  found,      \* the version that read found
  mine,       \* its networks: version and payload loaded
  asked,      \* history: published when its last poll began
  queue       \* the queue of episodes

trainer == <<kind, pc, at, building, entered, version, published, listed, orphan, linked>>
slots   == <<header, payload, lock>>
reading == <<head, step, found>>
event   == <<stop, latch>>
actor   == <<proc, event, apc, reading, mine, asked>>
vars    == <<trainer, slots, actor, queue>>

\* The networks of the blueprint.
Untrained == [h \in Heads |-> [ver |-> 0, body |-> 0]]

Slots == IF kind = "cfr" THEN 2 ELSE 1

Init ==
  /\ kind \in Kinds
  /\ pc = "write" /\ at = 1 /\ building = TRUE /\ entered = FALSE /\ version = 1 /\ published = 0
  /\ listed = {} /\ orphan = 0 /\ linked = {}
  /\ header = [h \in Heads |-> Cold] /\ payload = [h \in Heads |-> 0] /\ lock = [h \in Heads |-> Free]
  /\ proc = [i \in Actors |-> "none"]
  /\ stop = [i \in Actors |-> FALSE] /\ latch = [i \in Actors |-> FALSE]
  /\ apc = [i \in Actors |-> "boot"] /\ head = [i \in Actors |-> 1]
  /\ step = [i \in Actors |-> "want"] /\ found = [i \in Actors |-> Cold]
  /\ mine = [i \in Actors |-> Untrained]
  /\ asked = [i \in Actors |-> 0]
  /\ queue = <<>>

\* A process that ends keeps nothing, but for the locks it holds.
Ends(i) ==
  /\ proc' = [proc EXCEPT ![i] = "gone"]
  /\ apc' = [apc EXCEPT ![i] = "boot"] /\ head' = [head EXCEPT ![i] = 1]
  /\ step' = [step EXCEPT ![i] = "want"] /\ found' = [found EXCEPT ![i] = Cold]
  /\ mine' = [mine EXCEPT ![i] = Untrained] /\ asked' = [asked EXCEPT ![i] = 0]

(***************************************************************************)
(* The trainer: WeightsSHM.write of every slot                             *)
(***************************************************************************)
\* Mutant: the lock is not taken.
WriteAcquire_NoLock ==
  /\ pc = "write"
  /\ linked' = linked \cup {at} /\ pc' = "header"
  /\ UNCHANGED <<kind, at, building, entered, version, published, listed, orphan, slots, actor, queue>>
WriteAcquire ==
  /\ pc = "write" /\ lock[at] = Free
  /\ lock' = [lock EXCEPT ![at] = Trainer]
  /\ linked' = linked \cup {at}
  /\ pc' = "header"
  /\ UNCHANGED <<kind, at, building, entered, version, published, listed, orphan, header, payload,
                 actor, queue>>

WriteHeader ==
  /\ pc = "header"
  /\ header' = [header EXCEPT ![at] = version]
  /\ pc' = "payload"
  /\ UNCHANGED <<kind, at, building, entered, version, published, listed, orphan, linked, payload,
                 lock, actor, queue>>

WritePayload ==
  /\ pc = "payload"
  /\ payload' = [payload EXCEPT ![at] = version]
  /\ lock' = [lock EXCEPT ![at] = Free]
  /\ IF at < Slots
       THEN at' = at + 1 /\ pc' = "write" /\ published' = published
       ELSE at' = 1 /\ pc' = (IF building THEN "spawn" ELSE "loop") /\ published' = version
  /\ UNCHANGED <<kind, building, entered, version, listed, orphan, linked, header, actor, queue>>

(***************************************************************************)
(* The trainer: Runtime.start_actors and run_pipeline                      *)
(***************************************************************************)
Spawn ==
  /\ pc = "spawn"
  /\ proc' = [proc EXCEPT ![at] = "up"]
  /\ asked' = [asked EXCEPT ![at] = published]
  /\ pc' = "append"
  /\ UNCHANGED <<kind, at, building, entered, version, published, listed, orphan, linked, slots,
                 event, apc, reading, mine, queue>>

List ==
  /\ pc = "append"
  /\ listed' = listed \cup {at}
  /\ IF at < N
       THEN at' = at + 1 /\ pc' = "spawn" /\ building' = building
       ELSE at' = 1 /\ pc' = "setup" /\ building' = FALSE
  /\ UNCHANGED <<kind, entered, version, published, orphan, linked, slots, actor, queue>>

\* Checkpoints, logs and the resume, between make_collector and the try.
SetUp ==
  /\ pc = "setup"
  /\ pc' = "loop" /\ entered' = TRUE
  /\ UNCHANGED <<kind, at, building, version, published, listed, orphan, linked, slots, actor,
                 queue>>

Collect ==
  /\ pc = "loop" /\ queue # <<>>
  /\ queue' = Tail(queue)
  /\ UNCHANGED <<trainer, slots, actor>>

SyncWeights ==
  /\ pc = "loop" /\ version < MaxVersion
  /\ version' = version + 1 /\ pc' = "write"
  /\ UNCHANGED <<kind, at, building, entered, published, listed, orphan, linked, slots, actor,
                 queue>>

Finish ==
  /\ pc = "loop"
  /\ pc' = "stop"
  /\ UNCHANGED <<kind, at, building, entered, version, published, listed, orphan, linked, slots,
                 actor, queue>>

\* The constructor of CFR closes what it has built, that of PPO does not, and
\* between the constructor and the try nobody does.
\* Mutant: the constructor of CFR leaves it to the try, which is not yet entered.
Closes_InTry == ~building /\ pc # "setup"
Closes == IF building THEN kind = "cfr" ELSE pc # "setup"

Failure ==
  /\ pc \in {"write", "header", "payload", "spawn", "append", "setup", "loop"}
  /\ pc' = IF Closes THEN "stop" ELSE "end"
  /\ at' = 1
  /\ orphan' = IF pc = "append" THEN at ELSE 0
  /\ lock' = IF pc \in {"header", "payload"} THEN [lock EXCEPT ![at] = Free] ELSE lock
  /\ UNCHANGED <<kind, building, entered, version, published, listed, linked, header, payload,
                 actor, queue>>

(***************************************************************************)
(* The trainer: close, and in it ActorProcess.terminate of every actor     *)
(***************************************************************************)
\* set waits for the lock of the actor's event, however long that takes.
SetStop ==
  /\ pc = "stop" /\ at \in listed /\ ~latch[at]
  /\ stop' = [stop EXCEPT ![at] = TRUE]
  /\ pc' = "join"
  /\ UNCHANGED <<kind, at, building, entered, version, published, listed, orphan, linked, slots,
                 proc, latch, apc, reading, mine, asked, queue>>

AllStopped ==
  /\ pc = "stop" /\ at \notin listed
  /\ pc' = "release"
  /\ UNCHANGED <<kind, at, building, entered, version, published, listed, orphan, linked, slots,
                 actor, queue>>

Joined ==
  /\ pc \in {"join", "term", "kill"} /\ proc[at] = "gone"
  /\ at' = at + 1 /\ pc' = "stop"
  /\ UNCHANGED <<kind, building, entered, version, published, listed, orphan, linked, slots,
                 actor, queue>>

\* SIGTERM ends an actor that has not yet installed its handler.
Terminate ==
  /\ pc = "join" /\ proc[at] = "up"
  /\ pc' = "term"
  /\ \/ apc[at] = "boot" /\ head[at] = 1 /\ step[at] = "want" /\ Ends(at)
     \/ UNCHANGED <<proc, apc, reading, mine, asked>>
  /\ UNCHANGED <<kind, at, building, entered, version, published, listed, orphan, linked, slots,
                 event, queue>>

\* Mutant: an actor that does not obey SIGTERM is sent it again and again.
Kill_TermAgain ==
  /\ pc = "term" /\ proc[at] = "up"
  /\ pc' = "join"
  /\ UNCHANGED <<kind, at, building, entered, version, published, listed, orphan, linked, slots,
                 actor, queue>>
Kill ==
  /\ pc = "term" /\ proc[at] = "up"
  /\ Ends(at) /\ pc' = "kill"
  /\ UNCHANGED <<kind, at, building, entered, version, published, listed, orphan, linked, slots,
                 event, queue>>

\* The queue is closed; CFR unlinks the slots.
Release ==
  /\ pc = "release"
  /\ linked' = IF kind = "cfr" THEN {} ELSE linked
  /\ pc' = "end"
  /\ UNCHANGED <<kind, at, building, entered, version, published, listed, orphan, slots, actor,
                 queue>>

(***************************************************************************)
(* An actor: WeightsSHM.read of every slot, in build_provider and in       *)
(* update_weights                                                          *)
(***************************************************************************)
Up(i) == proc[i] = "up"

ReadAcquire(i) ==
  /\ Up(i) /\ apc[i] \in {"boot", "poll"} /\ step[i] = "want" /\ lock[head[i]] = Free
  /\ lock' = [lock EXCEPT ![head[i]] = i]
  /\ step' = [step EXCEPT ![i] = "header"]
  /\ UNCHANGED <<trainer, header, payload, proc, event, apc, head, found, mine, asked, queue>>

ReadHeader(i) ==
  /\ Up(i) /\ step[i] = "header"
  /\ found' = [found EXCEPT ![i] = header[head[i]]]
  /\ step' = [step EXCEPT ![i] = "payload"]
  /\ UNCHANGED <<trainer, slots, proc, event, apc, head, mine, asked, queue>>

\* Mutant: an off-by-one in the comparison.
ReadPayload_OffByOne(i) ==
  /\ Up(i) /\ step[i] = "payload" /\ found[i] # Cold
  /\ lock' = [lock EXCEPT ![head[i]] = Free]
  /\ step' = [step EXCEPT ![i] = "want"] /\ found' = [found EXCEPT ![i] = Cold]
  /\ mine' = IF apc[i] = "boot" \/ found[i] > mine[i][head[i]].ver + 1
               THEN [mine EXCEPT ![i][head[i]] = [ver |-> found[i], body |-> payload[head[i]]]]
               ELSE mine
  /\ IF head[i] < Slots
       THEN head' = [head EXCEPT ![i] = @ + 1] /\ apc' = apc
       ELSE head' = [head EXCEPT ![i] = 1] /\ apc' = [apc EXCEPT ![i] = "top"]
  /\ UNCHANGED <<trainer, header, payload, proc, event, asked, queue>>
\* The slot is loaded if it is newer, the first time in any case.
ReadPayload(i) ==
  /\ Up(i) /\ step[i] = "payload" /\ found[i] # Cold
  /\ lock' = [lock EXCEPT ![head[i]] = Free]
  /\ step' = [step EXCEPT ![i] = "want"] /\ found' = [found EXCEPT ![i] = Cold]
  /\ mine' = IF apc[i] = "boot" \/ found[i] > mine[i][head[i]].ver
               THEN [mine EXCEPT ![i][head[i]] = [ver |-> found[i], body |-> payload[head[i]]]]
               ELSE mine
  /\ IF head[i] < Slots
       THEN head' = [head EXCEPT ![i] = @ + 1] /\ apc' = apc
       ELSE head' = [head EXCEPT ![i] = 1] /\ apc' = [apc EXCEPT ![i] = "top"]
  /\ UNCHANGED <<trainer, header, payload, proc, event, asked, queue>>

\* A payload that is not what the header says may fail to load: update_weights is
\* given up, and the episode that follows is played all the same.
ReadFails(i) ==
  /\ Up(i) /\ step[i] = "payload" /\ apc[i] = "poll" /\ found[i] # payload[head[i]]
  /\ lock' = [lock EXCEPT ![head[i]] = Free]
  /\ step' = [step EXCEPT ![i] = "want"] /\ found' = [found EXCEPT ![i] = Cold]
  /\ head' = [head EXCEPT ![i] = 1] /\ apc' = [apc EXCEPT ![i] = "top"]
  /\ UNCHANGED <<trainer, header, payload, proc, event, mine, asked, queue>>

(***************************************************************************)
(* An actor: the loop of actor_main                                        *)
(***************************************************************************)
\* is_set takes the lock of the event, and gives it back in Play or Leave.
Look(i) ==
  /\ Up(i) /\ apc[i] = "top" /\ ~latch[i]
  /\ latch' = [latch EXCEPT ![i] = TRUE]
  /\ apc' = [apc EXCEPT ![i] = "look"]
  /\ UNCHANGED <<trainer, slots, proc, stop, reading, mine, asked, queue>>

Play(i) ==
  /\ Up(i) /\ apc[i] = "look" /\ ~stop[i]
  /\ latch' = [latch EXCEPT ![i] = FALSE]
  /\ apc' = [apc EXCEPT ![i] = "put"]
  /\ UNCHANGED <<trainer, slots, proc, stop, reading, mine, asked, queue>>

\* put waits while the queue is full, and hears of no stop_event.
Put(i) ==
  /\ Up(i) /\ apc[i] = "put" /\ Len(queue) < QueueSize
  /\ queue' = Append(queue, [nets |-> mine[i], asked |-> asked[i]])
  /\ asked' = [asked EXCEPT ![i] = published]
  /\ apc' = [apc EXCEPT ![i] = "poll"]
  /\ UNCHANGED <<trainer, slots, proc, event, reading, mine>>

\* An error of the transport costs the episode and nothing else.
PutFails(i) ==
  /\ Up(i) /\ apc[i] = "put"
  /\ asked' = [asked EXCEPT ![i] = published]
  /\ apc' = [apc EXCEPT ![i] = "poll"]
  /\ UNCHANGED <<trainer, slots, proc, event, reading, mine, queue>>

Leave(i) ==
  /\ Up(i) /\ apc[i] = "look" /\ stop[i]
  /\ latch' = [latch EXCEPT ![i] = FALSE]
  /\ Ends(i)
  /\ UNCHANGED <<trainer, slots, stop, queue>>

\* SIGTERM or SIGINT, of close, of Ctrl-C or from outside: the handler calls set.
\* In the middle of is_set it waits for a lock that the actor itself holds.
Interrupt(i) ==
  /\ Up(i) /\ apc[i] # "jammed"
  /\ IF apc[i] = "look"
       THEN apc' = [apc EXCEPT ![i] = "jammed"] /\ stop' = stop
       ELSE apc' = apc /\ stop' = [stop EXCEPT ![i] = TRUE]
  /\ UNCHANGED <<trainer, slots, proc, latch, reading, mine, asked, queue>>

\* An exception in an episode or of a cold slot, a crash of the engine, or the
\* system killing the process, which may meet it in is_set or in its handler's set.
Dies(i) ==
  /\ Up(i) /\ Ends(i)
  /\ latch' \in {latch, [latch EXCEPT ![i] = TRUE]}
  /\ UNCHANGED <<trainer, slots, stop, queue>>

(***************************************************************************)
(* Specification                                                           *)
(***************************************************************************)
Write   == WriteAcquire \/ WriteHeader \/ WritePayload
Driving == Spawn \/ List \/ SetUp \/ Collect \/ SyncWeights \/ Finish \/ Failure
Closing == SetStop \/ AllStopped \/ Joined \/ Terminate \/ Kill \/ Release
Acting(i) == ReadAcquire(i) \/ ReadHeader(i) \/ ReadPayload(i) \/ ReadFails(i)
             \/ Look(i) \/ Play(i) \/ Put(i) \/ PutFails(i) \/ Leave(i)
             \/ Interrupt(i) \/ Dies(i)

Next == Write \/ Driving \/ Closing \/ \E i \in Actors : Acting(i)
Spec == Init /\ [][Next]_vars
\* close is sequential code whose waits have timeouts, but that of SetStop for a
\* lock, which is free during the episode between one is_set and the next.  An
\* is_set that no signal meets ends; but for that, actors may hang.
FairSpec == Spec /\ WF_vars(Closing) /\ SF_vars(SetStop)
                 /\ \A i \in Actors : WF_vars(Play(i) \/ Leave(i))

(***************************************************************************)
(* Properties                                                              *)
(***************************************************************************)
Nets     == [Heads -> [ver : Nat, body : Nat]]
Episodes == [nets : Nets, asked : Nat]

TypeOK ==
  /\ kind \in Kinds /\ building \in BOOLEAN /\ entered \in BOOLEAN
  /\ pc \in {"write", "header", "payload", "spawn", "append", "setup", "loop", "stop", "join",
             "term", "kill", "release", "end"}
  /\ at \in Nat \ {0} /\ (pc \in {"write", "header", "payload"} => at <= Slots)
  /\ (pc \in {"spawn", "append", "join", "term", "kill"} => at \in Actors)
  /\ version \in 1 .. MaxVersion /\ published \in 0 .. version
  /\ listed \subseteq Actors /\ orphan \in Actors \cup {0} /\ linked \subseteq Heads
  /\ header \in [Heads -> Nat \cup {Cold}] /\ payload \in [Heads -> Nat]
  /\ lock \in [Heads -> Actors \cup {Free, Trainer}]
  /\ proc \in [Actors -> {"none", "up", "gone"}] /\ stop \in [Actors -> BOOLEAN]
  /\ latch \in [Actors -> BOOLEAN]
  /\ apc \in [Actors -> {"boot", "top", "look", "jammed", "put", "poll"}]
  /\ head \in [Actors -> Heads]
  /\ step \in [Actors -> {"want", "header", "payload"}] /\ found \in [Actors -> Nat \cup {Cold}]
  /\ mine \in [Actors -> Nets] /\ asked \in [Actors -> Nat]
  /\ queue \in Seq(Episodes) /\ Len(queue) <= QueueSize

\* The episodes that the trainer may still collect.
Collectable == IF pc \in {"loop", "write", "header", "payload"} THEN {queue[j] : j \in DOMAIN queue} ELSE {}

\* Every network that played an episode the trainer collects is the whole of one
\* publication, although readers and the writer share the slots and the trainer,
\* or an actor, may fail between any two steps with a slot half written.
CollectedWhole == \A e \in Collectable : \A h \in 1 .. Slots : e.nets[h].body = e.nets[h].ver

\* An actor follows: an episode is played with weights no older than what had been
\* published when the poll before it began.
CollectedFresh == \A e \in Collectable : \A h \in 1 .. Slots : e.nets[h].ver >= e.asked

\* Once run_pipeline has entered its try, or when CFR's constructor fails, no actor
\* outlives the trainer, but one which a failure met between its start and its
\* entry in the list; and CFR leaves no shared memory.
NothingOutlives ==
  pc = "end" /\ (entered \/ (kind = "cfr" /\ building)) =>
    /\ \A i \in Actors : proc[i] = "up" => i = orphan
    /\ kind = "cfr" => linked = {}

\* close comes to its end whatever the actors are doing: playing for ever inside
\* the engine, waiting for room in the queue, or for the lock of a dead process.
\* One thing it does not survive: the lock of the event of an actor that died, or
\* was interrupted, inside is_set or set.
Lost(i) == latch[i] /\ (proc[i] # "up" \/ apc[i] = "jammed")
CloseReturns ==
  pc = "stop" ~> pc = "end" \/ (pc = "stop" /\ at \in listed /\ Lost(at))
=============================================================================
