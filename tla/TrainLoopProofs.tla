--------------------------- MODULE TrainLoopProofs ---------------------------
(***************************************************************************)
(* Proofs about TrainLoop, for any configurations of its five paradigms,   *)
(* any number of restarts and any sizes of buffers and rings.              *)
(*                                                                         *)
(* Two arguments carry them.  A checkpoint that may be needed is in a file *)
(* that the save in progress does not write, or in latest.pt.  And one     *)
(* iteration of a serial DMC run is a function of the state at its head,   *)
(* so that whatever state is written or resumed is the image of the one    *)
(* before it.                                                              *)
(***************************************************************************)
EXTENDS TrainLoop, SequenceTheorems, TLAPS

(***************************************************************************)
(* The invariant                                                           *)
(***************************************************************************)
State   == [step : Nat, episodes : Nat, transitions : Nat, train : Nat, lastCkpt : Nat \cup {-1}]
Item    == [episode : Nat, ver : Nat]
Streams == [draws : Nat, episode : Nat, opponents : Seq(Nat)]

Counted(s, n)  == s \in State /\ s.lastCkpt <= s.step /\ n = s.train
Buffered(b)    == b \in Seq(Item) /\ Len(b) <= cfg.capacity
Streaming(r)   == r \in Streams /\ Len(r.opponents) <= RingSize
Plans == {None} \cup [collect : BOOLEAN, train : BOOLEAN, sync : BOOLEAN, clear : BOOLEAN, advance : {0, 1}]

Types ==
  /\ cfg \in Configs /\ Counted(st, net) /\ Buffered(buffer) /\ Streaming(runtime)
  /\ pc \in {"head", "collect", "train", "sync", "end", "save", "writing", "copy",
             "copying", "prune", "final", "done", "down"}
  /\ plan \in Plans /\ (pc \in {"collect", "train", "sync", "end"} => plan # None)
  /\ after \in {"head", "final", "done"}
  /\ drained \in 0 .. cfg.units
  /\ published \in Nat /\ published <= net /\ (pc = "down" => published = 0)
  /\ playing \in [Actors -> Nat] /\ queue \in Seq(Nat) /\ Len(queue) <= QueueSize

\* What a checkpoint holds, and where.
Content(p) ==
  /\ p \notin {None, Torn} /\ Counted(p.st, p.net)
  /\ Complete => Buffered(p.runtime.buffer) /\ Streaming(p.runtime.rest)
Disk ==
  /\ \A k \in DOMAIN files : files[k] = Torn \/ (Content(files[k]) /\ files[k].st.step = k)
  /\ latest \in {None, Torn} \/ Content(latest)
  /\ saved = None \/ Content(saved)

Kept ==
  /\ pc \in {"copy", "copying", "prune"} => saved = Payload
  /\ pc \in {"copy", "copying"} => st.step \in DOMAIN files /\ files[st.step] = saved
  /\ pc = "prune" => latest = saved
  /\ UnfinishedRecoverable

\* The step that is saved is a later one than that of a checkpoint still needed.
Saving == {"save", "writing", "copy", "copying", "prune"}
Ends ==
  /\ pc = "collect" => plan.advance = 1
  /\ pc \in {"train", "sync", "end"} /\ plan.advance = 0 => Finished
  /\ pc \in Saving /\ after = "final" => Finished
Needed == saved # None /\ ~FinishedAt(saved.st)
Order ==
  Needed /\ pc # "down" =>
    /\ saved.st.step <= st.step
    /\ pc \in {"save", "writing", "final"} => saved.st.step < st.step
    /\ pc = "head" /\ saved.st.step = st.step => ~Finished
    /\ pc \in {"train", "sync", "end"} /\ plan.advance = 0 => saved.st.step < st.step

\* PPO starts an iteration with no data.
Rollouts ==
  cfg.kind = "ppo" /\ ~cfg.async =>
    /\ pc \notin {"train", "sync", "end"} => buffer = <<>>
    /\ pc = "train" => \A i \in DOMAIN buffer : buffer[i].ver = net
    /\ pc \in {"sync", "end"} => plan.clear \/ buffer = <<>>
    /\ pc = "collect" => plan.clear
    /\ pc = "train" => plan.clear \/ buffer = <<>>

\* One iteration of a serial DMC run of configuration c, from a state s in which
\* it is not over.
CollectOf(c, s) ==
  LET e == s.runtime.episode + 1
      n == Yield(e)
      b == s.buffer \o [i \in 1 .. n |-> [episode |-> e, ver |-> s.net]]
  IN  [st      |-> [s.st EXCEPT !.episodes = @ + 1, !.transitions = @ + n],
       net     |-> s.net,
       buffer  |-> SubSeq(b, IF Len(b) > c.capacity THEN Len(b) - c.capacity + 1 ELSE 1, Len(b)),
       runtime |-> [s.runtime EXCEPT !.episode = e, !.draws = @ + 1]]
TrainOf(c, s, train) ==
  LET n == IF train /\ Len(s.buffer) >= c.batch THEN c.batches ELSE 0
  IN  [st |-> [s.st EXCEPT !.train = @ + n], net |-> s.net + n, buffer |-> s.buffer,
       runtime |-> [s.runtime EXCEPT !.draws = @ + n]]
Due(c, s) ==
  /\ c.saveEvery > 0
  /\ s.step - (IF s.lastCkpt < 0 THEN 0 ELSE s.lastCkpt) >= c.saveEvery
EndOf(c, s) ==
  LET ring == Append(s.runtime.opponents, s.net)
  IN  [st      |-> [s.st EXCEPT !.lastCkpt = IF Due(c, s.st) THEN s.st.step ELSE @, !.step = @ + 1],
       net     |-> s.net,
       buffer  |-> s.buffer,
       runtime |-> IF Due(c, s.st)
                     THEN [s.runtime EXCEPT !.opponents =
                             SubSeq(ring, IF Len(ring) > RingSize THEN 2 ELSE 1, Len(ring))]
                     ELSE s.runtime]
Last(c, s)     == s.st.transitions >= c.limit
Warm(c, s)     == ~(s.st.transitions < c.warmup)
Trained(c, s)  == TrainOf(c, CollectOf(c, s), Warm(c, s))
Iterated(c, s) == EndOf(c, Trained(c, s))

\* The state s at the head of a step is that of the step before, iterated; h holds
\* the states seen before.
Starting == [st |-> Fresh, net |-> 0, buffer |-> <<>>, runtime |-> Start]
Good(c, h, s) ==
  IF s.st.step = 0 THEN s = Starting
  ELSE /\ s.st.step - 1 \in DOMAIN h /\ ~Last(c, h[s.st.step - 1])
       /\ s = Iterated(c, h[s.st.step - 1])
\* After the last step the state is saved again, with another lastCkpt.
Over(c, h, s)  == Last(c, s) /\ s.st.step \in DOMAIN h
Sound(c, h, s) == Good(c, h, s) \/ Over(c, h, s)
Held(p) == [st |-> p.st, net |-> p.net, buffer |-> p.runtime.buffer, runtime |-> p.runtime.rest]

\* In an iteration with plan p the state s is the image x of the one at its head.
Ending(c, h, p, s) == Over(c, h, s) /\ p.advance = 0 /\ ~p.train
Going(c, h, p, s) ==
  /\ s.st.step \in DOMAIN h /\ ~Last(c, h[s.st.step])
  /\ p.advance = 1 /\ p.train = Warm(c, h[s.st.step])

Driven ==
  /\ pc \in Saving \cup {"head", "final", "done"} => Sound(cfg, seen, Live)
  /\ pc \in {"collect", "train", "sync", "end"} =>
       ~plan.clear /\ (Ending(cfg, seen, plan, Live) \/ Going(cfg, seen, plan, Live))
  /\ pc = "collect" /\ Going(cfg, seen, plan, Live) => Live = seen[st.step]
  /\ pc = "train" /\ Going(cfg, seen, plan, Live) => Live = CollectOf(cfg, seen[st.step])
  /\ pc \in {"sync", "end"} /\ Going(cfg, seen, plan, Live) => Live = Trained(cfg, seen[st.step])

Repeating ==
  Complete =>
    /\ \A k \in DOMAIN seen : k \in Nat /\ seen[k].st.step = k /\ Good(cfg, seen, seen[k])
    /\ \A p \in Loadable \cup ({saved} \ {None}) : Sound(cfg, seen, Held(p))
    /\ Driven

IInv == Types /\ Disk /\ Kept /\ Ends /\ Order /\ Rollouts /\ Repeating

(***************************************************************************)
(* Sequences                                                               *)
(***************************************************************************)
LEMMA Suffix ==
  ASSUME NEW S, NEW s \in Seq(S), NEW m \in 1 .. (Len(s) + 1)
  PROVE  /\ SubSeq(s, m, Len(s)) \in Seq(S) /\ Len(SubSeq(s, m, Len(s))) = Len(s) + 1 - m
         /\ \A i \in DOMAIN SubSeq(s, m, Len(s)) : \E j \in DOMAIN s :
                SubSeq(s, m, Len(s))[i] = s[j]
<1>1. Len(s) \in Nat /\ DOMAIN s = 1 .. Len(s)
  BY LenProperties
<1>2. m \in Int /\ Len(s) \in Int /\ \A i \in m .. Len(s) : s[i] \in S
  BY <1>1, ElementOfSeq
<1>3. /\ SubSeq(s, m, Len(s)) \in Seq(S)
      /\ Len(SubSeq(s, m, Len(s))) = IF m <= Len(s) THEN Len(s) - m + 1 ELSE 0
      /\ \A i \in 1 .. Len(s) - m + 1 : SubSeq(s, m, Len(s))[i] = s[m + i - 1]
  BY <1>2, SubSeqProperties
<1>4. Len(SubSeq(s, m, Len(s))) = Len(s) + 1 - m
  BY <1>1, <1>3
<1>5. DOMAIN SubSeq(s, m, Len(s)) = 1 .. Len(s) + 1 - m
  BY <1>3, <1>4, LenProperties
<1>6. \A i \in 1 .. Len(s) - m + 1 : m + i - 1 \in DOMAIN s
  BY <1>1
<1>7. QED
  BY <1>1, <1>3, <1>4, <1>5, <1>6

\* What push leaves is a suffix of what was there and what came.
LEMMA PushKeeps ==
  ASSUME Types, TrainAssumption, NEW out \in Seq(Item), Push(out)
  PROVE  /\ buffer' \in Seq(Item) /\ Len(buffer') <= cfg.capacity
         /\ \A i \in DOMAIN buffer' : (\E j \in DOMAIN buffer : buffer'[i] = buffer[j])
                                      \/ (\E j \in DOMAIN out : buffer'[i] = out[j])
<1> DEFINE b == buffer \o out
           m == IF Len(b) > cfg.capacity THEN Len(b) - cfg.capacity + 1 ELSE 1
<1>1. buffer \in Seq(Item) /\ cfg.capacity \in Nat \ {0}
  BY DEF Types, Buffered, TrainAssumption
<1>2. /\ b \in Seq(Item) /\ Len(b) = Len(buffer) + Len(out)
      /\ \A i \in 1 .. Len(buffer) + Len(out) : b[i] = IF i <= Len(buffer) THEN buffer[i]
             ELSE out[i - Len(buffer)]
  BY <1>1, ConcatProperties
<1>3. Len(buffer) \in Nat /\ Len(out) \in Nat /\ DOMAIN buffer = 1 .. Len(buffer)
          /\ DOMAIN out = 1 .. Len(out)
      /\ DOMAIN b = 1 .. Len(b)
  BY <1>1, <1>2, LenProperties
<1>4. buffer' = SubSeq(b, m, Len(b))
  BY DEF Push
<1>5. m \in 1 .. (Len(b) + 1) /\ Len(b) + 1 - m <= cfg.capacity
  BY <1>1, <1>2, <1>3
<1>6. \A j \in DOMAIN b : (\E k \in DOMAIN buffer : b[j] = buffer[k])
          \/ (\E k \in DOMAIN out : b[j] = out[k])
  <2> TAKE j \in DOMAIN b
  <2>1. CASE j <= Len(buffer)
    BY <1>2, <1>3, <2>1
  <2>2. CASE ~(j <= Len(buffer))
    <3>1. j - Len(buffer) \in DOMAIN out /\ b[j] = out[j - Len(buffer)]
      BY <1>2, <1>3, <2>2
    <3>2. QED
      BY <3>1
  <2>3. QED
    BY <2>1, <2>2
<1> HIDE DEF b, m
<1>7. /\ buffer' \in Seq(Item) /\ Len(buffer') = Len(b) + 1 - m
      /\ \A i \in DOMAIN buffer' : \E j \in DOMAIN b : buffer'[i] = b[j]
  <2>1. /\ SubSeq(b, m, Len(b)) \in Seq(Item) /\ Len(SubSeq(b, m, Len(b))) = Len(b) + 1 - m
        /\ \A i \in DOMAIN SubSeq(b, m, Len(b)) : \E j \in DOMAIN b : SubSeq(b, m, Len(b))[i] = b[j]
    <3>1. b \in Seq(Item) /\ m \in 1 .. (Len(b) + 1)
      BY <1>2, <1>5
    <3>2. QED
      BY <3>1, Suffix
  <2>2. QED
    BY <1>4, <2>1
<1>8. QED
  BY <1>5, <1>6, <1>7

LEMMA CollectedItems ==
  ASSUME NEW e \in Nat, NEW v \in Nat, NEW n \in Nat
  PROVE  [i \in 1 .. n |-> [episode |-> e, ver |-> v]] \in Seq(Item)
BY IsASeq DEF Item

(***************************************************************************)
(* Types                                                                   *)
(***************************************************************************)
LEMMA ConfigTypes ==
  ASSUME Types
  PROVE  /\ cfg.batches \in Nat \ {0} /\ cfg.batch \in Nat \ {0} /\ cfg.capacity \in Nat \ {0}
         /\ cfg.units \in Nat \ {0} /\ cfg.async \in BOOLEAN
         /\ cfg.saveEvery \in Nat /\ cfg.limit \in Nat /\ cfg.warmup \in Nat
         /\ cfg.kind \in {"bc", "az", "dmc", "cfr", "ppo"}
         /\ RingSize \in Nat \ {0} /\ QueueSize \in Nat \ {0}
BY TrainAssumption DEF Types

LEMMA StateParts ==
  ASSUME NEW s \in State
  PROVE  /\ s.step \in Nat /\ s.episodes \in Nat /\ s.transitions \in Nat /\ s.train \in Nat
         /\ s.lastCkpt \in Nat \cup {-1}
BY DEF State

LEMMA PlanTypes == StepSchedule \in Plans /\ StepSchedule # None
BY DEF StepSchedule, Plans, None

LEMMA InitTypes == Init => Types
<1> SUFFICES ASSUME Init PROVE Types
  OBVIOUS
<1>1. /\ <<>> \in Seq(Item) /\ <<>> \in Seq(Nat) /\ Len(<<>>) = 0
  BY EmptySeq
<1>2. cfg \in Configs /\ cfg.capacity \in Nat /\ cfg.units \in Nat /\ RingSize \in Nat
          /\ QueueSize \in Nat
  BY TrainAssumption DEF Init
<1>3. Counted(st, net)
  BY DEF Init, Fresh, Counted, State
<1>4. Buffered(buffer) /\ Streaming(runtime)
  BY <1>1, <1>2 DEF Init, Start, Buffered, Streaming, Streams
<1>5. QED
  BY <1>1, <1>2, <1>3, <1>4 DEF Init, Types, Plans

LEMMA CollectTypes ==
  ASSUME Types, NEW k \in Nat, NEW n \in Nat, AfterCollect(k, n)
  PROVE  Counted(st', net) /\ st'.step = st.step /\ st'.train = st.train
             /\ st'.lastCkpt = st.lastCkpt
<1>1. st \in State /\ st.lastCkpt <= st.step /\ net = st.train
  BY DEF Types, Counted
<1>2. st.episodes + k \in Nat /\ st.transitions + n \in Nat
  BY <1>1, StateParts
<1>3. st' \in State
  BY <1>1, <1>2 DEF AfterCollect, State
<1>4. st'.step = st.step /\ st'.train = st.train /\ st'.lastCkpt = st.lastCkpt
  BY <1>1 DEF AfterCollect, State
<1>5. QED
  BY <1>1, <1>3, <1>4 DEF Counted

LEMMA RingTypes ==
  ASSUME Types PROVE Streaming(AddSnapshot)
<1> DEFINE ring == Append(runtime.opponents, net)
           m == IF Len(ring) > RingSize THEN 2 ELSE 1
<1>1. runtime.opponents \in Seq(Nat) /\ Len(runtime.opponents) <= RingSize /\ net \in Nat
  BY DEF Types, Streaming, Streams, Counted, State
<1>2. ring \in Seq(Nat) /\ Len(ring) = Len(runtime.opponents) + 1 /\ Len(runtime.opponents) \in Nat
  BY <1>1, AppendProperties, LenProperties
<1>3. m \in 1 .. (Len(ring) + 1) /\ Len(ring) + 1 - m <= RingSize
  <2>1. RingSize \in Nat \ {0}
    BY ConfigTypes
  <2> HIDE DEF ring
  <2>2. QED
    BY <1>1, <1>2, <2>1
<1>4. AddSnapshot = [runtime EXCEPT !.opponents = SubSeq(ring, m, Len(ring))]
  BY DEF AddSnapshot
<1> HIDE DEF ring, m
<1>5. SubSeq(ring, m, Len(ring)) \in Seq(Nat) /\ Len(SubSeq(ring, m, Len(ring))) <= RingSize
  BY <1>2, <1>3, Suffix
<1>6. QED
  BY <1>4, <1>5 DEF Types, Streaming, Streams

LEMMA LoadedTypes ==
  ASSUME Types, Disk, NEW p \in Loadable PROVE Content(p)
BY DEF Disk, Loadable

LEMMA TypesStep ==
  ASSUME Types, Disk, [Next]_vars PROVE Types'
<1> USE ConfigTypes
<1>0. st \in State /\ net = st.train /\ net \in Nat /\ st.lastCkpt <= st.step
  BY StateParts DEF Types, Counted
<1>1. CASE Schedule
  <2>1. plan' \in Plans /\ plan' # None
    BY <1>1, PlanTypes DEF Schedule
  <2>2. QED
    BY <1>1, <2>1 DEF Schedule, Types, Counted, Buffered, Streaming, actors
<1>2. CASE CollectSerial
  <2> DEFINE e == runtime.episode + 1
             n == IF cfg.kind = "bc" THEN cfg.capacity ELSE Yield(e)
             k == IF cfg.kind = "bc" THEN 0 ELSE 1
  <2>1. e \in Nat /\ n \in Nat /\ k \in Nat /\ runtime.draws + 1 \in Nat
    <3>1. runtime.episode \in Nat /\ runtime.draws \in Nat
      BY DEF Types, Streaming, Streams
    <3>2. e \in Nat /\ Yield(e) \in Nat
      BY <3>1 DEF Yield
    <3>3. QED
      BY <3>1, <3>2
  <2>2. [i \in 1 .. n |-> [episode |-> e, ver |-> net]] \in Seq(Item)
    BY <1>0, <2>1, CollectedItems
  <2>3. /\ Push([i \in 1 .. n |-> [episode |-> e, ver |-> net]]) /\ AfterCollect(k, n)
        /\ runtime' = [runtime EXCEPT !.episode = e, !.draws = @ + 1]
        /\ pc' = "train" /\ UNCHANGED <<cfg, plan, net, drained, after, published, playing, queue>>
    BY <1>2 DEF CollectSerial, actors
  <2> HIDE DEF n, k
  <2>4. buffer' \in Seq(Item) /\ Len(buffer') <= cfg.capacity
    BY <2>2, <2>3, PushKeeps, TrainAssumption
  <2>5. Counted(st', net)
    BY <2>1, <2>3, CollectTypes
  <2>6. Streaming(runtime')
    BY <2>1, <2>3 DEF Types, Streaming, Streams
  <2>7. pc = "collect"
    BY <1>2 DEF CollectSerial
  <2>8. QED
    BY <2>3, <2>4, <2>5, <2>6, <2>7 DEF Types, Counted, Buffered, Streaming
<1>3. CASE Drain
  <2>1. Head(queue) \in Nat /\ Tail(queue) \in Seq(Nat) /\ Len(Tail(queue)) = Len(queue) - 1
            /\ Len(queue) \in Nat
    BY <1>3, HeadTailProperties, LenProperties DEF Drain, Types
  <2>2. <<[episode |-> 0, ver |-> Head(queue)]>> \in Seq(Item)
    BY <2>1 DEF Item
  <2>3. buffer' \in Seq(Item) /\ Len(buffer') <= cfg.capacity
    BY <1>3, <2>2, PushKeeps, TrainAssumption DEF Drain
  <2>4. Counted(st', net)
    BY <1>3, CollectTypes DEF Drain
  <2>5. drained' \in 0 .. cfg.units /\ queue' \in Seq(Nat) /\ Len(queue') <= QueueSize
    BY <1>3, <2>1, SMTT(30) DEF Drain, Types
  <2>6. UNCHANGED <<cfg, pc, plan, net, runtime, after, published, playing>>
    BY <1>3 DEF Drain
  <2>7. QED
    BY <2>3, <2>4, <2>5, <2>6 DEF Types, Counted, Buffered, Streaming
<1>4. CASE DrainEnd
  BY <1>4 DEF DrainEnd, Types, Counted, Buffered, Streaming, actors
<1>5. CASE Train
  <2>1. PICK n \in Nat : /\ net' = net + n /\ st' = [st EXCEPT !.train = @ + n]
                         /\ runtime' = [runtime EXCEPT !.draws = @ + n]
    BY <1>5 DEF Train
  <2>2. Counted(st', net') /\ net <= net'
    BY <1>0, <2>1 DEF Counted, State
  <2>3. Streaming(runtime')
    <3>1. runtime \in Streams /\ Len(runtime.opponents) <= RingSize
      BY DEF Types, Streaming
    <3>2. runtime.draws + n \in Nat
      BY <3>1 DEF Streams
    <3>3. QED
      BY <2>1, <3>1, <3>2 DEF Streaming, Streams
  <2>4. published' <= net'
    BY <1>0, <1>5, <2>2, StateParts, SMTT(30) DEF Train, Types, Counted
  <2>5. QED
    BY <1>5, <2>2, <2>3, <2>4 DEF Train, Types, Counted, Buffered, Streaming, actors
<1>6. CASE SyncWeights
  <2>1. published' \in Nat /\ published' <= net
    BY <1>0, <1>6 DEF SyncWeights, Types
  <2>2. QED
    BY <1>6, <2>1 DEF SyncWeights, Types, Counted, Buffered, Streaming, actors
<1>7. CASE EndIteration
  <2>1. Buffered(buffer')
    BY <1>7, EmptySeq DEF EndIteration, Types, Buffered
  <2>2. plan.advance \in {0, 1}
    BY <1>7 DEF EndIteration, Types, Plans
  <2>3. Counted(st', net)
    <3>1. st.step + plan.advance \in Nat /\ st.step <= st.step + plan.advance
              /\ st.lastCkpt \in Nat \cup {-1}
      BY <1>0, <2>2, StateParts
    <3>2. PICK l \in {st.step, st.lastCkpt} :
                   st' = [st EXCEPT !.lastCkpt = l, !.step = @ + plan.advance]
      BY <1>7 DEF EndIteration
    <3>3. l \in Nat \cup {-1} /\ l <= st.step
      BY <1>0, <3>1, <3>2, StateParts
    <3>4. st' \in State /\ st'.step = st.step + plan.advance /\ st'.lastCkpt = l
              /\ st'.train = st.train
      BY <1>0, <3>1, <3>2, <3>3 DEF State
    <3>5. l <= st.step + plan.advance
      BY <1>0, <3>1, <3>3, StateParts
    <3>6. QED
      BY <1>0, <3>4, <3>5 DEF Counted
  <2>4. Streaming(runtime')
    BY <1>7, RingTypes DEF EndIteration, Types
  <2>5. QED
    BY <1>7, <2>1, <2>3, <2>4 DEF EndIteration, Types, Counted, Buffered, Streaming, actors
<1>8. CASE Save
  <2>1. UNCHANGED <<cfg, st, net, buffer, runtime, plan, drained, published, playing, queue>>
    BY <1>8
       DEF Save, Final, SaveOpen, SaveWritten, CopyOpen, CopyDone, Prune, SaveDone, actors,
           driver
  <2>2. pc \in {"final", "save", "writing", "copy", "copying", "prune"}
    BY <1>8 DEF Save, Final, SaveOpen, SaveWritten, CopyOpen, CopyDone, Prune, SaveDone
  <2>3. /\ pc' \in {"save", "writing", "copy", "copying", "prune", "final", "done", "head"}
        /\ after' \in {"head", "final", "done"}
    BY <1>8
       DEF Save, Final, SaveOpen, SaveWritten, CopyOpen, CopyDone, Prune, SaveDone, Types,
           driver
  <2>4. QED
    BY <2>1, <2>2, <2>3 DEF Types, Counted, Buffered, Streaming
<1>9. CASE Crash
  <2>1. Counted(st', net')
    BY <1>9 DEF Crash, Fresh, Counted, State
  <2>2. Buffered(buffer') /\ Streaming(runtime') /\ queue' \in Seq(Nat) /\ Len(queue') <= QueueSize
    <3>1. <<>> \in Seq(Item) /\ <<>> \in Seq(Nat) /\ Len(<<>>) = 0
      BY EmptySeq
    <3>2. QED
      BY <1>9, <3>1 DEF Crash, Start, Buffered, Streaming, Streams
  <2>3. QED
    BY <1>9, <2>1, <2>2 DEF Crash, Types, Counted, Buffered, Streaming, Plans
<1>10. CASE Resume
  <2>1. PICK p \in Loadable :
          /\ st' = p.st /\ net' = p.net
          /\ buffer'  = IF Complete THEN p.runtime.buffer ELSE <<>>
          /\ runtime' = IF Complete THEN p.runtime.rest ELSE Start
    BY <1>10 DEF Resume
  <2>2. Content(p)
    BY <2>1, LoadedTypes
  <2>3. Counted(st', net')
    BY <2>1, <2>2 DEF Content
  <2>4. Buffered(buffer') /\ Streaming(runtime')
    <3>1. <<>> \in Seq(Item) /\ <<>> \in Seq(Nat) /\ Len(<<>>) = 0 /\ cfg' = cfg
      BY <1>10, EmptySeq DEF Resume
    <3>2. QED
      BY <2>1, <2>2, <3>1 DEF Content, Start, Buffered, Streaming, Streams
  <2>5. published' = 0 /\ published' <= net'
    BY <1>10, <2>3, StateParts DEF Resume, Types, Counted
  <2>6. QED
    BY <1>10, <2>3, <2>4, <2>5 DEF Resume, Types, Counted, Buffered, Streaming, actors
<1>11. ASSUME NEW a \in Actors, Poll(a) PROVE Types'
  BY <1>11 DEF Poll, Types, Counted, Buffered, Streaming, driver
<1>12. ASSUME NEW a \in Actors, Episode(a) PROVE Types'
  <2>1. queue' \in Seq(Nat) /\ Len(queue') <= QueueSize
    BY <1>12, AppendProperties, LenProperties DEF Episode, Types
  <2>2. QED
    BY <1>12, <2>1 DEF Episode, Types, Counted, Buffered, Streaming, driver
<1>13. CASE UNCHANGED vars
  BY <1>13 DEF vars, driver, actors, Types, Counted, Buffered, Streaming
<1>14. QED
  BY <1>1, <1>2, <1>3, <1>4, <1>5, <1>6, <1>7, <1>8, <1>9, <1>10, <1>11, <1>12, <1>13
     DEF Next, Iteration

(***************************************************************************)
(* Checkpoints                                                             *)
(***************************************************************************)
LEMMA PayloadHolds ==
  ASSUME Types
  PROVE  /\ Content(Payload) /\ Payload.st = st
         /\ Complete => Held(Payload) = Live
<1>1. Payload \notin {None, Torn}
  <2>1. DOMAIN Payload = {"st", "net", "runtime"} /\ DOMAIN None = {"none"}
            /\ DOMAIN Torn = {"torn"}
    BY DEF Payload, None, Torn
  <2>2. QED
    BY <2>1
<1>2. Payload.st = st /\ Payload.net = net
  BY DEF Payload
<1>3. Complete => Payload.runtime.buffer = buffer /\ Payload.runtime.rest = runtime
  BY DEF Payload
<1>4. QED
  BY <1>1, <1>2, <1>3 DEF Types, Content, Held, Live

LEMMA FileWritten ==
  ASSUME NEW k, NEW content, Write(k, content)
  PROVE  /\ DOMAIN files' = DOMAIN files \cup {k} /\ files'[k] = content
         /\ \A j \in DOMAIN files : j # k => files'[j] = files[j]
BY DEF Write

LEMMA FilePruned ==
  ASSUME Prune
  PROVE  /\ DOMAIN files' \subseteq DOMAIN files /\ \A j \in DOMAIN files' : files'[j] = files[j]
         /\ pc = "prune" /\ UNCHANGED <<cfg, driver, latest, published, actors, hist>>
BY DEF Prune

\* Everything but a save leaves the files alone.
LEMMA DiskKept ==
  ASSUME [Next]_vars, ~SaveOpen, ~SaveWritten, ~CopyOpen, ~CopyDone, ~Prune
  PROVE  UNCHANGED <<cfg, files, latest>> /\ (saved' = saved \/ Resume)
BY DEF Next, Iteration, Save, vars, Schedule, CollectSerial, Drain, DrainEnd, Train,
       SyncWeights, EndIteration, Final, SaveDone, Crash, Resume, Poll, Episode, disk, hist,
       driver

LEMMA DiskStep ==
  ASSUME Types, Disk, Kept, [Next]_vars PROVE Disk'
<1> USE DEF Complete
<1>0. Content(Payload) /\ Payload.st = st
  BY PayloadHolds
<1>1. CASE SaveOpen
  <2>1. Write(st.step, Torn) /\ UNCHANGED <<cfg, latest, saved>>
    BY <1>1 DEF SaveOpen, hist
  <2>2. /\ DOMAIN files' = DOMAIN files \cup {st.step} /\ files'[st.step] = Torn
        /\ \A j \in DOMAIN files : j # st.step => files'[j] = files[j]
    BY <2>1, FileWritten
  <2> HIDE DEF Complete
  <2>3. Complete' = Complete
    BY <2>1 DEF Complete
  <2>4. \A p : Content(p) => (Content(p))'
    BY <2>1, <2>3 DEF Content, Counted, Buffered, Streaming
  <2>5. QED
    BY <2>1, <2>2, <2>4 DEF Disk
<1>2. CASE SaveWritten
  <2>1. Write(st.step, Payload) /\ saved' = Payload /\ UNCHANGED <<cfg, latest>>
    BY <1>2 DEF SaveWritten
  <2> HIDE DEF Complete
  <2>2. Complete' = Complete
    BY <2>1 DEF Complete
  <2>3. \A p : Content(p) => (Content(p))'
    BY <2>1, <2>2 DEF Content, Counted, Buffered, Streaming
  <2>4. /\ DOMAIN files' = DOMAIN files \cup {st.step} /\ files'[st.step] = Payload
        /\ \A j \in DOMAIN files : j # st.step => files'[j] = files[j]
    BY <2>1, FileWritten
  <2>5. QED
    BY <1>0, <2>1, <2>3, <2>4 DEF Disk
<1>3. CASE CopyOpen
  BY <1>3 DEF CopyOpen, Disk, Content, Counted, Buffered, Streaming, hist
<1>4. CASE CopyDone
  <2>1. latest' = saved /\ UNCHANGED <<cfg, files, saved>>
    BY <1>4 DEF CopyDone, Kept, hist
  <2>2. QED
    BY <2>1 DEF Disk, Content, Counted, Buffered, Streaming
<1>5. CASE Prune
  BY <1>5, FilePruned DEF hist, Disk, Content, Counted, Buffered, Streaming
<1>6. CASE Resume
  <2>1. saved' \in Loadable /\ UNCHANGED <<cfg, files, latest>>
    BY <1>6 DEF Resume, disk
  <2>2. QED
    BY <2>1 DEF Loadable, Disk, Content, Counted, Buffered, Streaming
<1>7. CASE /\ ~SaveOpen /\ ~SaveWritten /\ ~CopyOpen /\ ~CopyDone /\ ~Prune /\ ~Resume
  <2>1. UNCHANGED <<cfg, files, latest, saved>>
    BY <1>7, DiskKept
  <2>2. QED
    BY <2>1 DEF Disk, Content, Counted, Buffered, Streaming
<1>8. QED
  BY <1>1, <1>2, <1>3, <1>4, <1>5, <1>6, <1>7

\* The last iteration is the one of a finished run.
LEMMA EndsStep ==
  ASSUME Types, Ends, [Next]_vars PROVE Ends'
<1>0. cfg' = cfg /\ st \in State
  BY DEF Types, Counted, Next, Iteration, Save, vars, Schedule, CollectSerial, Drain, DrainEnd,
         Train, SyncWeights, EndIteration, Final, SaveOpen, SaveWritten, CopyOpen, CopyDone,
         Prune, SaveDone, Crash, Resume, Poll, Episode
<1>1. CASE Schedule
  <2>1. plan' = StepSchedule /\ pc' = (IF plan'.collect THEN "collect" ELSE "train") /\ st' = st
    BY <1>1 DEF Schedule
  <2>2. StepSchedule.advance = (IF Finished THEN 0 ELSE 1) /\ (StepSchedule.collect => ~Finished)
    BY DEF StepSchedule
  <2>3. Finished' = Finished
    BY <1>0, <2>1 DEF Finished, FinishedAt
  <2>4. QED
    BY <2>1, <2>2, <2>3 DEF Ends, Saving
<1>2. CASE CollectSerial \/ Drain \/ DrainEnd
  <2>1. plan' = plan /\ pc = "collect" /\ pc' \in {"collect", "train"}
    BY <1>2 DEF CollectSerial, Drain, DrainEnd
  <2>2. QED
    BY <2>1 DEF Ends, Saving
<1>3. CASE Train
  <2>1. PICK n : st' = [st EXCEPT !.train = n]
    BY <1>3 DEF Train
  <2>2. st'.step = st.step /\ st'.episodes = st.episodes /\ st'.transitions = st.transitions
    BY <1>0, <2>1 DEF State
  <2>3. Finished' = Finished
    BY <1>0, <2>2 DEF Finished, FinishedAt
  <2>4. QED
    BY <1>3, <2>3 DEF Train, Ends, Saving
<1>4. CASE SyncWeights
  BY <1>4, <1>0 DEF SyncWeights, Ends, Saving, Finished, FinishedAt
<1>5. CASE EndIteration
  <2>1. plan.advance \in {0, 1} /\ pc = "end" /\ pc' \in {"save", after'}
        /\ after' = IF plan.advance = 0 THEN "final" ELSE "head"
    BY <1>5 DEF EndIteration, Types, Plans
  <2>2. ASSUME after' = "final" PROVE Finished'
    <3>1. plan.advance = 0 /\ Finished
      BY <2>1, <2>2 DEF Ends
    <3>2. PICK l : st' = [st EXCEPT !.lastCkpt = l, !.step = @ + plan.advance]
      BY <1>5 DEF EndIteration
    <3>3. st'.step = st.step /\ st'.episodes = st.episodes /\ st'.transitions = st.transitions
      BY <1>0, <3>1, <3>2, StateParts DEF State
    <3>4. QED
      BY <1>0, <3>1, <3>3 DEF Finished, FinishedAt
  <2>3. QED
    BY <2>1, <2>2 DEF Ends, Saving
<1>6. CASE Save
  <2>1. pc \in Saving \cup {"final"} /\ pc' \in Saving \cup {"final", "done", "head"}
            /\ UNCHANGED <<cfg, st>>
    <3>1. pc \in Saving \cup {"final"} /\ UNCHANGED <<cfg, st>> /\ (pc' \in Saving \/ SaveDone)
      BY <1>6
         DEF Save, Saving, Final, SaveOpen, SaveWritten, CopyOpen, CopyDone, Prune, SaveDone,
             driver
    <3>2. SaveDone => pc' \in {"head", "final", "done"}
      BY DEF SaveDone, Types
    <3>3. QED
      BY <3>1, <3>2
  <2>2. pc' \in Saving /\ after' = "final" => pc \in Saving /\ after = "final"
    BY <1>6
       DEF Save, Saving, Final, SaveOpen, SaveWritten, CopyOpen, CopyDone, Prune, SaveDone,
           driver, Types
  <2>3. QED
    BY <2>1, <2>2 DEF Ends, Finished, FinishedAt, Saving
<1>7. CASE Crash \/ Resume
  <2>1. pc' \in {"down", "head"}
    BY <1>7 DEF Crash, Resume
  <2>2. QED
    BY <2>1 DEF Ends, Saving
<1>8. CASE (\E a \in Actors : Poll(a) \/ Episode(a)) \/ UNCHANGED vars
  <2>1. UNCHANGED <<pc, plan, st, after>>
    BY <1>8 DEF Poll, Episode, vars, driver
  <2>2. QED
    BY <1>0, <2>1 DEF Ends, Finished, FinishedAt, Saving
<1>9. QED
  BY <1>1, <1>2, <1>3, <1>4, <1>5, <1>6, <1>7, <1>8 DEF Next, Iteration

\* Where a needed checkpoint is to be had.
LEMMA InSomeFile ==
  ASSUME Disk, NEW p, p \notin {None, Torn}
  PROVE  p \in Loadable <=> p = latest \/ \E k \in DOMAIN files : files[k] = p
BY DEF Loadable

LEMMA KeptStep ==
  ASSUME Types, Disk, Kept, Order, [Next]_vars PROVE Kept'
<1>0. /\ Content(Payload) /\ (saved = None \/ Content(saved)) /\ \A p : Content(p)
             => p \notin {None, Torn}
  BY PayloadHolds DEF Disk, Content
<1>1. CASE Iteration \/ Crash
  <2>1. pc' \in {"head", "collect", "train", "sync", "end", "save", "final", "down"}
            /\ UNCHANGED <<cfg, files, latest, saved>>
    BY <1>1
       DEF Iteration, Schedule, CollectSerial, Drain, DrainEnd, Train, SyncWeights,
           EndIteration, Crash, disk, hist
  <2>2. QED
    BY <2>1 DEF Kept, UnfinishedRecoverable, Loadable, FinishedAt
<1>2. CASE (\E a \in Actors : Poll(a) \/ Episode(a)) \/ UNCHANGED vars
  <2>1. UNCHANGED <<cfg, pc, st, net, buffer, runtime, files, latest, saved>>
    BY <1>2 DEF Poll, Episode, vars, driver, disk, hist
  <2>2. Payload' = Payload
    BY <2>1 DEF Payload, Complete
  <2>3. UnfinishedRecoverable'
    BY <2>1 DEF Kept, UnfinishedRecoverable, Loadable, FinishedAt
  <2>4. QED
    BY <2>1, <2>2, <2>3 DEF Kept
<1>3. CASE Final \/ SaveDone
  <2>1. pc' \in {"head", "save", "final", "done"} /\ UNCHANGED <<cfg, files, latest, saved>>
    BY <1>3 DEF Final, SaveDone, Types, disk, hist
  <2>2. QED
    BY <2>1 DEF Kept, UnfinishedRecoverable, Loadable, FinishedAt
<1>4. CASE SaveOpen
  <2>1. pc = "save" /\ pc' = "writing" /\ Write(st.step, Torn) /\ UNCHANGED <<cfg, latest, saved>>
    BY <1>4 DEF SaveOpen, hist
  <2>2. ASSUME (saved # None /\ ~FinishedAt(saved.st))' PROVE saved \in Loadable'
    <3>1. Needed
      BY <2>1, <2>2 DEF Needed, FinishedAt
    <3>2. saved \in Loadable /\ saved.st.step < st.step /\ saved \notin {None, Torn}
      BY <1>0, <2>1, <3>1 DEF Kept, UnfinishedRecoverable, Needed, Order
    <3>3. CASE saved = latest
      BY <2>1, <3>2, <3>3 DEF Loadable
    <3>4. ASSUME NEW k \in DOMAIN files, files[k] = saved PROVE saved \in Loadable'
      <4>1. saved.st.step = k
        BY <3>2, <3>4 DEF Disk
      <4>2. k # st.step
        BY <3>2, <4>1, StateParts DEF Types, Counted
      <4>3. k \in DOMAIN files' /\ files'[k] = saved
        BY <2>1, <3>4, <4>2, FileWritten
      <4>4. QED
        BY <3>2, <4>3 DEF Loadable
    <3>5. QED
      BY <3>2, <3>3, <3>4, InSomeFile
  <2>3. QED
    BY <2>1, <2>2 DEF Kept, UnfinishedRecoverable
<1>5. CASE SaveWritten
  <2>1. pc' = "copy" /\ Write(st.step, Payload) /\ saved' = Payload
            /\ UNCHANGED <<cfg, st, net, buffer, runtime>>
    BY <1>5 DEF SaveWritten
  <2>2. Payload' = Payload
    BY <2>1 DEF Payload, Complete
  <2>3. st.step \in DOMAIN files' /\ files'[st.step] = Payload
    BY <2>1, FileWritten, ZenonT(30)
  <2>4. saved' \in Loadable'
    BY <1>0, <2>1, <2>3 DEF Loadable
  <2>5. QED
    BY <2>1, <2>2, <2>3, <2>4 DEF Kept, UnfinishedRecoverable
<1>6. CASE CopyOpen \/ CopyDone
  <2>1. /\ pc \in {"copy", "copying"} /\ pc' \in {"copying", "prune"}
        /\ UNCHANGED <<cfg, st, net, buffer, runtime, files, saved>>
        /\ pc' = "prune" => latest' = files[st.step]
    BY <1>6 DEF CopyOpen, CopyDone, hist
  <2>2. Payload' = Payload /\ saved = Payload /\ st.step \in DOMAIN files /\ files[st.step] = saved
    BY <2>1 DEF Payload, Complete, Kept
  <2>3. saved' \in Loadable'
    BY <1>0, <2>1, <2>2 DEF Loadable
  <2>4. QED
    BY <2>1, <2>2, <2>3 DEF Kept, UnfinishedRecoverable
<1>7. CASE Prune
  <2>1. pc = "prune" /\ UNCHANGED <<cfg, pc, st, net, buffer, runtime, latest, saved>>
    BY <1>7, FilePruned DEF driver, hist
  <2>2. Payload' = Payload /\ saved = Payload /\ latest = saved
    BY <2>1 DEF Payload, Complete, Kept
  <2>3. saved' \in Loadable'
    BY <1>0, <2>1, <2>2 DEF Loadable
  <2>4. QED
    BY <2>1, <2>2, <2>3 DEF Kept, UnfinishedRecoverable
<1>8. CASE Resume
  <2>1. pc' = "head" /\ saved' \in Loadable /\ UNCHANGED <<files, latest>>
    BY <1>8 DEF Resume, disk
  <2>2. QED
    BY <2>1 DEF Kept, UnfinishedRecoverable, Loadable
<1>9. QED
  BY <1>1, <1>2, <1>3, <1>4, <1>5, <1>6, <1>7, <1>8 DEF Next, Save

LEMMA OrderStep ==
  ASSUME Types, Disk, Kept, Ends, Order, [Next]_vars PROVE Order'
<1>0. /\ cfg' = cfg /\ (saved = None \/ Content(saved)) /\ Payload.st = st /\ st.step \in Nat
      /\ saved # None => saved.st.step \in Nat
  <2>1. cfg' = cfg
    BY DEF Next, Iteration, Save, vars, Schedule, CollectSerial, Drain, DrainEnd, Train,
           SyncWeights, EndIteration, Final, SaveOpen, SaveWritten, CopyOpen, CopyDone, Prune,
           SaveDone, Crash, Resume, Poll, Episode
  <2>2. QED
    BY <2>1, PayloadHolds, StateParts DEF Types, Disk, Content, Counted
<1>1. CASE Schedule
  <2>1. /\ pc = "head" /\ UNCHANGED <<st, saved>> /\ pc' \in {"collect", "train"}
        /\ plan'.advance = 0 => Finished
    BY <1>1 DEF Schedule, StepSchedule, hist
  <2>2. QED
    BY <1>0, <2>1 DEF Order, Needed, FinishedAt
<1>2. CASE CollectSerial \/ Drain \/ DrainEnd
  <2>1. pc = "collect" /\ UNCHANGED <<plan, saved>> /\ pc' \in {"collect", "train"}
    BY <1>2 DEF CollectSerial, Drain, DrainEnd, hist
  <2>2. st'.step = st.step
    BY <1>2 DEF CollectSerial, Drain, DrainEnd, AfterCollect, Types, Counted, State
  <2>3. QED
    BY <1>0, <2>1, <2>2 DEF Order, Needed, FinishedAt, Ends
<1>3. CASE Train
  <2>1. pc = "train" /\ UNCHANGED <<plan, saved>> /\ pc' = "sync" /\ st'.step = st.step
    BY <1>3 DEF Train, hist, Types, Counted, State
  <2>2. QED
    BY <1>0, <2>1 DEF Order, Needed, FinishedAt
<1>4. CASE SyncWeights
  BY <1>0, <1>4 DEF SyncWeights, hist, Order, Needed, FinishedAt
<1>5. CASE EndIteration
  <2>1. /\ pc = "end" /\ saved' = saved /\ plan.advance \in {0, 1}
               /\ pc' \in {"save", "head", "final"}
        /\ pc' \in {"save", "final"} \/ plan.advance = 1
    BY <1>5 DEF EndIteration, hist, Types, Plans
  <2>2. st'.step = st.step + plan.advance
    <3>1. PICK l : st' = [st EXCEPT !.lastCkpt = l, !.step = @ + plan.advance]
      BY <1>5 DEF EndIteration
    <3>2. QED
      BY <3>1 DEF Types, Counted, State
  <2>3. QED
    BY <1>0, <2>1, <2>2 DEF Order, Needed, FinishedAt
<1>6. CASE Final \/ SaveOpen
  BY <1>0, <1>6 DEF Final, SaveOpen, hist, Order, Needed, FinishedAt
<1>7. CASE SaveWritten
  <2>1. saved' = Payload /\ st' = st /\ pc' = "copy"
    BY <1>7 DEF SaveWritten
  <2>2. QED
    BY <1>0, <2>1 DEF Order, Needed
<1>8. CASE CopyOpen \/ CopyDone \/ Prune
  <2>1. UNCHANGED <<saved, st>> /\ pc \in {"copy", "copying", "prune"}
            /\ pc' \in {"copy", "copying", "prune"}
    BY <1>8 DEF CopyOpen, CopyDone, Prune, hist, driver
  <2>2. QED
    BY <1>0, <2>1 DEF Order, Needed, FinishedAt
<1>9. CASE SaveDone
  <2>1. UNCHANGED <<saved, st>> /\ pc = "prune" /\ pc' = after
            /\ after \in {"head", "final", "done"}
    BY <1>9 DEF SaveDone, hist, Types
  <2>2. saved.st = st
    BY <1>0, <2>1 DEF Kept
  <2>3. after = "final" => Finished
    BY <2>1 DEF Ends, Saving
  <2>4. QED
    BY <1>0, <2>1, <2>2, <2>3 DEF Order, Needed, Finished, FinishedAt
<1>10. CASE Crash
  BY <1>10 DEF Crash, Order
<1>11. CASE Resume
  <2>1. PICK p \in Loadable : st' = p.st /\ saved' = p /\ pc' = "head"
    BY <1>11 DEF Resume
  <2>2. p.st.step \in Nat
    BY <2>1, LoadedTypes, StateParts DEF Content, Counted
  <2>3. QED
    BY <1>0, <2>1, <2>2 DEF Order, Needed, Finished, FinishedAt
<1>12. CASE (\E a \in Actors : Poll(a) \/ Episode(a)) \/ UNCHANGED vars
  <2>1. UNCHANGED <<pc, plan, st, saved>>
    BY <1>12 DEF Poll, Episode, vars, driver, hist
  <2>2. QED
    BY <1>0, <2>1 DEF Order, Needed, Finished, FinishedAt
<1>13. QED
  BY <1>1, <1>2, <1>3, <1>4, <1>5, <1>6, <1>7, <1>8, <1>9, <1>10, <1>11, <1>12
     DEF Next, Iteration, Save

LEMMA RolloutsStep ==
  ASSUME Types, Rollouts, [Next]_vars PROVE Rollouts'
<1> SUFFICES ASSUME (cfg.kind = "ppo" /\ ~cfg.async)' PROVE Rollouts'
  BY DEF Rollouts
<1>0. cfg' = cfg /\ cfg.kind = "ppo" /\ ~cfg.async /\ ~Complete
  BY DEF Complete, Next, Iteration, Save, vars, Schedule, CollectSerial, Drain, DrainEnd, Train,
         SyncWeights, EndIteration, Final, SaveOpen, SaveWritten, CopyOpen, CopyDone, Prune,
         SaveDone, Crash, Resume, Poll, Episode
<1>1. CASE Schedule
  <2>1. pc = "head" /\ plan' = StepSchedule /\ buffer' = buffer
            /\ pc' = (IF plan'.collect THEN "collect" ELSE "train")
    BY <1>1 DEF Schedule
  <2>2. buffer = <<>> /\ DOMAIN buffer = {}
    <3>1. buffer = <<>>
      BY <1>0, <2>1 DEF Rollouts
    <3>2. QED
      BY <3>1
  <2>3. StepSchedule.collect = StepSchedule.clear
    BY <1>0 DEF StepSchedule
  <2>4. QED
    BY <1>0, <2>1, <2>2, <2>3 DEF Rollouts
<1>2. CASE CollectSerial
  <2>1. PICK e \in Nat, n \in Nat :
          /\ Push([i \in 1 .. n |-> [episode |-> e, ver |-> net]])
          /\ pc = "collect" /\ pc' = "train" /\ UNCHANGED <<plan, net>>
    <3>1. runtime.episode + 1 \in Nat /\ Yield(runtime.episode + 1) \in Nat
      BY DEF Types, Streaming, Streams, Yield
    <3>2. QED
      BY <1>0, <1>2, <3>1 DEF CollectSerial
  <2>2. net \in Nat /\ buffer = <<>>
    BY <1>0, <2>1, StateParts DEF Types, Counted, Rollouts
  <2>3. DOMAIN buffer = {}
    BY <2>2
  <2> DEFINE out == [i \in 1 .. n |-> [episode |-> e, ver |-> net]]
  <2>4. out \in Seq(Item) /\ \A j \in DOMAIN out : out[j].ver = net
    BY <2>2, CollectedItems
  <2>5. Push(out)
    BY <2>1
  <2> HIDE DEF out
  <2>6. \A i \in DOMAIN buffer' : \E j \in DOMAIN out : buffer'[i] = out[j]
    BY <2>3, <2>4, <2>5, PushKeeps, TrainAssumption
  <2>7. QED
    BY <1>0, <2>1, <2>4, <2>6 DEF Rollouts
<1>3. CASE Drain \/ DrainEnd
  BY <1>0, <1>3 DEF Drain, DrainEnd
<1>4. CASE Train
  BY <1>0, <1>4 DEF Train, Rollouts
<1>5. CASE SyncWeights
  BY <1>0, <1>5 DEF SyncWeights, Rollouts
<1>6. CASE EndIteration
  <2>1. buffer' = <<>> /\ pc' \in {"save", "final", "head"}
    BY <1>0, <1>6 DEF EndIteration, Rollouts
  <2>2. QED
    BY <2>1 DEF Rollouts
<1>7. CASE Save
  <2>1. UNCHANGED buffer /\ pc \notin {"collect", "train", "sync", "end"}
    BY <1>7 DEF Save, Final, SaveOpen, SaveWritten, CopyOpen, CopyDone, Prune, SaveDone, driver
  <2>2. pc' \notin {"collect", "train", "sync", "end"}
    BY <1>7
       DEF Save, Final, SaveOpen, SaveWritten, CopyOpen, CopyDone, Prune, SaveDone, driver,
           Types
  <2>3. QED
    BY <1>0, <2>1, <2>2 DEF Rollouts
<1>8. CASE Crash \/ Resume
  <2>1. buffer' = <<>> /\ pc' \in {"down", "head"}
    BY <1>0, <1>8 DEF Crash, Resume
  <2>2. QED
    BY <2>1 DEF Rollouts
<1>9. CASE (\E a \in Actors : Poll(a) \/ Episode(a)) \/ UNCHANGED vars
  <2>1. UNCHANGED <<pc, plan, net, buffer>>
    BY <1>9 DEF Poll, Episode, vars, driver
  <2>2. QED
    BY <1>0, <2>1 DEF Rollouts
<1>10. QED
  BY <1>1, <1>2, <1>3, <1>4, <1>5, <1>6, <1>7, <1>8, <1>9 DEF Next, Iteration

(***************************************************************************)
(* Repetition: the steps of a serial DMC run as functions of its state     *)
(***************************************************************************)
LEMMA LiveParts ==
  /\ Live.st = st /\ Live.net = net /\ Live.buffer = buffer /\ Live.runtime = runtime
  /\ \A p : Held(p).st = p.st
BY DEF Live, Held

LEMMA LiveKept ==
  ASSUME UNCHANGED <<st, net, buffer, runtime>> PROVE Live' = Live
BY DEF Live

LEMMA ConfigKept ==
  ASSUME [Next]_vars
  PROVE  /\ cfg' = cfg /\ Complete' = Complete
         /\ seen' = seen \/ Schedule
BY DEF Complete, Next, Iteration, Save, vars, Schedule, CollectSerial, Drain, DrainEnd, Train,
       SyncWeights, EndIteration, Final, SaveOpen, SaveWritten, CopyOpen, CopyDone, Prune,
       SaveDone, Crash, Resume, Poll, Episode, hist

LEMMA LastIs ==
  ASSUME Complete
  PROVE  /\ Finished <=> Last(cfg, Live)
         /\ \A s : FinishedAt(s.st) <=> Last(cfg, s)
         /\ WarmingUp <=> ~Warm(cfg, Live)
<1>1. cfg.kind = "dmc"
  BY DEF Complete
<1>2. QED
  BY <1>1, LiveParts DEF Finished, FinishedAt, Last, WarmingUp, Warm

LEMMA CollectIs ==
  ASSUME Types, Complete, CollectSerial
  PROVE  Live' = CollectOf(cfg, Live) /\ st'.step = st.step
<1> DEFINE e == runtime.episode + 1
           n == Yield(e)
           out == [i \in 1 .. n |-> [episode |-> e, ver |-> net]]
<1>1. cfg.kind = "dmc"
  BY DEF Complete
<1>2. /\ Push(out) /\ AfterCollect(1, n) /\ net' = net
      /\ runtime' = [runtime EXCEPT !.episode = e, !.draws = @ + 1]
  BY <1>1 DEF CollectSerial
<1>3. buffer' = CollectOf(cfg, Live).buffer
  BY <1>2, LiveParts DEF Push, CollectOf
<1>4. st' = CollectOf(cfg, Live).st /\ net' = CollectOf(cfg, Live).net
          /\ runtime' = CollectOf(cfg, Live).runtime
  BY <1>2, LiveParts DEF AfterCollect, CollectOf
<1>5. st'.step = st.step
  BY <1>2 DEF AfterCollect, Types, Counted, State
<1>6. QED
  BY <1>3, <1>4, <1>5 DEF Live, CollectOf

LEMMA TrainIs ==
  ASSUME Types, Train
  PROVE  Live' = TrainOf(cfg, Live, plan.train) /\ st'.step = st.step
             /\ st'.transitions = st.transitions
<1>1. st' = TrainOf(cfg, Live, plan.train).st /\ net' = TrainOf(cfg, Live, plan.train).net
      /\ runtime' = TrainOf(cfg, Live, plan.train).runtime
             /\ buffer' = TrainOf(cfg, Live, plan.train).buffer
  BY LiveParts DEF Train, TrainOf
<1>2. st'.step = st.step /\ st'.transitions = st.transitions
  BY DEF Train, Types, Counted, State
<1>3. QED
  BY <1>1, <1>2 DEF Live, TrainOf

LEMMA EndIs ==
  ASSUME Types, Complete, EndIteration, ~plan.clear
  PROVE  /\ plan.advance = 1 => Live' = EndOf(cfg, Live)
         /\ st'.step = st.step + plan.advance /\ st'.transitions = st.transitions
         /\ plan.advance \in {0, 1} /\ pc' \in {"save", after'}
         /\ after' = IF plan.advance = 0 THEN "final" ELSE "head"
<1>1. cfg.kind = "dmc" /\ buffer' = buffer /\ net' = net
  BY DEF Complete, EndIteration
<1>2. ShouldSave <=> Due(cfg, Live.st)
  BY LiveParts DEF ShouldSave, Due
<1>3. st' = [st EXCEPT !.lastCkpt = IF ShouldSave THEN st.step ELSE @, !.step = @ + plan.advance]
  BY DEF EndIteration
<1>4. st'.step = st.step + plan.advance /\ st'.transitions = st.transitions
  BY <1>3 DEF Types, Counted, State
<1>5. runtime' = EndOf(cfg, Live).runtime
  BY <1>1, <1>2, LiveParts DEF EndIteration, EndOf, AddSnapshot
<1>6. plan.advance = 1 => st' = EndOf(cfg, Live).st
  BY <1>2, <1>3, LiveParts DEF EndOf
<1>7. plan.advance = 1 => Live' = EndOf(cfg, Live)
  BY <1>1, <1>5, <1>6, LiveParts DEF Live, EndOf
<1>8. plan.advance \in {0, 1}
  BY DEF EndIteration, Types, Plans
<1>9. QED
  BY <1>4, <1>7, <1>8 DEF EndIteration

LEMMA PlanIs ==
  ASSUME Complete
  PROVE  /\ ~StepSchedule.clear /\ (StepSchedule.collect <=> ~Last(cfg, Live))
         /\ Last(cfg, Live) => StepSchedule.advance = 0 /\ ~StepSchedule.train
         /\ ~Last(cfg, Live) => StepSchedule.advance = 1 /\ StepSchedule.train = Warm(cfg, Live)
<1>1. cfg.kind = "dmc" /\ (Finished <=> Last(cfg, Live)) /\ (WarmingUp <=> ~Warm(cfg, Live))
  BY LastIs DEF Complete
<1>2. /\ StepSchedule.clear = (~Finished /\ cfg.kind = "ppo")
      /\ StepSchedule.collect = (~Finished /\ (cfg.kind = "bc" => st.step = 0))
      /\ StepSchedule.train = (~Finished /\ ~WarmingUp)
      /\ StepSchedule.advance = IF Finished THEN 0 ELSE 1
  BY DEF StepSchedule
<1>3. Warm(cfg, Live) \in BOOLEAN
  BY DEF Warm
<1>4. QED
  BY <1>1, <1>2, <1>3

\* What Schedule records is never replaced, and what was sound remains so.
LEMMA SeenGrows ==
  ASSUME Schedule, Complete
  PROVE  /\ DOMAIN seen' = DOMAIN seen \cup {st.step}
         /\ \A k \in DOMAIN seen : seen'[k] = seen[k]
         /\ st.step \notin DOMAIN seen => seen'[st.step] = Live
BY DEF Schedule

LEMMA SoundKept ==
  ASSUME NEW c, NEW h, NEW g, DOMAIN h \subseteq DOMAIN g, \A k \in DOMAIN h : g[k] = h[k], NEW s
  PROVE  (Good(c, h, s) => Good(c, g, s)) /\ (Over(c, h, s) => Over(c, g, s))
             /\ (Sound(c, h, s) => Sound(c, g, s))
BY DEF Good, Over, Sound

\* A sound state of a run that is not over is the one seen with its step.
LEMMA SameState ==
  ASSUME NEW c, NEW h, NEW s, Sound(c, h, s), ~Last(c, s), s.st.step \in DOMAIN h,
         Good(c, h, h[s.st.step]), h[s.st.step].st.step = s.st.step
  PROVE  s = h[s.st.step]
BY DEF Sound, Good, Over

LEMMA CheckpointsFrom ==
  ASSUME Types, Disk, Kept, [Next]_vars, NEW p \in (Loadable \cup ({saved} \ {None}))'
  PROVE  p \in Loadable \cup ({saved} \ {None}) \/ (p = Payload /\ pc = "writing")
<1> USE DEF Loadable
<1>1. CASE SaveOpen
  <2>1. Write(st.step, Torn) /\ UNCHANGED <<latest, saved>>
    BY <1>1 DEF SaveOpen, hist
  <2>2. /\ DOMAIN files' = DOMAIN files \cup {st.step} /\ files'[st.step] = Torn
        /\ \A j \in DOMAIN files : j # st.step => files'[j] = files[j]
    BY <2>1, FileWritten
  <2>3. QED
    BY <2>1, <2>2
<1>2. CASE SaveWritten
  <2>1. pc = "writing" /\ Write(st.step, Payload) /\ saved' = Payload /\ latest' = latest
    BY <1>2 DEF SaveWritten
  <2>2. /\ DOMAIN files' = DOMAIN files \cup {st.step} /\ files'[st.step] = Payload
        /\ \A j \in DOMAIN files : j # st.step => files'[j] = files[j]
    BY <2>1, FileWritten
  <2>3. QED
    BY <2>1, <2>2
<1>3. CASE CopyOpen
  BY <1>3 DEF CopyOpen, hist
<1>4. CASE CopyDone
  <2>1. latest' = saved /\ UNCHANGED <<files, saved>>
    BY <1>4 DEF CopyDone, Kept, hist
  <2>2. QED
    BY <2>1
<1>5. CASE Prune
  BY <1>5, FilePruned DEF hist
<1>6. CASE Resume
  BY <1>6 DEF Resume, disk
<1>7. CASE /\ ~SaveOpen /\ ~SaveWritten /\ ~CopyOpen /\ ~CopyDone /\ ~Prune /\ ~Resume
  <2>1. UNCHANGED <<files, latest, saved>>
    BY <1>7, DiskKept
  <2>2. QED
    BY <2>1
<1>8. QED
  BY <1>1, <1>2, <1>3, <1>4, <1>5, <1>6, <1>7

\* Whatever step it is, what is on disk is sound, and so is what was seen.
LEMMA SoundDisk ==
  ASSUME Types, Disk, Kept, Repeating, Complete, [Next]_vars
  PROVE  /\ \A k \in DOMAIN seen : seen[k].st.step = k /\ Good(cfg, seen, seen[k])
         /\ \A p \in (Loadable \cup ({saved} \ {None}))' : Sound(cfg, seen, Held(p))
<1>1. ASSUME NEW p \in (Loadable \cup ({saved} \ {None}))' PROVE Sound(cfg, seen, Held(p))
  <2>1. CASE p \in Loadable \cup ({saved} \ {None})
    BY <2>1 DEF Repeating, Driven
  <2>2. CASE p = Payload /\ pc = "writing"
    <3>1. Held(p) = Live
      BY <2>2, PayloadHolds
    <3>2. Sound(cfg, seen, Live)
      BY <2>2 DEF Repeating, Driven, Saving
    <3>3. QED
      BY <3>1, <3>2
  <2>3. QED
    BY <2>1, <2>2, CheckpointsFrom
<1>2. QED
  BY <1>1 DEF Repeating, Driven

\* A step that leaves seen alone: only the state of the driver is left to check.
LEMMA DrivenSuffices ==
  ASSUME Types, Disk, Kept, Repeating, Complete, [Next]_vars, seen' = seen, Driven'
  PROVE  Repeating'
<1>1. cfg' = cfg
  BY ConfigKept
<1>2. /\ \A k \in DOMAIN seen : k \in Nat /\ seen[k].st.step = k /\ Good(cfg, seen, seen[k])
      /\ \A p \in (Loadable \cup ({saved} \ {None}))' : Sound(cfg, seen, Held(p))
  BY SoundDisk DEF Repeating, Driven
<1>3. (\A k \in DOMAIN seen : k \in Nat /\ seen[k].st.step = k /\ Good(cfg, seen, seen[k]))'
  BY <1>1, <1>2
<1>4. (\A p \in Loadable \cup ({saved} \ {None}) : Sound(cfg, seen, Held(p)))'
  BY <1>1, <1>2
<1>5. QED
  BY <1>3, <1>4 DEF Repeating, Driven

LEMMA ScheduleRepeats ==
  ASSUME Types, Disk, Kept, Repeating, Complete, Schedule PROVE Repeating'
<1>1. [Next]_vars /\ cfg' = cfg /\ Live' = Live /\ st' = st
  BY ConfigKept, LiveKept DEF Schedule, Next, Iteration
<1>2. /\ plan' = StepSchedule /\ pc = "head" /\ pc' = (IF plan'.collect THEN "collect" ELSE "train")
  BY DEF Schedule
<1>3. /\ DOMAIN seen' = DOMAIN seen \cup {st.step} /\ \A k \in DOMAIN seen : seen'[k] = seen[k]
      /\ st.step \notin DOMAIN seen => seen'[st.step] = Live
  BY SeenGrows
<1>4. /\ \A k \in DOMAIN seen : k \in Nat /\ seen[k].st.step = k /\ Good(cfg, seen, seen[k])
      /\ \A p \in (Loadable \cup ({saved} \ {None}))' : Sound(cfg, seen, Held(p))
      /\ Sound(cfg, seen, Live) /\ st.step \in Nat /\ Live.st = st
  BY <1>1, <1>2, SoundDisk, LiveParts, StateParts DEF Repeating, Driven, Types, Counted
<1>5. \A s : (Good(cfg, seen, s) => Good(cfg, seen', s))
          /\ (Sound(cfg, seen, s) => Sound(cfg, seen', s))
  BY <1>3, SoundKept
<1>6. st.step \notin DOMAIN seen => Good(cfg, seen, Live)
  BY <1>4 DEF Sound, Over
<1>7. \A k \in DOMAIN seen' : k \in Nat /\ seen'[k].st.step = k /\ Good(cfg, seen', seen'[k])
  <2> TAKE k \in DOMAIN seen'
  <2>1. CASE k \in DOMAIN seen
    BY <1>3, <1>4, <1>5, <2>1
  <2>2. CASE k = st.step /\ k \notin DOMAIN seen
    BY <1>3, <1>4, <1>5, <1>6, <2>2
  <2>3. QED
    BY <1>3, <2>1, <2>2
<1>8. \A p \in (Loadable \cup ({saved} \ {None}))' : Sound(cfg, seen', Held(p))
  BY <1>4, <1>5
<1>9. Sound(cfg, seen', Live) /\ st.step \in DOMAIN seen'
  BY <1>3, <1>4, <1>5
<1>10. ~Last(cfg, Live) => Live = seen'[st.step]
  BY <1>4, <1>7, <1>9, SameState
<1>11. /\ ~StepSchedule.clear /\ (StepSchedule.collect <=> ~Last(cfg, Live))
       /\ Last(cfg, Live) => Ending(cfg, seen', StepSchedule, Live)
       /\ ~Last(cfg, Live) => Going(cfg, seen', StepSchedule, Live)
  <2>1. QED
    BY <1>4, <1>9, <1>10, PlanIs DEF Ending, Going, Over
<1>12. Last(cfg, Live) => ~Going(cfg, seen', StepSchedule, Live)
  BY PlanIs DEF Going
<1>13. Driven'
  <2>1. pc' = IF Last(cfg, Live) THEN "train" ELSE "collect"
    BY <1>2, <1>11
  <2>2. QED
    BY <1>1, <1>2, <1>10, <1>11, <1>12, <2>1 DEF Driven, Saving
<1>14. QED
  <2>1. (\A k \in DOMAIN seen : k \in Nat /\ seen[k].st.step = k /\ Good(cfg, seen, seen[k]))'
    BY <1>1, <1>7
  <2>2. (\A p \in Loadable \cup ({saved} \ {None}) : Sound(cfg, seen, Held(p)))'
    BY <1>1, <1>8
  <2>3. QED
    BY <1>13, <2>1, <2>2 DEF Repeating, Driven

LEMMA StepKept ==
  ASSUME NEW c, NEW h, NEW p, NEW s, NEW t, t.st.step = s.st.step, t.st.transitions = s.st.transitions
  PROVE  /\ Over(c, h, s) => Over(c, h, t)
         /\ Ending(c, h, p, s) => Ending(c, h, p, t)
BY DEF Over, Ending, Last

LEMMA GoingKept ==
  ASSUME NEW c, NEW h, NEW p, NEW s, NEW t, t.st.step = s.st.step
  PROVE  Going(c, h, p, s) <=> Going(c, h, p, t)
BY DEF Going

LEMMA IterationRepeats ==
  ASSUME Types, Disk, Kept, Ends, Repeating, Complete, Iteration, ~Schedule PROVE Repeating'
<1>1. [Next]_vars /\ cfg' = cfg /\ seen' = seen /\ st.step \in Nat
  BY ConfigKept, StateParts DEF Next, Types, Counted
<1>2. Live.st = st /\ (Live.st = st)'
  BY LiveParts DEF Live
<1> SUFFICES Driven'
  BY <1>1, DrivenSuffices
<1>3. CASE CollectSerial
  <2>1. pc = "collect" /\ pc' = "train" /\ plan' = plan
    BY <1>3 DEF CollectSerial
  <2>2. Live' = CollectOf(cfg, Live) /\ st'.step = st.step
    BY <1>3, CollectIs
  <2>3. ~Ending(cfg, seen, plan, Live)
    BY <2>1 DEF Ends, Ending
  <2>4. ~plan.clear /\ Going(cfg, seen, plan, Live) /\ Live = seen[st.step]
    BY <2>1, <2>3 DEF Repeating, Driven
  <2>5. Going(cfg, seen, plan, Live')
    BY <1>2, <2>2, <2>4, GoingKept
  <2>6. Live' = CollectOf(cfg, seen[st'.step])
    BY <2>2, <2>4
  <2>7. QED
    BY <1>1, <2>1, <2>4, <2>5, <2>6 DEF Driven, Saving
<1>4. CASE Train
  <2>1. pc = "train" /\ pc' = "sync" /\ plan' = plan
    BY <1>4 DEF Train
  <2>2. Live' = TrainOf(cfg, Live, plan.train) /\ st'.step = st.step
            /\ st'.transitions = st.transitions
    BY <1>4, TrainIs
  <2>3. ~plan.clear /\ (Ending(cfg, seen, plan, Live) \/ Going(cfg, seen, plan, Live))
    BY <2>1 DEF Repeating, Driven
  <2>4. Ending(cfg, seen, plan, Live') \/ Going(cfg, seen, plan, Live')
    BY <1>2, <2>2, <2>3, GoingKept, StepKept
  <2>5. Going(cfg, seen, plan, Live') => Live' = Trained(cfg, seen[st'.step])
    <3>1. Going(cfg, seen, plan, Live') => Going(cfg, seen, plan, Live)
      BY <1>2, <2>2, GoingKept
    <3>2. Going(cfg, seen, plan, Live) => Live = CollectOf(cfg, seen[st.step])
              /\ plan.train = Warm(cfg, seen[st.step])
      BY <1>2, <2>1 DEF Repeating, Driven, Going
    <3>3. QED
      BY <2>2, <3>1, <3>2 DEF Trained
  <2>6. QED
    BY <1>1, <2>1, <2>3, <2>4, <2>5 DEF Driven, Saving
<1>5. CASE SyncWeights
  <2>1. pc = "sync" /\ pc' = "end" /\ UNCHANGED <<plan, st, net, buffer, runtime>>
    BY <1>5 DEF SyncWeights
  <2>2. Live' = Live
    BY <2>1, LiveKept
  <2>3. QED
    BY <1>1, <2>1, <2>2 DEF Repeating, Driven, Saving
<1>6. CASE EndIteration
  <2>1. /\ pc = "end" /\ ~plan.clear /\ (Ending(cfg, seen, plan, Live) \/ Going(cfg, seen, plan, Live))
        /\ Going(cfg, seen, plan, Live) => Live = Trained(cfg, seen[st.step])
    BY <1>6 DEF EndIteration, Repeating, Driven
  <2>2. /\ plan.advance = 1 => Live' = EndOf(cfg, Live)
        /\ st'.step = st.step + plan.advance /\ st'.transitions = st.transitions
        /\ plan.advance \in {0, 1} /\ pc' \in {"save", after'}
        /\ after' = IF plan.advance = 0 THEN "final" ELSE "head"
    BY <1>6, <2>1, EndIs
  <2>3. pc' \in Saving \cup {"head", "final", "done"}
            /\ pc' \notin {"collect", "train", "sync", "end"}
    BY <2>2 DEF Saving
  <2>4. Sound(cfg, seen, Live')
    <3>1. CASE Ending(cfg, seen, plan, Live)
      <4>1. st'.step = st.step
        BY <1>1, <2>2, <3>1 DEF Ending
      <4>2. Over(cfg, seen, Live')
        BY <1>2, <2>2, <3>1, <4>1, StepKept DEF Ending
      <4>3. QED
        BY <4>2 DEF Sound
    <3>2. CASE Going(cfg, seen, plan, Live)
      <4>1. plan.advance = 1 /\ st.step \in DOMAIN seen /\ ~Last(cfg, seen[st.step])
        BY <1>2, <3>2 DEF Going
      <4>2. Live' = Iterated(cfg, seen[st.step])
        BY <2>1, <2>2, <3>2, <4>1 DEF Iterated
      <4>3. (Live').st.step = st.step + 1
        BY <1>2, <2>2, <4>1
      <4>4. Good(cfg, seen, Live')
        <5>1. (Live').st.step # 0 /\ (Live').st.step - 1 = st.step
          BY <1>1, <4>3
        <5>2. QED
          BY <4>1, <4>2, <5>1 DEF Good
      <4>5. QED
        BY <4>4 DEF Sound
    <3>3. QED
      BY <2>1, <3>1, <3>2
  <2>5. QED
    BY <1>1, <2>3, <2>4 DEF Driven
<1>7. CASE Drain \/ DrainEnd
  BY <1>7 DEF Drain, DrainEnd, Complete
<1>8. QED
  BY <1>3, <1>4, <1>5, <1>6, <1>7 DEF Iteration

LEMMA RepeatingStep ==
  ASSUME Types, Disk, Kept, Ends, Repeating, [Next]_vars PROVE Repeating'
<1>0. CASE ~Complete
  BY <1>0, ConfigKept DEF Repeating, Driven
<1> SUFFICES ASSUME Complete PROVE Repeating'
  BY <1>0
<1>1. CASE Schedule
  BY <1>1, ScheduleRepeats
<1>2. CASE Iteration /\ ~Schedule
  BY <1>2, IterationRepeats
<1> SUFFICES ASSUME ~Schedule, ~Iteration PROVE Driven'
  BY <1>1, <1>2, ConfigKept, DrivenSuffices
<1>3. cfg' = cfg /\ seen' = seen
  BY ConfigKept
<1>4. CASE Save
  <2>1. /\ UNCHANGED <<st, net, buffer, runtime>> /\ pc \in Saving \cup {"final"}
        /\ pc' \in Saving \cup {"head", "final", "done"}
    BY <1>4
       DEF Save, Saving, Final, SaveOpen, SaveWritten, CopyOpen, CopyDone, Prune, SaveDone,
           driver, Types
  <2>2. Live' = Live
    BY <2>1, LiveKept
  <2>3. Sound(cfg, seen, Live)
    BY <2>1 DEF Repeating, Driven
  <2>4. QED
    BY <1>3, <2>1, <2>2, <2>3 DEF Driven, Saving
<1>5. CASE Crash
  <2>1. pc' = "down"
    BY <1>5 DEF Crash
  <2>2. QED
    BY <2>1 DEF Driven, Saving
<1>6. CASE Resume
  <2>1. PICK p \in Loadable : /\ st' = p.st /\ net' = p.net /\ pc' = "head"
                              /\ buffer' = p.runtime.buffer /\ runtime' = p.runtime.rest
    BY <1>6 DEF Resume
  <2>2. Live' = Held(p)
    BY <2>1 DEF Live, Held
  <2>3. Sound(cfg, seen, Held(p))
    BY <2>1 DEF Repeating, Driven
  <2>4. QED
    BY <1>3, <2>1, <2>2, <2>3 DEF Driven, Saving
<1>7. CASE (\E a \in Actors : Poll(a) \/ Episode(a)) \/ UNCHANGED vars
  <2>1. UNCHANGED <<pc, plan, st, net, buffer, runtime>>
    BY <1>7 DEF Poll, Episode, vars, driver
  <2>2. Live' = Live
    BY <2>1, LiveKept
  <2>3. QED
    BY <1>3, <2>1, <2>2 DEF Repeating, Driven, Saving
<1>8. QED
  BY <1>4, <1>5, <1>6, <1>7 DEF Next

(***************************************************************************)
(* The invariant is inductive                                              *)
(***************************************************************************)
LEMMA InitHolds == Init => IInv
<1> SUFFICES ASSUME Init PROVE IInv
  OBVIOUS
<1>1. Types
  BY InitTypes
<1>2. DOMAIN files = {} /\ DOMAIN seen = {} /\ latest = None /\ saved = None
  BY DEF Init
<1>3. Disk /\ Kept /\ Order
  BY <1>2 DEF Init, Disk, Kept, UnfinishedRecoverable, Order, Needed
<1>4. Ends /\ Rollouts
  BY DEF Init, Ends, Saving, Rollouts
<1>5. Loadable \cup ({saved} \ {None}) = {}
  BY <1>2 DEF Loadable
<1>6. pc = "head" /\ Sound(cfg, seen, Live)
  <2>1. Live = Starting /\ Live.st.step = 0
    BY DEF Init, Live, Starting, Fresh
  <2>2. QED
    BY <2>1 DEF Init, Sound, Good
<1>7. Repeating
  BY <1>2, <1>5, <1>6 DEF Repeating, Driven
<1>8. QED
  BY <1>1, <1>3, <1>4, <1>7 DEF IInv

LEMMA StepHolds == IInv /\ [Next]_vars => IInv'
<1> SUFFICES ASSUME IInv, [Next]_vars PROVE IInv'
  OBVIOUS
<1>1. Types /\ Disk /\ Kept /\ Ends /\ Order /\ Rollouts /\ Repeating
  BY DEF IInv
<1>2. Types' /\ Disk'
  BY <1>1, TypesStep, DiskStep
<1>3. Kept' /\ Ends' /\ Order'
  BY <1>1, KeptStep, EndsStep, OrderStep
<1>4. Rollouts' /\ Repeating'
  BY <1>1, RolloutsStep, RepeatingStep
<1>5. QED
  BY <1>2, <1>3, <1>4 DEF IInv

LEMMA Invariant == Spec => []IInv
BY InitHolds, StepHolds, PTL DEF Spec

LEMMA TypesEnough == Types => TypeOK
<1> SUFFICES ASSUME Types PROVE TypeOK
  OBVIOUS
<1>1. QED
  BY DEF Types, TypeOK, Counted, State, Buffered, Streaming

LEMMA RolloutsEnough == Rollouts => SerialOnPolicy
BY DEF Rollouts, SerialOnPolicy, OnPolicy

LEMMA RepeatingEnough == Repeating => ResumeRepeats
<1> SUFFICES ASSUME Repeating, Complete, pc = "head", ~Finished,
                    st.step \in DOMAIN seen
             PROVE  seen[st.step] = Live
  BY DEF ResumeRepeats
<1>1. Sound(cfg, seen, Live) /\ ~Last(cfg, Live) /\ Live.st = st
  BY LastIs, LiveParts DEF Repeating, Driven
<1>2. Good(cfg, seen, seen[st.step]) /\ seen[st.step].st.step = st.step
  BY DEF Repeating
<1>3. QED
  BY <1>1, <1>2, SameState

(***************************************************************************)
(* Cadence and updates: how far the weights of the actors are behind       *)
(***************************************************************************)
LEMMA Quotient ==
  ASSUME NEW k \in Nat \ {0}, NEW x \in Nat, x % k = 0 PROVE \E q \in Nat : x = k * q
<1>1. x = k * (x \div k) + (x % k)
  OBVIOUS
<1>2. x \div k \in Nat
  OBVIOUS
<1> QED
  BY <1>1, <1>2

LEMMA MultipleOf == ASSUME NEW k \in Nat \ {0}, NEW q \in Nat PROVE (k * q) % k = 0
OBVIOUS

LEMMA MultiplesAdd ==
  ASSUME NEW k \in Nat \ {0}, NEW a \in Nat, NEW b \in Nat, a % k = 0, b % k = 0
  PROVE  (a + b) % k = 0
<1>1. PICK q \in Nat : a = k * q
  BY Quotient
<1>2. PICK r \in Nat : b = k * r
  BY Quotient
<1>3. a + b = k * (q + r) /\ q + r \in Nat
  BY <1>1, <1>2
<1>4. (k * (q + r)) % k = 0
  BY <1>3, MultipleOf
<1> QED
  BY <1>3, <1>4

\* Two multiples of a number are that number apart.
LEMMA MultiplesApart ==
  ASSUME NEW k \in Nat \ {0}, NEW a \in Nat, NEW b \in Nat, a % k = 0, b % k = 0, a < b
  PROVE  a + k <= b
<1>1. PICK q \in Nat : a = k * q
  BY Quotient
<1>2. PICK r \in Nat : b = k * r
  BY Quotient
<1>3. ~(r <= q)
  <2> SUFFICES ASSUME r <= q PROVE FALSE
    OBVIOUS
  <2>1. k * r <= k * q
    OBVIOUS
  <2> QED
    BY <2>1, <1>1, <1>2
<1>4. r - (q + 1) \in Nat /\ k * (r - (q + 1)) >= 0
  BY <1>3
<1>5. k * (r - (q + 1)) = k * r - k * q - k
  OBVIOUS
<1> QED
  BY <1>1, <1>2, <1>4, <1>5

Cadence(c) == IF c.every > 1 THEN c.every ELSE 1
Joint(c, n) == n % c.batches = 0 /\ n % Cadence(c) = 0

\* A synchronisation was decided at t updates, and published p, those or what they
\* became in the same iteration; the w of now have not passed the next joint multiple.
Behind(c, t, p, w) ==
  /\ Joint(c, t)
  /\ \/ p = t /\ w = t
     \/ p = t + c.batches /\ p <= w /\ \A n \in Nat \ {0} : Joint(c, n) => w <= t + n

\* The decision of an iteration is taken before it trains.
Decided ==
  /\ published > 0 => cfg.async /\ cfg.kind # "bc"
  /\ pc \in {"collect", "train"} => (plan.sync <=> plan.train /\ SyncDue)
  /\ pc = "sync" /\ plan.sync =>
       /\ cfg.async /\ cfg.kind # "bc"
       /\ \E t \in Nat : Joint(cfg, t) /\ net \in {t, t + cfg.batches}
Syncing ==
  published > 0 /\ ~(pc = "sync" /\ plan.sync) => \E t \in Nat : Behind(cfg, t, published, net)
\* Every network, also one on disk, has had whole iterations of updates.
Whole ==
  net % cfg.batches = 0 /\ \A p \in Loadable \cup ({saved} \ {None}) : p.net % cfg.batches = 0
Cadenced == Decided /\ Syncing /\ Whole

LEMMA Cadences ==
  ASSUME Types
  PROVE  /\ Cadence(cfg) \in Nat \ {0} /\ cfg.batches \in Nat \ {0} /\ net \in Nat /\ net = st.train
         /\ SyncDue <=> cfg.async /\ cfg.kind # "bc" /\ net % Cadence(cfg) = 0
         /\ \A n \in Nat : Common(n) <=> Joint(cfg, n)
<1>1. cfg.every \in Nat /\ cfg.batches \in Nat \ {0}
  BY TrainAssumption DEF Types
<1>2. net \in Nat /\ net = st.train
  BY StateParts DEF Types, Counted
<1>3. \A n \in Nat : n % 1 = 0
  OBVIOUS
<1> QED
  BY <1>1, <1>2, <1>3 DEF Cadence, SyncDue, Common, Joint

LEMMA WholeStep == ASSUME Types, Disk, Kept, Whole, [Next]_vars PROVE Whole'
<1>1. cfg' = cfg /\ cfg.batches \in Nat \ {0} /\ net \in Nat
  BY ConfigKept, Cadences
<1>2. \A p \in (Loadable \cup ({saved} \ {None}))' : p.net % cfg.batches = 0
  <2> TAKE p \in (Loadable \cup ({saved} \ {None}))'
  <2>1. CASE p \in Loadable \cup ({saved} \ {None})
    BY <2>1 DEF Whole
  <2>2. CASE p = Payload
    BY <2>2 DEF Whole, Payload
  <2> QED
    BY <2>1, <2>2, CheckpointsFrom
<1>3. net' % cfg.batches = 0
  <2>1. CASE Train
    <3>1. net' = net \/ net' = net + cfg.batches
      BY <1>1, <2>1 DEF Train
    <3>2. cfg.batches % cfg.batches = 0
      BY <1>1
    <3> QED
      BY <1>1, <3>1, <3>2, MultiplesAdd DEF Whole
  <2>2. CASE Resume
    <3>1. PICK p \in Loadable : net' = p.net
      BY <2>2 DEF Resume
    <3> QED
      BY <3>1 DEF Whole
  <2>3. CASE Crash
    BY <1>1, <2>3 DEF Crash
  <2>4. CASE ~Train /\ ~Resume /\ ~Crash
    <3>1. net' = net
      BY <2>4 DEF Next, Iteration, Save, vars, Schedule, CollectSerial, Drain, DrainEnd,
         SyncWeights, EndIteration, Final, SaveOpen, SaveWritten, CopyOpen, CopyDone,
         Prune, SaveDone, Poll, Episode, driver
    <3> QED
      BY <3>1 DEF Whole
  <2> QED
    BY <2>1, <2>2, <2>3, <2>4
<1> QED
  BY <1>1, <1>2, <1>3 DEF Whole

\* Steps outside an iteration, and its end, have no plan in progress afterwards.
LEMMA PlanIdle ==
  ASSUME Types, [Next]_vars, ~Schedule, ~CollectSerial, ~Drain, ~DrainEnd, ~Train, ~SyncWeights,
         ~Crash, ~Resume
  PROVE  /\ UNCHANGED <<cfg, net, published>>
         /\ \/ pc' \notin {"collect", "train", "sync"} /\ pc # "sync"
            \/ UNCHANGED <<pc, plan, st>>
<1>1. after \in {"head", "final", "done"}
  BY DEF Types
<1> QED
  BY <1>1 DEF Next, Iteration, Save, vars, EndIteration, Final, SaveOpen, SaveWritten, CopyOpen,
     CopyDone, Prune, SaveDone, Poll, Episode, driver

LEMMA DecidedStep == ASSUME Types, Types', Whole, Decided, [Next]_vars PROVE Decided'
<1>0. cfg' = cfg
  BY ConfigKept
<1>1. CASE Schedule
  <2>1. plan' = StepSchedule /\ UNCHANGED <<st, published, net>> /\ pc' \in {"collect", "train"}
    BY <1>1 DEF Schedule
  <2>2. StepSchedule.sync <=> StepSchedule.train /\ SyncDue
    BY DEF StepSchedule
  <2>3. SyncDue' <=> SyncDue
    BY <1>0, <2>1 DEF SyncDue
  <2> QED
    BY <1>0, <2>1, <2>2, <2>3 DEF Decided
<1>2. CASE CollectSerial \/ Drain \/ DrainEnd
  <2>1. /\ UNCHANGED <<plan, published, net>> /\ pc = "collect" /\ pc' \in {"collect", "train"}
    BY <1>2 DEF CollectSerial, Drain, DrainEnd
  <2>2. SyncDue' <=> SyncDue
    <3>1. net = st.train /\ net' = st'.train
      BY DEF Types, Counted
    <3> QED
      BY <1>0, <2>1, <3>1 DEF SyncDue
  <2> QED
    BY <1>0, <2>1, <2>2 DEF Decided
<1>3. CASE Train
  <2>1. /\ UNCHANGED <<plan, published>> /\ pc = "train" /\ pc' = "sync"
        /\ net' \in {net, net + cfg.batches}
    BY <1>3, Cadences DEF Train
  <2>2. ASSUME plan.sync
        PROVE  cfg.async /\ cfg.kind # "bc" /\ Joint(cfg, net) /\ net \in Nat
    BY <2>1, <2>2, Cadences DEF Decided, Whole, Joint
  <2> QED
    BY <1>0, <2>1, <2>2 DEF Decided
<1>4. CASE SyncWeights
  <2>1. pc = "sync" /\ pc' = "end" /\ (~plan.sync => published' = published)
    BY <1>4 DEF SyncWeights
  <2> QED
    BY <1>0, <2>1 DEF Decided
<1>5. CASE Crash \/ Resume
  BY <1>5 DEF Crash, Resume, Types, Decided
<1>6. CASE /\ ~Schedule /\ ~CollectSerial /\ ~Drain /\ ~DrainEnd /\ ~Train /\ ~SyncWeights
           /\ ~Crash /\ ~Resume
  <2>1. CASE UNCHANGED <<pc, plan, st>>
    BY <1>0, <1>6, <2>1, PlanIdle DEF Decided, SyncDue
  <2>2. CASE pc' \notin {"collect", "train", "sync"}
    BY <1>0, <1>6, <2>2, PlanIdle DEF Decided
  <2> QED
    BY <1>6, <2>1, <2>2, PlanIdle
<1> QED
  BY <1>1, <1>2, <1>3, <1>4, <1>5, <1>6

LEMMA SyncingStep ==
  ASSUME Types, Types', Decided, Whole, Syncing, [Next]_vars PROVE Syncing'
<1>0. cfg' = cfg
  BY ConfigKept
<1>1. CASE Schedule \/ CollectSerial \/ Drain \/ DrainEnd
  <2>1. UNCHANGED <<published, net>> /\ pc # "sync"
    BY <1>1 DEF Schedule, CollectSerial, Drain, DrainEnd
  <2> QED
    BY <1>0, <2>1 DEF Syncing
<1>2. CASE Train
  <2> SUFFICES ASSUME published > 0, ~plan.sync
               PROVE  \E t \in Nat : Behind(cfg, t, published, net')
    BY <1>0, <1>2 DEF Syncing, Train
  <2>1. /\ pc = "train" /\ (net' = net \/ (net' = net + cfg.batches /\ plan.train))
    BY <1>2, Cadences DEF Train
  <2>2. PICK t \in Nat : Behind(cfg, t, published, net)
    BY <2>1 DEF Syncing
  <2>3. CASE net' = net
    BY <2>2, <2>3
  <2>4. CASE net' = net + cfg.batches /\ plan.train
    <3>1. net % Cadence(cfg) # 0
      BY <2>1, <2>4, Cadences DEF Decided
    <3>2. /\ published = t + cfg.batches /\ published <= net /\ Joint(cfg, t)
          /\ \A n \in Nat \ {0} : Joint(cfg, n) => net <= t + n
      BY <2>2, <3>1 DEF Behind, Joint
    <3>3. ASSUME NEW n \in Nat \ {0}, Joint(cfg, n) PROVE net' <= t + n
      <4>1. t + n \in Nat /\ (t + n) % cfg.batches = 0 /\ (t + n) % Cadence(cfg) = 0
        <5>1. /\ cfg.batches \in Nat \ {0} /\ Cadence(cfg) \in Nat \ {0} /\ n \in Nat
              /\ t % cfg.batches = 0 /\ t % Cadence(cfg) = 0
              /\ n % cfg.batches = 0 /\ n % Cadence(cfg) = 0
          BY <3>2, <3>3, Cadences DEF Joint
        <5> HIDE DEF Cadence
        <5> QED
          BY ONLY <5>1, t \in Nat, MultiplesAdd
      <4>2. net <= t + n /\ net # t + n
        BY <3>1, <3>2, <3>3, <4>1
      <4>3. net < t + n
        BY <4>1, <4>2, Cadences
      <4> QED
        BY <2>4, <4>1, <4>3, Cadences, MultiplesApart DEF Whole
    <3>4. published <= net'
      BY <2>4, <3>2, Cadences DEF Types
    <3> QED
      BY <3>2, <3>3, <3>4 DEF Behind
  <2> QED
    BY <2>1, <2>3, <2>4
<1>3. CASE SyncWeights
  <2>1. /\ pc = "sync" /\ pc' = "end" /\ net' = net
        /\ published' = IF plan.sync THEN net ELSE published
    BY <1>3 DEF SyncWeights
  <2>2. CASE plan.sync
    <3>1. PICK t \in Nat : Joint(cfg, t) /\ net \in {t, t + cfg.batches}
      BY <2>1, <2>2 DEF Decided
    <3>2. \A n \in Nat \ {0} : Joint(cfg, n) => cfg.batches <= n
      <4>1. 0 % cfg.batches = 0 /\ cfg.batches \in Nat \ {0}
        BY Cadences
      <4> QED
        BY <4>1, MultiplesApart DEF Joint
    <3>3. Behind(cfg, t, net, net)
      BY <3>1, <3>2, Cadences DEF Behind
    <3> QED
      BY <1>0, <2>1, <2>2, <3>3 DEF Syncing
  <2>3. CASE ~plan.sync
    BY <1>0, <2>1, <2>3 DEF Syncing
  <2> QED
    BY <2>2, <2>3
<1>4. CASE Crash \/ Resume
  <2>1. published' = 0
    BY <1>4 DEF Crash, Resume, Types
  <2> QED
    BY <2>1 DEF Syncing
<1>5. CASE /\ ~Schedule /\ ~CollectSerial /\ ~Drain /\ ~DrainEnd /\ ~Train /\ ~SyncWeights
           /\ ~Crash /\ ~Resume
  <2>1. UNCHANGED <<net, published>>
    BY <1>5, PlanIdle
  <2>2. ~(pc' = "sync" /\ plan'.sync) => ~(pc = "sync" /\ plan.sync)
    BY <1>5, PlanIdle
  <2> QED
    BY <1>0, <2>1, <2>2 DEF Syncing
<1> QED
  BY <1>1, <1>2, <1>3, <1>4, <1>5

LEMMA InitCadenced == Init => Cadenced
<1> SUFFICES ASSUME Init PROVE Cadenced
  OBVIOUS
<1>1. Types
  BY InitTypes
<1>2. Loadable \cup ({saved} \ {None}) = {} /\ net = 0 /\ published = 0 /\ pc = "head"
  BY DEF Init, Loadable
<1> QED
  BY <1>1, <1>2, Cadences DEF Cadenced, Decided, Syncing, Whole

LEMMA NextCadenced == IInv /\ IInv' /\ Cadenced /\ [Next]_vars => Cadenced'
BY WholeStep, DecidedStep, SyncingStep DEF IInv, Cadenced

LEMMA CadencedEnough == Types /\ Cadenced => SyncLag
<1> SUFFICES ASSUME Types, Cadenced, pc = "head", published > 0,
                    NEW n \in Nat \ {0}, Common(n)
             PROVE  net - published <= n - cfg.batches
  <2>1. 1 .. (cfg.batches * (cfg.every + 1)) \subseteq Nat \ {0}
    OBVIOUS
  <2> QED
    BY <2>1 DEF SyncLag
<1>1. PICK t \in Nat : Behind(cfg, t, published, net)
  BY DEF Cadenced, Syncing
<1>2. Joint(cfg, n) /\ net \in Nat /\ cfg.batches \in Nat \ {0} /\ published \in Nat
  BY Cadences DEF Types
<1>3. cfg.batches <= n
  <2>1. 0 % cfg.batches = 0
    BY <1>2
  <2> QED
    BY <1>2, <2>1, MultiplesApart DEF Joint
<1> QED
  BY <1>1, <1>2, <1>3 DEF Behind

(***************************************************************************)
(* Theorems                                                                *)
(***************************************************************************)

\* The types: among them that a checkpoint is never recorded for a later step
\* than the present one, that every update is counted, and that no buffer, ring
\* of opponents or queue outgrows its bound.
THEOREM TypeCorrect == Spec => []TypeOK
<1>1. IInv => TypeOK
  BY TypesEnough DEF IInv
<1>2. QED
  BY <1>1, Invariant, PTL

\* Once a checkpoint of a run that is not over is written, CheckpointManager.save
\* never leaves a moment, nor a place to be killed, at which it cannot be loaded.
THEOREM Recoverable == Spec => []UnfinishedRecoverable
<1>1. IInv => UnfinishedRecoverable
  BY DEF IInv, Kept
<1>2. QED
  BY <1>1, Invariant, PTL

\* A serial PPO run trains only on rollouts of the weights it is about to update.
THEOREM TrainsOnPolicy == Spec => []SerialOnPolicy
<1>1. IInv => SerialOnPolicy
  BY RolloutsEnough DEF IInv
<1>2. QED
  BY <1>1, Invariant, PTL

\* A serial DMC run that is killed and resumed from any checkpoint on disk, any
\* number of times, repeats the states it would have had.
THEOREM ResumesRepeat == Spec => []ResumeRepeats
<1>1. IInv => ResumeRepeats
  BY RepeatingEnough DEF IInv
<1>2. QED
  BY <1>1, Invariant, PTL

\* The actors of an asynchronous run play with weights that are behind by less than
\* any common multiple of the cadence and the updates of an iteration, also when
\* iterations that do not train fall between, and after a resume.
THEOREM NotFarBehind == Spec => []SyncLag
<1>1. IInv /\ Cadenced /\ [Next]_vars /\ IInv' => Cadenced'
  BY NextCadenced
<1>2. IInv /\ Cadenced => SyncLag
  BY CadencedEnough DEF IInv
<1> QED
  BY <1>1, <1>2, InitCadenced, Invariant, PTL DEF Spec
=============================================================================
