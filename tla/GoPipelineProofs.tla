-------------------------- MODULE GoPipelineProofs --------------------------
(***************************************************************************)
(* Proofs about GoPipeline, for any number of Go processes and any size of *)
(* the ring: nothing is left behind, and the parts go in order.            *)
(*                                                                         *)
(* Neither property is inductive alone.  They rest on what exists at each  *)
(* point of the collector's program: which processes may be alive (those   *)
(* counted, the one being spawned, those not terminated yet), and in what  *)
(* state ring and server are.                                              *)
(***************************************************************************)
EXTENDS GoPipeline, SequenceTheorems, TLAPS

\* How far the bring-up, or the termination, has got.
Progress ==
  /\ pc \in {"idle", "poll"} => i = 1
  /\ pc = "idle" => procs \in {0, N}
  /\ pc = "poll" => procs = N
  /\ pc \in {"server", "ring"} => procs = 0 /\ i = 1
  /\ pc \in {"spawn", "wait"} => i = procs + 1 /\ i <= N
  /\ pc = "terminate" => i <= procs + 1
  /\ pc \in {"idle", "server", "ring", "spawn", "wait", "poll"} => stray = 0

\* The processes that may be alive.
Owned ==
  /\ pc \in {"idle", "spawn", "poll"} => \A a \in Actors : Alive(a) => a <= procs
  /\ pc = "wait" => \A a \in Actors : Alive(a) => a <= i
  /\ pc = "terminate" => \A a \in Actors : Alive(a) => a = stray \/ (i <= a /\ a <= procs)
  /\ pc \in {"server", "ring", "unlink", "stop"} => \A a \in Actors : Alive(a) => a = stray

\* The server and the ring.
Parts ==
  /\ pc = "idle" => IF procs = N THEN ring = "linked" /\ server \in {"up", "dead", "jammed"}
                                 ELSE ring = "none" /\ server = "none"
  /\ pc = "server" => ring = "none" /\ server = "none"
  /\ pc = "ring" => ring = "none" /\ server \in {"up", "dead", "jammed"}
  /\ pc \in {"spawn", "wait", "poll", "terminate", "unlink"} =>
       ring = "linked" /\ server \in {"up", "dead", "jammed"}
  /\ pc = "stop" => ring # "linked" /\ server \in {"up", "dead", "jammed"}

IInv == TypeOK /\ Progress /\ Owned /\ Parts /\ AllOrNothing /\ ShutdownOrder

LEMMA InitIInv == Init => IInv
<1> SUFFICES ASSUME Init PROVE IInv
  OBVIOUS
<1>1. <<>> \in Seq(Frame) /\ Len(<<>>) = 0
  BY EmptySeq
<1>2. 0 <= Capacity /\ 0 \in 0 .. N /\ 1 \in 1 .. N + 1 /\ 0 \in 0 .. MaxEpisodes
  BY PipelineAssumption
<1>3. pushed \in [Actors -> Seq(Frame)] /\ played \in [Actors -> 0 .. MaxEpisodes]
  BY <1>1, <1>2 DEF Init
<1>4. go \in [Actors -> {"none", "starting", "running", "dead"}]
  BY DEF Init
<1>5. frames \in Seq(Frame) /\ Len(frames) <= Capacity
  BY <1>1, <1>2 DEF Init
<1>6. ready \in Seq(Frame) /\ returned \in Seq(Frame)
  BY <1>1 DEF Init
<1>7. TypeOK
  BY <1>2, <1>3, <1>4, <1>5, <1>6 DEF Init, TypeOK
<1>8. Progress /\ Owned /\ Parts /\ AllOrNothing /\ ShutdownOrder
  BY PipelineAssumption
     DEF Init, Progress, Owned, Parts, AllOrNothing, ShutdownOrder, Alive
<1>9. QED
  BY <1>7, <1>8 DEF IInv

\* A step that leaves the bring-up's state alone and lets no process come alive
\* keeps what is said of both.
LEMMA ActorStep ==
  ASSUME IInv, TypeOK', UNCHANGED <<pc, procs, i, stray, cut, ring, server, latched>>,
         \A a \in Actors : Alive(a)' => Alive(a)
  PROVE  IInv'
BY DEF IInv, Progress, Owned, Parts, AllOrNothing, ShutdownOrder

LEMMA EpisodeTypes ==
  ASSUME TypeOK, NEW a \in Actors, Episode(a)
  PROVE  TypeOK'
<1>1. played[a] + 1 \in 1 .. MaxEpisodes
  BY PipelineAssumption DEF Episode, TypeOK
<1>2. <<a, played[a] + 1>> \in Frame
  BY <1>1 DEF Frame
<1>3. CASE UNCHANGED <<frames, pushed>>
  BY <1>1, <1>3 DEF Episode, TypeOK, collector, service
<1>4. CASE Push(a, played[a] + 1)
  <2>1. frames' \in Seq(Frame) /\ Len(frames') = Len(frames) + 1
    BY <1>2, <1>4, AppendProperties DEF Push, TypeOK
  <2>2. Append(pushed[a], <<a, played[a] + 1>>) \in Seq(Frame)
    BY <1>2, AppendProperties DEF TypeOK
  <2>3. pushed' \in [Actors -> Seq(Frame)]
    BY <1>4, <2>2 DEF Push, TypeOK
  <2>4. Len(frames') <= Capacity
    BY <1>4, <2>1, PipelineAssumption, LenProperties DEF Push, TypeOK
  <2>5. played' \in [Actors -> 0 .. MaxEpisodes]
    BY <1>1 DEF Episode, TypeOK
  <2>6. UNCHANGED <<pc, procs, i, ready, returned, stray, cut, server, latched, ring, go, announced>>
    BY DEF Episode, collector, service
  <2>7. QED
    BY <2>1, <2>3, <2>4, <2>5, <2>6 DEF TypeOK
<1>5. QED
  BY <1>3, <1>4 DEF Episode

LEMMA BringUpKeeps == ASSUME IInv, BringUp PROVE IInv'
<1> USE PipelineAssumption
<1>1. CASE Collect
  <2>1. /\ pc = "idle" /\ i = 1 /\ procs \in {0, N} /\ stray = 0
        /\ pc' = IF procs = N THEN "poll" ELSE "server"
        /\ UNCHANGED <<procs, i, ready, returned, stray, cut, server, latched, ring, frames,
                       go, announced, pushed, played>>
    BY <1>1 DEF Collect, IInv, Progress, service, shm, actors
  <2>2. TypeOK' /\ AllOrNothing' /\ ShutdownOrder'
    BY <2>1 DEF IInv, TypeOK, AllOrNothing, ShutdownOrder, Alive
  <2>3. Progress' /\ Parts'
    BY <2>1 DEF IInv, Progress, Parts
  <2>4. Owned'
    BY <2>1 DEF IInv, TypeOK, Owned, Alive, Actors
  <2> QED
    BY <2>2, <2>3, <2>4 DEF IInv
<1>2. CASE StartServer
  BY <1>2 DEF StartServer, IInv, TypeOK, Progress, Owned, Parts, AllOrNothing,
     ShutdownOrder, Actors, Alive, service, shm, actors
<1>3. CASE CreateRing
  BY <1>3, SMTT(30) DEF CreateRing, IInv, TypeOK, Progress, Owned, Parts, AllOrNothing,
     ShutdownOrder, Actors, Alive, service, actors
<1>4. CASE Popen
  <2>1. /\ pc = "spawn" /\ pc' = "wait" /\ i \in Actors /\ stray = 0
        /\ go' = [go EXCEPT ![i] = "starting"]
        /\ UNCHANGED <<procs, i, ready, returned, stray, cut, server, latched, ring, frames,
                       announced, pushed, played>>
    BY <1>4 DEF Popen, IInv, TypeOK, Progress, Actors, service, shm
  <2>2. TypeOK'
    BY <2>1 DEF IInv, TypeOK
  <2>3. \A a \in Actors : Alive(a)' => Alive(a) \/ a = i
    BY <2>1 DEF IInv, TypeOK, Alive
  <2>4. Progress' /\ Parts'
    BY <2>1 DEF IInv, TypeOK, Progress, Parts
  <2>5. Owned'
    BY <2>1, <2>3 DEF IInv, TypeOK, Progress, Owned, Actors
  <2>6. AllOrNothing' /\ ShutdownOrder'
    BY <2>1 DEF IInv, Parts, AllOrNothing, ShutdownOrder
  <2> QED
    BY <2>2, <2>4, <2>5, <2>6 DEF IInv
<1>5. CASE SpawnReady
  <2>1. UNCHANGED <<ready, returned, stray, cut, server, latched, ring, frames, go, announced, pushed, played>>
    BY <1>5 DEF SpawnReady, service, shm, actors
  <2>2. procs' = procs + 1 /\ procs' \in 0 .. N /\ i = procs + 1 /\ pc = "wait"
    BY <1>5 DEF SpawnReady, IInv, TypeOK, Progress
  <2>3. CASE i < N
    <3>1. pc' = "spawn" /\ i' = i + 1
      BY <1>5, <2>3 DEF SpawnReady
    <3>2. QED
      BY <2>1, <2>2, <2>3, <3>1 DEF IInv, TypeOK, Progress, Owned, Parts,
         AllOrNothing, ShutdownOrder, Alive
  <2>4. CASE i = N
    <3>1. pc' = "poll" /\ i' = 1
      BY <1>5, <2>4 DEF SpawnReady
    <3>2. QED
      BY <2>1, <2>2, <2>4, <3>1 DEF IInv, TypeOK, Progress, Owned, Parts,
         AllOrNothing, ShutdownOrder, Alive
  <2>5. QED
    BY <2>2, <2>3, <2>4 DEF IInv, TypeOK, Progress
<1>6. CASE SpawnFails
  BY <1>6, SMTT(30) DEF SpawnFails, Undo, IInv, TypeOK, Progress, Owned, Parts, AllOrNothing,
     ShutdownOrder, Actors, Alive, service, shm
<1>7. CASE SpawnStrays
  BY <1>7, SMTT(30) DEF SpawnStrays, Undo, IInv, TypeOK, Progress, Owned, Parts, AllOrNothing,
     ShutdownOrder, Actors, Alive, service, shm, actors
<1>8. QED
  BY <1>1, <1>2, <1>3, <1>4, <1>5, <1>6, <1>7 DEF BringUp

LEMMA WorkKeeps == ASSUME IInv, Work PROVE IInv'
<1> USE PipelineAssumption
<1>1. CASE PopAndIngest
  <2>1. Head(frames) \in Frame /\ Tail(frames) \in Seq(Frame)
        /\ Len(Tail(frames)) = Len(frames) - 1
    BY <1>1, HeadTailProperties DEF PopAndIngest, IInv, TypeOK
  <2>2. ready' \in Seq(Frame)
    BY <1>1, <2>1, AppendProperties DEF PopAndIngest, IInv, TypeOK
  <2>3. Len(frames') <= Capacity
    BY <1>1, <2>1, LenProperties DEF PopAndIngest, IInv, TypeOK
  <2>4. TypeOK'
    BY <1>1, <2>1, <2>2, <2>3 DEF PopAndIngest, IInv, TypeOK, service, actors
  <2>5. QED
    BY <1>1, <2>4, ActorStep DEF PopAndIngest, Alive, service, actors
<1>2. CASE CollectReturns
  <2>1. returned' \in Seq(Frame) /\ ready' \in Seq(Frame)
    BY <1>2, ConcatProperties DEF CollectReturns, DrainReady, IInv, TypeOK
  <2>2. TypeOK'
    BY <1>2, <2>1 DEF CollectReturns, IInv, TypeOK, service, shm, actors
  <2>3. QED
    BY <1>2, <2>2 DEF CollectReturns, IInv, Progress, Owned, Parts, AllOrNothing,
       ShutdownOrder, Actors, Alive, service, shm, actors
<1>3. QED
  BY <1>1, <1>2 DEF Work

LEMMA ShutdownKeeps == ASSUME IInv, Shutdown PROVE IInv'
<1> USE PipelineAssumption
<1>1. CASE Terminate
  <2>1. /\ pc = "terminate" /\ i \in 1 .. procs /\ i' = i + 1
        /\ UNCHANGED <<pc, procs, ready, returned, stray, cut, server, latched, ring, frames, announced, pushed, played>>
    BY <1>1 DEF Terminate, IInv, TypeOK, service, shm
  <2>2. go' = [go EXCEPT ![i] = "dead"]
    BY <1>1 DEF Terminate
  <2>3. TypeOK'
    BY <2>1, <2>2, SMTT(30) DEF IInv, TypeOK, Actors
  <2>4. \A a \in Actors : Alive(a)' => Alive(a)
    BY <2>2 DEF IInv, TypeOK, Alive
  <2>5. Progress' /\ Owned' /\ Parts'
    BY <2>1, <2>2, <2>4 DEF IInv, TypeOK, Progress, Owned, Parts, Actors, Alive
  <2>6. AllOrNothing' /\ ShutdownOrder'
    BY <2>1, <2>4 DEF IInv, AllOrNothing, ShutdownOrder, Actors
  <2>7. QED
    BY <2>3, <2>5, <2>6 DEF IInv
<1>2. CASE AllTerminated
  BY <1>2, SMTT(30) DEF AllTerminated, IInv, TypeOK, Progress, Owned, Parts, AllOrNothing,
     ShutdownOrder, Actors, Alive, service, shm, actors
<1>3. CASE Unlink
  BY <1>3, EmptySeq DEF Unlink, IInv, TypeOK, Progress, Owned, Parts, AllOrNothing,
     ShutdownOrder, Actors, Alive, service, actors
<1>4. CASE StopServer
  BY <1>4 DEF StopServer, IInv, TypeOK, Progress, Owned, Parts, AllOrNothing,
     ShutdownOrder, Actors, Alive, service, shm, actors
<1>5. QED
  BY <1>1, <1>2, <1>3, <1>4 DEF Shutdown

LEMMA NextIInv == IInv /\ [Next]_vars => IInv'
<1> SUFFICES ASSUME IInv, [Next]_vars PROVE IInv'
  OBVIOUS
<1> USE PipelineAssumption
<1>1. CASE BringUp
  BY <1>1, BringUpKeeps
<1>2. CASE Work
  BY <1>2, WorkKeeps
<1>3. CASE Close
  BY <1>3, SMTT(30) DEF Close, IInv, TypeOK, Progress, Owned, Parts, AllOrNothing,
     ShutdownOrder, Actors, Alive, service, shm, actors
<1>4. CASE Shutdown
  BY <1>4, ShutdownKeeps
<1>5. CASE Cut
  BY <1>5 DEF Cut, IInv, TypeOK, Progress, Owned, Parts, AllOrNothing,
     ShutdownOrder, Actors, Alive, service, shm, actors
<1>6. CASE ServerDies \/ ServerJams \/ ServerExits
  <2>1. /\ UNCHANGED <<pc, procs, i, ready, returned, stray, cut, ring, frames,
                       go, announced, pushed, played>>
        /\ \/ server = "up" /\ server' = "dead"
           \/ server \in {"up", "stopping"} /\ server' = "jammed"
           \/ server = "stopping" /\ server' = "gone"
        /\ latched' \in BOOLEAN
    BY <1>6 DEF ServerDies, ServerJams, ServerExits, IInv, TypeOK, collector, shm, actors
  <2>2. TypeOK'
    BY <2>1 DEF IInv, TypeOK
  <2>3. Progress' /\ Owned'
    BY <2>1 DEF IInv, Progress, Owned, Alive
  <2>4. Parts'
    BY <2>1 DEF IInv, Parts
  <2>5. AllOrNothing' /\ ShutdownOrder'
    BY <2>1 DEF IInv, AllOrNothing, ShutdownOrder, Alive
  <2> QED
    BY <2>2, <2>3, <2>4, <2>5 DEF IInv
<1>7. ASSUME NEW a \in Actors, Announce(a) PROVE IInv'
  <2>1. TypeOK'
    BY <1>7 DEF Announce, IInv, TypeOK, collector, service, shm
  <2>2. \A b \in Actors : Alive(b)' => Alive(b)
    BY <1>7 DEF Announce, IInv, TypeOK, Alive
  <2>3. QED
    BY <1>7, <2>1, <2>2, ActorStep DEF Announce, collector, service, shm
<1>8. ASSUME NEW a \in Actors, Episode(a) PROVE IInv'
  <2>1. TypeOK'
    BY <1>8, EpisodeTypes DEF IInv
  <2>2. QED
    BY <1>8, <2>1, ActorStep DEF Episode, Alive, collector, service
<1>9. ASSUME NEW a \in Actors, Exit(a) PROVE IInv'
  <2>1. TypeOK'
    BY <1>9 DEF Exit, IInv, TypeOK, collector, service, shm
  <2>2. \A b \in Actors : Alive(b)' => Alive(b)
    BY <1>9 DEF Exit, IInv, TypeOK, Alive
  <2>3. QED
    BY <1>9, <2>1, <2>2, ActorStep DEF Exit, collector, service, shm
<1>10. CASE UNCHANGED vars
  BY <1>10 DEF vars, collector, service, shm, actors, IInv, TypeOK, Progress, Owned, Parts,
     AllOrNothing, ShutdownOrder, Alive
<1>11. QED
  BY <1>1, <1>2, <1>3, <1>4, <1>5, <1>6, <1>7, <1>8, <1>9, <1>10 DEF Next

LEMMA Inductive == Spec => []IInv
BY InitIInv, NextIInv, PTL DEF Spec

\* The types of the pipeline; the ring never holds more than its capacity.
THEOREM TypeCorrect == Spec => []TypeOK
<1>1. IInv => TypeOK
  BY DEF IInv
<1>2. QED
  BY <1>1, Inductive, PTL

\* A close, and a bring-up that fails at any part of it, leave nothing behind.
THEOREM NothingLeft == Spec => []AllOrNothing
<1>1. IInv => AllOrNothing
  BY DEF IInv
<1>2. QED
  BY <1>1, Inductive, PTL

\* No Go process is alive once the ring is unlinked or the server told to stop,
\* also when the shutdown was cut short.
THEOREM InOrder == Spec => []ShutdownOrder
<1>1. IInv => ShutdownOrder
  BY DEF IInv
<1>2. QED
  BY <1>1, Inductive, PTL

(***************************************************************************)
(* The episodes.  What is pushed next is beyond what its client has pushed *)
(* because a client numbers its episodes as it plays them; the pops and    *)
(* the returns only move the borders inside one sequence.                  *)
(***************************************************************************)
Handed == returned \o ready \o frames

Numbered ==
  \A a \in Actors : \A f \in Elements(pushed[a]) : f[1] = a /\ f[2] <= played[a]
Account == Numbered /\ (ring # "unlinked" => Accounted(Handed, pushed))

LEMMA ElementsOfAppend ==
  ASSUME NEW S, NEW s \in Seq(S), NEW x \in S
  PROVE  Elements(Append(s, x)) = Elements(s) \cup {x}
<1>1. /\ Append(s, x) \in Seq(S) /\ Len(Append(s, x)) = Len(s) + 1
      /\ \A k \in 1 .. Len(s) : Append(s, x)[k] = s[k]
      /\ Append(s, x)[Len(s) + 1] = x
  BY AppendProperties
<1>2. DOMAIN s = 1 .. Len(s) /\ DOMAIN Append(s, x) = 1 .. Len(s) + 1 /\ Len(s) \in Nat
  BY <1>1, LenProperties
<1>3. 1 .. Len(s) + 1 = (1 .. Len(s)) \cup {Len(s) + 1}
  BY <1>2
<1> DEFINE t == Append(s, x)
<1> HIDE DEF t
<1>4. DOMAIN t = DOMAIN s \cup {Len(s) + 1} /\ t[Len(s) + 1] = x /\ \A k \in DOMAIN s : t[k] = s[k]
  BY <1>1, <1>2, <1>3 DEF t
<1>5. Elements(t) = Elements(s) \cup {x}
  BY <1>4 DEF Elements
<1> QED
  BY <1>5 DEF t

\* A pop and a return leave the sequence of all episodes as it is.
LEMMA WorkMoves == ASSUME TypeOK, Work PROVE Handed' = Handed
<1> USE DEF TypeOK, Handed
<1>1. CASE PopAndIngest
  <2> DEFINE h == Head(frames) t == Tail(frames)
  <2>1. h \in Frame /\ t \in Seq(Frame) /\ frames = <<h>> \o t
    BY <1>1, HeadTailProperties DEF PopAndIngest
  <2>2. ready' = ready \o <<h>> /\ frames' = t /\ returned' = returned
    BY <1>1, <2>1, AppendIsConcat DEF PopAndIngest
  <2> HIDE DEF h, t
  <2>3. <<h>> \in Seq(Frame) /\ returned \o ready \in Seq(Frame)
    BY <2>1, ConcatProperties
  <2>4. returned \in Seq(Frame) /\ ready \in Seq(Frame)
    OBVIOUS
  <2>5. returned \o (ready \o <<h>>) = (returned \o ready) \o <<h>>
    BY ONLY <2>3, <2>4, ConcatAssociative
  <2>6. ((returned \o ready) \o <<h>>) \o t = (returned \o ready) \o (<<h>> \o t)
    BY ONLY <2>1, <2>3, ConcatAssociative
  <2> QED
    BY <2>1, <2>2, <2>5, <2>6
<1>2. CASE CollectReturns
  <2>1. returned' = returned \o ready /\ ready' = <<>> /\ frames' = frames
    BY <1>2 DEF CollectReturns, DrainReady, shm
  <2>2. returned \o ready \in Seq(Frame)
    BY ConcatProperties
  <2>3. (returned \o ready) \o <<>> = returned \o ready
    BY <2>2, ConcatEmptySeq
  <2> QED
    BY <2>1, <2>3
<1> QED
  BY <1>1, <1>2 DEF Work

\* A push adds an episode beyond all those of its client.
LEMMA PushAccounts ==
  ASSUME TypeOK, TypeOK', Account, NEW a \in Actors, Episode(a), Push(a, played[a] + 1)
  PROVE  Account'
<1> DEFINE x == <<a, played[a] + 1>>
<1>1. x \in Frame /\ x[1] = a /\ x[2] = played[a] + 1
  <2>1. played[a] \in 0 .. MaxEpisodes /\ played[a] < MaxEpisodes /\ MaxEpisodes \in Nat
    BY PipelineAssumption DEF Episode, TypeOK
  <2>2. played[a] + 1 \in 1 .. MaxEpisodes
    BY <2>1
  <2> QED
    BY <2>2 DEF Frame
<1>2. /\ frames' = Append(frames, x) /\ pushed' = [pushed EXCEPT ![a] = Append(@, x)]
      /\ returned' = returned /\ ready' = ready /\ ring' = ring
      /\ played' = [played EXCEPT ![a] = @ + 1]
  BY DEF Episode, Push, collector
<1> HIDE DEF x
<1>3. /\ pushed[a] \in Seq(Frame) /\ pushed'[a] = Append(pushed[a], x)
      /\ \A b \in Actors : b # a => pushed'[b] = pushed[b] /\ played'[b] = played[b]
      /\ played[a] \in Nat /\ played'[a] = played[a] + 1
  BY <1>2, PipelineAssumption DEF TypeOK
<1>4. Elements(pushed'[a]) = Elements(pushed[a]) \cup {x}
  BY <1>1, <1>3, ElementsOfAppend
<1>5. \A b \in Actors : b # a => Elements(pushed'[b]) = Elements(pushed[b])
  BY <1>3
<1>6. \A f \in Elements(pushed[a]) : f[1] = a /\ f[2] \in Nat /\ f[2] <= played[a]
  <2> SUFFICES ASSUME NEW k \in DOMAIN pushed[a]
               PROVE  pushed[a][k][1] = a /\ pushed[a][k][2] \in Nat
                      /\ pushed[a][k][2] <= played[a]
    BY DEF Elements
  <2>1. pushed[a][k] \in Frame
    BY <1>3, ElementOfSeq, LenProperties
  <2>2. pushed[a][k] \in Elements(pushed[a])
    BY DEF Elements
  <2> QED
    BY <2>1, <2>2, PipelineAssumption DEF Frame, Account, Numbered
<1>7. Numbered'
  <2> SUFFICES ASSUME NEW b \in Actors, NEW f \in Elements(pushed'[b])
               PROVE  f[1] = b /\ f[2] <= played'[b]
    BY DEF Numbered, Elements
  <2>1. CASE b # a
    BY <2>1, <1>3, <1>5 DEF Account, Numbered
  <2>2. CASE b = a
    BY <2>2, <1>1, <1>3, <1>4, <1>6
  <2> QED
    BY <2>1, <2>2
<1>8. ASSUME ring # "unlinked" PROVE Accounted(Handed, pushed)'
  <2> DEFINE s == Handed
  <2>1. returned \o ready \in Seq(Frame) /\ s \in Seq(Frame) /\ <<x>> \in Seq(Frame)
    BY <1>1, ConcatProperties DEF TypeOK, Handed
  <2>2. Handed' = Append(s, x)
    <3>1. frames \in Seq(Frame)
      BY DEF TypeOK
    <3>2. frames' = frames \o <<x>> /\ Append(s, x) = s \o <<x>>
      <4> HIDE DEF s
      <4>1. Append(frames, x) = frames \o <<x>>
        BY ONLY <1>1, <3>1, AppendIsConcat
      <4>2. Append(s, x) = s \o <<x>>
        BY ONLY <1>1, <2>1, AppendIsConcat
      <4> QED
        BY <1>2, <4>1, <4>2
    <3>3. (returned \o ready) \o (frames \o <<x>>) = ((returned \o ready) \o frames) \o <<x>>
      BY ONLY <2>1, <3>1, ConcatAssociative
    <3> QED
      BY <1>2, <3>2, <3>3 DEF Handed
  <2>3. Accounted(s, pushed)
    BY <1>8 DEF Account
  <2> HIDE DEF s
  <2>4. Elements(Append(s, x)) = Elements(s) \cup {x}
    BY <1>1, <2>1, ElementsOfAppend
  <2>5. UNION {Elements(pushed'[b]) : b \in Actors}
          = (UNION {Elements(pushed[b]) : b \in Actors}) \cup {x}
    <3> DEFINE old(b) == Elements(pushed[b])
               new(b) == Elements(pushed'[b])
    <3>1. new(a) = old(a) \cup {x} /\ \A b \in Actors : b # a => new(b) = old(b)
      BY <1>4, <1>5
    <3> HIDE DEF old, new
    <3>2. UNION {new(b) : b \in Actors} = (UNION {old(b) : b \in Actors}) \cup {x}
      BY ONLY <3>1, a \in Actors
    <3> QED
      BY <3>2 DEF old, new
  <2>6. Elements(Append(s, x)) = UNION {Elements(pushed'[b]) : b \in Actors}
    <3>1. Elements(s) = UNION {Elements(pushed[b]) : b \in Actors}
      BY <2>3 DEF Accounted
    <3> QED
      BY ONLY <2>4, <2>5, <3>1
  <2>7. /\ Len(s) \in Nat /\ DOMAIN s = 1 .. Len(s)
        /\ DOMAIN Append(s, x) = 1 .. Len(s) + 1 /\ Append(s, x)[Len(s) + 1] = x
        /\ \A k \in 1 .. Len(s) : Append(s, x)[k] = s[k]
    BY <1>1, <2>1, AppendProperties, LenProperties
  <2>8. ASSUME NEW k \in 1 .. Len(s), s[k][1] = a PROVE s[k][2] < x[2]
    <3>1. PICK b \in Actors : s[k] \in Elements(pushed[b])
      <4>1. s[k] \in Elements(s)
        BY <2>7 DEF Elements
      <4> QED
        BY <2>3, <4>1 DEF Accounted
    <3>2. b = a
      BY <2>8, <3>1 DEF Account, Numbered
    <3> QED
      BY <1>1, <1>3, <1>6, <3>1, <3>2
  <2>9. ASSUME NEW j \in DOMAIN Append(s, x), NEW k \in DOMAIN Append(s, x), j < k,
               Append(s, x)[j][1] = Append(s, x)[k][1]
        PROVE  Append(s, x)[j][2] < Append(s, x)[k][2]
    <3>1. j \in 1 .. Len(s) /\ Append(s, x)[j] = s[j]
      BY <2>7, <2>9
    <3>2. CASE k = Len(s) + 1
      BY <1>1, <2>7, <2>8, <2>9, <3>1, <3>2
    <3>3. CASE k # Len(s) + 1
      <4>1. k \in 1 .. Len(s) /\ Append(s, x)[k] = s[k]
        BY <2>7, <3>3
      <4> QED
        BY <2>3, <2>7, <2>9, <3>1, <4>1, Zenon DEF Accounted
    <3> QED
      BY <3>2, <3>3
  <2>10. /\ Elements(Handed') = UNION {Elements(pushed'[b]) : b \in Actors}
         /\ \A j, k \in DOMAIN Handed' :
              j < k /\ Handed'[j][1] = Handed'[k][1] => Handed'[j][2] < Handed'[k][2]
    BY <2>2, <2>6, <2>9
  <2> QED
    BY <2>10 DEF Accounted, Elements
<1> QED
  BY <1>2, <1>7, <1>8 DEF Account

LEMMA InitAccount == Init => Account
<1> SUFFICES ASSUME Init PROVE Account
  OBVIOUS
<1>1. Handed = <<>>
  BY DEF Init, Handed
<1>2. DOMAIN <<>> = {}
  OBVIOUS
<1>3. Elements(<<>>) = {} /\ \A a \in Actors : pushed[a] = <<>>
  BY <1>2 DEF Elements, Init
<1>4. Accounted(Handed, pushed)
  BY <1>1, <1>2, <1>3 DEF Accounted
<1> QED
  BY <1>3, <1>4 DEF Account, Numbered

\* Other steps leave the episodes alone, and an unlinked ring stays so.
LEMMA AccountStays ==
  ASSUME Account, Handed' = Handed, UNCHANGED <<pushed, played>>,
         ring' # "unlinked" => ring # "unlinked"
  PROVE  Account'
<1>1. Numbered'
  BY DEF Account, Numbered, Elements
<1>2. Accounted(Handed, pushed) => Accounted(Handed, pushed)'
  OBVIOUS
<1> QED
  BY <1>1, <1>2 DEF Account

LEMMA NextAccount == IInv /\ IInv' /\ Account /\ [Next]_vars => Account'
<1> SUFFICES ASSUME IInv, IInv', Account, [Next]_vars PROVE Account'
  OBVIOUS
<1>1. TypeOK /\ TypeOK'
  BY DEF IInv
<1>2. CASE Work
  BY <1>1, <1>2, WorkMoves, AccountStays DEF Work, PopAndIngest, CollectReturns, shm, actors
<1>3. CASE Unlink
  BY <1>3 DEF Unlink, Account, Numbered, Elements, actors
<1>4. ASSUME NEW a \in Actors, Episode(a) PROVE Account'
  <2>1. CASE Push(a, played[a] + 1)
    BY <1>1, <1>4, <2>1, PushAccounts
  <2>2. CASE UNCHANGED <<frames, pushed>>
    <3>1. Handed' = Handed /\ ring' = ring
      BY <1>4, <2>2 DEF Episode, Handed, collector
    <3>2. \A b \in Actors : played[b] \in Nat /\ played'[b] >= played[b]
      <4>1. played \in [Actors -> Nat]
        BY <1>1, PipelineAssumption DEF TypeOK
      <4>2. played' = [played EXCEPT ![a] = @ + 1]
        BY <1>4 DEF Episode
      <4> QED
        BY ONLY <4>1, <4>2, a \in Actors
    <3>3. ASSUME NEW b \in Actors, NEW f \in Elements(pushed[b]) PROVE f[2] \in Nat
      <4>1. pushed[b] \in Seq(Frame)
        BY <1>1 DEF TypeOK
      <4>2. PICK k \in DOMAIN pushed[b] : f = pushed[b][k]
        BY DEF Elements
      <4>3. f \in Frame
        BY <4>1, <4>2, ElementOfSeq, LenProperties
      <4> QED
        BY <4>3, PipelineAssumption DEF Frame
    <3>4. Numbered'
      <4> SUFFICES ASSUME NEW b \in Actors, NEW f \in Elements(pushed[b])
                   PROVE  f[1] = b /\ f[2] <= played'[b]
        BY <2>2 DEF Numbered, Elements
      <4>1. f[1] = b /\ f[2] <= played[b] /\ f[2] \in Nat /\ played[b] \in Nat
            /\ played'[b] >= played[b]
        BY <3>2, <3>3 DEF Account, Numbered
      <4> QED
        <5>1. played'[b] \in Nat
          BY <1>1, PipelineAssumption DEF TypeOK
        <5> QED
          BY ONLY <4>1, <5>1
    <3>5. Accounted(Handed, pushed) => Accounted(Handed, pushed)'
      BY <2>2, <3>1 DEF Accounted, Elements
    <3> QED
      BY <3>1, <3>4, <3>5 DEF Account
  <2> QED
    BY <1>4, <2>1, <2>2 DEF Episode
<1>5. CASE \/ BringUp \/ Close \/ Terminate \/ AllTerminated \/ StopServer \/ Cut
           \/ ServerDies \/ ServerJams \/ ServerExits \/ (\E a \in Actors : Announce(a) \/ Exit(a))
           \/ UNCHANGED vars
  <2>1. UNCHANGED <<frames, ready, returned, pushed, played>>
    BY <1>5 DEF BringUp, Collect, StartServer, CreateRing, Popen, SpawnReady, SpawnFails, SpawnStrays,
       Close,
       Terminate, AllTerminated, StopServer, Cut, ServerDies, ServerJams, ServerExits, Announce, Exit,
       vars, collector, service, shm, actors
  <2>2. ring' # "unlinked" => ring # "unlinked"
    BY <1>5 DEF BringUp, Collect, StartServer, CreateRing, Popen, SpawnReady, SpawnFails, SpawnStrays,
       Close,
       Terminate, AllTerminated, StopServer, Cut, ServerDies, ServerJams, ServerExits, Announce, Exit,
       vars, collector, service, shm, actors, IInv, Parts
  <2> QED
    BY <2>1, <2>2, AccountStays DEF Handed
<1> QED
  BY <1>2, <1>3, <1>4, <1>5 DEF Next, Shutdown

\* No deadline, crash, failed bring-up or cut loses an episode, hands one over
\* twice, or hands over those of a client out of their order, while the ring stands.
THEOREM NothingLost == Spec => []EpisodesAccounted
<1>1. IInv /\ Account /\ [Next]_vars /\ IInv' => Account'
  BY NextAccount
<1>2. Account => EpisodesAccounted
  BY DEF Account, EpisodesAccounted, Handed
<1> QED
  BY <1>1, <1>2, InitAccount, Inductive, PTL DEF Spec
=============================================================================
