----------------------------- MODULE GoPipeline -----------------------------
(***************************************************************************)
(* The Go subprocess collector of DMC (dmc/go_subprocess_collector.py) and *)
(* the processes it owns (core/actor/go_subprocess_pipeline.py): an        *)
(* inference server, a shared ring of episodes and N Go processes of one   *)
(* actor each, brought up by the first collect, undone when a part of the  *)
(* bring-up fails, and shut down by close.  The ring is the bounded        *)
(* channel of MpscChannel, a frame the pair client, episode; the server's  *)
(* inside is InferenceRpc.                                                 *)
(*                                                                         *)
(* A Go process may exit at any time: its request failed, its engine did,  *)
(* it was killed, or it obeys a SIGTERM.  It may as well not obey, so the  *)
(* two rounds of SIGTERM are not modelled beyond that.  Every frame an     *)
(* encoder of this program makes decodes, ends with the marker of its      *)
(* episode and starts with a static observation: the assembler's pending   *)
(* episodes, evictions and misses are left out.                            *)
(*                                                                         *)
(* The server's stop event is a multiprocessing.Event: set and is_set take *)
(* its lock without a timeout, and neither the death of the server inside  *)
(* is_set nor the signal that makes it call set there gives it back.       *)
(***************************************************************************)
EXTENDS Integers, Sequences

CONSTANTS N,           \* n_actors
          Capacity,    \* capacity of the ring
          Target,      \* n_episodes of a collect
          MaxEpisodes  \* bound: episodes of one actor

ASSUME PipelineAssumption ==
  N \in Nat \ {0} /\ Capacity \in Nat \ {0} /\ Target \in Nat \ {0} /\ MaxEpisodes \in Nat

Actors == 1 .. N

VARIABLES
  pc,         \* where the collector is
  server,     \* none, up, dead (it failed or crashed), stopping, jammed, gone
  latched,    \* the lock of its stop event is lost
  ring,       \* none, linked, unlinked
  frames,     \* what is in it
  procs,      \* go_procs: how many processes were seen ready
  i,          \* the process being spawned or terminated
  go,         \* none, starting, running, dead
  announced,  \* the processes that have printed READY
  pushed,     \* history: episodes each of them has put into the ring
  played,     \* and how many it has played
  ready,      \* _ready of the assembler
  returned,   \* history: episodes handed to the trainer
  stray,      \* history: the process that a failed spawn left running, or 0
  cut         \* history: the bring-up or the shutdown was cut short

collector == <<pc, procs, i, ready, returned, stray, cut>>
service   == <<server, latched>>
actors    == <<go, announced, pushed, played>>
shm       == <<ring, frames>>
vars      == <<collector, service, shm, actors>>

Init ==
  /\ pc = "idle" /\ server = "none" /\ latched = FALSE /\ ring = "none" /\ frames = <<>>
  /\ procs = 0 /\ i = 1
  /\ go = [a \in Actors |-> "none"] /\ announced = {}
  /\ pushed = [a \in Actors |-> <<>>] /\ played = [a \in Actors |-> 0]
  /\ ready = <<>> /\ returned = <<>> /\ stray = 0 /\ cut = FALSE

(***************************************************************************)
(* spawn_pipeline                                                          *)
(***************************************************************************)
Collect ==
  /\ pc = "idle"
  /\ pc' = IF procs = N THEN "poll" ELSE "server"
  /\ UNCHANGED <<procs, i, ready, returned, stray, cut, service, shm, actors>>

\* server.start: ready; ready although it has failed to load; or not ready in
\* time, which start answers with its own stop.
StartServer ==
  /\ pc = "server" /\ server = "none"
  /\ \/ server' \in {"up", "dead"} /\ pc' = "ring"
     \/ server' = "up" /\ pc' = "stop"
  /\ UNCHANGED <<latched, procs, i, ready, returned, stray, cut, shm, actors>>

\* A ring that cannot be created takes the server with it.
CreateRing ==
  /\ pc = "ring"
  /\ \/ ring' = "linked" /\ pc' = "spawn"
     \/ pc' = "stop" /\ UNCHANGED ring
  /\ UNCHANGED <<procs, i, ready, returned, stray, cut, service, frames, actors>>

Popen ==
  /\ pc = "spawn"
  /\ go' = [go EXCEPT ![i] = "starting"]
  /\ pc' = "wait"
  /\ UNCHANGED <<procs, i, ready, returned, stray, cut, service, shm, announced, pushed, played>>

\* READY was read: the process is appended, and the next one is spawned.
SpawnReady ==
  /\ pc = "wait" /\ i \in announced
  /\ procs' = procs + 1
  /\ IF i < N THEN pc' = "spawn" /\ i' = i + 1
              ELSE pc' = "poll"  /\ i' = 1
  /\ UNCHANGED <<ready, returned, stray, cut, service, shm, actors>>

\* A failed spawn undoes what was spawned before it.
Undo_RingAndServer == pc' = "unlink" /\ i' = 1
Undo == pc' = "terminate" /\ i' = 1

\* It could not be started, it was found dead, READY printed or not, or the
\* deadline passed and it is killed.
SpawnFails ==
  /\ pc \in {"spawn", "wait"}
  /\ go' = [go EXCEPT ![i] = "dead"]
  /\ Undo
  /\ UNCHANGED <<procs, ready, returned, stray, cut, service, shm, announced, pushed, played>>

\* Any other exception between Popen and READY, of its pipes or of the threads that
\* read them, leaves the process to itself.
SpawnStrays ==
  /\ pc = "wait"
  /\ stray' = i
  /\ Undo
  /\ UNCHANGED <<procs, ready, returned, cut, service, shm, actors>>

(***************************************************************************)
(* collect                                                                 *)
(***************************************************************************)
\* One turn of the loop that finds a frame: it is decoded and assembled.
PopAndIngest ==
  /\ pc = "poll" /\ Len(ready) < Target /\ frames # <<>>
  /\ ready' = Append(ready, Head(frames))
  /\ frames' = Tail(frames)
  /\ UNCHANGED <<pc, procs, i, returned, stray, cut, service, ring, actors>>

DrainReady_Keep == returned' = returned \o ready /\ UNCHANGED ready
DrainReady == returned' = returned \o ready /\ ready' = <<>>

\* Enough episodes, or the deadline: whatever is ready is returned.
CollectReturns ==
  /\ pc = "poll"
  /\ DrainReady /\ pc' = "idle"
  /\ UNCHANGED <<procs, i, stray, cut, service, shm, actors>>

(***************************************************************************)
(* close, and the undoing of a bring-up: PipelineHandle.shutdown           *)
(***************************************************************************)
\* close of a collector without processes does nothing.  An exception out of
\* the loop of collect comes here as well.
Close_ServerFirst ==
  /\ pc \in {"idle", "poll"}
  /\ IF procs = N THEN pc' = "stop" ELSE pc' = "closed"
  /\ i' = 1 /\ UNCHANGED <<procs, ready, returned, stray, cut, service, shm, actors>>
Close ==
  /\ pc \in {"idle", "poll"}
  /\ pc' = IF procs = N THEN "terminate" ELSE "closed"
  /\ i' = 1 /\ UNCHANGED <<procs, ready, returned, stray, cut, service, shm, actors>>

\* SIGTERM, a bounded wait and SIGKILL: dead in any case, one after another.
Terminate_Wait ==
  /\ pc = "terminate" /\ i <= procs
  /\ go[i] = "dead" /\ UNCHANGED go
  /\ i' = i + 1
  /\ UNCHANGED <<pc, procs, ready, returned, stray, cut, service, shm, announced, pushed, played>>
Terminate ==
  /\ pc = "terminate" /\ i <= procs
  /\ go' = [go EXCEPT ![i] = "dead"]
  /\ i' = i + 1
  /\ UNCHANGED <<pc, procs, ready, returned, stray, cut, service, shm, announced, pushed, played>>

AllTerminated ==
  /\ pc = "terminate" /\ i > procs
  /\ pc' = "unlink"
  /\ UNCHANGED <<procs, i, ready, returned, stray, cut, service, shm, actors>>

Unlink ==
  /\ pc = "unlink"
  /\ ring' = "unlinked" /\ frames' = <<>> /\ pc' = "stop"
  /\ UNCHANGED <<procs, i, ready, returned, stray, cut, service, actors>>

\* server.stop: set waits for the lock of the event, however long that takes;
\* every other wait has a timeout, which the server may outlive.
StopServer ==
  /\ pc = "stop" /\ ~latched
  /\ server' = IF server = "up" THEN "stopping" ELSE server
  /\ pc' = "closed"
  /\ UNCHANGED <<latched, procs, i, ready, returned, stray, cut, shm, actors>>

\* A signal kills the trainer, or a KeyboardInterrupt, which no "except
\* Exception" catches, ends a bring-up or a shutdown.
Cut ==
  /\ pc # "closed"
  /\ pc' = "closed" /\ cut' = TRUE
  /\ UNCHANGED <<procs, i, ready, returned, stray, service, shm, actors>>

(***************************************************************************)
(* The server and the Go processes                                         *)
(***************************************************************************)
ServerDies ==
  /\ server = "up" /\ server' = "dead"
  /\ latched' \in BOOLEAN
  /\ UNCHANGED <<collector, shm, actors>>

\* SIGTERM, of stop or of somebody else, or Ctrl-C: the handler calls set.  In the
\* middle of is_set it waits for ever for the lock that its own thread holds.
ServerJams ==
  /\ server \in {"up", "stopping"} /\ server' = "jammed"
  /\ latched' = TRUE
  /\ UNCHANGED <<collector, shm, actors>>

ServerExits ==
  /\ server = "stopping" /\ server' = "gone"
  /\ UNCHANGED <<latched, collector, shm, actors>>

\* main: the ring is attached, the server is connected to, READY is printed.
Announce(a) ==
  /\ go[a] = "starting" /\ ring = "linked"
  /\ server \in {"up", "stopping", "jammed"}
  /\ go' = [go EXCEPT ![a] = "running"] /\ announced' = announced \cup {a}
  /\ UNCHANGED <<collector, service, shm, pushed, played>>

\* An episode is pushed when there is room for it.
Push(a, e) ==
  /\ Len(frames) < Capacity
  /\ frames' = Append(frames, <<a, e>>) /\ pushed' = [pushed EXCEPT ![a] = Append(@, <<a, e>>)]

\* It is given up after a time, or was without a decision of the learner.
Episode(a) ==
  /\ go[a] = "running" /\ ring = "linked" /\ played[a] < MaxEpisodes
  /\ played' = [played EXCEPT ![a] = @ + 1]
  /\ Push(a, played[a] + 1) \/ UNCHANGED <<frames, pushed>>
  /\ UNCHANGED <<collector, service, ring, go, announced>>

Exit(a) ==
  /\ go[a] \in {"starting", "running"}
  /\ go' = [go EXCEPT ![a] = "dead"]
  /\ UNCHANGED <<collector, service, shm, announced, pushed, played>>

(***************************************************************************)
(* Specification                                                           *)
(***************************************************************************)
BringUp  == Collect \/ StartServer \/ CreateRing \/ Popen \/ SpawnReady \/ SpawnFails \/ SpawnStrays
Work     == PopAndIngest \/ CollectReturns
Shutdown == Terminate \/ AllTerminated \/ Unlink \/ StopServer
Next ==
  \/ BringUp \/ Work \/ Close \/ Shutdown \/ Cut \/ ServerDies \/ ServerJams \/ ServerExits
  \/ \E a \in Actors : Announce(a) \/ Episode(a) \/ Exit(a)

Spec == Init /\ [][Next]_vars
\* The collector runs and its deadlines pass; a server told to stop does in
\* the end.  Nothing obliges a Go process to come up, to play or to exit.
FairSpec == Spec
  /\ WF_vars(StartServer \/ CreateRing \/ Popen \/ SpawnReady \/ SpawnFails)
  /\ WF_vars(CollectReturns) /\ WF_vars(Shutdown) /\ WF_vars(ServerExits)

(***************************************************************************)
(* Properties                                                              *)
(***************************************************************************)
Frame == Actors \X (1 .. MaxEpisodes)
TypeOK ==
  /\ pc \in {"idle", "server", "ring", "spawn", "wait", "poll", "terminate", "unlink",
             "stop", "closed"}
  /\ server \in {"none", "up", "dead", "stopping", "jammed", "gone"} /\ latched \in BOOLEAN
  /\ ring \in {"none", "linked", "unlinked"}
  /\ frames \in Seq(Frame) /\ Len(frames) <= Capacity
  /\ procs \in 0 .. N /\ i \in 1 .. N + 1
  /\ go \in [Actors -> {"none", "starting", "running", "dead"}]
  /\ announced \subseteq Actors
  /\ pushed \in [Actors -> Seq(Frame)] /\ played \in [Actors -> 0 .. MaxEpisodes]
  /\ ready \in Seq(Frame) /\ returned \in Seq(Frame)
  /\ stray \in 0 .. N /\ cut \in BOOLEAN

Alive(a) == go[a] \in {"starting", "running"}

\* Whatever part of the bring-up fails, and however far it got, close leaves no
\* linked ring, no server that was not told to stop, and no Go process but one
\* that Popen started and an exception kept from becoming a handle.
AllOrNothing ==
  pc = "closed" /\ ~cut =>
    /\ \A a \in Actors : Alive(a) => a = stray
    /\ ring # "linked" /\ server # "up"

\* The ring goes away, and the server is told to stop, when no other Go process is
\* left that could push into the one or wait for the other.
ShutdownOrder ==
  ring = "unlinked" \/ server \in {"stopping", "gone"} =>
    \A a \in Actors : Alive(a) => a = stray

\* Every episode that was pushed has been handed to the trainer, is in the
\* assembler or is in the ring, nothing else is, and those of a client are there
\* once each and in the order it played them, whatever deadlines cut the collects.
Elements(s) == {s[k] : k \in DOMAIN s}
Accounted(s, p) ==
  /\ Elements(s) = UNION {Elements(p[a]) : a \in Actors}
  /\ \A j, k \in DOMAIN s : j < k /\ s[j][1] = s[k][1] => s[j][2] < s[k][2]
EpisodesAccounted == ring = "linked" => Accounted(returned \o ready \o frames, pushed)

\* Every collect and every close returns although Go processes may neither come
\* up, deliver, nor obey a signal; and a server that was told to stop does.  What
\* may hang is the stop of a server that a signal or its death met inside is_set.
Returns ==
  /\ pc \notin {"idle", "closed"} ~> pc \in {"idle", "closed"} \/ (pc = "stop" /\ latched)
  /\ pc = "closed" /\ ~cut ~> server \notin {"up", "stopping"}
=============================================================================
