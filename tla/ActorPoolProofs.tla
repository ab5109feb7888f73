-------------------------- MODULE ActorPoolProofs --------------------------
(***************************************************************************)
(* Proofs about ActorPool, for any number of actors, any size of the queue *)
(* and any number of publications.                                         *)
(*                                                                         *)
(* Until the trainer fails or closes, a slot that is not being written has *)
(* one publication in header and payload, and a reader holds its lock; a   *)
(* slot written before the last complete publication is not older than it. *)
(* The list is always the first actors, and one that is up is in it, or is *)
(* being appended, or was when the failure came.                           *)
(***************************************************************************)
EXTENDS ActorPool, TLAPS

(***************************************************************************)
(* The invariant                                                           *)
(***************************************************************************)
Live    == {"write", "header", "payload", "spawn", "append", "setup", "loop"}
Writing == {"write", "header", "payload"}

\* Types, by what changes together.
Places ==
  /\ kind \in Kinds /\ building \in BOOLEAN /\ entered \in BOOLEAN
  /\ pc \in {"write", "header", "payload", "spawn", "append", "setup", "loop", "stop", "join",
             "term", "kill", "release", "end"}
  /\ at \in Nat \ {0} /\ (pc \in {"write", "header", "payload"} => at <= Slots)
  /\ (pc \in {"spawn", "append", "join", "term", "kill"} => at \in Actors)
Counts ==
  /\ version \in Nat /\ 1 <= version /\ version <= MaxVersion
  /\ published \in Nat /\ published <= version
  /\ listed \subseteq Actors /\ orphan \in Actors \cup {0} /\ linked \subseteq Heads
Memory ==
  /\ header \in [Heads -> Nat \cup {Cold}] /\ payload \in [Heads -> Nat]
  /\ lock \in [Heads -> Actors \cup {Free, Trainer}]
Running ==
  /\ proc \in [Actors -> {"none", "up", "gone"}] /\ stop \in [Actors -> BOOLEAN]
  /\ latch \in [Actors -> BOOLEAN]
  /\ apc \in [Actors -> {"boot", "top", "look", "jammed", "put", "poll"}]
  /\ head \in [Actors -> Heads]
  /\ step \in [Actors -> {"want", "header", "payload"}] /\ found \in [Actors -> Nat \cup {Cold}]
Loaded  == mine \in [Actors -> Nets] /\ asked \in [Actors -> Nat]
Waiting == queue \in Seq(Episodes) /\ Len(queue) <= QueueSize

\* Who holds the locks, and what an actor is when it is not reading.
Holds   == pc \in {"header", "payload"} => lock[at] = Trainer
Reads   == \A i \in Actors : step[i] # "want" => lock[head[i]] = i
Resting ==
  \A i \in Actors :
    /\ apc[i] \in {"top", "look", "jammed", "put"} => head[i] = 1 /\ step[i] = "want"
    /\ proc[i] # "up" => apc[i] = "boot" /\ head[i] = 1 /\ step[i] = "want"
    /\ head[i] <= Slots

\* What is read, and what the slots and the networks loaded from them hold.
Found == \A i \in Actors : step[i] = "payload" => found[i] = header[head[i]]
Same ==
  pc \in Live =>
    \A h \in Heads : (pc = "payload" /\ at = h) \/ header[h] = Cold \/ header[h] = payload[h]
Whole ==
  pc \in Live => \A i \in Actors : \A h \in Heads : mine[i][h].body = mine[i][h].ver
WholeQueue ==
  pc \in Live =>
    \A j \in DOMAIN queue : \A h \in Heads : queue[j].nets[h].body = queue[j].nets[h].ver

\* How old they may be.
Written ==
  /\ pc \in Writing => \A h \in 1 .. at - 1 : header[h] = version
  /\ pc = "payload" => header[at] = version
NotOld   == \A h \in 1 .. Slots : published = 0 \/ header[h] >= published
WasAsked == \A i \in Actors : asked[i] <= published
Follows ==
  pc \in Live =>
    \A i \in Actors : \A h \in 1 .. Slots :
      apc[i] \in {"top", "look", "jammed", "put"} \/ h < head[i] => mine[i][h].ver >= asked[i]
FollowsQueue ==
  pc \in Live =>
    \A j \in DOMAIN queue : \A h \in 1 .. Slots : queue[j].nets[h].ver >= queue[j].asked

\* Which actors are in the list, and which of these are gone.
Prefix ==
  /\ pc \in {"setup", "loop"} => at = 1 /\ ~building
  /\ \A i \in listed : \A j \in Actors : j < i => j \in listed
  /\ pc \in {"spawn", "append"} => listed = 1 .. at - 1
  /\ building /\ pc \in Writing => listed = {}
  /\ entered => ~building
  /\ pc = "setup" => ~entered /\ ~building
  /\ pc \in {"spawn", "append"} => building
Known ==
  /\ pc \in Live => orphan = 0
  /\ \A i \in Actors : proc[i] = "up" => i \in listed \/ i = orphan \/ (pc = "append" /\ i = at)
\* No actor is started before the first publication.
After ==
  /\ pc \in {"spawn", "append", "setup", "loop"} => published > 0
  /\ \A i \in Actors : proc[i] = "up" => published > 0
Stopped ==
  /\ pc \in {"stop", "join", "term", "kill"} => \A i \in listed : i < at => proc[i] # "up"
  /\ pc = "release" => \A i \in listed : proc[i] # "up"
Closed ==
  pc = "end" /\ (entered \/ (kind = "cfr" /\ building)) =>
    /\ \A i \in listed : proc[i] # "up"
    /\ kind = "cfr" => linked = {}

Types  == Places /\ Counts /\ Memory /\ Running /\ Loaded /\ Waiting
Locks  == Holds /\ Reads /\ Resting
Copies == Found /\ Same /\ Whole /\ WholeQueue
Ages   == Written /\ NotOld /\ After /\ WasAsked /\ Follows /\ FollowsQueue
Lists  == Prefix /\ Known /\ Stopped /\ Closed
IInv   == Types /\ Locks /\ Copies /\ Ages /\ Lists

(***************************************************************************)
(* Every step preserves it                                                 *)
(***************************************************************************)
LEMMA SlotsTwo == Slots \in {1, 2} /\ (kind' = kind => Slots' = Slots)
  BY DEF Slots

LEMMA NoneBelow == 1 .. 0 = {}
  OBVIOUS

LEMMA WriteAcquireStep == ASSUME IInv, WriteAcquire PROVE IInv'
<1> USE DEF IInv, Types, Locks, Copies, Ages, Lists
<1>1. Running' /\ Loaded' /\ Waiting' /\ Resting'
  BY SlotsTwo DEF WriteAcquire, slots, actor, event, reading, Running, Loaded, Waiting, Resting
<1>2. Found' /\ NotOld' /\ WasAsked'
  BY SlotsTwo DEF WriteAcquire, slots, actor, event, reading, Found, NotOld, WasAsked
<1>3. Places'
  BY SlotsTwo, PoolAssumption
     DEF WriteAcquire, slots, actor, event, Places, Actors, Heads, Free, Trainer, Cold
<1>4. Counts'
  BY SlotsTwo, PoolAssumption
     DEF WriteAcquire, slots, actor, event, Places, Counts, Actors, Heads, Free, Trainer, Cold
<1>5. Memory'
  BY PoolAssumption
     DEF WriteAcquire, slots, actor, event, Places, Memory, Actors, Heads, Free, Trainer, Cold
<1>6. Holds'
  BY SlotsTwo, PoolAssumption
     DEF WriteAcquire, slots, actor, event, Places, Memory, Holds, Actors, Heads, Free, Trainer,
         Cold
<1>7. Reads'
  BY PoolAssumption
     DEF WriteAcquire, slots, actor, event, reading, Places, Memory, Running, Reads, Holds, Resting,
         Actors, Heads, Free, Trainer, Cold
<1>8. Same'
  BY PoolAssumption
     DEF WriteAcquire, slots, actor, event, Places, Memory, Same, Written, Holds, Live, Writing,
         Actors, Heads, Free, Trainer, Cold
<1>9. Whole'
  BY PoolAssumption, SMTT(30)
     DEF WriteAcquire, slots, actor, event, Places, Loaded, Whole, Found, Same, Reads, Holds, Nets,
         Live, Writing, Actors, Heads, Free, Trainer, Cold
<1>10. WholeQueue'
  BY PoolAssumption
     DEF WriteAcquire, slots, actor, event, Places, Waiting, WholeQueue, Whole, Nets, Episodes,
         Live, Writing, Actors, Heads, Free, Trainer, Cold
<1>11. Written'
  BY PoolAssumption
     DEF WriteAcquire, slots, actor, event, Places, Counts, Memory, Written, Live, Writing, Actors,
         Heads, Free, Trainer, Cold
<1>12. After'
  BY PoolAssumption
     DEF WriteAcquire, slots, actor, event, Places, Counts, Running, After, Actors, Heads, Free,
         Trainer, Cold
<1>13. Follows'
  BY SlotsTwo, PoolAssumption
     DEF WriteAcquire, slots, actor, event, reading, Places, Running, Loaded, Follows, Found,
         NotOld, WasAsked, Resting, Same, Reads, Holds, Nets, Live, Writing, Actors, Heads, Free,
         Trainer, Cold
<1>14. FollowsQueue'
  BY SlotsTwo, PoolAssumption
     DEF WriteAcquire, slots, actor, event, Places, Waiting, FollowsQueue, Follows, Nets, Episodes,
         Live, Writing, Actors, Heads, Free, Trainer, Cold
<1>15. Prefix'
  BY PoolAssumption
     DEF WriteAcquire, slots, actor, event, Places, Counts, Prefix, Live, Writing, Actors, Heads,
         Free, Trainer, Cold
<1>16. Known'
  BY PoolAssumption
     DEF WriteAcquire, slots, actor, event, Places, Counts, Running, Known, Live, Writing, Actors,
         Heads, Free, Trainer, Cold
<1>17. Stopped'
  BY PoolAssumption
     DEF WriteAcquire, slots, actor, event, Places, Counts, Running, Stopped, Prefix, Live, Writing,
         Actors, Heads, Free, Trainer, Cold
<1>18. Closed'
  BY PoolAssumption
     DEF WriteAcquire, slots, actor, event, Places, Counts, Running, Closed, Stopped, Prefix, Live,
         Writing, Actors, Heads, Free, Trainer, Cold
<1> QED
  BY <1>1, <1>2, <1>3, <1>4, <1>5, <1>6, <1>7, <1>8, <1>9, <1>10, <1>11, <1>12, <1>13, <1>14,
     <1>15, <1>16, <1>17, <1>18

LEMMA WriteHeaderStep == ASSUME IInv, WriteHeader PROVE IInv'
<1> USE DEF IInv, Types, Locks, Copies, Ages, Lists
<1>1. Counts' /\ Running' /\ Loaded' /\ Waiting'
  BY DEF WriteHeader, slots, actor, event, reading, Counts, Running, Loaded, Waiting
<1>2. Reads' /\ Resting' /\ WasAsked'
  BY SlotsTwo DEF WriteHeader, slots, actor, event, reading, Reads, Resting, WasAsked
<1>3. Places'
  BY SlotsTwo, PoolAssumption
     DEF WriteHeader, slots, actor, event, Places, Counts, Memory, Actors, Heads, Free, Trainer,
         Cold
<1>4. Memory'
  BY PoolAssumption
     DEF WriteHeader, slots, actor, event, Places, Counts, Memory, Actors, Heads, Free, Trainer,
         Cold
<1>5. Holds'
  BY PoolAssumption
     DEF WriteHeader, slots, actor, event, Places, Counts, Memory, Holds, Actors, Heads, Free,
         Trainer, Cold
<1>6. Found'
  BY SlotsTwo, PoolAssumption
     DEF WriteHeader, slots, actor, event, reading, Places, Memory, Running, Found, Reads, Holds,
         Actors, Heads, Free, Trainer
<1>7. Same'
  BY PoolAssumption
     DEF WriteHeader, slots, actor, event, Places, Counts, Memory, Same, Written, Holds, Live,
         Writing, Actors, Heads, Free, Trainer, Cold
<1>8. Whole'
  BY PoolAssumption
     DEF WriteHeader, slots, actor, event, Places, Counts, Memory, Loaded, Whole, Found, Same,
         Reads, Holds, Nets, Live, Writing, Actors, Heads, Free, Trainer, Cold
<1>9. WholeQueue'
  BY PoolAssumption
     DEF WriteHeader, slots, actor, event, Places, Counts, Memory, Waiting, WholeQueue, Whole, Nets,
         Episodes, Live, Writing, Actors, Heads, Free, Trainer, Cold
<1>10. Written'
  BY SlotsTwo, PoolAssumption
     DEF WriteHeader, slots, actor, event, Places, Counts, Memory, Written, Live, Writing, Actors,
         Heads, Free, Trainer, Cold
<1>11. NotOld'
  BY SlotsTwo, PoolAssumption
     DEF WriteHeader, slots, actor, event, Places, Counts, Memory, NotOld, Written, Live, Writing,
         Actors, Heads, Free, Trainer, Cold
<1>12. After'
  BY PoolAssumption
     DEF WriteHeader, slots, actor, event, Places, Counts, Memory, Running, After, Actors, Heads,
         Free, Trainer, Cold
<1>13. Follows'
  BY SlotsTwo, PoolAssumption
     DEF WriteHeader, slots, actor, event, reading, Places, Counts, Memory, Running, Loaded,
         Follows, Found, NotOld, WasAsked, Resting, Same, Reads, Holds, Nets, Live, Writing, Actors,
         Heads, Free, Trainer, Cold
<1>14. FollowsQueue'
  BY SlotsTwo, PoolAssumption
     DEF WriteHeader, slots, actor, event, Places, Counts, Memory, Waiting, FollowsQueue, Follows,
         Nets, Episodes, Live, Writing, Actors, Heads, Free, Trainer, Cold
<1>15. Prefix'
  BY PoolAssumption
     DEF WriteHeader, slots, actor, event, Places, Counts, Memory, Prefix, Live, Writing, Actors,
         Heads, Free, Trainer, Cold
<1>16. Known'
  BY PoolAssumption
     DEF WriteHeader, slots, actor, event, Places, Counts, Memory, Running, Known, Live, Writing,
         Actors, Heads, Free, Trainer, Cold
<1>17. Stopped'
  BY PoolAssumption
     DEF WriteHeader, slots, actor, event, Places, Counts, Memory, Running, Stopped, Prefix, Live,
         Writing, Actors, Heads, Free, Trainer, Cold
<1>18. Closed'
  BY PoolAssumption
     DEF WriteHeader, slots, actor, event, Places, Counts, Memory, Running, Closed, Stopped, Prefix,
         Live, Writing, Actors, Heads, Free, Trainer, Cold
<1> QED
  BY <1>1, <1>2, <1>3, <1>4, <1>5, <1>6, <1>7, <1>8, <1>9, <1>10, <1>11, <1>12, <1>13, <1>14,
     <1>15, <1>16, <1>17, <1>18

LEMMA WritePayloadStep == ASSUME IInv, WritePayload PROVE IInv'
<1> USE DEF IInv, Types, Locks, Copies, Ages, Lists
<1>1. Running' /\ Loaded' /\ Waiting'
  BY DEF WritePayload, slots, actor, event, reading, Running, Loaded, Waiting
<1>2. Resting' /\ Found'
  BY SlotsTwo DEF WritePayload, slots, actor, event, reading, Resting, Found
<1>3. Places'
  BY SlotsTwo, PoolAssumption
     DEF WritePayload, slots, actor, event, Places, Counts, Memory, Actors, Heads, Free, Trainer,
         Cold
<1>4. Counts'
  BY PoolAssumption
     DEF WritePayload, slots, actor, event, Places, Counts, Memory, Actors, Heads, Free, Trainer,
         Cold
<1>5. Memory'
  BY PoolAssumption
     DEF WritePayload, slots, actor, event, Places, Counts, Memory, Actors, Heads, Free, Trainer,
         Cold
<1>6. Holds'
  BY PoolAssumption
     DEF WritePayload, slots, actor, event, Places, Counts, Memory, Holds, Actors, Heads, Free,
         Trainer, Cold
<1>7. Reads'
  BY PoolAssumption
     DEF WritePayload, slots, actor, event, reading, Places, Counts, Memory, Running, Reads, Holds,
         Resting, Actors, Heads, Free, Trainer, Cold
<1>8. Same'
  BY PoolAssumption
     DEF WritePayload, slots, actor, event, Places, Counts, Memory, Same, Written, Holds, Live,
         Writing, Actors, Heads, Free, Trainer, Cold
<1>9. Whole'
  BY PoolAssumption
     DEF WritePayload, slots, actor, event, Places, Counts, Memory, Loaded, Whole, Found, Same,
         Reads, Holds, Nets, Live, Writing, Actors, Heads, Free, Trainer, Cold
<1>10. WholeQueue'
  BY PoolAssumption
     DEF WritePayload, slots, actor, event, Places, Counts, Memory, Waiting, WholeQueue, Whole,
         Nets, Episodes, Live, Writing, Actors, Heads, Free, Trainer, Cold
<1>11. Written'
  BY PoolAssumption
     DEF WritePayload, slots, actor, event, Places, Counts, Memory, Written, Live, Writing, Actors,
         Heads, Free, Trainer, Cold
<1>12. NotOld'
  BY SlotsTwo, PoolAssumption
     DEF WritePayload, slots, actor, event, Places, Counts, Memory, NotOld, Written, Live, Writing,
         Actors, Heads, Free, Trainer, Cold
<1>13. After'
  BY PoolAssumption
     DEF WritePayload, slots, actor, event, Places, Counts, Memory, Running, After, Actors, Heads,
         Free, Trainer, Cold
<1>14. WasAsked'
  <2> published <= published' /\ published' \in Nat /\ published \in Nat /\ asked' = asked
    BY DEF WritePayload, actor, event, Counts
  <2> QED BY DEF WasAsked, Loaded
<1>15. Follows'
  BY SlotsTwo, PoolAssumption
     DEF WritePayload, slots, actor, event, reading, Places, Counts, Memory, Running, Loaded,
         Follows, Found, NotOld, WasAsked, Resting, Same, Reads, Holds, Nets, Live, Writing, Actors,
         Heads, Free, Trainer, Cold
<1>16. FollowsQueue'
  BY SlotsTwo, PoolAssumption
     DEF WritePayload, slots, actor, event, Places, Counts, Memory, Waiting, FollowsQueue, Follows,
         Nets, Episodes, Live, Writing, Actors, Heads, Free, Trainer, Cold
<1>17. Prefix'
  <2>1. CASE at < Slots
    BY <2>1 DEF WritePayload, Places, Prefix, Writing
  <2>2. CASE ~(at < Slots) /\ building
    BY <2>2, NoneBelow DEF WritePayload, Places, Prefix, Writing
  <2>3. CASE ~(at < Slots) /\ ~building
    BY <2>3 DEF WritePayload, Places, Prefix, Writing
  <2> QED BY <2>1, <2>2, <2>3
<1>18. Known'
  BY PoolAssumption
     DEF WritePayload, slots, actor, event, Places, Counts, Memory, Running, Known, Live, Writing,
         Actors, Heads, Free, Trainer, Cold
<1>19. Stopped'
  BY PoolAssumption
     DEF WritePayload, slots, actor, event, Places, Counts, Memory, Running, Stopped, Prefix, Live,
         Writing, Actors, Heads, Free, Trainer, Cold
<1>20. Closed'
  BY PoolAssumption
     DEF WritePayload, slots, actor, event, Places, Counts, Memory, Running, Closed, Stopped,
         Prefix, Live, Writing, Actors, Heads, Free, Trainer, Cold
<1> QED
  BY <1>1, <1>2, <1>3, <1>4, <1>5, <1>6, <1>7, <1>8, <1>9, <1>10, <1>11, <1>12, <1>13, <1>14,
     <1>15, <1>16, <1>17, <1>18, <1>19, <1>20

LEMMA SpawnStep == ASSUME IInv, Spawn PROVE IInv'
<1> USE DEF IInv, Types, Locks, Copies, Ages, Lists
<1>1. Counts' /\ Memory' /\ Waiting'
  BY DEF Spawn, slots, actor, event, Counts, Memory, Waiting
<1>2. Reads' /\ Found' /\ NotOld'
  BY SlotsTwo DEF Spawn, slots, actor, event, reading, Reads, Found, NotOld
<1>3. Places'
  BY PoolAssumption
     DEF Spawn, slots, actor, event, Places, Counts, Running, Actors, Heads, Free, Trainer, Cold
<1>4. Running'
  BY PoolAssumption
     DEF Spawn, slots, actor, event, reading, Places, Counts, Running, Actors, Heads, Free, Trainer,
         Cold
<1>5. Loaded'
  BY PoolAssumption
     DEF Spawn, slots, actor, event, Places, Counts, Running, Loaded, Nets, Actors, Heads, Free,
         Trainer, Cold
<1>6. Holds'
  BY PoolAssumption
     DEF Spawn, slots, actor, event, Places, Counts, Memory, Running, Holds, Actors, Heads, Free,
         Trainer, Cold
<1>7. Resting'
  BY SlotsTwo, PoolAssumption
     DEF Spawn, slots, actor, event, reading, Places, Counts, Running, Resting, Actors, Heads, Free,
         Trainer, Cold
<1>8. Same'
  BY PoolAssumption
     DEF Spawn, slots, actor, event, Places, Counts, Memory, Running, Same, Written, Holds, Live,
         Writing, Actors, Heads, Free, Trainer, Cold
<1>9. Whole'
  BY PoolAssumption
     DEF Spawn, slots, actor, event, Places, Counts, Running, Loaded, Whole, Found, Same, Reads,
         Holds, Nets, Live, Writing, Actors, Heads, Free, Trainer, Cold
<1>10. WholeQueue'
  BY PoolAssumption
     DEF Spawn, slots, actor, event, Places, Counts, Running, Waiting, WholeQueue, Whole, Nets,
         Episodes, Live, Writing, Actors, Heads, Free, Trainer, Cold
<1>11. Written'
  BY PoolAssumption
     DEF Spawn, slots, actor, event, Places, Counts, Memory, Running, Written, Live, Writing,
         Actors, Heads, Free, Trainer, Cold
<1>12. After'
  BY PoolAssumption
     DEF Spawn, slots, actor, event, Places, Counts, Running, After, Actors, Heads, Free, Trainer,
         Cold
<1>13. WasAsked'
  BY PoolAssumption
     DEF Spawn, slots, actor, event, Places, Counts, Running, Loaded, WasAsked, Nets, Actors, Heads,
         Free, Trainer, Cold
<1>14. Follows'
  <2>1. at \in Actors /\ pc = "spawn" /\ proc[at] # "up"
    BY PoolAssumption DEF Spawn, Places, Counts, Known, Prefix, Live, Actors
  <2>2. apc[at] = "boot" /\ head[at] = 1
    BY <2>1 DEF Resting
  <2> SUFFICES ASSUME NEW k \in Actors, NEW h \in 1 .. Slots,
                      apc[k] \in {"top", "look", "jammed", "put"} \/ h < head[k]
               PROVE  mine[k][h].ver >= asked'[k]
    BY SlotsTwo DEF Spawn, reading, Follows
  <2>3. k # at
    BY <2>2
  <2>4. asked'[k] = asked[k]
    BY <2>3 DEF Spawn, Loaded
  <2> QED BY <2>1, <2>4 DEF Follows, Live
<1>15. FollowsQueue'
  BY SlotsTwo, PoolAssumption
     DEF Spawn, slots, actor, event, Places, Counts, Running, Waiting, FollowsQueue, Follows, Nets,
         Episodes, Live, Writing, Actors, Heads, Free, Trainer, Cold
<1>16. Prefix'
  BY PoolAssumption
     DEF Spawn, slots, actor, event, Places, Counts, Running, Prefix, Live, Writing, Actors, Heads,
         Free, Trainer, Cold
<1>17. Known'
  BY PoolAssumption
     DEF Spawn, slots, actor, event, Places, Counts, Running, Known, Live, Writing, Actors, Heads,
         Free, Trainer, Cold
<1>18. Stopped'
  BY PoolAssumption
     DEF Spawn, slots, actor, event, Places, Counts, Running, Stopped, Prefix, Live, Writing,
         Actors, Heads, Free, Trainer, Cold
<1>19. Closed'
  BY PoolAssumption
     DEF Spawn, slots, actor, event, Places, Counts, Running, Closed, Stopped, Prefix, Live,
         Writing, Actors, Heads, Free, Trainer, Cold
<1> QED
  BY <1>1, <1>2, <1>3, <1>4, <1>5, <1>6, <1>7, <1>8, <1>9, <1>10, <1>11, <1>12, <1>13, <1>14,
     <1>15, <1>16, <1>17, <1>18, <1>19

LEMMA ListStep == ASSUME IInv, List PROVE IInv'
<1> USE DEF IInv, Types, Locks, Copies, Ages, Lists
<1>1. Memory' /\ Running' /\ Loaded' /\ Waiting' /\ Reads'
  BY DEF List, slots, actor, event, reading, Memory, Running, Loaded, Waiting, Reads
<1>2. Resting' /\ Found' /\ NotOld' /\ WasAsked'
  BY SlotsTwo DEF List, slots, actor, event, reading, Resting, Found, NotOld, WasAsked
<1>3. Places'
  <2>1. at \in Actors
    BY DEF List, Places
  <2>2. CASE at < N
    BY <2>1, <2>2, PoolAssumption DEF List, Places, Actors
  <2>3. CASE ~(at < N)
    <3>1. at' = 1 /\ pc' = "setup" /\ building' = FALSE /\ entered' = entered /\ kind' = kind
      BY <2>3 DEF List
    <3>2. kind' \in Kinds /\ building' \in BOOLEAN /\ entered' \in BOOLEAN
      BY <3>1 DEF Places
    <3>3. at' \in Nat \ {0}
      BY <3>1
    <3> QED BY <3>1, <3>2, <3>3 DEF Places
  <2> QED BY <2>2, <2>3
<1>4. Counts'
  BY PoolAssumption DEF List, slots, actor, event, Places, Counts, Actors, Heads, Free, Trainer,
                        Cold
<1>5. Holds'
  BY PoolAssumption
     DEF List, slots, actor, event, Places, Counts, Memory, Holds, Actors, Heads, Free, Trainer,
         Cold
<1>6. Same'
  BY PoolAssumption
     DEF List, slots, actor, event, Places, Counts, Memory, Same, Written, Holds, Live, Writing,
         Actors, Heads, Free, Trainer, Cold
<1>7. Whole'
  BY PoolAssumption
     DEF List, slots, actor, event, Places, Counts, Loaded, Whole, Found, Same, Reads, Holds, Nets,
         Live, Writing, Actors, Heads, Free, Trainer, Cold
<1>8. WholeQueue'
  BY PoolAssumption
     DEF List, slots, actor, event, Places, Counts, Waiting, WholeQueue, Whole, Nets, Episodes,
         Live, Writing, Actors, Heads, Free, Trainer, Cold
<1>9. Written'
  BY PoolAssumption
     DEF List, slots, actor, event, Places, Counts, Memory, Written, Live, Writing, Actors, Heads,
         Free, Trainer, Cold
<1>10. After'
  BY PoolAssumption
     DEF List, slots, actor, event, Places, Counts, Running, After, Actors, Heads, Free, Trainer,
         Cold
<1>11. Follows'
  BY SlotsTwo, PoolAssumption
     DEF List, slots, actor, event, reading, Places, Counts, Running, Loaded, Follows, Found,
         NotOld, WasAsked, Resting, Same, Reads, Holds, Nets, Live, Writing, Actors, Heads, Free,
         Trainer, Cold
<1>12. FollowsQueue'
  BY SlotsTwo, PoolAssumption
     DEF List, slots, actor, event, Places, Counts, Waiting, FollowsQueue, Follows, Nets, Episodes,
         Live, Writing, Actors, Heads, Free, Trainer, Cold
<1>13. Prefix'
  <2>1. at \in Actors /\ listed' = 1 .. at
    BY DEF List, Places, Prefix, Actors
  <2>2. \A i \in listed' : \A j \in Actors : j < i => j \in listed'
    BY <2>1, PoolAssumption DEF Actors
  <2>3. CASE at < N
    <3>1. at' - 1 = at /\ pc' = "spawn" /\ building' /\ ~entered'
      BY <2>3, <2>1 DEF List, Actors, Prefix
    <3> QED BY <3>1, <2>1, <2>2 DEF Prefix, Writing
  <2>4. CASE ~(at < N)
    <3>1. at' = 1 /\ pc' = "setup" /\ building' = FALSE /\ ~entered'
      BY <2>4, <2>1 DEF List, Prefix
    <3> QED BY <3>1, <2>2 DEF Prefix, Writing
  <2> QED BY <2>3, <2>4
<1>14. Known'
  BY PoolAssumption
     DEF List, slots, actor, event, Places, Counts, Running, Known, Live, Writing, Actors, Heads,
         Free, Trainer, Cold
<1>15. Stopped'
  BY PoolAssumption
     DEF List, slots, actor, event, Places, Counts, Running, Stopped, Prefix, Live, Writing, Actors,
         Heads, Free, Trainer, Cold
<1>16. Closed'
  BY PoolAssumption
     DEF List, slots, actor, event, Places, Counts, Running, Closed, Stopped, Prefix, Live, Writing,
         Actors, Heads, Free, Trainer, Cold
<1> QED
  BY <1>1, <1>2, <1>3, <1>4, <1>5, <1>6, <1>7, <1>8, <1>9, <1>10, <1>11, <1>12, <1>13, <1>14,
     <1>15, <1>16

LEMMA SetUpStep == ASSUME IInv, SetUp PROVE IInv'
<1> USE DEF IInv, Types, Locks, Copies, Ages, Lists
<1>1. Counts' /\ Memory' /\ Running' /\ Loaded' /\ Waiting'
  BY DEF SetUp, slots, actor, event, reading, Counts, Memory, Running, Loaded, Waiting
<1>2. Reads' /\ Resting' /\ Found' /\ NotOld' /\ WasAsked'
  BY SlotsTwo DEF SetUp, slots, actor, event, reading, Reads, Resting, Found, NotOld, WasAsked
<1>3. Places'
  BY PoolAssumption DEF SetUp, slots, actor, event, Places, Actors, Heads, Free, Trainer, Cold
<1>4. Holds'
  BY PoolAssumption
     DEF SetUp, slots, actor, event, Places, Memory, Holds, Actors, Heads, Free, Trainer, Cold
<1>5. Same'
  BY PoolAssumption
     DEF SetUp, slots, actor, event, Places, Memory, Same, Written, Holds, Live, Writing, Actors,
         Heads, Free, Trainer, Cold
<1>6. Whole'
  BY PoolAssumption
     DEF SetUp, slots, actor, event, Places, Loaded, Whole, Found, Same, Reads, Holds, Nets, Live,
         Writing, Actors, Heads, Free, Trainer, Cold
<1>7. WholeQueue'
  BY PoolAssumption
     DEF SetUp, slots, actor, event, Places, Waiting, WholeQueue, Whole, Nets, Episodes, Live,
         Writing, Actors, Heads, Free, Trainer, Cold
<1>8. Written'
  BY PoolAssumption
     DEF SetUp, slots, actor, event, Places, Counts, Memory, Written, Live, Writing, Actors, Heads,
         Free, Trainer, Cold
<1>9. After'
  BY PoolAssumption
     DEF SetUp, slots, actor, event, Places, Counts, Running, After, Actors, Heads, Free, Trainer,
         Cold
<1>10. Follows'
  BY SlotsTwo, PoolAssumption
     DEF SetUp, slots, actor, event, reading, Places, Running, Loaded, Follows, Found, NotOld,
         WasAsked, Resting, Same, Reads, Holds, Nets, Live, Writing, Actors, Heads, Free,
         Trainer, Cold
<1>11. FollowsQueue'
  BY SlotsTwo, PoolAssumption
     DEF SetUp, slots, actor, event, Places, Waiting, FollowsQueue, Follows, Nets, Episodes, Live,
         Writing, Actors, Heads, Free, Trainer, Cold
<1>12. Prefix'
  BY PoolAssumption
     DEF SetUp, slots, actor, event, Places, Counts, Prefix, Live, Writing, Actors, Heads, Free,
         Trainer, Cold
<1>13. Known'
  BY PoolAssumption
     DEF SetUp, slots, actor, event, Places, Counts, Running, Known, Live, Writing, Actors, Heads,
         Free, Trainer, Cold
<1>14. Stopped'
  BY PoolAssumption
     DEF SetUp, slots, actor, event, Places, Counts, Running, Stopped, Prefix, Live, Writing,
         Actors, Heads, Free, Trainer, Cold
<1>15. Closed'
  BY PoolAssumption
     DEF SetUp, slots, actor, event, Places, Counts, Running, Closed, Stopped, Prefix, Live,
         Writing, Actors, Heads, Free, Trainer, Cold
<1> QED
  BY <1>1, <1>2, <1>3, <1>4, <1>5, <1>6, <1>7, <1>8, <1>9, <1>10, <1>11, <1>12, <1>13, <1>14,
     <1>15

LEMMA CollectStep == ASSUME IInv, Collect PROVE IInv'
<1> USE DEF IInv, Types, Locks, Copies, Ages, Lists
<1>1. Places' /\ Counts' /\ Memory' /\ Running' /\ Loaded' /\ Holds' /\ Reads' /\ Resting'
          /\ Found' /\ Same'
  BY SlotsTwo
     DEF Collect, trainer, slots, actor, event, reading, Places, Counts, Memory, Running, Loaded,
         Holds, Reads, Resting, Found, Same
<1>2. Whole' /\ Written' /\ NotOld' /\ After' /\ WasAsked' /\ Follows' /\ Prefix' /\ Known'
          /\ Stopped' /\ Closed'
  BY SlotsTwo
     DEF Collect, trainer, slots, actor, event, reading, Whole, Written, NotOld, After, WasAsked,
         Follows, Prefix, Known, Stopped, Closed
<1>3. Waiting'
  BY PoolAssumption
     DEF Collect, slots, actor, event, Waiting, Episodes, Nets, Actors, Heads, Free, Trainer, Cold
<1>4. WholeQueue'
  <2>1. /\ pc' = pc /\ kind' = kind /\ queue \in Seq(Episodes)
        /\ \A j \in DOMAIN queue' : j + 1 \in DOMAIN queue /\ queue'[j] = queue[j + 1]
    BY DEF Collect, trainer, Waiting
  <2> QED BY <2>1, SlotsTwo DEF WholeQueue
<1>5. FollowsQueue'
  <2>1. /\ pc' = pc /\ kind' = kind /\ queue \in Seq(Episodes)
        /\ \A j \in DOMAIN queue' : j + 1 \in DOMAIN queue /\ queue'[j] = queue[j + 1]
    BY DEF Collect, trainer, Waiting
  <2> QED BY <2>1, SlotsTwo DEF FollowsQueue
<1> QED BY <1>1, <1>2, <1>3, <1>4, <1>5

LEMMA SyncWeightsStep == ASSUME IInv, SyncWeights PROVE IInv'
<1> USE DEF IInv, Types, Locks, Copies, Ages, Lists
<1>1. Memory' /\ Running' /\ Loaded' /\ Waiting' /\ Reads'
  BY DEF SyncWeights, slots, actor, event, reading, Memory, Running, Loaded, Waiting, Reads
<1>2. Resting' /\ Found' /\ NotOld' /\ WasAsked'
  BY SlotsTwo DEF SyncWeights, slots, actor, event, reading, Resting, Found, NotOld, WasAsked
<1>3. Places'
  BY SlotsTwo, PoolAssumption DEF SyncWeights, Places, Prefix, Actors
<1>4. Counts'
  BY PoolAssumption
     DEF SyncWeights, slots, actor, event, Places, Counts, Actors, Heads, Free, Trainer, Cold
<1>5. Holds'
  BY PoolAssumption
     DEF SyncWeights, slots, actor, event, Places, Counts, Memory, Holds, Actors, Heads, Free,
         Trainer, Cold
<1>6. Same'
  BY PoolAssumption
     DEF SyncWeights, slots, actor, event, Places, Counts, Memory, Same, Written, Holds, Live,
         Writing, Actors, Heads, Free, Trainer, Cold
<1>7. Whole'
  BY PoolAssumption
     DEF SyncWeights, slots, actor, event, Places, Counts, Loaded, Whole, Found, Same, Reads, Holds,
         Nets, Live, Writing, Actors, Heads, Free, Trainer, Cold
<1>8. WholeQueue'
  BY PoolAssumption
     DEF SyncWeights, slots, actor, event, Places, Counts, Waiting, WholeQueue, Whole, Nets,
         Episodes, Live, Writing, Actors, Heads, Free, Trainer, Cold
<1>9. Written'
  BY PoolAssumption DEF SyncWeights, slots, Places, Prefix, Written, Writing
<1>10. After'
  BY PoolAssumption
     DEF SyncWeights, slots, actor, event, Places, Counts, Running, After, Actors, Heads, Free,
         Trainer, Cold
<1>11. Follows'
  BY SlotsTwo, PoolAssumption
     DEF SyncWeights, slots, actor, event, reading, Places, Counts, Running, Loaded, Follows, Found,
         NotOld, WasAsked, Resting, Same, Reads, Holds, Nets, Live, Writing, Actors, Heads,
         Free, Trainer, Cold
<1>12. FollowsQueue'
  BY SlotsTwo, PoolAssumption
     DEF SyncWeights, slots, actor, event, Places, Counts, Waiting, FollowsQueue, Follows, Nets,
         Episodes, Live, Writing, Actors, Heads, Free, Trainer, Cold
<1>13. Prefix'
  BY PoolAssumption DEF SyncWeights, Prefix, Writing
<1>14. Known'
  BY PoolAssumption
     DEF SyncWeights, slots, actor, event, Places, Counts, Running, Known, Live, Writing, Actors,
         Heads, Free, Trainer, Cold
<1>15. Stopped'
  BY PoolAssumption
     DEF SyncWeights, slots, actor, event, Places, Counts, Running, Stopped, Prefix, Live, Writing,
         Actors, Heads, Free, Trainer, Cold
<1>16. Closed'
  BY PoolAssumption
     DEF SyncWeights, slots, actor, event, Places, Counts, Running, Closed, Stopped, Prefix, Live,
         Writing, Actors, Heads, Free, Trainer, Cold
<1> QED
  BY <1>1, <1>2, <1>3, <1>4, <1>5, <1>6, <1>7, <1>8, <1>9, <1>10, <1>11, <1>12, <1>13, <1>14,
     <1>15, <1>16

LEMMA FinishStep == ASSUME IInv, Finish PROVE IInv'
<1> USE DEF IInv, Types, Locks, Copies, Ages, Lists
<1>1. Counts' /\ Memory' /\ Running' /\ Loaded' /\ Waiting'
  BY DEF Finish, slots, actor, event, reading, Counts, Memory, Running, Loaded, Waiting
<1>2. Reads' /\ Resting' /\ Found' /\ NotOld' /\ WasAsked'
  BY SlotsTwo DEF Finish, slots, actor, event, reading, Reads, Resting, Found, NotOld, WasAsked
<1>3. Places'
  BY PoolAssumption DEF Finish, slots, actor, event, Places, Actors, Heads, Free, Trainer, Cold
<1>4. Holds'
  BY PoolAssumption
     DEF Finish, slots, actor, event, Places, Memory, Holds, Actors, Heads, Free, Trainer, Cold
<1>5. Same'
  BY PoolAssumption
     DEF Finish, slots, actor, event, Places, Memory, Same, Written, Holds, Live, Writing, Actors,
         Heads, Free, Trainer, Cold
<1>6. Whole'
  BY PoolAssumption
     DEF Finish, slots, actor, event, Places, Loaded, Whole, Found, Same, Reads, Holds, Nets, Live,
         Writing, Actors, Heads, Free, Trainer, Cold
<1>7. WholeQueue'
  BY PoolAssumption
     DEF Finish, slots, actor, event, Places, Waiting, WholeQueue, Whole, Nets, Episodes, Live,
         Writing, Actors, Heads, Free, Trainer, Cold
<1>8. Written'
  BY PoolAssumption
     DEF Finish, slots, actor, event, Places, Counts, Memory, Written, Live, Writing, Actors, Heads,
         Free, Trainer, Cold
<1>9. After'
  BY PoolAssumption
     DEF Finish, slots, actor, event, Places, Counts, Running, After, Actors, Heads, Free, Trainer,
         Cold
<1>10. Follows'
  BY PoolAssumption
     DEF Finish, slots, actor, event, Places, Running, Loaded, Follows, Found, NotOld, WasAsked,
         Resting, Same, Reads, Holds, Nets, Live, Writing, Actors, Heads, Free, Trainer, Cold
<1>11. FollowsQueue'
  BY PoolAssumption
     DEF Finish, slots, actor, event, Places, Waiting, FollowsQueue, Follows, Nets, Episodes, Live,
         Writing, Actors, Heads, Free, Trainer, Cold
<1>12. Prefix'
  BY PoolAssumption
     DEF Finish, slots, actor, event, Places, Counts, Prefix, Live, Writing, Actors, Heads, Free,
         Trainer, Cold
<1>13. Known'
  BY PoolAssumption
     DEF Finish, slots, actor, event, Places, Counts, Running, Known, Live, Writing, Actors, Heads,
         Free, Trainer, Cold
<1>14. Stopped'
  BY PoolAssumption
     DEF Finish, slots, actor, event, Places, Counts, Running, Stopped, Prefix, Live, Writing,
         Actors, Heads, Free, Trainer, Cold
<1>15. Closed'
  BY PoolAssumption
     DEF Finish, slots, actor, event, Places, Counts, Running, Closed, Stopped, Prefix, Live,
         Writing, Actors, Heads, Free, Trainer, Cold
<1> QED
  BY <1>1, <1>2, <1>3, <1>4, <1>5, <1>6, <1>7, <1>8, <1>9, <1>10, <1>11, <1>12, <1>13, <1>14,
     <1>15

LEMMA FailureStep == ASSUME IInv, Failure PROVE IInv'
<1> USE DEF IInv, Types, Locks, Copies, Ages, Lists
<1>1. Loaded' /\ Waiting' /\ Resting'
  BY SlotsTwo DEF Failure, Closes, slots, actor, event, reading, Loaded, Waiting, Resting
<1>2. Found' /\ NotOld' /\ WasAsked'
  BY SlotsTwo DEF Failure, Closes, slots, actor, event, reading, Found, NotOld, WasAsked
<1>3. Places'
  BY PoolAssumption
     DEF Failure, Closes, slots, actor, event, Places, Counts, Memory, Running, Actors, Heads, Free,
         Trainer, Cold
<1>4. Counts'
  BY PoolAssumption
     DEF Failure, Closes, slots, actor, event, Places, Counts, Memory, Running, Actors, Heads, Free,
         Trainer, Cold
<1>5. Memory'
  BY PoolAssumption
     DEF Failure, Closes, slots, actor, event, Places, Counts, Memory, Running, Actors, Heads, Free,
         Trainer, Cold
<1>6. Running'
  BY DEF Failure, actor, event, reading, Running
<1>7. Holds'
  BY PoolAssumption
     DEF Failure, Closes, slots, actor, event, Places, Counts, Memory, Running, Holds, Actors,
         Heads, Free, Trainer, Cold
<1>8. Reads'
  BY PoolAssumption
     DEF Failure, Closes, slots, actor, event, reading, Places, Counts, Memory, Running, Reads,
         Holds, Resting, Actors, Heads, Free, Trainer, Cold
<1>9. Same'
  BY PoolAssumption
     DEF Failure, Closes, slots, actor, event, Places, Counts, Memory, Running, Same, Written,
         Holds, Live, Writing, Actors, Heads, Free, Trainer, Cold
<1>10. Whole'
  BY PoolAssumption
     DEF Failure, Closes, slots, actor, event, Places, Counts, Memory, Running, Loaded, Whole,
         Found, Same, Reads, Holds, Nets, Live, Writing, Actors, Heads, Free, Trainer, Cold
<1>11. WholeQueue'
  BY PoolAssumption
     DEF Failure, Closes, slots, actor, event, Places, Counts, Memory, Running, Waiting, WholeQueue,
         Whole, Nets, Episodes, Live, Writing, Actors, Heads, Free, Trainer, Cold
<1>12. Written'
  BY PoolAssumption
     DEF Failure, Closes, slots, actor, event, Places, Counts, Memory, Running, Written, Live,
         Writing, Actors, Heads, Free, Trainer, Cold
<1>13. After'
  BY PoolAssumption
     DEF Failure, Closes, slots, actor, event, Places, Counts, Memory, Running, After, Actors,
         Heads, Free, Trainer, Cold
<1>14. Follows'
  BY PoolAssumption
     DEF Failure, Closes, slots, actor, event, Places, Counts, Memory, Running, Loaded, Follows,
         Found, NotOld, WasAsked, Resting, Same, Reads, Holds, Nets, Live, Writing, Actors, Heads,
         Free, Trainer, Cold
<1>15. FollowsQueue'
  BY PoolAssumption
     DEF Failure, Closes, slots, actor, event, Places, Counts, Memory, Running, Waiting,
         FollowsQueue, Follows, Nets, Episodes, Live, Writing, Actors, Heads, Free, Trainer, Cold
<1>16. Prefix'
  BY PoolAssumption
     DEF Failure, Closes, slots, actor, event, Places, Counts, Memory, Running, Prefix, Live,
         Writing, Actors, Heads, Free, Trainer, Cold
<1>17. Known'
  BY PoolAssumption
     DEF Failure, Closes, slots, actor, event, Places, Counts, Memory, Running, Known, Live,
         Writing, Actors, Heads, Free, Trainer, Cold
<1>18. Stopped'
  BY PoolAssumption
     DEF Failure, Closes, slots, actor, event, Places, Counts, Memory, Running, Stopped, Prefix,
         Live, Writing, Actors, Heads, Free, Trainer, Cold
<1>19. Closed'
  BY PoolAssumption
     DEF Failure, Closes, slots, actor, event, Places, Counts, Memory, Running, Closed, Stopped,
         Prefix, Live, Writing, Actors, Heads, Free, Trainer, Cold
<1> QED
  BY <1>1, <1>2, <1>3, <1>4, <1>5, <1>6, <1>7, <1>8, <1>9, <1>10, <1>11, <1>12, <1>13, <1>14,
     <1>15, <1>16, <1>17, <1>18, <1>19

LEMMA SetStopStep == ASSUME IInv, SetStop PROVE IInv'
<1> USE DEF IInv, Types, Locks, Copies, Ages, Lists
<1>1. Counts' /\ Memory' /\ Loaded' /\ Waiting' /\ Reads'
  BY DEF SetStop, slots, actor, event, reading, Counts, Memory, Loaded, Waiting, Reads
<1>2. Resting' /\ Found' /\ NotOld' /\ WasAsked'
  BY SlotsTwo DEF SetStop, slots, actor, event, reading, Resting, Found, NotOld, WasAsked
<1>3. Places'
  BY PoolAssumption
     DEF SetStop, slots, actor, event, Places, Counts, Actors, Heads, Free, Trainer, Cold
<1>4. Running'
  BY PoolAssumption
     DEF SetStop, slots, actor, event, reading, Places, Counts, Running, Actors, Heads, Free,
         Trainer, Cold
<1>5. Holds'
  BY PoolAssumption
     DEF SetStop, slots, actor, event, Places, Counts, Memory, Holds, Actors, Heads, Free, Trainer,
         Cold
<1>6. Same'
  BY PoolAssumption
     DEF SetStop, slots, actor, event, Places, Counts, Memory, Same, Written, Holds, Live, Writing,
         Actors, Heads, Free, Trainer, Cold
<1>7. Whole'
  BY PoolAssumption
     DEF SetStop, slots, actor, event, Places, Counts, Loaded, Whole, Found, Same, Reads, Holds,
         Nets, Live, Writing, Actors, Heads, Free, Trainer, Cold
<1>8. WholeQueue'
  BY PoolAssumption
     DEF SetStop, slots, actor, event, Places, Counts, Waiting, WholeQueue, Whole, Nets, Episodes,
         Live, Writing, Actors, Heads, Free, Trainer, Cold
<1>9. Written'
  BY PoolAssumption
     DEF SetStop, slots, actor, event, Places, Counts, Memory, Written, Live, Writing, Actors,
         Heads, Free, Trainer, Cold
<1>10. After'
  BY PoolAssumption
     DEF SetStop, slots, actor, event, Places, Counts, Running, After, Actors, Heads, Free, Trainer,
         Cold
<1>11. Follows'
  BY PoolAssumption
     DEF SetStop, slots, actor, event, Places, Counts, Running, Loaded, Follows, Found, NotOld,
         WasAsked, Resting, Same, Reads, Holds, Nets, Live, Writing, Actors, Heads, Free,
         Trainer, Cold
<1>12. FollowsQueue'
  BY PoolAssumption
     DEF SetStop, slots, actor, event, Places, Counts, Waiting, FollowsQueue, Follows, Nets,
         Episodes, Live, Writing, Actors, Heads, Free, Trainer, Cold
<1>13. Prefix'
  BY PoolAssumption
     DEF SetStop, slots, actor, event, Places, Counts, Prefix, Live, Writing, Actors, Heads, Free,
         Trainer, Cold
<1>14. Known'
  BY PoolAssumption
     DEF SetStop, slots, actor, event, Places, Counts, Running, Known, Live, Writing, Actors, Heads,
         Free, Trainer, Cold
<1>15. Stopped'
  BY PoolAssumption
     DEF SetStop, slots, actor, event, Places, Counts, Running, Stopped, Prefix, Live, Writing,
         Actors, Heads, Free, Trainer, Cold
<1>16. Closed'
  BY PoolAssumption
     DEF SetStop, slots, actor, event, Places, Counts, Running, Closed, Stopped, Prefix, Live,
         Writing, Actors, Heads, Free, Trainer, Cold
<1> QED
  BY <1>1, <1>2, <1>3, <1>4, <1>5, <1>6, <1>7, <1>8, <1>9, <1>10, <1>11, <1>12, <1>13, <1>14,
     <1>15, <1>16

LEMMA AllStoppedStep == ASSUME IInv, AllStopped PROVE IInv'
<1> USE DEF IInv, Types, Locks, Copies, Ages, Lists
<1>1. Counts' /\ Memory' /\ Loaded' /\ Waiting' /\ Reads'
  BY DEF AllStopped, slots, actor, event, reading, Counts, Memory, Loaded, Waiting, Reads
<1>2. Resting' /\ Found' /\ NotOld' /\ WasAsked'
  BY SlotsTwo DEF AllStopped, slots, actor, event, reading, Resting, Found, NotOld, WasAsked
<1>3. Places'
  BY PoolAssumption
     DEF AllStopped, slots, actor, event, Places, Counts, Actors, Heads, Free, Trainer, Cold
<1>4. Running'
  BY PoolAssumption
     DEF AllStopped, slots, actor, event, reading, Places, Counts, Running, Actors, Heads, Free,
         Trainer, Cold
<1>5. Holds'
  BY PoolAssumption
     DEF AllStopped, slots, actor, event, Places, Counts, Memory, Holds, Actors, Heads, Free,
         Trainer, Cold
<1>6. Same'
  BY PoolAssumption
     DEF AllStopped, slots, actor, event, Places, Counts, Memory, Same, Written, Holds, Live,
         Writing, Actors, Heads, Free, Trainer, Cold
<1>7. Whole'
  BY PoolAssumption
     DEF AllStopped, slots, actor, event, Places, Counts, Loaded, Whole, Found, Same, Reads, Holds,
         Nets, Live, Writing, Actors, Heads, Free, Trainer, Cold
<1>8. WholeQueue'
  BY PoolAssumption
     DEF AllStopped, slots, actor, event, Places, Counts, Waiting, WholeQueue, Whole, Nets,
         Episodes, Live, Writing, Actors, Heads, Free, Trainer, Cold
<1>9. Written'
  BY PoolAssumption
     DEF AllStopped, slots, actor, event, Places, Counts, Memory, Written, Live, Writing, Actors,
         Heads, Free, Trainer, Cold
<1>10. After'
  BY PoolAssumption
     DEF AllStopped, slots, actor, event, Places, Counts, Running, After, Actors, Heads, Free,
         Trainer, Cold
<1>11. Follows'
  BY PoolAssumption
     DEF AllStopped, slots, actor, event, Places, Counts, Running, Loaded, Follows, Found, NotOld,
         WasAsked, Resting, Same, Reads, Holds, Nets, Live, Writing, Actors, Heads, Free,
         Trainer, Cold
<1>12. FollowsQueue'
  BY PoolAssumption
     DEF AllStopped, slots, actor, event, Places, Counts, Waiting, FollowsQueue, Follows, Nets,
         Episodes, Live, Writing, Actors, Heads, Free, Trainer, Cold
<1>13. Prefix'
  BY PoolAssumption
     DEF AllStopped, slots, actor, event, Places, Counts, Prefix, Live, Writing, Actors, Heads,
         Free, Trainer, Cold
<1>14. Known'
  BY PoolAssumption
     DEF AllStopped, slots, actor, event, Places, Counts, Running, Known, Live, Writing, Actors,
         Heads, Free, Trainer, Cold
<1>15. Stopped'
  BY PoolAssumption
     DEF AllStopped, slots, actor, event, Places, Counts, Running, Stopped, Prefix, Live, Writing,
         Actors, Heads, Free, Trainer, Cold
<1>16. Closed'
  BY PoolAssumption
     DEF AllStopped, slots, actor, event, Places, Counts, Running, Closed, Stopped, Prefix, Live,
         Writing, Actors, Heads, Free, Trainer, Cold
<1> QED
  BY <1>1, <1>2, <1>3, <1>4, <1>5, <1>6, <1>7, <1>8, <1>9, <1>10, <1>11, <1>12, <1>13, <1>14,
     <1>15, <1>16

LEMMA JoinedStep == ASSUME IInv, Joined PROVE IInv'
<1> USE DEF IInv, Types, Locks, Copies, Ages, Lists
<1>1. Counts' /\ Memory' /\ Running' /\ Loaded' /\ Waiting'
  BY DEF Joined, slots, actor, event, reading, Counts, Memory, Running, Loaded, Waiting
<1>2. Reads' /\ Resting' /\ Found' /\ NotOld' /\ WasAsked'
  BY SlotsTwo DEF Joined, slots, actor, event, reading, Reads, Resting, Found, NotOld, WasAsked
<1>3. Places'
  BY PoolAssumption
     DEF Joined, slots, actor, event, Places, Counts, Running, Actors, Heads, Free, Trainer, Cold
<1>4. Holds'
  BY PoolAssumption
     DEF Joined, slots, actor, event, Places, Counts, Memory, Running, Holds, Actors, Heads, Free,
         Trainer, Cold
<1>5. Same'
  BY PoolAssumption
     DEF Joined, slots, actor, event, Places, Counts, Memory, Running, Same, Written, Holds, Live,
         Writing, Actors, Heads, Free, Trainer, Cold
<1>6. Whole'
  BY PoolAssumption
     DEF Joined, slots, actor, event, Places, Counts, Running, Loaded, Whole, Found, Same, Reads,
         Holds, Nets, Live, Writing, Actors, Heads, Free, Trainer, Cold
<1>7. WholeQueue'
  BY PoolAssumption
     DEF Joined, slots, actor, event, Places, Counts, Running, Waiting, WholeQueue, Whole, Nets,
         Episodes, Live, Writing, Actors, Heads, Free, Trainer, Cold
<1>8. Written'
  BY PoolAssumption
     DEF Joined, slots, actor, event, Places, Counts, Memory, Running, Written, Live, Writing,
         Actors, Heads, Free, Trainer, Cold
<1>9. After'
  BY PoolAssumption
     DEF Joined, slots, actor, event, Places, Counts, Running, After, Actors, Heads, Free, Trainer,
         Cold
<1>10. Follows'
  BY PoolAssumption
     DEF Joined, slots, actor, event, Places, Counts, Running, Loaded, Follows, Found, NotOld,
         WasAsked, Resting, Same, Reads, Holds, Nets, Live, Writing, Actors, Heads, Free,
         Trainer, Cold
<1>11. FollowsQueue'
  BY PoolAssumption
     DEF Joined, slots, actor, event, Places, Counts, Running, Waiting, FollowsQueue, Follows, Nets,
         Episodes, Live, Writing, Actors, Heads, Free, Trainer, Cold
<1>12. Prefix'
  BY PoolAssumption
     DEF Joined, slots, actor, event, Places, Counts, Running, Prefix, Live, Writing, Actors, Heads,
         Free, Trainer, Cold
<1>13. Known'
  BY PoolAssumption
     DEF Joined, slots, actor, event, Places, Counts, Running, Known, Live, Writing, Actors, Heads,
         Free, Trainer, Cold
<1>14. Stopped'
  BY PoolAssumption
     DEF Joined, slots, actor, event, Places, Counts, Running, Stopped, Prefix, Live, Writing,
         Actors, Heads, Free, Trainer, Cold
<1>15. Closed'
  BY PoolAssumption
     DEF Joined, slots, actor, event, Places, Counts, Running, Closed, Stopped, Prefix, Live,
         Writing, Actors, Heads, Free, Trainer, Cold
<1> QED
  BY <1>1, <1>2, <1>3, <1>4, <1>5, <1>6, <1>7, <1>8, <1>9, <1>10, <1>11, <1>12, <1>13, <1>14,
     <1>15

LEMMA TerminateStep == ASSUME IInv, Terminate PROVE IInv'
<1> USE DEF IInv, Types, Locks, Copies, Ages, Lists
<1>1. Counts' /\ Memory'
  BY DEF Terminate, Ends, slots, actor, event, Counts, Memory
<1>2. Waiting' /\ NotOld'
  BY SlotsTwo DEF Terminate, Ends, slots, actor, event, Waiting, NotOld
<1>3. Places'
  BY PoolAssumption
     DEF Terminate, Ends, slots, actor, event, Places, Counts, Running, Actors, Heads, Free,
         Trainer, Cold, Untrained
<1>4. Running'
  <2>1. at \in Actors
    BY DEF Terminate, Places
  <2>2. CASE Ends(at)
    BY <2>1, <2>2 DEF Terminate, Ends, event, Running, Heads, Cold
  <2>3. CASE UNCHANGED <<proc, apc, reading, mine, asked>>
    BY <2>3 DEF Terminate, event, reading, Running, Heads, Cold
  <2> QED BY <2>2, <2>3 DEF Terminate
<1>5. Loaded'
  <2>1. at \in Actors
    BY DEF Terminate, Places
  <2>2. CASE Ends(at)
    BY <2>1, <2>2 DEF Terminate, Ends, Loaded, Nets, Untrained, Heads
  <2>3. CASE UNCHANGED <<proc, apc, reading, mine, asked>>
    BY <2>3 DEF Terminate, Loaded, Nets, Untrained, Heads
  <2> QED BY <2>2, <2>3 DEF Terminate
<1>6. Holds'
  BY PoolAssumption
     DEF Terminate, Ends, slots, actor, event, Places, Counts, Memory, Running, Holds, Actors,
         Heads, Free, Trainer, Cold, Untrained
<1>7. Reads'
  BY PoolAssumption
     DEF Terminate, Ends, slots, actor, event, reading, Places, Counts, Memory, Running, Reads,
         Holds, Resting, Actors, Heads, Free, Trainer, Cold, Untrained
<1>8. Resting'
  BY SlotsTwo, PoolAssumption
     DEF Terminate, Ends, slots, actor, event, reading, Places, Counts, Running, Resting, Actors,
         Heads, Free, Trainer, Cold, Untrained
<1>9. Found'
  BY PoolAssumption
     DEF Terminate, Ends, slots, actor, event, reading, Places, Counts, Memory, Running, Found,
         Reads, Actors, Heads, Free, Trainer, Cold, Untrained
<1>10. Same'
  BY PoolAssumption
     DEF Terminate, Ends, slots, actor, event, Places, Counts, Memory, Running, Same, Written,
         Holds, Live, Writing, Actors, Heads, Free, Trainer, Cold, Untrained
<1>11. Whole'
  BY PoolAssumption
     DEF Terminate, Ends, slots, actor, event, Places, Counts, Running, Loaded, Whole, Found, Same,
         Reads, Holds, Nets, Live, Writing, Actors, Heads, Free, Trainer, Cold, Untrained
<1>12. WholeQueue'
  BY PoolAssumption
     DEF Terminate, Ends, slots, actor, event, Places, Counts, Running, Waiting, WholeQueue, Whole,
         Nets, Episodes, Live, Writing, Actors, Heads, Free, Trainer, Cold, Untrained
<1>13. Written'
  BY PoolAssumption
     DEF Terminate, Ends, slots, actor, event, Places, Counts, Memory, Running, Written, Live,
         Writing, Actors, Heads, Free, Trainer, Cold, Untrained
<1>14. After'
  BY PoolAssumption
     DEF Terminate, Ends, slots, actor, event, Places, Counts, Running, After, Actors, Heads, Free,
         Trainer, Cold, Untrained
<1>15. WasAsked'
  <2>1. at \in Actors
    BY DEF Terminate, Places
  <2>2. CASE Ends(at)
    BY <2>1, <2>2 DEF Terminate, Ends, Counts, Loaded, WasAsked
  <2>3. CASE UNCHANGED <<proc, apc, reading, mine, asked>>
    BY <2>3 DEF Terminate, Counts, Loaded, WasAsked
  <2> QED BY <2>2, <2>3 DEF Terminate
<1>16. Follows'
  BY PoolAssumption
     DEF Terminate, Ends, slots, actor, event, Places, Counts, Running, Loaded, Follows, Found,
         NotOld, WasAsked, Resting, Same, Reads, Holds, Nets, Live, Writing, Actors, Heads, Free,
         Trainer, Cold, Untrained
<1>17. FollowsQueue'
  BY PoolAssumption
     DEF Terminate, Ends, slots, actor, event, Places, Counts, Running, Waiting, FollowsQueue,
         Follows, Nets, Episodes, Live, Writing, Actors, Heads, Free, Trainer, Cold, Untrained
<1>18. Prefix'
  BY PoolAssumption
     DEF Terminate, Ends, slots, actor, event, Places, Counts, Running, Prefix, Live, Writing,
         Actors, Heads, Free, Trainer, Cold, Untrained
<1>19. Known'
  BY PoolAssumption
     DEF Terminate, Ends, slots, actor, event, Places, Counts, Running, Known, Live, Writing,
         Actors, Heads, Free, Trainer, Cold, Untrained
<1>20. Stopped'
  BY PoolAssumption
     DEF Terminate, Ends, slots, actor, event, Places, Counts, Running, Stopped, Prefix, Live,
         Writing, Actors, Heads, Free, Trainer, Cold, Untrained
<1>21. Closed'
  BY PoolAssumption
     DEF Terminate, Ends, slots, actor, event, Places, Counts, Running, Closed, Stopped, Prefix,
         Live, Writing, Actors, Heads, Free, Trainer, Cold, Untrained
<1> QED
  BY <1>1, <1>2, <1>3, <1>4, <1>5, <1>6, <1>7, <1>8, <1>9, <1>10, <1>11, <1>12, <1>13, <1>14,
     <1>15, <1>16, <1>17, <1>18, <1>19, <1>20, <1>21

LEMMA KillStep == ASSUME IInv, Kill PROVE IInv'
<1> USE DEF IInv, Types, Locks, Copies, Ages, Lists
<1>1. Counts' /\ Memory'
  BY DEF Kill, Ends, slots, actor, event, Counts, Memory
<1>2. Waiting' /\ NotOld'
  BY SlotsTwo DEF Kill, Ends, slots, actor, event, Waiting, NotOld
<1>3. Places'
  BY PoolAssumption
     DEF Kill, Ends, slots, actor, event, Places, Counts, Running, Actors, Heads, Free, Trainer,
         Cold, Untrained
<1>4. Running'
  BY PoolAssumption
     DEF Kill, Ends, slots, actor, event, Places, Counts, Running, Actors, Heads, Free, Trainer,
         Cold, Untrained
<1>5. Loaded'
  BY PoolAssumption
     DEF Kill, Ends, slots, actor, event, Places, Counts, Running, Loaded, Nets, Actors, Heads,
         Free, Trainer, Cold, Untrained
<1>6. Holds'
  BY PoolAssumption
     DEF Kill, Ends, slots, actor, event, Places, Counts, Memory, Running, Holds, Actors, Heads,
         Free, Trainer, Cold, Untrained
<1>7. Reads'
  BY PoolAssumption
     DEF Kill, Ends, slots, actor, event, Places, Counts, Memory, Running, Reads, Holds, Resting,
         Actors, Heads, Free, Trainer, Cold, Untrained
<1>8. Resting'
  BY SlotsTwo, PoolAssumption
     DEF Kill, Ends, slots, actor, event, Places, Counts, Running, Resting, Actors, Heads, Free,
         Trainer, Cold, Untrained
<1>9. Found'
  BY PoolAssumption
     DEF Kill, Ends, slots, actor, event, Places, Counts, Memory, Running, Found, Reads, Actors,
         Heads, Free, Trainer, Cold, Untrained
<1>10. Same'
  BY PoolAssumption
     DEF Kill, Ends, slots, actor, event, Places, Counts, Memory, Running, Same, Written, Holds,
         Live, Writing, Actors, Heads, Free, Trainer, Cold, Untrained
<1>11. Whole'
  BY PoolAssumption
     DEF Kill, Ends, slots, actor, event, Places, Counts, Running, Loaded, Whole, Found, Same,
         Reads, Holds, Nets, Live, Writing, Actors, Heads, Free, Trainer, Cold, Untrained
<1>12. WholeQueue'
  BY PoolAssumption
     DEF Kill, Ends, slots, actor, event, Places, Counts, Running, Waiting, WholeQueue, Whole, Nets,
         Episodes, Live, Writing, Actors, Heads, Free, Trainer, Cold, Untrained
<1>13. Written'
  BY PoolAssumption
     DEF Kill, Ends, slots, actor, event, Places, Counts, Memory, Running, Written, Live, Writing,
         Actors, Heads, Free, Trainer, Cold, Untrained
<1>14. After'
  BY PoolAssumption
     DEF Kill, Ends, slots, actor, event, Places, Counts, Running, After, Actors, Heads, Free,
         Trainer, Cold, Untrained
<1>15. WasAsked'
  BY PoolAssumption
     DEF Kill, Ends, slots, actor, event, Places, Counts, Running, Loaded, WasAsked, Nets, Actors,
         Heads, Free, Trainer, Cold, Untrained
<1>16. Follows'
  BY PoolAssumption
     DEF Kill, Ends, slots, actor, event, Places, Counts, Running, Loaded, Follows, Found, NotOld,
         WasAsked, Resting, Same, Reads, Holds, Nets, Live, Writing, Actors, Heads, Free,
         Trainer, Cold, Untrained
<1>17. FollowsQueue'
  BY PoolAssumption
     DEF Kill, Ends, slots, actor, event, Places, Counts, Running, Waiting, FollowsQueue, Follows,
         Nets, Episodes, Live, Writing, Actors, Heads, Free, Trainer, Cold, Untrained
<1>18. Prefix'
  BY PoolAssumption
     DEF Kill, Ends, slots, actor, event, Places, Counts, Running, Prefix, Live, Writing, Actors,
         Heads, Free, Trainer, Cold, Untrained
<1>19. Known'
  BY PoolAssumption
     DEF Kill, Ends, slots, actor, event, Places, Counts, Running, Known, Live, Writing, Actors,
         Heads, Free, Trainer, Cold, Untrained
<1>20. Stopped'
  BY PoolAssumption
     DEF Kill, Ends, slots, actor, event, Places, Counts, Running, Stopped, Prefix, Live, Writing,
         Actors, Heads, Free, Trainer, Cold, Untrained
<1>21. Closed'
  BY PoolAssumption
     DEF Kill, Ends, slots, actor, event, Places, Counts, Running, Closed, Stopped, Prefix, Live,
         Writing, Actors, Heads, Free, Trainer, Cold, Untrained
<1> QED
  BY <1>1, <1>2, <1>3, <1>4, <1>5, <1>6, <1>7, <1>8, <1>9, <1>10, <1>11, <1>12, <1>13, <1>14,
     <1>15, <1>16, <1>17, <1>18, <1>19, <1>20, <1>21

LEMMA ReleaseStep == ASSUME IInv, Release PROVE IInv'
<1> USE DEF IInv, Types, Locks, Copies, Ages, Lists
<1>1. Memory' /\ Running' /\ Loaded' /\ Waiting' /\ Reads'
  BY DEF Release, slots, actor, event, reading, Memory, Running, Loaded, Waiting, Reads
<1>2. Resting' /\ Found' /\ NotOld' /\ WasAsked'
  BY SlotsTwo DEF Release, slots, actor, event, reading, Resting, Found, NotOld, WasAsked
<1>3. Places'
  BY PoolAssumption DEF Release, slots, actor, event, Places, Actors, Heads, Free, Trainer, Cold
<1>4. Counts'
  BY PoolAssumption DEF Release, slots, actor, event, Counts, Actors, Heads, Free, Trainer, Cold
<1>5. Holds'
  BY PoolAssumption
     DEF Release, slots, actor, event, Places, Memory, Holds, Actors, Heads, Free, Trainer, Cold
<1>6. Same'
  BY PoolAssumption
     DEF Release, slots, actor, event, Places, Memory, Same, Written, Holds, Live, Writing, Actors,
         Heads, Free, Trainer, Cold
<1>7. Whole'
  BY PoolAssumption
     DEF Release, slots, actor, event, Places, Loaded, Whole, Found, Same, Reads, Holds, Nets, Live,
         Writing, Actors, Heads, Free, Trainer, Cold
<1>8. WholeQueue'
  BY PoolAssumption
     DEF Release, slots, actor, event, Places, Waiting, WholeQueue, Whole, Nets, Episodes, Live,
         Writing, Actors, Heads, Free, Trainer, Cold
<1>9. Written'
  BY PoolAssumption
     DEF Release, slots, actor, event, Places, Counts, Memory, Written, Live, Writing, Actors,
         Heads, Free, Trainer, Cold
<1>10. After'
  BY PoolAssumption
     DEF Release, slots, actor, event, Places, Counts, Running, After, Actors, Heads, Free, Trainer,
         Cold
<1>11. Follows'
  BY PoolAssumption
     DEF Release, slots, actor, event, Places, Running, Loaded, Follows, Found, NotOld, WasAsked,
         Resting, Same, Reads, Holds, Nets, Live, Writing, Actors, Heads, Free, Trainer, Cold
<1>12. FollowsQueue'
  BY PoolAssumption
     DEF Release, slots, actor, event, Places, Waiting, FollowsQueue, Follows, Nets, Episodes, Live,
         Writing, Actors, Heads, Free, Trainer, Cold
<1>13. Prefix'
  BY PoolAssumption
     DEF Release, slots, actor, event, Places, Counts, Prefix, Live, Writing, Actors, Heads, Free,
         Trainer, Cold
<1>14. Known'
  BY PoolAssumption
     DEF Release, slots, actor, event, Places, Counts, Running, Known, Live, Writing, Actors, Heads,
         Free, Trainer, Cold
<1>15. Stopped'
  BY PoolAssumption
     DEF Release, slots, actor, event, Places, Counts, Running, Stopped, Prefix, Live, Writing,
         Actors, Heads, Free, Trainer, Cold
<1>16. Closed'
  BY PoolAssumption
     DEF Release, slots, actor, event, Places, Counts, Running, Closed, Stopped, Prefix, Live,
         Writing, Actors, Heads, Free, Trainer, Cold
<1> QED
  BY <1>1, <1>2, <1>3, <1>4, <1>5, <1>6, <1>7, <1>8, <1>9, <1>10, <1>11, <1>12, <1>13, <1>14,
     <1>15, <1>16

LEMMA ReadAcquireStep == ASSUME IInv, NEW i \in Actors, ReadAcquire(i) PROVE IInv'
<1> USE DEF IInv, Types, Locks, Copies, Ages, Lists
<1>1. Places' /\ Counts' /\ Loaded' /\ Waiting' /\ Same' /\ Whole' /\ WholeQueue' /\ Written'
          /\ NotOld'
  BY SlotsTwo
     DEF ReadAcquire, trainer, slots, actor, event, Places, Counts, Loaded, Waiting, Same, Whole,
         WholeQueue, Written, NotOld
<1>2. After' /\ WasAsked' /\ Follows' /\ FollowsQueue' /\ Prefix' /\ Known' /\ Stopped' /\ Closed'
  BY SlotsTwo
     DEF ReadAcquire, trainer, slots, actor, event, After, WasAsked, Follows, FollowsQueue, Prefix,
         Known, Stopped, Closed
<1>3. Memory'
  BY PoolAssumption
     DEF ReadAcquire, slots, actor, event, Memory, Running, Actors, Heads, Free, Trainer, Cold, Up
<1>4. Running'
  BY PoolAssumption
     DEF ReadAcquire, slots, actor, event, Memory, Running, Actors, Heads, Free, Trainer, Cold, Up
<1>5. Holds'
  BY PoolAssumption
     DEF ReadAcquire, trainer, slots, actor, event, Places, Memory, Running, Holds, Actors, Heads,
         Free, Trainer, Cold, Up
<1>6. Reads'
  BY PoolAssumption
     DEF ReadAcquire, slots, actor, event, Memory, Running, Reads, Holds, Resting, Actors, Heads,
         Free, Trainer, Cold, Up
<1>7. Resting'
  BY SlotsTwo, PoolAssumption
     DEF ReadAcquire, trainer, slots, actor, event, Places, Memory, Running, Resting, Actors, Heads,
         Free, Trainer, Cold, Up
<1>8. Found'
  BY PoolAssumption
     DEF ReadAcquire, slots, actor, event, Memory, Running, Found, Reads, Actors, Heads, Free,
         Trainer, Cold, Up
<1> QED BY <1>1, <1>2, <1>3, <1>4, <1>5, <1>6, <1>7, <1>8

LEMMA ReadHeaderStep == ASSUME IInv, NEW i \in Actors, ReadHeader(i) PROVE IInv'
<1> USE DEF IInv, Types, Locks, Copies, Ages, Lists
<1>1. Places' /\ Counts' /\ Memory' /\ Loaded' /\ Waiting' /\ Holds' /\ Same' /\ Whole'
          /\ WholeQueue' /\ Written'
  BY SlotsTwo
     DEF ReadHeader, trainer, slots, actor, event, Places, Counts, Memory, Loaded, Waiting, Holds,
         Same, Whole, WholeQueue, Written
<1>2. NotOld' /\ After' /\ WasAsked' /\ Follows' /\ FollowsQueue' /\ Prefix' /\ Known'
          /\ Stopped' /\ Closed'
  BY SlotsTwo
     DEF ReadHeader, trainer, slots, actor, event, NotOld, After, WasAsked, Follows, FollowsQueue,
         Prefix, Known, Stopped, Closed
<1>3. Running'
  BY PoolAssumption
     DEF ReadHeader, slots, actor, event, Memory, Running, Actors, Heads, Free, Trainer, Cold, Up
<1>4. Reads'
  BY PoolAssumption
     DEF ReadHeader, slots, actor, event, Memory, Running, Reads, Holds, Resting, Actors, Heads,
         Free, Trainer, Cold, Up
<1>5. Resting'
  BY SlotsTwo, PoolAssumption
     DEF ReadHeader, trainer, slots, actor, event, Places, Memory, Running, Resting, Actors, Heads,
         Free, Trainer, Cold, Up
<1>6. Found'
  BY PoolAssumption
     DEF ReadHeader, slots, actor, event, Memory, Running, Found, Reads, Actors, Heads, Free,
         Trainer, Cold, Up
<1> QED BY <1>1, <1>2, <1>3, <1>4, <1>5, <1>6

LEMMA ReadPayloadStep == ASSUME IInv, NEW i \in Actors, ReadPayload(i) PROVE IInv'
<1> USE DEF IInv, Types, Locks, Copies, Ages, Lists
<1>1. Places' /\ Counts' /\ Waiting' /\ Same' /\ WholeQueue' /\ Written' /\ NotOld'
  BY SlotsTwo
     DEF ReadPayload, trainer, slots, actor, event, Places, Counts, Waiting, Same, WholeQueue,
         Written, NotOld
<1>2. After' /\ WasAsked' /\ FollowsQueue' /\ Prefix' /\ Known' /\ Stopped' /\ Closed'
  BY SlotsTwo
     DEF ReadPayload, trainer, slots, actor, event, After, WasAsked, FollowsQueue, Prefix, Known,
         Stopped, Closed
<1>3. Memory'
  BY PoolAssumption
     DEF ReadPayload, slots, actor, event, Places, Memory, Running, Actors, Heads, Free, Trainer,
         Cold, Up
<1>4. Running'
  <2>1. CASE head[i] < Slots
    BY <2>1, SlotsTwo DEF ReadPayload, event, Running, Heads, Cold
  <2>2. CASE ~(head[i] < Slots)
    BY <2>2 DEF ReadPayload, event, Running, Heads, Cold
  <2> QED BY <2>1, <2>2
<1>5. Loaded'
  BY PoolAssumption
     DEF ReadPayload, slots, actor, event, Places, Memory, Running, Loaded, Nets, Actors, Heads,
         Free, Trainer, Cold, Up
<1>6. Holds'
  <2>1. lock[head[i]] = i /\ i # Trainer
    BY DEF ReadPayload, Reads, Actors, Trainer
  <2> QED BY <2>1 DEF ReadPayload, trainer, Holds, Memory, Running, Places, Heads
<1>7. Reads'
  BY PoolAssumption, SMTT(30)
     DEF ReadPayload, slots, actor, event, Places, Memory, Running, Reads, Holds, Resting, Actors,
         Heads, Free, Trainer, Cold, Up
<1>8. Resting'
  <2>1. CASE head[i] < Slots
    <3>1. head[i] = 1 /\ Slots = 2 /\ apc[i] \in {"boot", "poll"}
      BY <2>1, SlotsTwo DEF ReadPayload, Up, Running, Resting, Heads
    <3> QED BY <2>1, <3>1, SlotsTwo DEF ReadPayload, Up, trainer, Running, Resting, Heads
  <2>2. CASE ~(head[i] < Slots)
    BY <2>2, SlotsTwo DEF ReadPayload, Up, trainer, Running, Resting, Heads
  <2> QED BY <2>1, <2>2
<1>9. Found'
  BY PoolAssumption, SMTT(30)
     DEF ReadPayload, slots, actor, event, Places, Memory, Running, Found, Reads, Actors, Heads,
         Free, Trainer, Cold, Up
<1>10. Whole'
  <2> SUFFICES ASSUME pc \in Live, NEW k \in Actors, NEW h \in Heads
               PROVE  mine'[k][h].body = mine'[k][h].ver
    BY DEF ReadPayload, trainer, Whole
  <2>1. found[i] = header[head[i]] /\ lock[head[i]] = i /\ head[i] \in Heads
    BY DEF ReadPayload, Found, Reads, Running
  <2>2. ~(pc = "payload" /\ at = head[i])
    BY <2>1 DEF Holds, Actors, Trainer
  <2>3. found[i] = payload[head[i]]
    BY <2>1, <2>2 DEF ReadPayload, Same
  <2>4. mine[k][h].body = mine[k][h].ver
    BY DEF Whole
  <2>5. CASE mine' = mine
    BY <2>4, <2>5
  <2>6. CASE mine' = [mine EXCEPT ![i][head[i]] = [ver |-> found[i], body |-> payload[head[i]]]]
    <3>1. CASE k = i /\ h = head[i]
      BY <2>3, <2>6, <3>1 DEF Loaded, Nets
    <3>2. CASE ~(k = i /\ h = head[i])
      <4>1. mine'[k][h] = mine[k][h]
        BY <2>6, <3>2 DEF Loaded, Nets
      <4> QED BY <4>1, <2>4
    <3> QED BY <3>1, <3>2
  <2> QED BY <2>5, <2>6 DEF ReadPayload
<1>11. Follows'
  <2> SUFFICES ASSUME pc \in Live, NEW k \in Actors, NEW h \in 1 .. Slots,
                      apc'[k] \in {"top", "look", "jammed", "put"} \/ h < head'[k]
               PROVE  mine'[k][h].ver >= asked[k]
    BY SlotsTwo DEF ReadPayload, trainer, Follows
  <2>1. /\ found[i] = header[head[i]] /\ head[i] \in 1 .. Slots /\ published > 0
        /\ apc[i] \in {"boot", "poll"} /\ asked[i] \in Nat /\ asked[i] <= published
    BY DEF ReadPayload, Up, Found, Resting, Running, Heads, After, Loaded, WasAsked
  <2>2. found[i] >= asked[i] /\ found[i] \in Nat
    BY <2>1 DEF ReadPayload, NotOld, Memory, Counts, Running, Heads, Cold
  <2>3. h \in Heads /\ head[i] \in Heads
    BY <2>1, SlotsTwo DEF Heads
  <2>4. mine[k][h].ver \in Nat /\ asked[k] \in Nat /\ mine[i][head[i]].ver \in Nat
    BY <2>3 DEF Loaded, Nets
  <2>5. CASE k # i
    <3>1. apc'[k] = apc[k] /\ head'[k] = head[k] /\ mine'[k] = mine[k]
      BY <2>5 DEF ReadPayload, Running, Loaded
    <3> QED BY <3>1 DEF Follows
  <2>6. CASE k = i /\ h = head[i]
    <3>1. CASE mine' = mine /\ ~(found[i] > mine[i][head[i]].ver)
      BY <2>2, <2>4, <2>6, <3>1
    <3>2. CASE mine' = [mine EXCEPT ![i][head[i]] = [ver |-> found[i], body |-> payload[head[i]]]]
      <4>1. mine'[k][h].ver = found[i]
        BY <2>3, <2>6, <3>2 DEF Loaded, Nets
      <4> QED BY <4>1, <2>2, <2>6
    <3> QED BY <3>1, <3>2 DEF ReadPayload
  <2>7. CASE k = i /\ h # head[i]
    <3>1. h < head[i]
      BY <2>1, <2>7, SlotsTwo DEF ReadPayload, Running, Heads
    <3>2. mine'[k][h] = mine[k][h]
      BY <2>3, <2>7 DEF ReadPayload, Loaded, Nets
    <3> QED BY <3>1, <3>2, <2>7 DEF Follows
  <2> QED BY <2>5, <2>6, <2>7
<1> QED BY <1>1, <1>2, <1>3, <1>4, <1>5, <1>6, <1>7, <1>8, <1>9, <1>10, <1>11

LEMMA ReadFailsStep == ASSUME IInv, NEW i \in Actors, ReadFails(i) PROVE IInv'
<1> USE DEF IInv, Types, Locks, Copies, Ages, Lists
<1>1. Places' /\ Counts' /\ Loaded' /\ Waiting' /\ Same' /\ Whole' /\ WholeQueue' /\ Written'
  BY SlotsTwo
     DEF ReadFails, trainer, slots, actor, event, Places, Counts, Loaded, Waiting, Same, Whole,
         WholeQueue, Written
<1>2. NotOld' /\ After' /\ WasAsked' /\ FollowsQueue' /\ Prefix' /\ Known' /\ Stopped' /\ Closed'
  BY SlotsTwo
     DEF ReadFails, trainer, slots, actor, event, NotOld, After, WasAsked, FollowsQueue, Prefix,
         Known, Stopped, Closed
<1>3. Memory'
  BY PoolAssumption
     DEF ReadFails, slots, actor, event, Places, Memory, Running, Actors, Heads, Free, Trainer,
         Cold, Up
<1>4. Running'
  BY PoolAssumption
     DEF ReadFails, slots, actor, event, Places, Memory, Running, Actors, Heads, Free, Trainer,
         Cold, Up
<1>5. Holds'
  <2>1. lock[head[i]] = i /\ i # Trainer
    BY DEF ReadFails, Reads, Actors, Trainer
  <2> QED BY <2>1 DEF ReadFails, trainer, Holds, Memory, Running, Places, Heads
<1>6. Reads'
  <2> SUFFICES ASSUME NEW k \in Actors, step'[k] # "want" PROVE lock'[head'[k]] = k
    BY DEF Reads
  <2>1. k # i /\ step[k] # "want" /\ head'[k] = head[k]
    BY DEF ReadFails, Running
  <2>2. lock[head[k]] = k /\ lock[head[i]] = i
    BY <2>1 DEF ReadFails, Reads
  <2> QED BY <2>1, <2>2 DEF ReadFails, Memory, Running
<1>7. Resting'
  BY SlotsTwo, PoolAssumption
     DEF ReadFails, trainer, slots, actor, event, Places, Memory, Running, Resting, Actors, Heads,
         Free, Trainer, Cold, Up
<1>8. Found'
  BY PoolAssumption
     DEF ReadFails, slots, actor, event, Places, Memory, Running, Found, Reads, Actors, Heads, Free,
         Trainer, Cold, Up
<1>9. Follows'
  <2>1. found[i] = header[head[i]] /\ head[i] \in 1 .. Slots /\ lock[head[i]] = i /\ published > 0
    BY DEF ReadFails, Up, Found, Resting, Running, Heads, Reads, After
  <2>2. header[head[i]] # Cold
    BY <2>1 DEF NotOld, Memory, Counts, Cold
  <2>3. ~(pc = "payload" /\ at = head[i])
    BY <2>1 DEF Holds, Actors, Trainer
  <2>4. pc \notin Live
    BY <2>1, <2>2, <2>3, SlotsTwo DEF ReadFails, Same, Heads
  <2> QED BY <2>4 DEF ReadFails, trainer, Follows
<1> QED BY <1>1, <1>2, <1>3, <1>4, <1>5, <1>6, <1>7, <1>8, <1>9

\* An actor that neither reads nor ends, and the signals it gets.
Strolls(i) ==
  /\ Up(i) /\ stop' \in [Actors -> BOOLEAN] /\ latch' \in [Actors -> BOOLEAN]
  /\ \/ apc' = apc
     \/ /\ apc[i] \in {"top", "look"}
        /\ \E x \in {"look", "jammed", "put"} : apc' = [apc EXCEPT ![i] = x]
  /\ UNCHANGED <<trainer, slots, proc, reading, mine, asked, queue>>

LEMMA StrollStep == ASSUME IInv, NEW i \in Actors, Strolls(i) PROVE IInv'
<1> USE DEF IInv, Types, Locks, Copies, Ages, Lists
<1>1. Places' /\ Counts' /\ Memory' /\ Loaded' /\ Waiting' /\ Holds' /\ Reads' /\ Found'
          /\ Same' /\ Whole'
  BY SlotsTwo
     DEF Strolls, trainer, slots, actor, event, reading, Places, Counts, Memory, Loaded, Waiting,
         Holds, Reads, Found, Same, Whole
<1>2. WholeQueue' /\ Written' /\ NotOld' /\ After' /\ WasAsked' /\ FollowsQueue' /\ Prefix'
          /\ Known' /\ Stopped' /\ Closed'
  BY SlotsTwo
     DEF Strolls, trainer, slots, actor, event, WholeQueue, Written, NotOld, After, WasAsked,
         FollowsQueue, Prefix, Known, Stopped, Closed
<1>3. Running'
  BY PoolAssumption
     DEF Strolls, slots, actor, event, reading, Running, Actors, Heads, Free, Trainer, Cold, Up
<1>4. Resting'
  BY SlotsTwo, PoolAssumption
     DEF Strolls, trainer, slots, actor, event, reading, Places, Running, Resting, Actors, Heads,
         Free, Trainer, Cold, Up
<1>5. Follows'
  <2> SUFFICES ASSUME pc \in Live, NEW k \in Actors, NEW h \in 1 .. Slots,
                      apc'[k] \in {"top", "look", "jammed", "put"} \/ h < head[k]
               PROVE  mine[k][h].ver >= asked[k]
    BY SlotsTwo DEF Strolls, trainer, reading, Follows
  <2>1. apc[k] \in {"top", "look", "jammed", "put"} \/ h < head[k]
    BY DEF Strolls, Running
  <2> QED BY <2>1 DEF Follows
<1> QED BY <1>1, <1>2, <1>3, <1>4, <1>5

LEMMA PlayStep ==
  ASSUME IInv, NEW i \in Actors, Look(i) \/ Play(i) \/ Interrupt(i)
  PROVE  IInv'
<1>1. Running
  BY DEF IInv, Types
<1>2. Strolls(i)
  BY <1>1 DEF Look, Play, Interrupt, Strolls, Running
<1> QED BY <1>2, StrollStep

LEMMA PutStep == ASSUME IInv, NEW i \in Actors, Put(i) PROVE IInv'
<1> USE DEF IInv, Types, Locks, Copies, Ages, Lists
<1>1. Places' /\ Counts' /\ Memory' /\ Holds' /\ Reads' /\ Found' /\ Same' /\ Whole'
  BY SlotsTwo
     DEF Put, trainer, slots, actor, event, reading, Places, Counts, Memory, Holds, Reads, Found,
         Same, Whole
<1>2. Written' /\ NotOld' /\ After' /\ Prefix' /\ Known' /\ Stopped' /\ Closed'
  BY SlotsTwo
     DEF Put, trainer, slots, actor, event, Written, NotOld, After, Prefix, Known, Stopped, Closed
<1>3. Running'
  BY PoolAssumption
     DEF Put, slots, actor, event, reading, Counts, Running, Loaded, Waiting, Nets, Episodes,
         Actors, Heads, Free, Trainer, Cold, Up
<1>4. Loaded'
  BY PoolAssumption
     DEF Put, slots, actor, event, Counts, Running, Loaded, Waiting, Nets, Episodes, Actors, Heads,
         Free, Trainer, Cold, Up
<1>5. Waiting'
  <2>1. [nets |-> mine[i], asked |-> asked[i]] \in Episodes
    BY DEF Loaded, Episodes
  <2> QED BY <2>1, PoolAssumption DEF Put, Waiting
<1>6. Resting'
  BY SlotsTwo DEF Put, Up, reading, Running, Resting, trainer
<1>7. WholeQueue'
  <2>1. /\ pc' = pc /\ kind' = kind /\ queue \in Seq(Episodes)
        /\ queue' = Append(queue, [nets |-> mine[i], asked |-> asked[i]])
    BY DEF Put, trainer, Waiting
  <2>2. \A j \in DOMAIN queue' :
          \/ j \in DOMAIN queue /\ queue'[j] = queue[j]
          \/ queue'[j] = [nets |-> mine[i], asked |-> asked[i]]
    BY <2>1
  <2> QED BY <2>1, <2>2 DEF WholeQueue, Whole
<1>8. WasAsked'
  BY PoolAssumption
     DEF Put, trainer, slots, actor, event, Counts, Running, Loaded, Waiting, WasAsked, Nets,
         Episodes, Actors, Heads, Free, Trainer, Cold, Up
<1>9. Follows'
  <2> SUFFICES ASSUME pc \in Live, NEW k \in Actors, NEW h \in 1 .. Slots,
                      apc'[k] \in {"top", "look", "jammed", "put"} \/ h < head[k]
               PROVE  mine[k][h].ver >= asked'[k]
    BY SlotsTwo DEF Put, trainer, reading, Follows
  <2>1. k # i
    BY DEF Put, Running, Resting
  <2>2. apc'[k] = apc[k] /\ asked'[k] = asked[k]
    BY <2>1 DEF Put, Running, Loaded
  <2> QED BY <2>2 DEF Follows
<1>10. FollowsQueue'
  <2>1. /\ pc' = pc /\ kind' = kind /\ queue \in Seq(Episodes)
        /\ queue' = Append(queue, [nets |-> mine[i], asked |-> asked[i]])
    BY DEF Put, trainer, Waiting
  <2>2. \A j \in DOMAIN queue' :
          \/ j \in DOMAIN queue /\ queue'[j] = queue[j]
          \/ queue'[j] = [nets |-> mine[i], asked |-> asked[i]]
    BY <2>1
  <2>3. pc \in Live => \A h \in 1 .. Slots : mine[i][h].ver >= asked[i]
    BY DEF Put, Follows
  <2> QED BY <2>1, <2>2, <2>3, SlotsTwo DEF FollowsQueue
<1> QED BY <1>1, <1>2, <1>3, <1>4, <1>5, <1>6, <1>7, <1>8, <1>9, <1>10

LEMMA PutFailsStep == ASSUME IInv, NEW i \in Actors, PutFails(i) PROVE IInv'
<1> USE DEF IInv, Types, Locks, Copies, Ages, Lists
<1>1. Places' /\ Counts' /\ Memory' /\ Holds' /\ Reads' /\ Found' /\ Same' /\ Whole'
  BY SlotsTwo
     DEF PutFails, trainer, slots, actor, event, reading, Places, Counts, Memory, Holds, Reads,
         Found, Same, Whole
<1>2. Written' /\ NotOld' /\ After' /\ Prefix' /\ Known' /\ Stopped' /\ Closed'
  BY SlotsTwo
     DEF PutFails, trainer, slots, actor, event, Written, NotOld, After, Prefix, Known, Stopped,
         Closed
<1>3. Running'
  BY PoolAssumption
     DEF PutFails, slots, actor, event, reading, Counts, Running, Loaded, Waiting, Nets, Episodes,
         Actors, Heads, Free, Trainer, Cold, Up
<1>4. Loaded'
  BY PoolAssumption
     DEF PutFails, slots, actor, event, Counts, Running, Loaded, Waiting, Nets, Episodes, Actors,
         Heads, Free, Trainer, Cold, Up
<1>5. Waiting'
  BY DEF PutFails, Waiting
<1>6. Resting'
  BY SlotsTwo DEF PutFails, Up, reading, Running, Resting, trainer
<1>7. WholeQueue'
  BY DEF PutFails, trainer, WholeQueue
<1>8. WasAsked'
  BY PoolAssumption
     DEF PutFails, trainer, slots, actor, event, Counts, Running, Loaded, Waiting, WasAsked, Nets,
         Episodes, Actors, Heads, Free, Trainer, Cold, Up
<1>9. Follows'
  <2> SUFFICES ASSUME pc \in Live, NEW k \in Actors, NEW h \in 1 .. Slots,
                      apc'[k] \in {"top", "look", "jammed", "put"} \/ h < head[k]
               PROVE  mine[k][h].ver >= asked'[k]
    BY SlotsTwo DEF PutFails, trainer, reading, Follows
  <2>1. k # i
    BY DEF PutFails, Running, Resting
  <2>2. apc'[k] = apc[k] /\ asked'[k] = asked[k]
    BY <2>1 DEF PutFails, Running, Loaded
  <2> QED BY <2>2 DEF Follows
<1>10. FollowsQueue'
  BY SlotsTwo DEF PutFails, trainer, FollowsQueue
<1> QED BY <1>1, <1>2, <1>3, <1>4, <1>5, <1>6, <1>7, <1>8, <1>9, <1>10

LEMMA LeaveStep == ASSUME IInv, NEW i \in Actors, Leave(i) PROVE IInv'
<1> USE DEF IInv, Types, Locks, Copies, Ages, Lists
<1>1. Places' /\ Counts' /\ Memory' /\ Waiting' /\ Holds' /\ Same'
  BY SlotsTwo
     DEF Leave, Ends, trainer, slots, actor, event, Places, Counts, Memory, Waiting, Holds, Same
<1>2. WholeQueue' /\ Written' /\ NotOld' /\ FollowsQueue' /\ Prefix'
  BY SlotsTwo
     DEF Leave, Ends, trainer, slots, actor, event, WholeQueue, Written, NotOld, FollowsQueue,
         Prefix
<1>3. Running'
  BY PoolAssumption
     DEF Leave, Ends, slots, actor, event, Running, Actors, Heads, Free, Trainer, Cold, Untrained,
         Up
<1>4. Loaded'
  BY PoolAssumption
     DEF Leave, Ends, slots, actor, event, Running, Loaded, Nets, Actors, Heads, Free, Trainer,
         Cold, Untrained, Up
<1>5. Reads'
  BY PoolAssumption
     DEF Leave, Ends, slots, actor, event, Memory, Running, Reads, Holds, Resting, Actors, Heads,
         Free, Trainer, Cold, Untrained, Up
<1>6. Resting'
  BY SlotsTwo, PoolAssumption
     DEF Leave, Ends, trainer, slots, actor, event, Places, Running, Resting, Actors, Heads, Free,
         Trainer, Cold, Untrained, Up
<1>7. Found'
  BY PoolAssumption
     DEF Leave, Ends, slots, actor, event, Memory, Running, Found, Reads, Actors, Heads, Free,
         Trainer, Cold, Untrained, Up
<1>8. Whole'
  BY DEF Leave, Ends, trainer, Loaded, Whole, Untrained
<1>9. After'
  BY PoolAssumption
     DEF Leave, Ends, trainer, slots, actor, event, Places, Counts, Running, After, Actors, Heads,
         Free, Trainer, Cold, Untrained, Up
<1>10. WasAsked'
  BY PoolAssumption
     DEF Leave, Ends, trainer, slots, actor, event, Counts, Running, Loaded, WasAsked, Nets, Actors,
         Heads, Free, Trainer, Cold, Untrained, Up
<1>11. Follows'
  BY SlotsTwo, PoolAssumption
     DEF Leave, Ends, trainer, slots, actor, event, Places, Running, Loaded, Follows, Found, NotOld,
         WasAsked, Resting, Same, Reads, Holds, Nets, Live, Writing, Actors, Heads, Free,
         Trainer, Cold, Untrained, Up
<1>12. Known'
  BY PoolAssumption
     DEF Leave, Ends, trainer, slots, actor, event, Places, Counts, Running, Known, Live, Writing,
         Actors, Heads, Free, Trainer, Cold, Untrained, Up
<1>13. Stopped'
  BY PoolAssumption
     DEF Leave, Ends, trainer, slots, actor, event, Places, Counts, Running, Stopped, Prefix, Live,
         Writing, Actors, Heads, Free, Trainer, Cold, Untrained, Up
<1>14. Closed'
  BY PoolAssumption
     DEF Leave, Ends, trainer, slots, actor, event, Places, Counts, Running, Closed, Stopped,
         Prefix, Live, Writing, Actors, Heads, Free, Trainer, Cold, Untrained, Up
<1> QED BY <1>1, <1>2, <1>3, <1>4, <1>5, <1>6, <1>7, <1>8, <1>9, <1>10, <1>11, <1>12, <1>13, <1>14

LEMMA DiesStep == ASSUME IInv, NEW i \in Actors, Dies(i) PROVE IInv'
<1> USE DEF IInv, Types, Locks, Copies, Ages, Lists
<1>1. Places' /\ Counts' /\ Memory' /\ Waiting' /\ Holds' /\ Same'
  BY SlotsTwo
     DEF Dies, Ends, trainer, slots, actor, event, Places, Counts, Memory, Waiting, Holds, Same
<1>2. WholeQueue' /\ Written' /\ NotOld' /\ FollowsQueue' /\ Prefix'
  BY SlotsTwo
     DEF Dies, Ends, trainer, slots, actor, event, WholeQueue, Written, NotOld, FollowsQueue, Prefix
<1>3. Running'
  BY PoolAssumption
     DEF Dies, Ends, slots, actor, event, Running, Actors, Heads, Free, Trainer, Cold, Untrained, Up
<1>4. Loaded'
  BY PoolAssumption
     DEF Dies, Ends, slots, actor, event, Running, Loaded, Nets, Actors, Heads, Free, Trainer, Cold,
         Untrained, Up
<1>5. Reads'
  BY PoolAssumption
     DEF Dies, Ends, slots, actor, event, Memory, Running, Reads, Holds, Resting, Actors, Heads,
         Free, Trainer, Cold, Untrained, Up
<1>6. Resting'
  BY SlotsTwo, PoolAssumption
     DEF Dies, Ends, trainer, slots, actor, event, Places, Running, Resting, Actors, Heads, Free,
         Trainer, Cold, Untrained, Up
<1>7. Found'
  BY PoolAssumption
     DEF Dies, Ends, slots, actor, event, Memory, Running, Found, Reads, Actors, Heads, Free,
         Trainer, Cold, Untrained, Up
<1>8. Whole'
  BY DEF Dies, Ends, trainer, Loaded, Whole, Untrained
<1>9. After'
  BY PoolAssumption
     DEF Dies, Ends, trainer, slots, actor, event, Places, Counts, Running, After, Actors, Heads,
         Free, Trainer, Cold, Untrained, Up
<1>10. WasAsked'
  BY PoolAssumption
     DEF Dies, Ends, trainer, slots, actor, event, Counts, Running, Loaded, WasAsked, Nets, Actors,
         Heads, Free, Trainer, Cold, Untrained, Up
<1>11. Follows'
  BY SlotsTwo, PoolAssumption
     DEF Dies, Ends, trainer, slots, actor, event, Places, Running, Loaded, Follows, Found, NotOld,
         WasAsked, Resting, Same, Reads, Holds, Nets, Live, Writing, Actors, Heads, Free,
         Trainer, Cold, Untrained, Up
<1>12. Known'
  BY PoolAssumption
     DEF Dies, Ends, trainer, slots, actor, event, Places, Counts, Running, Known, Live, Writing,
         Actors, Heads, Free, Trainer, Cold, Untrained, Up
<1>13. Stopped'
  BY PoolAssumption
     DEF Dies, Ends, trainer, slots, actor, event, Places, Counts, Running, Stopped, Prefix, Live,
         Writing, Actors, Heads, Free, Trainer, Cold, Untrained, Up
<1>14. Closed'
  BY PoolAssumption
     DEF Dies, Ends, trainer, slots, actor, event, Places, Counts, Running, Closed, Stopped, Prefix,
         Live, Writing, Actors, Heads, Free, Trainer, Cold, Untrained, Up
<1> QED BY <1>1, <1>2, <1>3, <1>4, <1>5, <1>6, <1>7, <1>8, <1>9, <1>10, <1>11, <1>12, <1>13, <1>14

LEMMA InitInvariant == Init => IInv
<1> SUFFICES ASSUME Init PROVE IInv
  OBVIOUS
<1> USE PoolAssumption DEF Init
<1>1. Types
  <2>1. Places
    <3>1. kind \in Kinds /\ building \in BOOLEAN /\ entered \in BOOLEAN
      OBVIOUS
    <3>2. pc = "write" /\ at \in Nat \ {0} /\ at <= Slots
      BY SlotsTwo
    <3> QED BY <3>1, <3>2 DEF Places
  <2>4. Counts /\ Memory
    BY DEF Counts, Memory, Actors, Heads, Free, Trainer, Cold
  <2>2. Running /\ Loaded
    BY DEF Running, Loaded, Nets, Untrained, Heads, Cold
  <2>3. Waiting
    BY DEF Waiting
  <2> QED BY <2>1, <2>2, <2>3, <2>4 DEF Types
<1>2. Locks
  BY SlotsTwo DEF Locks, Holds, Reads, Resting
<1>3. Copies
  BY DEF Copies, Found, Same, Whole, WholeQueue, Untrained, Heads, Cold
<1>4. Ages
  <2>1. Written /\ NotOld /\ After /\ WasAsked
    BY NoneBelow DEF Written, NotOld, After, WasAsked
  <2>2. Follows /\ FollowsQueue
    BY DEF Follows, FollowsQueue
  <2> QED BY <2>1, <2>2 DEF Ages
<1>5. Lists
  BY DEF Lists, Prefix, Known, Stopped, Closed
<1> QED BY <1>1, <1>2, <1>3, <1>4, <1>5 DEF IInv

LEMMA NextInvariant == IInv /\ [Next]_vars => IInv'
<1> SUFFICES ASSUME IInv, [Next]_vars PROVE IInv'
  OBVIOUS
<1>1. CASE Write
  BY <1>1, WriteAcquireStep, WriteHeaderStep, WritePayloadStep DEF Write
<1>2. CASE Driving
  BY <1>2, SpawnStep, ListStep, SetUpStep, CollectStep, SyncWeightsStep, FinishStep, FailureStep
     DEF Driving
<1>3. CASE Closing
  BY <1>3, SetStopStep, AllStoppedStep, JoinedStep, TerminateStep, KillStep, ReleaseStep DEF Closing
<1>4. ASSUME NEW i \in Actors, Acting(i) PROVE IInv'
  BY <1>4, ReadAcquireStep, ReadHeaderStep, ReadPayloadStep, ReadFailsStep, PlayStep, PutStep,
     PutFailsStep, LeaveStep, DiesStep
     DEF Acting
<1>5. CASE UNCHANGED vars
  <2>1. Slots' = Slots
    BY <1>5 DEF vars, trainer, Slots
  <2> USE <1>5, <2>1 DEF vars, trainer, slots, actor, event, reading
  <2>2. Types'
    BY DEF IInv, Types, Places, Counts, Memory, Running, Loaded, Waiting
  <2>3. Locks' /\ Copies'
    BY DEF IInv, Locks, Copies, Holds, Reads, Resting, Found, Same, Whole, WholeQueue
  <2>4. Ages'
    BY DEF IInv, Ages, Written, NotOld, After, WasAsked, Follows, FollowsQueue
  <2>5. Lists'
    BY DEF IInv, Lists, Prefix, Known, Stopped, Closed
  <2> QED BY <2>2, <2>3, <2>4, <2>5 DEF IInv
<1> QED BY <1>1, <1>2, <1>3, <1>4, <1>5 DEF Next

(***************************************************************************)
(* Theorems                                                                *)
(***************************************************************************)
LEMMA Inductive == Spec => []IInv
  BY InitInvariant, NextInvariant, PTL DEF Spec

\* The types of the trainer's state, of the slots, the actors and the queue.
THEOREM TypeCorrect == Spec => []TypeOK
<1>1. IInv => TypeOK
  BY DEF IInv, Types, Places, Counts, Memory, Running, Loaded, Waiting, TypeOK
<1> QED BY <1>1, Inductive, PTL

\* Whatever fails while a slot is half written, and however often, the episodes that
\* the trainer collects were played by networks each of one publication.
THEOREM WholeWeights == Spec => []CollectedWhole
<1>1. IInv => CollectedWhole
  <2> SUFFICES ASSUME IInv, NEW e \in Collectable, NEW h \in 1 .. Slots
               PROVE  e.nets[h].body = e.nets[h].ver
    BY DEF CollectedWhole
  <2>1. pc \in Live /\ \E j \in DOMAIN queue : e = queue[j]
    BY DEF Collectable, Live
  <2>2. h \in Heads
    BY SlotsTwo DEF Heads
  <2> QED BY <2>1, <2>2 DEF IInv, Copies, WholeQueue
<1> QED BY <1>1, Inductive, PTL

\* An episode that is collected was played with weights no older than the last complete
\* publication before its actor's poll.
THEOREM FreshWeights == Spec => []CollectedFresh
<1>1. IInv => CollectedFresh
  <2> SUFFICES ASSUME IInv, NEW e \in Collectable, NEW h \in 1 .. Slots
               PROVE  e.nets[h].ver >= e.asked
    BY DEF CollectedFresh
  <2>1. pc \in Live /\ \E j \in DOMAIN queue : e = queue[j]
    BY DEF Collectable, Live
  <2> QED BY <2>1 DEF IInv, Ages, FollowsQueue
<1> QED BY <1>1, Inductive, PTL

\* When the trainer has ended, after its try or out of CFR's constructor, no actor of the
\* list is up, and none but the one that was being appended.
THEOREM NothingLeft == Spec => []NothingOutlives
<1>1. IInv => NothingOutlives
  BY DEF IInv, Lists, Known, Closed, NothingOutlives
<1> QED BY <1>1, Inductive, PTL
=============================================================================
