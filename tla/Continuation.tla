---------------------------- MODULE Continuation ----------------------------
(***************************************************************************)
(* Suspension of an operation that asks a player (continuation.go), with   *)
(* the pooled snapshots it rests on (game_snap.go).  A game cannot keep    *)
(* its Go stack: it throws the stack away, keeps a snapshot of the state   *)
(* the operation began in and the choices made so far, and on the next     *)
(* choice runs the operation again from there.  At each choice it has made *)
(* before it puts in place the state in which that choice was made, which  *)
(* may have been sampled while the game was waiting.                       *)
(*                                                                         *)
(* Several games, clones of each other, share snapshots and the pool, each *)
(* on a goroutine of its own.  The rules, and the Go and DSL frames of the *)
(* stack, are parameters: what ExecuteEffect demands of them, and all that *)
(* a replay needs, is that they depend on state and stack alone.           *)
(*                                                                         *)
(* The specification's names begin with R, so that one module can speak of *)
(* this one and of TurnFlow.                                               *)
(***************************************************************************)
EXTENDS Integers, Sequences

CONSTANTS
  Games,    \* games and clones
  Logged,   \* those with an event log
  Snaps,    \* GameSnap objects
  Data,     \* gameplay states, with the random streams
  Stack,    \* what an operation can have left to do
  Ops,      \* the operations, as they begin
  Action,   \* a player's choices
  Request,  \* what a player is asked
  Event,    \* entries of the log
  Does,     \* Does[d, k]: what stack k does next in state d, go, ask, be done or fail
  Moves,    \* Moves[d, k]: where it goes, and what it tells
  Wants,    \* Wants[k]: what stack k asks
  Answer,   \* Answer[k, a]: stack k given choice a
  Fits,     \* Fits[a]: what choice a replies to
  Legal,    \* Legal[d, r]: the choices there are
  MaxLog,   \* bound: no operation begins with a log of that length
  Nil

ASSUME ContinuationAssumption ==
  /\ Logged \subseteq Games /\ Ops \subseteq Stack
  /\ Does \in [Data \X Stack -> {"go", "ask", "done", "fail"}]
  /\ Moves \in [Data \X Stack -> [data : Data, stack : Stack, event : Event]]
  /\ Wants \in [Stack -> Request] /\ Answer \in [Stack \X Action -> Stack]
  /\ Fits \in [Action -> Request] /\ Legal \in [Data \X Request -> SUBSET Action]
  /\ \A d \in Data, r \in Request : \A a \in Legal[d, r] : Fits[a] = r
  /\ MaxLog \in Nat /\ Nil \notin Stack \cup Request \cup Snaps \cup Games \cup Data

VARIABLES
  data,     \* gameplay state of each game
  pending,  \* PendingAction or PendingDice
  status,   \* idle; running: g.executing is set; waiting: g.resume is; failed: g.Failure is
  cont,     \* the continuation in g.executing or g.resume
  stack,    \* Go and DSL frames of the running operation
  next,     \* execution.next: the choice to be taken next
  log,      \* entries of the event log
  snap,     \* contents of each snapshot
  free,     \* snapshots in the pool, or not allocated
  held,     \* snapshots somebody took and has not released
  at,       \* history: how far the operation is on the path of cont
  kept      \* history: the log when the operation was resumed

play == <<data, pending, status, cont, stack, next>>
pool == <<snap, free, held>>
RVars == <<play, log, pool, at, kept>>

\* A continuation.  Its log boundary is the game whose log it is and a length; its
\* path is history, the states of the operation so far as if it had never stopped.
NoCont == [root |-> Nil, op |-> Nil, choices |-> <<>>, of |-> Nil, base |-> 0, path |-> <<>>]

NoSnap == [data |-> Nil, pending |-> Nil, status |-> "idle", cont |-> NoCont]

\* A place on the path: state, stack, what has been told, how many choices it took.
Place(d, k, told, used) == [data |-> d, stack |-> k, told |-> told, used |-> used]

RInit ==
  /\ data \in [Games -> Data] /\ pending = [g \in Games |-> Nil]
  /\ status = [g \in Games |-> "idle"] /\ cont = [g \in Games |-> NoCont]
  /\ stack = [g \in Games |-> Nil] /\ next = [g \in Games |-> 1]
  /\ log = [g \in Games |-> <<>>]
  /\ snap = [s \in Snaps |-> NoSnap]
  /\ free = Snaps /\ held = {}
  /\ at = [g \in Games |-> 0] /\ kept = [g \in Games |-> <<>>]

Quiescent(g) == status[g] \in {"idle", "waiting"}
Chosen(g)    == Len(cont[g].choices)

\* The log is told; the path grows where it ends.
Tell(g, e) == log' = IF g \in Logged THEN [log EXCEPT ![g] = Append(@, e)] ELSE log
Follow(g, p) ==
  /\ at' = [at EXCEPT ![g] = @ + 1]
  /\ data' = [data EXCEPT ![g] = p.data] /\ stack' = [stack EXCEPT ![g] = p.stack]
  /\ cont' = IF at[g] < Len(cont[g].path) THEN cont
             ELSE [cont EXCEPT ![g].path = Append(@, p)]

Here(g) == cont[g].path[at[g]]

(***************************************************************************)
(* runBoundary and runExecution                                            *)
(***************************************************************************)
\* The state in which the operation begins is kept in a snapshot.
Begin(g, op) ==
  /\ status[g] = "idle" /\ Len(log[g]) < MaxLog
  /\ \E s \in free :
       /\ snap' = [snap EXCEPT ![s] = [data |-> data[g], pending |-> pending[g],
                                       status |-> "idle", cont |-> NoCont]]
       /\ free' = free \ {s}
       /\ cont' = [cont EXCEPT ![g] =
            [root |-> s, op |-> op, choices |-> <<>>,
             of |-> IF g \in Logged THEN g ELSE Nil,
             base |-> IF g \in Logged THEN Len(log[g]) ELSE 0,
             path |-> <<Place(data[g], op, <<>>, 0)>>]]
  /\ status' = [status EXCEPT ![g] = "running"] /\ stack' = [stack EXCEPT ![g] = op]
  /\ next' = [next EXCEPT ![g] = 1] /\ at' = [at EXCEPT ![g] = 1]
  /\ UNCHANGED <<data, pending, log, held, kept>>

Move(g) ==
  /\ status[g] = "running" /\ Does[data[g], stack[g]] = "go"
  /\ LET m == Moves[data[g], stack[g]] IN
       /\ Follow(g, Place(m.data, m.stack, Append(Here(g).told, m.event), next[g] - 1))
       /\ Tell(g, m.event)
  /\ UNCHANGED <<pending, status, next, pool, kept>>

Stops(g, s) ==
  /\ status' = [status EXCEPT ![g] = s] /\ stack' = [stack EXCEPT ![g] = Nil]
  /\ next' = [next EXCEPT ![g] = 1] /\ at' = [at EXCEPT ![g] = 0]
  /\ kept' = [kept EXCEPT ![g] = <<>>]

\* requestDeferredInput and requestDiceInput with no choice left: the panic unwinds
\* the stack, and the continuation becomes g.resume.
Suspend(g) ==
  /\ status[g] = "running" /\ Does[data[g], stack[g]] = "ask" /\ next[g] > Chosen(g)
  /\ pending' = [pending EXCEPT ![g] = Wants[stack[g]]]
  /\ Stops(g, "waiting")
  /\ UNCHANGED <<data, cont, log, pool>>

\* Mutant: the random state of the reconstruction goes on.
TakeChoice_KeepData(g) ==
  /\ status[g] = "running" /\ Does[data[g], stack[g]] = "ask" /\ next[g] <= Chosen(g)
  /\ LET c == cont[g].choices[next[g]] IN
       /\ Fits[c.action] = Wants[stack[g]]
       /\ Follow(g, Place(data[g], Answer[stack[g], c.action],
                          Append(Here(g).told, c.action), next[g]))
       /\ Tell(g, c.action)
  /\ next' = [next EXCEPT ![g] = @ + 1]
  /\ pending' = [pending EXCEPT ![g] = Nil]
  /\ UNCHANGED <<status, pool, kept>>
\* The same with a choice that has been made: it is put into the state it was made in.
TakeChoice(g) ==
  /\ status[g] = "running" /\ Does[data[g], stack[g]] = "ask" /\ next[g] <= Chosen(g)
  /\ LET c == cont[g].choices[next[g]] IN
       /\ Fits[c.action] = Wants[stack[g]]
       /\ Follow(g, Place(snap[c.state].data, Answer[stack[g], c.action],
                          Append(Here(g).told, c.action), next[g]))
       /\ Tell(g, c.action)
  /\ next' = [next EXCEPT ![g] = @ + 1]
  /\ pending' = [pending EXCEPT ![g] = Nil]
  /\ UNCHANGED <<status, pool, kept>>

\* To the pool; what is in it no longer counts.
Release(s) == free' = free \cup {s} /\ snap' = [snap EXCEPT ![s] = NoSnap]

\* Mutant: a resumed operation releases its root too.
Finish_Release(g) ==
  /\ status[g] = "running" /\ Does[data[g], stack[g]] = "done" /\ next[g] > Chosen(g)
  /\ Release(cont[g].root)
  /\ cont' = [cont EXCEPT ![g] = NoCont]
  /\ Stops(g, "idle")
  /\ UNCHANGED <<data, pending, log, held>>
\* The first execution releases its root, a resumed one shares it with others.
Finish(g) ==
  /\ status[g] = "running" /\ Does[data[g], stack[g]] = "done" /\ next[g] > Chosen(g)
  /\ IF Chosen(g) = 0 THEN Release(cont[g].root) ELSE UNCHANGED <<free, snap>>
  /\ cont' = [cont EXCEPT ![g] = NoCont]
  /\ Stops(g, "idle")
  /\ UNCHANGED <<data, pending, log, held>>

\* FailRule: a broken rule, or a replay that does not meet its recorded choices.
Lost(g) ==
  \/ Does[data[g], stack[g]] = "done" /\ next[g] <= Chosen(g)
  \/ /\ Does[data[g], stack[g]] = "ask" /\ next[g] <= Chosen(g)
     /\ Fits[cont[g].choices[next[g]].action] # Wants[stack[g]]

FailRule(g) ==
  /\ status[g] = "running" /\ (Lost(g) \/ Does[data[g], stack[g]] = "fail")
  /\ cont' = [cont EXCEPT ![g] = NoCont]
  /\ Stops(g, "failed")
  /\ UNCHANGED <<data, pending, log, pool>>

(***************************************************************************)
(* resumeTarget                                                            *)
(***************************************************************************)
\* Mutant: the log keeps what the operation told before.
Rewound_Not(g) == log[g]
\* logBoundary.rewind
Rewound(g) == IF g \in Logged /\ cont[g].of = g THEN SubSeq(log[g], 1, cont[g].base) ELSE log[g]

\* The waiting state is kept with the choice; the game goes back to its root.
ResumeTarget(g, a) ==
  /\ status[g] = "waiting" /\ a \in Legal[data[g], pending[g]]
  /\ \E s \in free :
       /\ snap' = [snap EXCEPT ![s] = [data |-> data[g], pending |-> pending[g],
                                       status |-> "idle", cont |-> NoCont]]
       /\ free' = free \ {s}
       /\ data' = [data EXCEPT ![g] = snap[cont[g].root].data]
       /\ pending' = [pending EXCEPT ![g] = snap[cont[g].root].pending]
       /\ \/ /\ cont[g].of # g \/ cont[g].base <= Len(log[g])
             /\ log' = [log EXCEPT ![g] = Rewound(g)]
             /\ cont' = [cont EXCEPT ![g].choices = Append(@, [state |-> s, action |-> a])]
             /\ status' = [status EXCEPT ![g] = "running"]
             /\ stack' = [stack EXCEPT ![g] = cont[g].op] /\ next' = [next EXCEPT ![g] = 1]
             /\ at' = [at EXCEPT ![g] = 1] /\ kept' = [kept EXCEPT ![g] = log[g]]
          \/ /\ cont[g].of = g /\ Len(log[g]) < cont[g].base
             /\ cont' = [cont EXCEPT ![g] = NoCont]
             /\ Stops(g, "failed") /\ UNCHANGED log
  /\ UNCHANGED held

(***************************************************************************)
(* Snapshots and sampling                                                  *)
(***************************************************************************)
\* SetPlayerHand, SetPlayerDeck, SetSimulationSeed: mostly while a clone waits.
Sample(g, d) ==
  /\ Quiescent(g)
  /\ data' = [data EXCEPT ![g] = d]
  /\ UNCHANGED <<pending, status, cont, stack, next, log, pool, at, kept>>

SnapshotPooled(g) ==
  /\ Quiescent(g)
  /\ \E s \in free :
       /\ snap' = [snap EXCEPT ![s] = [data |-> data[g], pending |-> pending[g],
                                       status |-> status[g], cont |-> cont[g]]]
       /\ free' = free \ {s} /\ held' = held \cup {s}
  /\ UNCHANGED <<play, log, at, kept>>

\* A clone is a game that restores a snapshot of another; it has no log.  A game
\* with a log is only given operations back that began on its log.
RestoreFromSnap(g, s) ==
  /\ Quiescent(g) /\ s \in held
  /\ g \in Logged /\ snap[s].status = "waiting" => snap[s].cont.of = g
  /\ data' = [data EXCEPT ![g] = snap[s].data]
  /\ pending' = [pending EXCEPT ![g] = snap[s].pending]
  /\ status' = [status EXCEPT ![g] = snap[s].status]
  /\ cont' = [cont EXCEPT ![g] = snap[s].cont]
  /\ UNCHANGED <<stack, next, log, pool, at, kept>>

ReleaseSnap(s) ==
  /\ s \in held
  /\ Release(s) /\ held' = held \ {s}
  /\ UNCHANGED <<play, log, at, kept>>

\* The snapshots a continuation points to.
Refs(c) == {c.root} \cup {c.choices[i].state : i \in DOMAIN c.choices}

\* Continuations of games, and those in snapshots that somebody holds.
Live == {cont[g] : g \in {h \in Games : status[h] \in {"running", "waiting"}}}
        \cup {snap[s].cont : s \in {t \in held : snap[t].status = "waiting"}}

\* Go's collector: an object nobody points to is as good as not allocated.
Collect(s) ==
  /\ s \in Snaps \ (free \cup held) /\ \A c \in Live : s \notin Refs(c)
  /\ Release(s)
  /\ UNCHANGED <<play, log, held, at, kept>>

(***************************************************************************)
(* Specification                                                           *)
(***************************************************************************)
Running(g) == Move(g) \/ Suspend(g) \/ TakeChoice(g) \/ Finish(g) \/ FailRule(g)
Owner(g) ==
  \/ \E op \in Ops : Begin(g, op)
  \/ \E a \in Action : ResumeTarget(g, a)
  \/ \E d \in Data : Sample(g, d)
  \/ SnapshotPooled(g)
  \/ \E s \in Snaps : RestoreFromSnap(g, s)

RNext ==
  \/ \E g \in Games : Running(g) \/ Owner(g)
  \/ \E s \in Snaps : ReleaseSnap(s) \/ Collect(s)
RSpec == RInit /\ [][RNext]_RVars

(***************************************************************************)
(* Properties                                                              *)
(***************************************************************************)
Entry == Event \cup Action
Paths == Seq([data : Data, stack : Stack, told : Seq(Entry), used : Nat])
Conts == [root : Snaps, op : Stack, choices : Seq([state : Snaps, action : Action]),
          of : Logged \cup {Nil}, base : Nat, path : Paths]

\* Types; a snapshot is in the pool or in somebody's hands, never both.
RTypeOK ==
  /\ data \in [Games -> Data] /\ pending \in [Games -> Request \cup {Nil}]
  /\ status \in [Games -> {"idle", "running", "waiting", "failed"}]
  /\ cont \in [Games -> Conts \cup {NoCont}]
  /\ \A g \in Games : status[g] \in {"running", "waiting"} <=> cont[g] # NoCont
  /\ stack \in [Games -> Stack \cup {Nil}]
  /\ \A g \in Games : status[g] = "running" <=> stack[g] # Nil
  /\ next \in [Games -> Nat \ {0}] /\ log \in [Games -> Seq(Entry)]
  /\ free \subseteq Snaps /\ held \subseteq Snaps \ free
  /\ \A s \in Snaps \ free :
       /\ snap[s].data \in Data /\ snap[s].pending \in Request \cup {Nil}
       /\ snap[s].status \in {"idle", "waiting"} /\ snap[s].cont \in Conts \cup {NoCont}

\* What a continuation points to is in no pool and in nobody else's hands: however
\* clones, snapshots and games share it and whoever of them is done first, nobody
\* writes to it while it may still be run from.
SharedKept == \A c \in Live : Refs(c) \cap (free \cup held) = {}

\* The operation has not yet come back to where it stopped.
Replaying(g) == status[g] = "running" /\ next[g] <= Chosen(g)

\* What the path of a continuation ends with; none for a game that is idle.
EndOf(c, s) ==
  IF s \in {"running", "waiting"} THEN c.path[Len(c.path)] ELSE Place(Nil, Nil, <<>>, 0)

Kept(s) ==
  IF s \notin held THEN [data |-> Nil, status |-> "idle", stack |-> Nil, told |-> <<>>, base |-> 0]
  ELSE LET x == snap[s] IN
    [data |-> x.data, status |-> x.status, stack |-> EndOf(x.cont, x.status).stack,
     told |-> EndOf(x.cont, x.status).told, base |-> x.cont.base]

\* While an operation is replayed its game still waits, in the state and with the
\* log it had when the player chose; it goes on with that choice.
SeenData   == [g \in Games |-> IF Replaying(g) THEN snap[cont[g].choices[Chosen(g)].state].data
                               ELSE data[g]]
SeenStatus == [g \in Games |-> IF Replaying(g) THEN "waiting" ELSE status[g]]
SeenStack  == [g \in Games |-> EndOf(cont[g], status[g]).stack]
SeenTold   == [g \in Games |-> EndOf(cont[g], status[g]).told]
SeenBase   == [g \in Games |-> cont[g].base]
SeenLog    == [g \in Games |-> IF Replaying(g) THEN kept[g] ELSE log[g]]
SeenSaved  == [s \in Snaps |-> Kept(s)]

Coroutines == INSTANCE Coroutine WITH
  data <- SeenData, status <- SeenStatus, stack <- SeenStack, told <- SeenTold,
  base <- SeenBase, log <- SeenLog, saved <- SeenSaved

\* A game that was suspended is one that never was: it goes on from the state it
\* waited in, as sampled there, with the stack it had, its log tells everything
\* once, and replays neither fail nor change another game.
ImplementsCoroutine == Coroutines!Spec
=============================================================================
