----------------------------- MODULE Coroutine -----------------------------
(***************************************************************************)
(* What the continuations of the engine promise: games that keep their     *)
(* stack.  An operation runs by the rules until it is done or asks a       *)
(* player; then the game waits, with its stack, and goes on from there     *)
(* when the player has chosen.  While it waits its hidden state may be     *)
(* sampled anew.  A game can be saved and loaded, into another one too,    *)
(* and each goes on by itself.  What an operation tells is in the log of   *)
(* its game once.                                                          *)
(***************************************************************************)
EXTENDS Naturals, Sequences

CONSTANTS Games, Logged, Snaps, Data, Stack, Ops, Action, Request, Event,
          Does, Moves, Wants, Answer, Legal, Nil

VARIABLES
  data,    \* of each game
  status,  \* idle, running, waiting or failed
  stack,   \* what its operation has left to do
  told,    \* and what it has told so far
  base,    \* how long the log was when it began
  log,     \* of each game
  held,    \* the snapshots somebody holds
  saved    \* and what is in them

game == <<data, status, stack, told, base, log>>

Empty == [data |-> Nil, status |-> "idle", stack |-> Nil, told |-> <<>>, base |-> 0]

Init ==
  /\ data \in [Games -> Data]
  /\ status = [g \in Games |-> "idle"] /\ stack = [g \in Games |-> Nil]
  /\ told = [g \in Games |-> <<>>] /\ base = [g \in Games |-> 0] /\ log = [g \in Games |-> <<>>]
  /\ held = {} /\ saved = [s \in Snaps |-> Empty]

Tell(g, e) ==
  /\ told' = [told EXCEPT ![g] = Append(@, e)]
  /\ log' = IF g \in Logged THEN [log EXCEPT ![g] = Append(@, e)] ELSE log

Begin(g, op) ==
  /\ status[g] = "idle"
  /\ status' = [status EXCEPT ![g] = "running"] /\ stack' = [stack EXCEPT ![g] = op]
  /\ base' = [base EXCEPT ![g] = IF g \in Logged THEN Len(log[g]) ELSE 0]
  /\ UNCHANGED <<data, told, log, held, saved>>

Move(g) ==
  /\ status[g] = "running" /\ Does[data[g], stack[g]] = "go"
  /\ LET m == Moves[data[g], stack[g]] IN
       /\ data' = [data EXCEPT ![g] = m.data] /\ stack' = [stack EXCEPT ![g] = m.stack]
       /\ Tell(g, m.event)
  /\ UNCHANGED <<status, base, held, saved>>

Ask(g) ==
  /\ status[g] = "running" /\ Does[data[g], stack[g]] = "ask"
  /\ status' = [status EXCEPT ![g] = "waiting"]
  /\ UNCHANGED <<data, stack, told, base, log, held, saved>>

\* The operation goes on where it was.  Its log is what it was when the operation
\* began, what the operation has told, and the choice, whatever a game that was
\* loaded in between has left there.
Choose(g, a) ==
  /\ status[g] = "waiting" /\ a \in Legal[data[g], Wants[stack[g]]]
  /\ status' = [status EXCEPT ![g] = "running"]
  /\ stack' = [stack EXCEPT ![g] = Answer[stack[g], a]]
  /\ told' = [told EXCEPT ![g] = Append(@, a)]
  /\ IF g \in Logged
       THEN /\ base[g] <= Len(log[g])
            /\ log' = [log EXCEPT ![g] = SubSeq(@, 1, base[g]) \o Append(told[g], a)]
       ELSE log' = log
  /\ UNCHANGED <<data, base, held, saved>>

Finished(g, s) ==
  /\ status' = [status EXCEPT ![g] = s] /\ stack' = [stack EXCEPT ![g] = Nil]
  /\ told' = [told EXCEPT ![g] = <<>>] /\ base' = [base EXCEPT ![g] = 0]

Done(g) ==
  /\ status[g] = "running" /\ Does[data[g], stack[g]] = "done"
  /\ Finished(g, "idle")
  /\ UNCHANGED <<data, log, held, saved>>

\* A broken rule, or a log that is shorter than it was when the operation began.
\* Nothing else fails a game.
Fail(g) ==
  /\ \/ status[g] = "running" /\ Does[data[g], stack[g]] = "fail"
     \/ status[g] = "waiting" /\ g \in Logged /\ Len(log[g]) < base[g]
  /\ Finished(g, "failed")
  /\ data' \in [Games -> Data] /\ \A h \in Games \ {g} : data'[h] = data[h]
  /\ UNCHANGED <<log, held, saved>>

Sample(g, d) ==
  /\ status[g] \in {"idle", "waiting"}
  /\ data' = [data EXCEPT ![g] = d]
  /\ UNCHANGED <<status, stack, told, base, log, held, saved>>

Save(g, s) ==
  /\ status[g] \in {"idle", "waiting"} /\ s \notin held
  /\ held' = held \cup {s}
  /\ saved' = [saved EXCEPT ![s] = [data |-> data[g], status |-> status[g], stack |-> stack[g],
                                    told |-> told[g], base |-> base[g]]]
  /\ UNCHANGED game

Load(g, s) ==
  /\ status[g] \in {"idle", "waiting"} /\ s \in held
  /\ data' = [data EXCEPT ![g] = saved[s].data]
  /\ status' = [status EXCEPT ![g] = saved[s].status]
  /\ stack' = [stack EXCEPT ![g] = saved[s].stack]
  /\ told' = [told EXCEPT ![g] = saved[s].told]
  /\ base' = [base EXCEPT ![g] = saved[s].base]
  /\ UNCHANGED <<log, held, saved>>

Free(s) ==
  /\ s \in held
  /\ held' = held \ {s} /\ saved' = [saved EXCEPT ![s] = Empty]
  /\ UNCHANGED game

Next ==
  \/ \E g \in Games : \/ Move(g) \/ Ask(g) \/ Done(g) \/ Fail(g)
                      \/ \E op \in Ops : Begin(g, op)
                      \/ \E a \in Action : Choose(g, a)
                      \/ \E d \in Data : Sample(g, d)
                      \/ \E s \in Snaps : Save(g, s) \/ Load(g, s)
  \/ \E s \in Snaps : Free(s)

Spec == Init /\ [][Next]_<<game, held, saved>>
=============================================================================
