------------------------------ MODULE TurnFlow ------------------------------
(***************************************************************************)
(* The turn and round driver of the game engine (gicg_engine): Step,       *)
(* GetLegalActions and StepTarget, the execute handlers behind them,       *)
(* flipTurn, prepared skills, NewRound and EndPhase.                       *)
(*                                                                         *)
(* The card and character rules are DSL hooks.  They are abstracted to     *)
(* what they can do to the state below: defeat a character, switch one in, *)
(* queue a prepared skill, and make an action fast.  `task` is the Go      *)
(* stack of the running Step: what its handlers have still to do, next     *)
(* item first.  While its head is a stage of rules, rules act, and a       *)
(* defeat can suspend the Step until the owner has chosen a replacement    *)
(* (`asking`, the PendingAction of the code); the handlers then go on.     *)
(*                                                                         *)
(* Dice, hands and costs are left out, and with them Tune, which changes   *)
(* nothing else.  Rules of the start of a round only touch dice, cards and *)
(* counters (no hook under data/ does more), so NewRound is one step.      *)
(***************************************************************************)
EXTENDS Integers, Sequences, FiniteSets

CONSTANTS TeamSize,      \* characters of a player
          TimeoutRound,  \* the round whose end decides the game (10 in timeout.lua)
          MaxRounds      \* the configured cap on rounds, 0 for none

ASSUME TurnAssumption ==
  /\ TeamSize \in Nat \ {0}
  /\ TimeoutRound \in Nat \ {0}
  /\ MaxRounds \in Nat

Player   == {0, 1}
Char     == 0 .. TeamSize - 1
Nobody   == -1
Draw     == 2
Other(p) == 1 - p

VARIABLES
  phase,        \* Game.Phase
  round,        \* Game.Round
  turn,         \* Game.Turn
  firstEnd,     \* Game.FirstEnd: who ended the round first
  declaredEnd,  \* Players[p].DeclaredEnd
  preparing,    \* whether Game.Preparing[p] holds a skill
  active,       \* Players[p].ActiveChar
  alive,        \* Players[p].Chars: those alive
  winner,       \* Game.Winner
  asking,       \* who must choose a replacement before the Step goes on
  task,         \* the stages and calls left in the running Step
  mover         \* history: who made the last battle action of the round

field == <<active, alive>>
ends  == <<firstEnd, declaredEnd>>
vars  == <<phase, round, turn, ends, preparing, field, winner, asking, task, mover>>

Phases    == {"SelectActive", "RoundStart", "Action", "RoundEnd", "GameOver"}
StepRules == {"skill", "card", "switch"}           \* the rules an action fires
EndRules  == {"roundEnd", "postSummon", "decay"}   \* the first stages of EndPhase
Rules     == StepRules \cup EndRules \cup {"prepared"}
Calls     == {"flipTurn", "resolvePreparing", "checkActionPhaseEnd", "final"}

Init ==
  /\ phase = "SelectActive" /\ round = 0 /\ turn = 0
  /\ firstEnd = Nobody /\ declaredEnd = [p \in Player |-> FALSE]
  /\ preparing = [p \in Player |-> FALSE]
  /\ active = [p \in Player |-> Nobody]
  /\ alive  = [p \in Player |-> Char]
  /\ winner = Nobody /\ asking = Nobody /\ task = <<>> /\ mover = Nobody

(***************************************************************************)
(* What a player chooses, when no handler runs                             *)
(***************************************************************************)
SelectActive(c) ==
  /\ phase = "SelectActive" /\ c \in alive[turn]
  /\ active' = [active EXCEPT ![turn] = c]
  /\ IF active[Other(turn)] = Nobody
       THEN turn' = Other(turn) /\ UNCHANGED phase
       ELSE turn' = 0 /\ phase' = "RoundStart"
  /\ UNCHANGED <<round, ends, preparing, alive, winner, asking, task, mover>>

\* The first query or step of a round.
NewRound ==
  /\ phase = "RoundStart"
  /\ round' = round + 1
  /\ turn' = IF firstEnd # Nobody THEN firstEnd ELSE turn
  /\ phase' = "Action"
  /\ firstEnd' = Nobody
  /\ declaredEnd' = [p \in Player |-> FALSE]
  /\ mover' = Nobody
  /\ UNCHANGED <<preparing, field, winner, asking, task>>

MayAct == phase = "Action" /\ task = <<>>

\* An action fires its rules; a battle action then flips the turn.
Act(kind, battle) ==
  /\ MayAct
  /\ task' = IF battle THEN <<kind, "flipTurn", "checkActionPhaseEnd">>
                       ELSE <<kind, "checkActionPhaseEnd">>
  /\ UNCHANGED <<phase, round, turn, ends, preparing, alive, winner, asking, mover>>

UseSkill(battle) ==
  active[turn] \in alive[turn] /\ Act("skill", battle) /\ UNCHANGED active

PlayCard(battle) == Act("card", battle) /\ UNCHANGED active

Switch(c, battle) ==
  /\ c \in alive[turn] \ {active[turn]}
  /\ Act("switch", battle)
  /\ active' = [active EXCEPT ![turn] = c]

BothEnded(ended) == \A p \in Player : ended[p]
EndPhaseTask     == <<"roundEnd", "postSummon", "decay", "final">>

EndTurn ==
  /\ MayAct
  /\ declaredEnd' = [declaredEnd EXCEPT ![turn] = TRUE]
  /\ firstEnd' = IF ~declaredEnd[turn] /\ firstEnd = Nobody THEN turn ELSE firstEnd
  /\ IF BothEnded(declaredEnd')
       THEN phase' = "RoundEnd" /\ task' = EndPhaseTask /\ UNCHANGED turn
       ELSE turn' = Other(turn) /\ UNCHANGED <<phase, task>>
  /\ UNCHANGED <<round, preparing, field, winner, asking, mover>>

\* The replacement is chosen and the suspended Step goes on: no cost, no flip.
ChooseReplacement(c) ==
  /\ asking # Nobody /\ c \in alive[asking] \ {active[asking]}
  /\ active' = [active EXCEPT ![asking] = c]
  /\ asking' = Nobody
  /\ UNCHANGED <<phase, round, turn, ends, preparing, alive, winner, task, mover>>

(***************************************************************************)
(* What rules do while a stage of them runs                                *)
(***************************************************************************)
InRules   == task # <<>> /\ Head(task) \in Rules /\ asking = Nobody
RulesFire == InRules /\ phase # "GameOver"

\* checkWin
Outcome(left) ==
  CASE left[0] = {} /\ left[1] = {} -> Draw
    [] left[0] = {} /\ left[1] # {} -> 1
    [] left[0] # {} /\ left[1] = {} -> 0
    [] OTHER -> Nobody

\* SetAlive(p, c, false)
Fall(p, c) ==
  /\ c \in alive[p]
  /\ alive' = [alive EXCEPT ![p] = @ \ {c}]
  /\ winner' = Outcome(alive')
  /\ phase' = IF winner' = Nobody THEN phase ELSE "GameOver"
  /\ UNCHANGED <<round, turn, ends, preparing, task, mover>>

\* Mutant of Defeat: any fall asks, the background characters included.
Defeat_AskAlways(p, c) ==
  /\ RulesFire /\ Fall(p, c)
  /\ asking' = IF winner' = Nobody THEN p ELSE Nobody
  /\ UNCHANGED active

\* Only the fall of the active character asks its owner for a replacement.
Defeat(p, c) ==
  /\ RulesFire /\ Fall(p, c)
  /\ asking' = IF winner' = Nobody /\ active[p] = c THEN p ELSE Nobody
  /\ UNCHANGED active

\* d is the living character after c, in seat order.
Seats(c, d)        == (d - c) % TeamSize
NextAlive(p, c, d) == /\ d \in alive[p] \ {c}
                      /\ \A e \in alive[p] \ {c} : Seats(c, d) <= Seats(c, e)

\* A lethal overload switches the next living character in and asks nobody.
DefeatOverloaded(p) ==
  /\ RulesFire /\ Fall(p, active[p])
  /\ IF winner' = Nobody
       THEN \E d \in Char : NextAlive(p, active[p], d) /\ active' = [active EXCEPT ![p] = d]
       ELSE UNCHANGED active
  /\ UNCHANGED asking

ForceSwitchTo(p, c) ==
  /\ RulesFire /\ c \in alive[p] \ {active[p]}
  /\ active' = [active EXCEPT ![p] = c]
  /\ UNCHANGED <<phase, round, turn, ends, preparing, alive, winner, asking, task, mover>>

\* A skill of the acting player queues a prepared skill.
SetPreparing ==
  /\ RulesFire /\ Head(task) = "skill" /\ ~preparing[turn]
  /\ preparing' = [preparing EXCEPT ![turn] = TRUE]
  /\ UNCHANGED <<phase, round, turn, ends, field, winner, asking, task, mover>>

(***************************************************************************)
(* The handlers, from one stage of rules to the next                       *)
(***************************************************************************)
\* A stage ends.  Once the game is over its handler returns, but
\* resolvePreparing goes on to flipTurn without looking.
FinishRules ==
  /\ InRules
  /\ task' = IF phase = "GameOver" /\ Head(task) # "prepared" THEN <<>> ELSE Tail(task)
  /\ UNCHANGED <<phase, round, turn, ends, preparing, field, winner, asking, mover>>

Calling(c) == task # <<>> /\ Head(task) = c

\* Mutant of FlipTurn: without the test of DeclaredEnd.
FlipTurn_Always ==
  /\ Calling("flipTurn")
  /\ turn' = Other(turn) /\ mover' = turn
  /\ task' = <<"resolvePreparing">> \o Tail(task)
  /\ UNCHANGED <<phase, round, ends, preparing, field, winner, asking>>
FlipTurn ==
  /\ Calling("flipTurn")
  /\ turn' = IF declaredEnd[Other(turn)] THEN turn ELSE Other(turn)
  /\ mover' = turn
  /\ task' = <<"resolvePreparing">> \o Tail(task)
  /\ UNCHANGED <<phase, round, ends, preparing, field, winner, asking>>

\* Mutants of ResolvePreparing: the slot is kept, or the turn is not flipped again.
ResolvePreparing_KeepSlot ==
  /\ Calling("resolvePreparing")
  /\ IF preparing[turn]
       THEN task' = <<"prepared", "flipTurn">> \o Tail(task) /\ mover' = turn
       ELSE task' = Tail(task) /\ UNCHANGED mover
  /\ UNCHANGED <<phase, round, turn, ends, preparing, field, winner, asking>>
ResolvePreparing_NoFlip ==
  /\ Calling("resolvePreparing")
  /\ preparing' = [preparing EXCEPT ![turn] = FALSE]
  /\ IF preparing[turn]
       THEN task' = <<"prepared">> \o Tail(task) /\ mover' = turn
       ELSE task' = Tail(task) /\ UNCHANGED mover
  /\ UNCHANGED <<phase, round, turn, ends, field, winner, asking>>

\* The queued skill is used in place of an action, and the turn flips again.
ResolvePreparing ==
  /\ Calling("resolvePreparing")
  /\ preparing' = [preparing EXCEPT ![turn] = FALSE]
  /\ IF preparing[turn]
       THEN task' = <<"prepared", "flipTurn">> \o Tail(task) /\ mover' = turn
       ELSE task' = Tail(task) /\ UNCHANGED mover
  /\ UNCHANGED <<phase, round, turn, ends, field, winner, asking>>

\* Mutant of CheckActionPhaseEnd: one player's end is enough.
CheckActionPhaseEnd_Either ==
  /\ Calling("checkActionPhaseEnd")
  /\ IF \E p \in Player : declaredEnd[p]
       THEN phase' = "RoundEnd" /\ task' = EndPhaseTask
       ELSE task' = Tail(task) /\ UNCHANGED phase
  /\ UNCHANGED <<round, turn, ends, preparing, field, winner, asking, mover>>

CheckActionPhaseEnd ==
  /\ Calling("checkActionPhaseEnd")
  /\ IF BothEnded(declaredEnd)
       THEN phase' = "RoundEnd" /\ task' = EndPhaseTask
       ELSE task' = Tail(task) /\ UNCHANGED phase
  /\ UNCHANGED <<round, turn, ends, preparing, field, winner, asking, mover>>

\* timeout.lua: more characters alive wins, and a tie goes to the player who
\* did not start the game, player 1.
TimeoutWinner == IF Cardinality(alive[0]) > Cardinality(alive[1]) THEN 0 ELSE 1

\* Mutant of FinalStage: the timeout is one round late.
FinalStage_Late ==
  /\ Calling("final")
  /\ winner' = IF round > TimeoutRound THEN TimeoutWinner
               ELSE IF MaxRounds > 0 /\ round >= MaxRounds THEN Draw ELSE winner
  /\ phase' = IF winner' = Nobody THEN "RoundStart" ELSE "GameOver"
  /\ task' = <<>>
  /\ UNCHANGED <<round, turn, ends, preparing, field, asking, mover>>

FinalStage ==
  /\ Calling("final")
  /\ winner' = IF round >= TimeoutRound THEN TimeoutWinner
               ELSE IF MaxRounds > 0 /\ round >= MaxRounds THEN Draw ELSE winner
  /\ phase' = IF winner' = Nobody THEN "RoundStart" ELSE "GameOver"
  /\ task' = <<>>
  /\ UNCHANGED <<round, turn, ends, preparing, field, asking, mover>>

(***************************************************************************)
(* The specification                                                       *)
(***************************************************************************)
Choose ==
  \/ \E c \in Char : SelectActive(c)
  \/ NewRound
  \/ \E battle \in BOOLEAN : UseSkill(battle)
  \/ \E battle \in BOOLEAN : PlayCard(battle)
  \/ \E c \in Char, battle \in BOOLEAN : Switch(c, battle)
  \/ EndTurn
  \/ \E c \in Char : ChooseReplacement(c)

RuleEffect ==
  \/ \E p \in Player, c \in Char : Defeat(p, c)
  \/ \E p \in Player : DefeatOverloaded(p)
  \/ \E p \in Player, c \in Char : ForceSwitchTo(p, c)
  \/ SetPreparing

Handler ==
  \/ FinishRules
  \/ FlipTurn
  \/ ResolvePreparing
  \/ CheckActionPhaseEnd
  \/ FinalStage

Next == Choose \/ RuleEffect \/ Handler

Spec == Init /\ [][Next]_vars

\* The engine is sequential Go code: once begun, a handler goes on by itself.
FairSpec == Spec /\ WF_vars(Handler)

(***************************************************************************)
(* Properties                                                              *)
(***************************************************************************)
Items == Rules \cup Calls

\* Every variable has its type.
TypeOK ==
  /\ phase \in Phases
  /\ round \in 0 .. TimeoutRound
  /\ turn \in Player
  /\ firstEnd \in Player \cup {Nobody}
  /\ declaredEnd \in [Player -> BOOLEAN]
  /\ preparing \in [Player -> BOOLEAN]
  /\ active \in [Player -> Char \cup {Nobody}]
  /\ alive \in [Player -> SUBSET Char]
  /\ winner \in Player \cup {Nobody, Draw}
  /\ asking \in Player \cup {Nobody}
  /\ task \in Seq(Items)
  /\ mover \in Player \cup {Nobody}

\* As long as the game is on, a player's active character stands, unless the
\* player is being asked for a replacement; then the active one has fallen and
\* another stands, so there is a choice to make (bug D14 of ADR-0003, and
\* invariantErrors of the engine's tests).
Standing ==
  phase \notin {"SelectActive", "GameOver"} =>
    \A p \in Player : IF asking = p THEN active[p] \notin alive[p] /\ alive[p] # {}
                                    ELSE active[p] \in alive[p]

\* The game has a result exactly when it is over, and it is over as soon as a
\* team has fallen: no handler overwrites PhaseGameOver with its own phase.  No
\* round is played after the one that timeout.lua decides.
ResultKnown ==
  /\ (phase = "GameOver") <=> (winner # Nobody)
  /\ phase # "GameOver" => \A p \in Player : alive[p] # {}
OverExactly == ResultKnown /\ round <= TimeoutRound

\* The player to act has not declared the end of the round, and a player who
\* has is the one who starts the next round (bug D10 of ADR-0003: an ended
\* player kept getting the turn).
TurnHolder ==
  MayAct => /\ ~declaredEnd[turn]
            /\ \A p \in Player : declaredEnd[p] <=> firstEnd = p

\* While the game is on there is a move: no suspended Step waits for a
\* replacement that is not there, and no stage leaves the players without a
\* turn (the deadlock of bug D14).
NeverStuck == phase # "GameOver" => ENABLED Next

\* Nobody makes two battle actions in a row, a prepared skill counted, unless
\* the opponent has ended the round.
NoDoubleTurn == MayAct /\ mover = turn => declaredEnd[Other(turn)]

\* A finished game stays finished, with its result.
OverIsFinal == [][phase = "GameOver" => phase' = "GameOver" /\ winner' = winner]_vars

\* Every Step returns: its handlers finish, or wait for a replacement.
StepReturns == task # <<>> ~> (task = <<>> \/ asking # Nobody)
=============================================================================
