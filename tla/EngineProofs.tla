--------------------------- MODULE EngineProofs ---------------------------
(***************************************************************************)
(* Proofs about the engine: the driver of turns and rounds (TurnFlow) for  *)
(* teams, timeouts and round caps of any size, and continuations           *)
(* (Continuation) for any rules, games, snapshots and choices.             *)
(*                                                                         *)
(* The safety properties of TurnFlow are not inductive alone.  What they   *)
(* rest on is where the running Step can be: `task` is always one of a few *)
(* stacks, an action's stack is only there when nobody who has ended holds *)
(* the turn, and a replacement is only asked for inside a stage of rules.  *)
(*                                                                         *)
(* What a replay rests on is that the snapshots a continuation points to   *)
(* are what they were: nobody has them but those who run from them.  Then  *)
(* the path of a continuation is a run of the rules from its root with its *)
(* choices, a game that runs is somewhere on it, and when it has taken its *)
(* last choice it is at the end, where the game waited.                    *)
(***************************************************************************)
EXTENDS TurnFlow, Continuation, SequenceTheorems, TLAPS

\* What an action, and EndPhase, can have left to do.
ActionTasks ==
  {<<"checkActionPhaseEnd">>, <<"flipTurn", "checkActionPhaseEnd">>,
   <<"resolvePreparing", "checkActionPhaseEnd">>,
   <<"prepared", "flipTurn", "checkActionPhaseEnd">>}
  \cup {<<k, "checkActionPhaseEnd">> : k \in StepRules}
  \cup {<<k, "flipTurn", "checkActionPhaseEnd">> : k \in StepRules}

EndTasks == {<<"roundEnd", "postSummon", "decay", "final">>,
             <<"postSummon", "decay", "final">>, <<"decay", "final">>, <<"final">>}

Types ==
  /\ phase \in Phases
  /\ round \in Nat
  /\ turn \in Player
  /\ firstEnd \in Player \cup {Nobody}
  /\ declaredEnd \in [Player -> BOOLEAN]
  /\ preparing \in [Player -> BOOLEAN]
  /\ active \in [Player -> Char \cup {Nobody}]
  /\ alive \in [Player -> SUBSET Char]
  /\ winner \in Player \cup {Nobody, Draw}
  /\ asking \in Player \cup {Nobody}
  /\ mover \in Player \cup {Nobody}

\* The stacks that go with each phase.
Shape ==
  /\ task \in {<<>>} \cup ActionTasks \cup EndTasks
  /\ phase \in {"SelectActive", "RoundStart"} => task = <<>>
  /\ phase = "Action" => task \notin EndTasks
  /\ phase = "RoundEnd" => task \in EndTasks
  /\ phase = "GameOver" => task # <<"final">>

\* The rounds played when the next one is about to start.
Rounds ==
  /\ round <= TimeoutRound
  /\ phase \in {"SelectActive", "RoundStart"} => round < TimeoutRound

\* Nothing has happened while the players choose whom to start with.
Start ==
  phase = "SelectActive" =>
    /\ \A p \in Player : alive[p] = Char
    /\ winner = Nobody

\* A replacement is asked for in the middle of a stage of rules.
Asks ==
  asking # Nobody => /\ task # <<>> /\ Head(task) \in Rules
                     /\ phase \in {"Action", "RoundEnd"}

\* During an action too, an ended player does not hold the turn.
Acting  == phase = "Action" \/ task \in ActionTasks
Holding == Acting => /\ ~declaredEnd[turn]
                     /\ \A p \in Player : declaredEnd[p] <=> firstEnd = p

\* Between a prepared skill and the flip after it the mover still holds the turn.
Flipping == {<<"prepared", "flipTurn", "checkActionPhaseEnd">>,
             <<"flipTurn", "checkActionPhaseEnd">>}
Taking   == Acting /\ task \notin Flipping /\ mover = turn => declaredEnd[Other(turn)]

IInv == /\ Types /\ Shape /\ Rounds /\ Start /\ Asks /\ Holding /\ Taking
        /\ Standing /\ ResultKnown

(***************************************************************************)
(* Short stacks: their first item and the rest                             *)
(***************************************************************************)
LEMMA Heads ==
  ASSUME NEW a, NEW b, NEW c, NEW d
  PROVE  /\ Head(<<a>>) = a
         /\ Head(<<a, b>>) = a
         /\ Head(<<a, b, c>>) = a
         /\ Head(<<a, b, c, d>>) = a
  OBVIOUS

LEMMA Tails ==
  ASSUME NEW a, NEW b, NEW c, NEW d
  PROVE  /\ Tail(<<a>>) = <<>>
         /\ Tail(<<a, b>>) = <<b>>
         /\ Tail(<<a, b, c>>) = <<b, c>>
         /\ Tail(<<a, b, c, d>>) = <<b, c, d>>
  OBVIOUS

LEMMA Pushed ==
  ASSUME NEW a, NEW b
  PROVE  <<a>> \o <<b>> = <<a, b>>
<1> DEFINE S == {a, b}
           s == <<a>> \o <<b>>
           t == <<a, b>>
<1>1. s \in Seq(S) /\ t \in Seq(S) /\ <<a>> \in Seq(S) /\ <<b>> \in Seq(S)
  OBVIOUS
<1>2. Len(s) = 2 /\ Len(t) = 2
  BY <1>1
<1>3. \A i \in 1 .. 2 : s[i] = t[i]
  BY <1>1
<1> QED
  BY <1>1, <1>2, <1>3, SeqEqual

LEMMA PushedTwo ==
  ASSUME NEW a, NEW b, NEW c
  PROVE  <<a, b>> \o <<c>> = <<a, b, c>>
<1> DEFINE S == {a, b, c}
           s == <<a, b>> \o <<c>>
           t == <<a, b, c>>
<1>1. s \in Seq(S) /\ t \in Seq(S) /\ <<a, b>> \in Seq(S) /\ <<c>> \in Seq(S)
  OBVIOUS
<1>2. Len(s) = 3 /\ Len(t) = 3
  BY <1>1
<1>3. \A i \in 1 .. 3 : s[i] = t[i]
  BY <1>1
<1> QED
  BY <1>1, <1>2, <1>3, SeqEqual

\* Which stack has which call first.
LEMMA CallStacks ==
  ASSUME task \in {<<>>} \cup ActionTasks \cup EndTasks
  PROVE  /\ Calling("flipTurn") =>
              task = <<"flipTurn", "checkActionPhaseEnd">>
         /\ Calling("resolvePreparing") =>
              task = <<"resolvePreparing", "checkActionPhaseEnd">>
         /\ Calling("checkActionPhaseEnd") => task = <<"checkActionPhaseEnd">>
         /\ Calling("final") => task = <<"final">>
  BY Heads DEF ActionTasks, EndTasks, StepRules, Calling

\* What is left after a stage of rules.
LEMMA RuleStacks ==
  ASSUME task \in {<<>>} \cup ActionTasks \cup EndTasks, task # <<>>, Head(task) \in Rules
  PROVE  \/ /\ task \in ActionTasks
            /\ Head(task) \in StepRules
            /\ Tail(task) \in {<<"checkActionPhaseEnd">>, <<"flipTurn", "checkActionPhaseEnd">>}
         \/ /\ task = <<"prepared", "flipTurn", "checkActionPhaseEnd">>
            /\ Head(task) = "prepared"
            /\ Tail(task) = <<"flipTurn", "checkActionPhaseEnd">>
         \/ /\ task \in EndTasks
            /\ Head(task) \in EndRules
            /\ Tail(task) \in EndTasks
<1>1. CASE task \in EndTasks
  <2>1. CASE task = <<"roundEnd", "postSummon", "decay", "final">>
    BY <2>1, Heads, Tails DEF EndTasks, EndRules
  <2>2. CASE task = <<"postSummon", "decay", "final">>
    BY <2>2, Heads, Tails DEF EndTasks, EndRules
  <2>3. CASE task = <<"decay", "final">>
    BY <2>3, Heads, Tails DEF EndTasks, EndRules
  <2>4. CASE task = <<"final">>
    BY <2>4, Heads DEF Rules, StepRules, EndRules
  <2> QED
    BY <1>1, <2>1, <2>2, <2>3, <2>4 DEF EndTasks
<1>2. CASE task \in {<<k, "checkActionPhaseEnd">> : k \in StepRules}
  <2>1. PICK k \in StepRules : task = <<k, "checkActionPhaseEnd">>
    BY <1>2
  <2> QED
    BY <2>1, <1>2, Heads, Tails DEF ActionTasks
<1>3. CASE task \in {<<k, "flipTurn", "checkActionPhaseEnd">> : k \in StepRules}
  <2>1. PICK k \in StepRules : task = <<k, "flipTurn", "checkActionPhaseEnd">>
    BY <1>3
  <2> QED
    BY <2>1, <1>3, Heads, Tails DEF ActionTasks
<1>4. CASE task \in {<<"checkActionPhaseEnd">>, <<"flipTurn", "checkActionPhaseEnd">>,
                     <<"resolvePreparing", "checkActionPhaseEnd">>,
                     <<"prepared", "flipTurn", "checkActionPhaseEnd">>}
  <2>1. CASE task = <<"prepared", "flipTurn", "checkActionPhaseEnd">>
    BY <2>1, Heads, Tails
  <2>2. CASE task # <<"prepared", "flipTurn", "checkActionPhaseEnd">>
    <3>1. Head(task) \in {"checkActionPhaseEnd", "flipTurn", "resolvePreparing"}
      BY <1>4, <2>2, Heads
    <3> QED
      BY <3>1 DEF Rules, StepRules, EndRules
  <2> QED
    BY <2>1, <2>2
<1> QED
  BY <1>1, <1>2, <1>3, <1>4 DEF ActionTasks

\* No stack of an action is a stack of EndPhase, and neither is empty.
LEMMA Apart ==
  /\ \A s \in ActionTasks : s \notin EndTasks /\ s # <<>>
  /\ \A s \in EndTasks : s # <<>>
  BY DEF ActionTasks, EndTasks, StepRules
(***************************************************************************)
(* The invariant holds at the start                                        *)
(***************************************************************************)
LEMMA InitInv == Init => IInv
<1> SUFFICES ASSUME Init PROVE IInv
  OBVIOUS
<1> USE TurnAssumption DEF Init, Player, Nobody
<1>1. Types
  BY DEF Types, Phases, Char, Draw
<1>2. Shape /\ Rounds /\ Start /\ Asks
  BY Apart DEF Shape, Rounds, Start, Asks
<1>3. Holding /\ Taking
  BY Apart DEF Holding, Taking, Acting, Other
<1>4. Standing /\ ResultKnown
  BY SMTT(30) DEF Standing, ResultKnown, Char
<1> QED
  BY <1>1, <1>2, <1>3, <1>4 DEF IInv

(***************************************************************************)
(* Every step keeps it: what the players choose                            *)
(***************************************************************************)
LEMMA SelectActiveInv ==
  ASSUME IInv, NEW c \in Char, SelectActive(c)
  PROVE  IInv'
<1> USE DEF SelectActive, Player, Nobody, Other, ends
<1>1. Types'
  BY DEF IInv, Types, Phases
<1>2. task = <<>> /\ asking = Nobody /\ alive[0] = Char /\ alive[1] = Char /\ winner = Nobody
  BY DEF IInv, Types, Shape, Start, Asks
<1>3. phase' \in {"SelectActive", "RoundStart"}
  OBVIOUS
<1>4. Shape' /\ Rounds' /\ Start' /\ Asks'
  BY <1>2, <1>3, Apart DEF IInv, Shape, Rounds, Start, Asks
<1>5. Holding' /\ Taking'
  BY <1>2, <1>3, Apart DEF Holding, Taking, Acting
<1>6. Standing'
  BY <1>2, <1>3 DEF IInv, Types, Standing
<1>7. ResultKnown'
  BY <1>2, <1>3 DEF IInv, ResultKnown
<1> QED
  BY <1>1, <1>4, <1>5, <1>6, <1>7 DEF IInv

LEMMA NewRoundInv ==
  ASSUME IInv, NewRound
  PROVE  IInv'
<1> USE DEF NewRound, Player, Nobody, Other, field
<1>1. Types'
  BY DEF IInv, Types, Phases
<1>2. task = <<>> /\ asking = Nobody
  BY DEF IInv, Types, Shape, Asks
<1>3. Shape' /\ Rounds' /\ Start' /\ Asks'
  BY <1>2, TurnAssumption, Apart DEF IInv, Types, Shape, Rounds, Start, Asks
<1>4. Holding' /\ Taking'
  BY <1>1, <1>2 DEF Types, Holding, Taking
<1>5. Standing' /\ ResultKnown'
  BY DEF IInv, Standing, ResultKnown
<1> QED
  BY <1>1, <1>3, <1>4, <1>5 DEF IInv
\* The stack an action begins with.
LEMMA ActStacks ==
  ASSUME NEW kind \in StepRules, NEW battle \in BOOLEAN, Act(kind, battle)
  PROVE  task' \in ActionTasks \ Flipping
<1>1. CASE battle
  BY <1>1 DEF Act, ActionTasks, Flipping, StepRules
<1>2. CASE ~battle
  BY <1>2 DEF Act, ActionTasks, Flipping, StepRules
<1> QED
  BY <1>1, <1>2

LEMMA ActInv ==
  ASSUME IInv, NEW kind \in StepRules, NEW battle \in BOOLEAN, Act(kind, battle),
         active' \in [Player -> Char \cup {Nobody}],
         \A p \in Player : active'[p] = active[p] \/ active'[p] \in alive[p]
  PROVE  IInv'
<1> USE DEF Act, ends
<1>1. Types'
  BY DEF IInv, Types
<1>2. phase = "Action" /\ task = <<>> /\ asking = Nobody
  BY DEF IInv, Asks, MayAct
<1>3. task' \in ActionTasks \ Flipping
  BY ActStacks
<1>4. Shape' /\ Rounds' /\ Start' /\ Asks'
  BY <1>2, <1>3, Apart DEF IInv, Shape, Rounds, Start, Asks
<1>5. Holding' /\ Taking'
  BY <1>2, <1>3, Apart DEF IInv, Holding, Taking, Acting, Flipping
<1>6. Standing' /\ ResultKnown'
  BY <1>2 DEF IInv, Standing, ResultKnown, Player, Nobody
<1> QED
  BY <1>1, <1>4, <1>5, <1>6 DEF IInv

LEMMA EndPhaseStack == EndPhaseTask \in EndTasks /\ EndPhaseTask # <<"final">>
  BY Heads DEF EndPhaseTask, EndTasks

LEMMA EndTurnInv ==
  ASSUME IInv, EndTurn
  PROVE  IInv'
<1> USE DEF EndTurn, Player, Nobody, Other, field
<1>1. Types'
  BY DEF IInv, Types, Phases
<1>2. phase = "Action" /\ task = <<>> /\ asking = Nobody
  BY DEF IInv, Asks, MayAct
<1>3. /\ ~declaredEnd[turn]
      /\ \A p \in Player : declaredEnd[p] <=> firstEnd = p
  BY <1>2 DEF IInv, Holding, Acting
<1>4. CASE BothEnded(declaredEnd')
  <2>1. phase' = "RoundEnd" /\ task' \in EndTasks /\ task' # <<"final">>
    BY <1>4, EndPhaseStack
  <2>2. task' # <<>> /\ task' \notin ActionTasks
    BY <2>1, Apart
  <2>3. Shape' /\ Rounds' /\ Start' /\ Asks'
    BY <1>2, <2>1, <2>2 DEF IInv, Shape, Rounds, Start, Asks
  <2>4. Holding' /\ Taking'
    BY <2>1, <2>2 DEF Holding, Taking, Acting
  <2>5. Standing' /\ ResultKnown'
    BY <1>2, <2>1 DEF IInv, Standing, ResultKnown
  <2> QED
    BY <1>1, <2>3, <2>4, <2>5 DEF IInv
<1>5. CASE ~BothEnded(declaredEnd')
  <2>1. UNCHANGED <<phase, task>> /\ turn' = Other(turn)
    BY <1>5
  <2>2. Shape' /\ Rounds' /\ Start' /\ Asks'
    BY <1>2, <2>1 DEF IInv, Shape, Rounds, Start, Asks
  <2>3. Holding'
    BY <1>3, <1>5, <2>1 DEF IInv, Types, Holding, BothEnded
  <2>4. Taking'
    BY <1>3, <2>1 DEF IInv, Types, Taking
  <2>5. Standing' /\ ResultKnown'
    BY <1>2, <2>1 DEF IInv, Standing, ResultKnown
  <2> QED
    BY <1>1, <2>2, <2>3, <2>4, <2>5 DEF IInv
<1> QED
  BY <1>4, <1>5

LEMMA ChooseReplacementInv ==
  ASSUME IInv, NEW c \in Char, ChooseReplacement(c)
  PROVE  IInv'
<1> USE DEF ChooseReplacement, Player, Nobody, ends
<1>1. Types'
  BY DEF IInv, Types
<1>2. phase \in {"Action", "RoundEnd"}
  BY DEF IInv, Asks
<1>3. Shape' /\ Rounds' /\ Start' /\ Asks'
  BY DEF IInv, Shape, Rounds, Start, Asks
<1>4. Holding' /\ Taking'
  BY DEF IInv, Holding, Taking, Acting, Other
<1>5. Standing'
  BY <1>2 DEF IInv, Types, Standing
<1>6. ResultKnown'
  BY DEF IInv, ResultKnown
<1> QED
  BY <1>1, <1>3, <1>4, <1>5, <1>6 DEF IInv
(***************************************************************************)
(* Every step keeps it: what rules do                                      *)
(***************************************************************************)
\* Rules run in the middle of an action or of the end of a round.
LEMMA RulesPlace ==
  ASSUME IInv, InRules
  PROVE  /\ task # <<>> /\ task # <<"final">> /\ asking = Nobody
         /\ phase \in {"Action", "RoundEnd", "GameOver"}
<1>1. task # <<"final">>
  BY Heads DEF InRules, Rules, StepRules, EndRules
<1> QED
  BY <1>1 DEF IInv, Types, Shape, InRules, Phases

\* The outcome a fall leaves, and the parts of the invariant it cannot hurt.
LEMMA FallInv ==
  ASSUME IInv, RulesFire, NEW p \in Player, NEW c \in Char, Fall(p, c)
  PROVE  /\ alive' = [alive EXCEPT ![p] = @ \ {c}]
         /\ alive' \in [Player -> SUBSET Char]
         /\ winner' \in Player \cup {Nobody, Draw}
         /\ winner' = Nobody => phase' = phase /\ \A q \in Player : alive'[q] # {}
         /\ winner' # Nobody => phase' = "GameOver"
         /\ phase' \in {"Action", "RoundEnd", "GameOver"}
         /\ ResultKnown' /\ Shape' /\ Rounds' /\ Start' /\ Holding' /\ Taking'
<1>1. /\ task # <<>> /\ task # <<"final">>
      /\ phase \in {"Action", "RoundEnd"}
  BY RulesPlace DEF RulesFire
<1>2. alive' \in [Player -> SUBSET Char]
  BY DEF IInv, Types, Fall
<1>3. /\ winner' \in Player \cup {Nobody, Draw}
      /\ winner' = Nobody => \A q \in Player : alive'[q] # {}
  BY <1>2 DEF Fall, Outcome, Player, Nobody, Draw
<1>4. /\ winner' = Nobody => phase' = phase
      /\ winner' # Nobody => phase' = "GameOver"
  BY DEF Fall
<1>5. ResultKnown'
  BY <1>1, <1>3, <1>4 DEF ResultKnown
<1>6. Shape' /\ Rounds' /\ Start'
  BY <1>1, <1>4 DEF IInv, Shape, Rounds, Start, Fall
<1>7. Holding' /\ Taking'
  BY <1>4 DEF IInv, Holding, Taking, Acting, Fall, ends
<1> QED
  BY <1>1, <1>2, <1>3, <1>4, <1>5, <1>6, <1>7 DEF Fall

LEMMA DefeatInv ==
  ASSUME IInv, NEW p \in Player, NEW c \in Char, Defeat(p, c)
  PROVE  IInv'
<1> USE DEF Player, Nobody
<1>1. /\ task # <<>> /\ asking = Nobody
      /\ phase \in {"Action", "RoundEnd"}
  BY RulesPlace DEF Defeat, RulesFire
<1>2. Types'
  BY <1>1, FallInv DEF IInv, Types, Defeat, Fall, Phases, ends
<1>3. Asks'
  BY <1>1, FallInv DEF Defeat, Fall, RulesFire, InRules, Asks
<1>4. Standing'
  <2> SUFFICES ASSUME winner' = Nobody, NEW q \in Player
               PROVE  IF asking' = q THEN active[q] \notin alive'[q] /\ alive'[q] # {}
                                     ELSE active[q] \in alive'[q]
    BY FallInv DEF Standing, Defeat
  <2>1. active[q] \in alive[q] /\ alive'[q] # {}
    BY <1>1, FallInv DEF IInv, Standing, Defeat
  <2>2. asking' = IF active[p] = c THEN p ELSE Nobody
    BY DEF Defeat
  <2>3. alive' = [alive EXCEPT ![p] = @ \ {c}] /\ alive \in [Player -> SUBSET Char]
    BY FallInv DEF IInv, Types, Defeat
  <2> QED
    BY <2>1, <2>2, <2>3
<1> QED
  BY <1>2, <1>3, <1>4, FallInv DEF IInv, Defeat

LEMMA DefeatOverloadedInv ==
  ASSUME IInv, NEW p \in Player, DefeatOverloaded(p)
  PROVE  IInv'
<1> USE DEF Player, Nobody
<1>1. /\ task # <<>> /\ asking = Nobody
      /\ phase \in {"Action", "RoundEnd"}
  BY RulesPlace DEF DefeatOverloaded, RulesFire
<1>2. active[p] \in Char /\ RulesFire /\ Fall(p, active[p])
  BY DEF DefeatOverloaded, Fall, IInv, Types
<1>3. active' \in [Player -> Char \cup {Nobody}]
  BY DEF DefeatOverloaded, IInv, Types
<1>4. Types'
  BY <1>2, <1>3, FallInv, ZenonT(30) DEF IInv, Types, DefeatOverloaded, Fall, Phases, ends
<1>5. Asks'
  BY <1>1 DEF DefeatOverloaded, Asks
<1>6. Standing'
  <2> SUFFICES ASSUME winner' = Nobody, NEW q \in Player
               PROVE  active'[q] \in alive'[q]
    BY <1>1, <1>2, FallInv DEF Standing, DefeatOverloaded
  <2>1. active[q] \in alive[q]
    BY <1>1 DEF IInv, Standing
  <2>2. PICK d \in Char : NextAlive(p, active[p], d) /\ active' = [active EXCEPT ![p] = d]
    BY DEF DefeatOverloaded
  <2>3. d \in alive[p] \ {active[p]}
    BY <2>2 DEF NextAlive
  <2>4. /\ alive' = [alive EXCEPT ![p] = @ \ {active[p]}]
        /\ alive \in [Player -> SUBSET Char]
        /\ active \in [Player -> Char \cup {Nobody}]
    BY <1>2, FallInv DEF IInv, Types
  <2> QED
    BY <2>1, <2>2, <2>3, <2>4
<1> QED
  BY <1>2, <1>4, <1>5, <1>6, FallInv DEF IInv

LEMMA ForceSwitchToInv ==
  ASSUME IInv, NEW p \in Player, NEW c \in Char, ForceSwitchTo(p, c)
  PROVE  IInv'
<1> USE DEF ForceSwitchTo, Player, Nobody, ends
<1>1. asking = Nobody /\ phase \in {"Action", "RoundEnd"}
  BY RulesPlace DEF RulesFire
<1>2. Types'
  BY DEF IInv, Types
<1>3. Shape' /\ Rounds' /\ Start' /\ Asks'
  BY DEF IInv, Shape, Rounds, Start, Asks
<1>4. Holding' /\ Taking'
  BY DEF IInv, Holding, Taking, Acting
<1>5. Standing'
  BY <1>1 DEF IInv, Types, Standing
<1>6. ResultKnown'
  BY DEF IInv, ResultKnown
<1> QED
  BY <1>2, <1>3, <1>4, <1>5, <1>6 DEF IInv

LEMMA SetPreparingInv ==
  ASSUME IInv, SetPreparing
  PROVE  IInv'
<1> USE DEF SetPreparing, ends, field
<1>1. Types'
  BY DEF IInv, Types
<1>2. Shape' /\ Rounds' /\ Start' /\ Asks'
  BY DEF IInv, Shape, Rounds, Start, Asks
<1>3. Holding' /\ Taking'
  BY DEF IInv, Holding, Taking, Acting
<1>4. Standing' /\ ResultKnown'
  BY DEF IInv, Standing, ResultKnown
<1> QED
  BY <1>1, <1>2, <1>3, <1>4 DEF IInv
(***************************************************************************)
(* Every step keeps it: the handlers                                       *)
(***************************************************************************)
LEMMA FinishRulesInv ==
  ASSUME IInv, FinishRules
  PROVE  IInv'
<1> USE DEF FinishRules, ends, field
<1>1. Types' /\ Rounds' /\ Start' /\ Standing' /\ ResultKnown'
  BY DEF IInv, Types, Rounds, Start, Standing, ResultKnown
<1>2. Asks'
  BY DEF InRules, Asks
<1>3. /\ task \in {<<>>} \cup ActionTasks \cup EndTasks
      /\ task # <<>> /\ Head(task) \in Rules
      /\ phase \in {"Action", "RoundEnd", "GameOver"}
  BY RulesPlace DEF InRules, IInv, Shape
<1>4. CASE phase = "GameOver" /\ Head(task) # "prepared"
  <2>1. task' = <<>> /\ phase' = "GameOver" /\ task' \notin ActionTasks
    BY <1>4, Apart
  <2>2. Shape'
    BY <2>1 DEF Shape
  <2>3. Holding' /\ Taking'
    BY <2>1 DEF Holding, Taking, Acting
  <2> QED
    BY <1>1, <1>2, <2>2, <2>3 DEF IInv
<1>5. CASE phase # "GameOver" \/ Head(task) = "prepared"
  <2>1. task' = Tail(task) /\ UNCHANGED phase
    BY <1>5
  <2>2. CASE /\ task \in ActionTasks
             /\ Head(task) \in StepRules
             /\ Tail(task) \in {<<"checkActionPhaseEnd">>, <<"flipTurn", "checkActionPhaseEnd">>}
    <3>1. task' \in ActionTasks /\ task \notin Flipping
      BY <2>1, <2>2, Heads DEF ActionTasks, Flipping, StepRules
    <3>2. Shape'
      BY <1>3, <2>1, <2>2, <3>1, Apart DEF IInv, Shape, EndTasks
    <3>3. Holding' /\ Taking'
      BY <2>1, <2>2, <3>1 DEF IInv, Holding, Taking, Acting
    <3> QED
      BY <1>1, <1>2, <3>2, <3>3 DEF IInv
  <2>3. CASE /\ task = <<"prepared", "flipTurn", "checkActionPhaseEnd">>
             /\ Tail(task) = <<"flipTurn", "checkActionPhaseEnd">>
    <3>1. task \in ActionTasks /\ task' \in ActionTasks /\ task' \in Flipping
      BY <2>1, <2>3 DEF ActionTasks, Flipping
    <3>2. Shape'
      BY <1>3, <2>1, <3>1, Apart DEF IInv, Shape, EndTasks
    <3>3. Holding' /\ Taking'
      BY <2>1, <3>1 DEF IInv, Holding, Taking, Acting
    <3> QED
      BY <1>1, <1>2, <3>2, <3>3 DEF IInv
  <2>4. CASE /\ task \in EndTasks
             /\ Head(task) \in EndRules
             /\ Tail(task) \in EndTasks
    <3>1. phase = "RoundEnd"
      BY <1>3, <1>5, <2>4 DEF IInv, Shape, EndRules
    <3>2. Shape'
      BY <2>1, <2>4, <3>1 DEF IInv, Shape
    <3>3. Holding' /\ Taking'
      BY <2>1, <2>4, <3>1, Apart DEF Holding, Taking, Acting
    <3> QED
      BY <1>1, <1>2, <3>2, <3>3 DEF IInv
  <2> QED
    BY <1>3, <2>2, <2>3, <2>4, RuleStacks
<1> QED
  BY <1>4, <1>5

\* A call is made when nobody is being asked.
LEMMA CallsAsk ==
  ASSUME IInv, NEW c \in Calls, Calling(c)
  PROVE  asking = Nobody
  BY DEF IInv, Asks, Calling, Calls, Rules, StepRules, EndRules

LEMMA FlipTurnInv ==
  ASSUME IInv, FlipTurn
  PROVE  IInv'
<1> USE DEF FlipTurn, ends, field
<1>1. Types' /\ Rounds' /\ Start' /\ Standing' /\ ResultKnown'
  BY DEF IInv, Types, Rounds, Start, Standing, ResultKnown, Player, Other
<1>2. asking = Nobody
  BY CallsAsk DEF Calls
<1>3. task = <<"flipTurn", "checkActionPhaseEnd">>
  BY CallStacks DEF IInv, Shape
<1>4. task' = <<"resolvePreparing", "checkActionPhaseEnd">>
  BY <1>3, Tails, Pushed
<1>5. task \in ActionTasks /\ task' \in ActionTasks
  BY <1>3, <1>4 DEF ActionTasks
<1>6. Shape' /\ Asks'
  BY <1>2, <1>5, Apart DEF IInv, Shape, Asks, EndTasks
<1>7. Holding' /\ Taking'
  BY <1>1, <1>5 DEF IInv, Holding, Taking, Acting, Types, Player, Other
<1> QED
  BY <1>1, <1>6, <1>7 DEF IInv

LEMMA ResolvePreparingInv ==
  ASSUME IInv, ResolvePreparing
  PROVE  IInv'
<1> USE DEF ResolvePreparing, ends, field
<1>1. Types' /\ Rounds' /\ Start' /\ Standing' /\ ResultKnown'
  BY DEF IInv, Types, Rounds, Start, Standing, ResultKnown
<1>2. asking = Nobody
  BY CallsAsk DEF Calls
<1>3. task = <<"resolvePreparing", "checkActionPhaseEnd">>
  BY CallStacks DEF IInv, Shape
<1>4. task \in ActionTasks /\ task \notin Flipping
  BY <1>3, Heads DEF ActionTasks, Flipping
<1>5. CASE preparing[turn]
  <2>1. task' = <<"prepared", "flipTurn", "checkActionPhaseEnd">>
    BY <1>3, <1>5, Tails, PushedTwo
  <2>2. task' \in ActionTasks /\ task' \in Flipping
    BY <2>1 DEF ActionTasks, Flipping
  <2>3. Shape' /\ Asks'
    BY <1>2, <1>4, <2>2, Apart DEF IInv, Shape, Asks, EndTasks
  <2>4. Holding' /\ Taking'
    BY <1>4, <2>2 DEF IInv, Holding, Taking, Acting
  <2> QED
    BY <1>1, <2>3, <2>4 DEF IInv
<1>6. CASE ~preparing[turn]
  <2>1. task' = <<"checkActionPhaseEnd">> /\ UNCHANGED mover
    BY <1>3, <1>6, Tails
  <2>2. task' \in ActionTasks
    BY <2>1 DEF ActionTasks
  <2>3. Shape' /\ Asks'
    BY <1>2, <1>4, <2>2, Apart DEF IInv, Shape, Asks, EndTasks
  <2>4. Holding' /\ Taking'
    BY <1>4, <2>1, <2>2 DEF IInv, Holding, Taking, Acting
  <2> QED
    BY <1>1, <2>3, <2>4 DEF IInv
<1> QED
  BY <1>5, <1>6

LEMMA CheckActionPhaseEndInv ==
  ASSUME IInv, CheckActionPhaseEnd
  PROVE  IInv'
<1> USE DEF CheckActionPhaseEnd, ends, field
<1>1. asking = Nobody
  BY CallsAsk DEF Calls
<1>2. task = <<"checkActionPhaseEnd">> /\ task \in ActionTasks /\ task \notin Flipping
  BY CallStacks, Heads DEF IInv, Shape, ActionTasks, Flipping
<1>3. ~BothEnded(declaredEnd)
  BY <1>2 DEF IInv, Types, Holding, Acting, BothEnded
<1>4. task' = <<>> /\ UNCHANGED phase
  BY <1>2, <1>3, Tails
<1>5. Types' /\ Rounds' /\ Start' /\ Standing' /\ ResultKnown'
  BY <1>4 DEF IInv, Types, Rounds, Start, Standing, ResultKnown
<1>6. Shape' /\ Asks'
  BY <1>1, <1>2, <1>4, Apart DEF IInv, Shape, Asks
<1>7. Holding' /\ Taking'
  BY <1>2, <1>4, Apart DEF IInv, Holding, Taking, Acting
<1> QED
  BY <1>5, <1>6, <1>7 DEF IInv

LEMMA FinalStageInv ==
  ASSUME IInv, FinalStage
  PROVE  IInv'
<1> USE DEF FinalStage, ends, field, Player, Nobody
<1>1. asking = Nobody
  BY CallsAsk DEF Calls
<1>2. task = <<"final">> /\ task \in EndTasks
  BY CallStacks DEF IInv, Shape, EndTasks
<1>3. phase = "RoundEnd"
  BY <1>2, Apart DEF IInv, Types, Shape, Phases
<1>4. winner' \in Player \cup {Nobody, Draw}
  BY DEF IInv, Types, TimeoutWinner, Draw
<1>5. /\ winner' = Nobody => phase' = "RoundStart" /\ round < TimeoutRound
      /\ winner' # Nobody => phase' = "GameOver"
  BY TurnAssumption DEF IInv, Types, TimeoutWinner
<1>6. Types'
  BY <1>4, <1>5 DEF IInv, Types, Phases
<1>7. Shape' /\ Rounds' /\ Start' /\ Asks'
  BY <1>1, <1>5, Apart DEF IInv, Shape, Rounds, Start, Asks
<1>8. Holding' /\ Taking'
  BY <1>5, Apart DEF Holding, Taking, Acting
<1>9. Standing' /\ ResultKnown'
  BY <1>3, <1>5 DEF IInv, Standing, ResultKnown
<1> QED
  BY <1>6, <1>7, <1>8, <1>9 DEF IInv
(***************************************************************************)
(* The invariant, and the properties that follow from it                   *)
(***************************************************************************)
LEMMA StepInv == IInv /\ [Next]_vars => IInv'
<1> SUFFICES ASSUME IInv, [Next]_vars PROVE IInv'
  OBVIOUS
<1>1. ASSUME NEW c \in Char, SelectActive(c) PROVE IInv'
  BY <1>1, SelectActiveInv
<1>2. CASE NewRound
  BY <1>2, NewRoundInv
<1>3. ASSUME NEW battle \in BOOLEAN, UseSkill(battle) \/ PlayCard(battle) PROVE IInv'
  <2>1. active' \in [Player -> Char \cup {Nobody}]
    BY <1>3 DEF UseSkill, PlayCard, IInv, Types
  <2>2. \A p \in Player : active'[p] = active[p] \/ active'[p] \in alive[p]
    BY <1>3 DEF UseSkill, PlayCard
  <2>3. CASE UseSkill(battle)
    <3>1. Act("skill", battle) /\ "skill" \in StepRules
      BY <2>3 DEF UseSkill, StepRules
    <3> QED
      BY <2>1, <2>2, <3>1, ActInv
  <2>4. CASE PlayCard(battle)
    <3>1. Act("card", battle) /\ "card" \in StepRules
      BY <2>4 DEF PlayCard, StepRules
    <3> QED
      BY <2>1, <2>2, <3>1, ActInv
  <2> QED
    BY <1>3, <2>3, <2>4
<1>4. ASSUME NEW c \in Char, NEW battle \in BOOLEAN, Switch(c, battle) PROVE IInv'
  <2>1. Act("switch", battle) /\ "switch" \in StepRules
    BY <1>4 DEF Switch, StepRules
  <2>2. active' \in [Player -> Char \cup {Nobody}]
    BY <1>4 DEF Switch, IInv, Types
  <2>3. \A p \in Player : active'[p] = active[p] \/ active'[p] \in alive[p]
    BY <1>4 DEF Switch, IInv, Types
  <2> QED
    BY <2>1, <2>2, <2>3, ActInv
<1>5. CASE EndTurn
  BY <1>5, EndTurnInv
<1>6. ASSUME NEW c \in Char, ChooseReplacement(c) PROVE IInv'
  BY <1>6, ChooseReplacementInv
<1>7. CASE RuleEffect
  BY <1>7, DefeatInv, DefeatOverloadedInv, ForceSwitchToInv, SetPreparingInv DEF RuleEffect
<1>8. CASE Handler
  BY <1>8, FinishRulesInv, FlipTurnInv, ResolvePreparingInv, CheckActionPhaseEndInv,
     FinalStageInv DEF Handler
<1>9. CASE UNCHANGED vars
  BY <1>9 DEF vars, ends, field, IInv, Types, Shape, Rounds, Start, Asks, Holding, Taking,
     Acting, Standing, ResultKnown
<1> QED
  BY <1>1, <1>2, <1>3, <1>4, <1>5, <1>6, <1>7, <1>8, <1>9 DEF Next, Choose

LEMMA Invariant == Spec => []IInv
  BY InitInv, StepInv, PTL DEF Spec

\* Every stack of a running Step is a sequence of stages and calls.
LEMMA StacksTyped == {<<>>} \cup ActionTasks \cup EndTasks \subseteq Seq(Items)
<1> USE DEF Items, Rules, Calls, StepRules, EndRules
<1>1. EndTasks \subseteq Seq(Items)
  BY DEF EndTasks
<1>2. ASSUME NEW k \in StepRules
      PROVE  /\ <<k, "checkActionPhaseEnd">> \in Seq(Items)
             /\ <<k, "flipTurn", "checkActionPhaseEnd">> \in Seq(Items)
  OBVIOUS
<1>3. /\ <<"checkActionPhaseEnd">> \in Seq(Items)
      /\ <<"flipTurn", "checkActionPhaseEnd">> \in Seq(Items)
      /\ <<"resolvePreparing", "checkActionPhaseEnd">> \in Seq(Items)
      /\ <<"prepared", "flipTurn", "checkActionPhaseEnd">> \in Seq(Items)
  OBVIOUS
<1>4. ActionTasks \subseteq Seq(Items)
  BY <1>2, <1>3 DEF ActionTasks
<1>5. <<>> \in Seq(Items)
  OBVIOUS
<1> HIDE DEF Items
<1> QED
  BY <1>1, <1>4, <1>5

\* Every variable has its type, and no round follows the one timeout.lua decides.
THEOREM TypeCorrect == Spec => []TypeOK
<1>1. IInv => TypeOK
  <2> SUFFICES ASSUME IInv PROVE TypeOK
    OBVIOUS
  <2>1. task \in Seq(Items)
    BY StacksTyped DEF IInv, Shape
  <2>2. round \in 0 .. TimeoutRound
    BY TurnAssumption DEF IInv, Types, Rounds
  <2> QED
    BY <2>1, <2>2 DEF IInv, Types, TypeOK
<1> QED
  BY <1>1, Invariant, PTL

\* Whoever is not asked for a replacement has a standing active character, and
\* whoever is asked has one to give.
THEOREM AlwaysStanding == Spec => []Standing
<1>1. IInv => Standing
  BY DEF IInv
<1> QED
  BY <1>1, Invariant, PTL

\* The game is over exactly when it has a result, as soon as a team has fallen,
\* and at the latest after the timeout round.
THEOREM OverCorrect == Spec => []OverExactly
<1>1. IInv => OverExactly
  BY DEF IInv, Rounds, OverExactly
<1> QED
  BY <1>1, Invariant, PTL

\* An ended player never has the turn, and starts the next round if first.
THEOREM TurnHeld == Spec => []TurnHolder
<1>1. IInv => TurnHolder
  BY DEF IInv, Holding, Acting, TurnHolder, MayAct
<1> QED
  BY <1>1, Invariant, PTL

\* Two battle actions in a row need an opponent who has ended the round.
THEOREM Alternate == Spec => []NoDoubleTurn
<1>1. IInv => NoDoubleTurn
  <2> SUFFICES ASSUME IInv, MayAct, mover = turn PROVE declaredEnd[Other(turn)]
    BY DEF NoDoubleTurn
  <2>1. Acting /\ task \notin Flipping
    BY DEF MayAct, Acting, Flipping
  <2> QED
    BY <2>1 DEF IInv, Taking
<1> QED
  BY <1>1, Invariant, PTL

\* The guard of some choice of a player, of NewRound, of a stage of rules or of a
\* call of a handler holds.
SomeGuard ==
  \/ phase = "SelectActive" /\ \E c \in Char : c \in alive[turn]
  \/ phase = "RoundStart"
  \/ MayAct
  \/ asking # Nobody /\ \E c \in Char : c \in alive[asking] \ {active[asking]}
  \/ InRules
  \/ \E c \in Calls : Calling(c)

LEMMA FirstItem ==
  ASSUME task \in ActionTasks \cup EndTasks PROVE Head(task) \in Rules \cup Calls /\ task # <<>>
<1> USE DEF Rules, Calls, StepRules, EndRules
<1>1. CASE task \in EndTasks
  BY <1>1, Heads DEF EndTasks
<1>2. CASE task \in {<<k, "checkActionPhaseEnd">> : k \in StepRules}
  BY <1>2, Heads
<1>3. CASE task \in {<<k, "flipTurn", "checkActionPhaseEnd">> : k \in StepRules}
  BY <1>3, Heads
<1>4. CASE task \in {<<"checkActionPhaseEnd">>, <<"flipTurn", "checkActionPhaseEnd">>,
                    <<"resolvePreparing", "checkActionPhaseEnd">>,
                    <<"prepared", "flipTurn", "checkActionPhaseEnd">>}
  BY <1>4, Heads
<1> QED
  BY <1>1, <1>2, <1>3, <1>4 DEF ActionTasks

\* While the game is on somebody can go on: no Step waits for a replacement that
\* is not there, none stops at an item no handler takes, and between two Steps a
\* player may act (what NeverStuck says with ENABLED, said with the guards).
THEOREM GoesOn == Spec => [](phase # "GameOver" => SomeGuard)
<1>1. IInv => (phase # "GameOver" => SomeGuard)
  <2> SUFFICES ASSUME IInv, phase # "GameOver" PROVE SomeGuard
    OBVIOUS
  <2>0. /\ Types /\ Shape /\ Start /\ Asks /\ Standing /\ phase \in Phases
        /\ \A p \in Player : alive[p] \subseteq Char
    BY DEF IInv, Types
  <2>1. CASE phase = "SelectActive"
    <3>1. alive[turn] = Char /\ 0 \in Char
      BY <2>0, <2>1, TurnAssumption DEF Start, Types, Char
    <3> QED
      BY <2>1, <3>1 DEF SomeGuard
  <2>2. CASE phase = "RoundStart"
    BY <2>2 DEF SomeGuard
  <2>3. CASE phase \in {"Action", "RoundEnd"} /\ asking # Nobody
    <3>1. asking \in Player /\ active[asking] \notin alive[asking] /\ alive[asking] # {}
      BY <2>0, <2>3 DEF Types, Standing
    <3>2. PICK c \in alive[asking] : TRUE
      BY <3>1
    <3> QED
      BY <2>0, <2>3, <3>1, <3>2 DEF SomeGuard
  <2>4. CASE phase \in {"Action", "RoundEnd"} /\ asking = Nobody /\ task # <<>>
    <3>1. Head(task) \in Rules \cup Calls
      BY <2>0, <2>4, FirstItem DEF Shape
    <3> QED
      BY <2>4, <3>1 DEF SomeGuard, InRules, Calling
  <2>5. CASE phase \in {"Action", "RoundEnd"} /\ task = <<>>
    <3>1. task \notin EndTasks
      BY <2>5, FirstItem
    <3> QED
      BY <2>0, <2>5, <3>1 DEF SomeGuard, MayAct, Shape
  <2> QED
    BY <2>0, <2>1, <2>2, <2>3, <2>4, <2>5 DEF Phases
<1> QED
  BY <1>1, Invariant, PTL

\* A game that is over stays over, with its result: what is left of the Step
\* that ended it can flip the turn but neither judge nor start a round.
THEOREM Final == Spec => OverIsFinal
<1>1. IInv /\ [Next]_vars => [phase = "GameOver" => phase' = "GameOver" /\ winner' = winner]_vars
  <2> SUFFICES ASSUME IInv, Next, phase = "GameOver"
               PROVE  phase' = "GameOver" /\ winner' = winner
    OBVIOUS
  <2>1. CASE Choose
    BY <2>1 DEF IInv, Asks, Choose, SelectActive, NewRound, UseSkill, PlayCard, Switch, Act, MayAct,
       EndTurn, ChooseReplacement
  <2>2. CASE RuleEffect
    BY <2>2 DEF RuleEffect, Defeat, DefeatOverloaded, ForceSwitchTo, SetPreparing, RulesFire
  <2>3. CASE FinishRules \/ FlipTurn \/ ResolvePreparing
    BY <2>3 DEF FinishRules, FlipTurn, ResolvePreparing
  <2>4. CASE CheckActionPhaseEnd
    <3>1. task = <<"checkActionPhaseEnd">> /\ task \in ActionTasks
      BY <2>4, CallStacks DEF CheckActionPhaseEnd, IInv, Shape, ActionTasks
    <3>2. ~BothEnded(declaredEnd)
      BY <3>1 DEF IInv, Types, Holding, Acting, BothEnded
    <3> QED
      BY <2>4, <3>2 DEF CheckActionPhaseEnd
  <2>5. ~FinalStage
    BY CallStacks DEF FinalStage, IInv, Shape
  <2> QED
    BY <2>1, <2>2, <2>3, <2>4, <2>5 DEF Next, Handler
<1> QED
  BY <1>1, Invariant, PTL DEF Spec, OverIsFinal

(***************************************************************************)
(* Continuation: what a replay rests on                                    *)
(***************************************************************************)
Places   == [data : Data, stack : Stack, told : Seq(Entry), used : Nat]
SnapType == [data : Data \cup {Nil}, pending : Request \cup {Nil},
             status : {"idle", "waiting"}, cont : Conts \cup {NoCont}]

Alive(g)  == status[g] \in {"running", "waiting"}
Waited(s) == s \in held /\ snap[s].status = "waiting"
Last(c)   == c.path[Len(c.path)]

RTypes ==
  /\ RTypeOK
  /\ snap \in [Snaps -> SnapType]
  /\ at \in [Games -> Nat] /\ kept \in [Games -> Seq(Entry)]
  /\ \A s \in Snaps : IF snap[s].status = "waiting" THEN snap[s].cont \in Conts
                       ELSE snap[s].cont = NoCont

\* In the path of c, q follows p, if the snapshots have the contents sn.
Onward(sn, c, p, q) ==
  \/ /\ Does[p.data, p.stack] = "go"
     /\ q = Place(Moves[p.data, p.stack].data, Moves[p.data, p.stack].stack,
                  Append(p.told, Moves[p.data, p.stack].event), p.used)
  \/ /\ Does[p.data, p.stack] = "ask" /\ p.used < Len(c.choices)
     /\ Fits[c.choices[p.used + 1].action] = Wants[p.stack]
     /\ q = Place(sn[c.choices[p.used + 1].state].data,
                  Answer[p.stack, c.choices[p.used + 1].action],
                  Append(p.told, c.choices[p.used + 1].action), p.used + 1)

\* The operation run from its root, with its choices, goes along its path.
Traced(sn, c) ==
  /\ Len(c.path) > 0 /\ c.path[1] = Place(sn[c.root].data, c.op, <<>>, 0)
  /\ \A j \in 1 .. Len(c.path) - 1 : Onward(sn, c, c.path[j], c.path[j + 1])
  /\ \A j \in 1 .. Len(c.path) : c.path[j].used <= Last(c).used

\* f are the snapshots that are free, h those held.
Safe(sn, f, h, c) ==
  /\ c \in Conts /\ \A s \in Refs(c) : s \notin f /\ s \notin h
  /\ Traced(sn, c)

\* A continuation that waits for a reply to r.
Waits(c, r) ==
  /\ Last(c).used = Len(c.choices) /\ Does[Last(c).data, Last(c).stack] = "ask"
  /\ r = Wants[Last(c).stack]

\* An operation that runs is somewhere on its path: at its end when it has taken all
\* its choices; before, the end is where it will ask for the last one.
Runs(sn, c, i, d, k, n) ==
  /\ i \in 1 .. Len(c.path)
  /\ c.path[i].data = d /\ c.path[i].stack = k /\ n = c.path[i].used + 1
  /\ IF n <= Len(c.choices)
     THEN /\ Last(c).used = Len(c.choices) - 1
          /\ Does[Last(c).data, Last(c).stack] = "ask"
          /\ c.choices[Len(c.choices)].action
               \in Legal[sn[c.choices[Len(c.choices)].state].data, Wants[Last(c).stack]]
     ELSE i = Len(c.path) /\ Last(c).used = Len(c.choices)

\* A game with a log runs operations begun on that log; while it replays, the log is
\* what was kept up to the beginning of the operation and what the path tells.
Tells(g, c, i, n, l, k) ==
  g \in Logged =>
    /\ c.of = g
    /\ n <= Len(c.choices) =>
         c.base <= Len(k) /\ l = SubSeq(k, 1, c.base) \o c.path[i].told

\* Nobody shares the root of an operation that has not waited yet.
Sole(g) ==
  /\ \A h \in Games \ {g} : Alive(h) => cont[g].root \notin Refs(cont[h])
  /\ \A s \in Snaps : Waited(s) => cont[g].root \notin Refs(snap[s].cont)

GamesSafe  == \A g \in Games : Alive(g) => Safe(snap, free, held, cont[g])
SnapsSafe  == \A s \in Snaps : Waited(s) => /\ Safe(snap, free, held, snap[s].cont)
                                            /\ Waits(snap[s].cont, snap[s].pending)
GamesWait  == \A g \in Games : status[g] = "waiting" => Waits(cont[g], pending[g])
GamesRun   == \A g \in Games : status[g] = "running" =>
                Runs(snap, cont[g], at[g], data[g], stack[g], next[g])
GamesTell  == \A g \in Games : status[g] = "running" =>
                Tells(g, cont[g], at[g], next[g], log[g], kept[g])
OwnLog     == \A g \in Logged : Alive(g) => cont[g].of = g
RootsSole  == \A g \in Games : status[g] = "running" /\ Chosen(g) = 0 => Sole(g)

RInv == /\ RTypes /\ GamesSafe /\ SnapsSafe /\ GamesWait /\ GamesRun /\ GamesTell
        /\ OwnLog /\ RootsSole

(***************************************************************************)
(* Continuations as values                                                 *)
(***************************************************************************)
LEMMA RefsOf ==
  ASSUME NEW c \in Conts
  PROVE  /\ c.root \in Refs(c) /\ Refs(c) \subseteq Snaps
         /\ \A i \in 1 .. Len(c.choices) :
              /\ c.choices[i] \in [state : Snaps, action : Action]
              /\ c.choices[i].state \in Refs(c)
         /\ c # NoCont
<1>1. c.root \in Snaps /\ c.choices \in Seq([state : Snaps, action : Action])
  BY DEF Conts
<1>2. \A i \in 1 .. Len(c.choices) : c.choices[i] \in [state : Snaps, action : Action]
  <2> DEFINE X == [state : Snaps, action : Action]
  <2>1. c.choices \in Seq(X)
    BY <1>1
  <2> HIDE DEF X
  <2>2. \A i \in 1 .. Len(c.choices) : c.choices[i] \in X
    BY <2>1
  <2> QED
    BY <2>2 DEF X
<1>3. DOMAIN c.choices = 1 .. Len(c.choices)
  BY <1>1
<1>4. NoCont.root = Nil /\ Nil \notin Snaps
  BY ContinuationAssumption DEF NoCont
<1> QED
  BY <1>1, <1>2, <1>3, <1>4 DEF Refs

LEMMA PathOf ==
  ASSUME NEW c \in Conts
  PROVE  /\ Len(c.path) \in Nat /\ Len(c.choices) \in Nat
         /\ \A j \in 1 .. Len(c.path) : /\ c.path[j] \in Places
                                        /\ c.path[j].used \in Nat
<1>1. c.path \in Seq(Places) /\ c.choices \in Seq([state : Snaps, action : Action])
  BY DEF Conts, Paths, Places
<1>2. \A p \in Places : p.used \in Nat
  BY DEF Places
<1> QED
  BY <1>1, <1>2

LEMMA SafeIntact ==
  ASSUME NEW sn, NEW f, NEW h, NEW sn2, NEW f2, NEW h2, NEW c, Safe(sn, f, h, c),
         \A s \in Refs(c) : s \notin f2 /\ s \notin h2 /\ sn2[s] = sn[s]
  PROVE  Safe(sn2, f2, h2, c)
<1>1. c \in Conts /\ Traced(sn, c)
  BY DEF Safe
<1>2. sn2[c.root] = sn[c.root]
  BY <1>1, RefsOf
<1>3. ASSUME NEW j \in 1 .. Len(c.path) - 1
      PROVE  Onward(sn2, c, c.path[j], c.path[j + 1])
  <2>1. Onward(sn, c, c.path[j], c.path[j + 1])
    BY <1>1 DEF Traced
  <2>2. j \in 1 .. Len(c.path) /\ c.path[j].used \in Nat
    BY <1>1, <1>3, PathOf
  <2>3. c.path[j].used < Len(c.choices) =>
          c.path[j].used + 1 \in 1 .. Len(c.choices)
    BY <1>1, <2>2, PathOf
  <2>4. c.path[j].used < Len(c.choices) =>
          sn2[c.choices[c.path[j].used + 1].state] = sn[c.choices[c.path[j].used + 1].state]
    BY <1>1, <2>3, RefsOf
  <2> QED
    BY <2>1, <2>4 DEF Onward
<1> QED
  BY <1>1, <1>2, <1>3 DEF Safe, Traced

\* A path that has grown by a place.
LEMMA Grown ==
  ASSUME NEW sn, NEW f, NEW h, NEW c, Safe(sn, f, h, c), NEW q \in Places,
         Onward(sn, c, Last(c), q), NEW c2,
         c2 = [c EXCEPT !.path = Append(@, q)]
  PROVE  /\ Safe(sn, f, h, c2) /\ Last(c2) = q /\ Len(c2.path) = Len(c.path) + 1
         /\ c2.path[Len(c.path) + 1] = q
         /\ c2.root = c.root /\ c2.op = c.op /\ c2.choices = c.choices
         /\ c2.of = c.of /\ c2.base = c.base /\ Refs(c2) = Refs(c)
<1> DEFINE n == Len(c.path)
<1>1. c \in Conts /\ Traced(sn, c) /\ n \in Nat /\ n > 0
  BY PathOf DEF Safe, Traced
<1>2. c.path \in Seq(Places)
  BY <1>1 DEF Conts, Paths, Places
<1>3. /\ c2.root = c.root /\ c2.op = c.op /\ c2.choices = c.choices
      /\ c2.of = c.of /\ c2.base = c.base /\ c2.path = Append(c.path, q)
  BY <1>1 DEF Conts
<1>4. /\ Append(c.path, q) \in Seq(Places) /\ Len(Append(c.path, q)) = n + 1
      /\ \A j \in 1 .. n : Append(c.path, q)[j] = c.path[j]
      /\ Append(c.path, q)[n + 1] = q
  BY <1>2
<1>5. c2 \in Conts
  BY <1>1, <1>4 DEF Conts, Paths, Places
<1>6. Last(c2) = q /\ Len(c2.path) = n + 1 /\ c2.path[n + 1] = q
      /\ \A j \in 1 .. n : c2.path[j] = c.path[j]
  BY <1>3, <1>4 DEF Last
<1>7. Last(c).used <= q.used
  <2>1. Last(c).used \in Nat
    BY <1>1, PathOf DEF Last
  <2>2. q.used = Last(c).used \/ q.used = Last(c).used + 1
    <3>1. \E d, k, t, u : q = Place(d, k, t, u) /\ (u = Last(c).used \/ u = Last(c).used + 1)
      BY Zenon DEF Onward
    <3> QED
      BY <3>1 DEF Place
  <2> QED
    BY <2>1, <2>2
<1>8. ASSUME NEW j \in 1 .. n PROVE Onward(sn, c2, c2.path[j], c2.path[j + 1])
  <2>1. CASE j = n
    BY <1>1, <1>3, <1>6, <2>1 DEF Onward, Last
  <2>2. CASE j < n
    <3>1. j \in 1 .. n - 1 /\ j + 1 \in 1 .. n
      BY <1>1, <2>2
    <3>2. Onward(sn, c, c.path[j], c.path[j + 1])
      BY <1>1, <3>1 DEF Traced
    <3> QED
      BY <1>3, <1>6, <3>1, <3>2 DEF Onward
  <2> QED
    BY <1>1, <2>1, <2>2
<1>9. \A j \in 1 .. n + 1 : c2.path[j].used <= Last(c2).used
  <2>1. \A j \in 1 .. n : c.path[j].used <= Last(c).used /\ c.path[j].used \in Nat
    BY <1>1, PathOf DEF Traced
  <2>2. q.used \in Nat /\ Last(c).used \in Nat
    BY <1>1, <2>1 DEF Places, Last
  <2> QED
    BY <1>1, <1>6, <1>7, <2>1, <2>2
<1>10. Refs(c2) = Refs(c)
  BY <1>3 DEF Refs
<1>11. Traced(sn, c2)
  <2>1. c2.path[1] = c.path[1]
    BY <1>1, <1>6
  <2>2. Len(c2.path) = n + 1 /\ Len(c2.path) > 0 /\ Len(c2.path) - 1 = n
    BY <1>1, <1>6
  <2>3. \A j \in 1 .. Len(c2.path) - 1 : Onward(sn, c2, c2.path[j], c2.path[j + 1])
    BY <1>8, <2>2
  <2>4. \A j \in 1 .. Len(c2.path) : c2.path[j].used <= Last(c2).used
    BY <1>9, <2>2
  <2>5. c2.path[1] = Place(sn[c2.root].data, c2.op, <<>>, 0)
    BY <1>1, <1>3, <2>1 DEF Traced
  <2> QED
    BY <2>2, <2>3, <2>4, <2>5 DEF Traced
<1> QED
  BY <1>3, <1>5, <1>6, <1>10, <1>11 DEF Safe

\* A continuation with one choice more.
LEMMA Chosen1 ==
  ASSUME NEW sn, NEW f, NEW h, NEW c, Safe(sn, f, h, c), NEW s \in Snaps, NEW a \in Action,
         s \notin f, s \notin h, NEW c2,
         c2 = [c EXCEPT !.choices = Append(@, [state |-> s, action |-> a])]
  PROVE  /\ Safe(sn, f, h, c2) /\ Last(c2) = Last(c) /\ c2.path = c.path
         /\ c2.root = c.root /\ c2.op = c.op /\ c2.of = c.of /\ c2.base = c.base
         /\ Len(c2.choices) = Len(c.choices) + 1
         /\ c2.choices[Len(c.choices) + 1] = [state |-> s, action |-> a]
         /\ Refs(c2) = Refs(c) \cup {s}
<1> DEFINE n == Len(c.choices)
           x == [state |-> s, action |-> a]
<1>1. c \in Conts /\ Traced(sn, c) /\ n \in Nat
  BY PathOf DEF Safe
<1>2. c.choices \in Seq([state : Snaps, action : Action]) /\ x \in [state : Snaps, action : Action]
  BY <1>1 DEF Conts
<1>3. /\ c2.root = c.root /\ c2.op = c.op /\ c2.path = c.path
      /\ c2.of = c.of /\ c2.base = c.base /\ c2.choices = Append(c.choices, x)
  BY <1>1 DEF Conts
<1>4. /\ Append(c.choices, x) \in Seq([state : Snaps, action : Action])
      /\ Len(Append(c.choices, x)) = n + 1
      /\ \A j \in 1 .. n : Append(c.choices, x)[j] = c.choices[j]
      /\ Append(c.choices, x)[n + 1] = x
  BY <1>2
<1>5. c2 \in Conts
  BY <1>1, <1>4 DEF Conts
<1>6. Len(c2.choices) = n + 1 /\ c2.choices[n + 1] = x
      /\ \A j \in 1 .. n : c2.choices[j] = c.choices[j]
  BY <1>3, <1>4
<1>7. Refs(c2) = Refs(c) \cup {s}
  <2>1. DOMAIN c2.choices = 1 .. n + 1 /\ DOMAIN c.choices = 1 .. n
    BY <1>2, <1>3, <1>4
  <2>2. {c2.choices[i].state : i \in 1 .. n + 1} = {c.choices[i].state : i \in 1 .. n} \cup {s}
    BY <1>1, <1>6
  <2> QED
    BY <1>3, <2>1, <2>2 DEF Refs
<1>8. ASSUME NEW j \in 1 .. Len(c.path) - 1 PROVE Onward(sn, c2, c.path[j], c.path[j + 1])
  <2>1. Onward(sn, c, c.path[j], c.path[j + 1])
    BY <1>1 DEF Traced
  <2>2. c.path[j].used \in Nat
    BY <1>1, PathOf
  <2>3. c.path[j].used < n => /\ c.path[j].used < n + 1
                              /\ c2.choices[c.path[j].used + 1] = c.choices[c.path[j].used + 1]
    BY <1>1, <1>6, <2>2
  <2> QED
    BY <1>6, <2>1, <2>3 DEF Onward
<1>9. Traced(sn, c2) /\ Last(c2) = Last(c)
  BY <1>1, <1>3, <1>8 DEF Traced, Last
<1> QED
  BY <1>3, <1>5, <1>6, <1>7, <1>9 DEF Safe

LEMMA AppendIn ==
  ASSUME NEW S, NEW s \in Seq(S), NEW e \in S
  PROVE  Append(s, e) \in Seq(S)
  OBVIOUS

LEMMA EntryConcat ==
  ASSUME NEW s \in Seq(Entry), NEW t \in Seq(Entry), NEW e \in Entry
  PROVE  Append(s \o t, e) = s \o Append(t, e)
<1>1. s \o t \in Seq(Entry) /\ <<e>> \in Seq(Entry)
  OBVIOUS
<1>2. t \o <<e>> = Append(t, e) /\ (s \o t) \o <<e>> = Append(s \o t, e)
  BY <1>1, AppendIsConcat
<1>3. (s \o t) \o <<e>> = s \o (t \o <<e>>)
  BY <1>1, ConcatAssociative
<1> QED
  BY <1>2, <1>3

(***************************************************************************)
(* Continuation: what a step of one game leaves alone, and what it owes    *)
(***************************************************************************)
Intact(c) == \A s \in Refs(c) : s \notin free' /\ s \notin held' /\ snap'[s] = snap[s]

Elsewhere(g) ==
  /\ \A h \in Games \ {g} :
       /\ data'[h] = data[h] /\ pending'[h] = pending[h] /\ status'[h] = status[h]
       /\ cont'[h] = cont[h] /\ stack'[h] = stack[h] /\ next'[h] = next[h]
       /\ log'[h] = log[h] /\ at'[h] = at[h] /\ kept'[h] = kept[h]
       /\ Alive(h) => Intact(cont[h])
  /\ \A s \in Snaps : s \in held' /\ snap'[s].status = "waiting" =>
       /\ Intact(snap'[s].cont)
       /\ \/ Waited(s) /\ snap'[s] = snap[s]
          \/ /\ g \in Games /\ status[g] = "waiting"
             /\ snap'[s].cont = cont[g] /\ snap'[s].pending = pending[g]

Owed(g) ==
  /\ status'[g] = "waiting" => Waits(cont'[g], pending'[g])
  /\ status'[g] = "running" =>
       /\ Runs(snap', cont'[g], at'[g], data'[g], stack'[g], next'[g])
       /\ Tells(g, cont'[g], at'[g], next'[g], log'[g], kept'[g])
       /\ Len(cont'[g].choices) = 0 =>
            /\ \A h \in Games \ {g} : Alive(h) => cont'[g].root \notin Refs(cont[h])
            /\ \A s \in Snaps : s \in held' /\ snap'[s].status = "waiting" =>
                 cont'[g].root \notin Refs(snap'[s].cont)
  /\ status'[g] \in {"running", "waiting"} =>
       /\ Safe(snap', free', held', cont'[g])
       /\ g \in Logged => cont'[g].of = g
       /\ \A h \in Games \ {g} : status[h] = "running" /\ Chosen(h) = 0 =>
            cont[h].root \notin Refs(cont'[g])

LEMMA Frame ==
  ASSUME RInv, RTypes', NEW g \in Games \cup {Nil}, Elsewhere(g), g \in Games => Owed(g)
  PROVE  RInv'
<1>1. GamesSafe'
  <2> SUFFICES ASSUME NEW h \in Games, status'[h] \in {"running", "waiting"}
               PROVE  Safe(snap', free', held', cont'[h])
    BY DEF GamesSafe, Alive
  <2>1. CASE h = g
    BY <2>1 DEF Owed
  <2>2. CASE h # g
    <3>1. Safe(snap, free, held, cont[h]) /\ cont'[h] = cont[h] /\ Intact(cont[h])
      BY <2>2 DEF RInv, GamesSafe, Alive, Elsewhere
    <3> QED
      BY <3>1, SafeIntact DEF Intact
  <2> QED
    BY <2>1, <2>2
<1>2. SnapsSafe'
  <2> SUFFICES ASSUME NEW s \in Snaps, s \in held', snap'[s].status = "waiting"
               PROVE  /\ Safe(snap', free', held', snap'[s].cont)
                      /\ Waits(snap'[s].cont, snap'[s].pending)
    BY DEF SnapsSafe, Waited
  <2>1. Intact(snap'[s].cont)
    BY DEF Elsewhere
  <2>2. Safe(snap, free, held, snap'[s].cont) /\ Waits(snap'[s].cont, snap'[s].pending)
    <3>1. CASE Waited(s) /\ snap'[s] = snap[s]
      BY <3>1 DEF RInv, SnapsSafe
    <3>2. CASE g \in Games /\ status[g] = "waiting"
               /\ snap'[s].cont = cont[g] /\ snap'[s].pending = pending[g]
      BY <3>2 DEF RInv, GamesSafe, GamesWait, Alive
    <3> QED
      BY <3>1, <3>2 DEF Elsewhere
  <2>3. Safe(snap', free', held', snap'[s].cont)
    BY <2>1, <2>2, SafeIntact DEF Intact
  <2> QED
    BY <2>2, <2>3
<1>3. GamesWait'
  BY DEF GamesWait, RInv, Elsewhere, Owed
<1>4. GamesRun'
  <2> SUFFICES ASSUME NEW h \in Games, status'[h] = "running"
               PROVE  Runs(snap', cont'[h], at'[h], data'[h], stack'[h], next'[h])
    BY DEF GamesRun
  <2>1. CASE h = g
    BY <2>1 DEF Owed
  <2>2. CASE h # g
    <3>1. /\ status[h] = "running" /\ cont'[h] = cont[h] /\ Intact(cont[h])
          /\ at'[h] = at[h] /\ data'[h] = data[h] /\ stack'[h] = stack[h] /\ next'[h] = next[h]
      BY <2>2 DEF Elsewhere, Alive
    <3>2. Runs(snap, cont[h], at[h], data[h], stack[h], next[h]) /\ cont[h] \in Conts
      BY <3>1 DEF RInv, GamesRun, GamesSafe, Safe, Alive
    <3>3. ASSUME next[h] <= Len(cont[h].choices)
          PROVE  snap'[cont[h].choices[Len(cont[h].choices)].state]
                   = snap[cont[h].choices[Len(cont[h].choices)].state]
      <4>1. cont[h].path[at[h]].used \in Nat /\ next[h] = cont[h].path[at[h]].used + 1
            /\ Len(cont[h].choices) \in Nat
        BY <3>2, PathOf DEF Runs
      <4>2. Len(cont[h].choices) \in 1 .. Len(cont[h].choices)
        BY <3>3, <4>1
      <4> QED
        BY <3>1, <3>2, <4>2, RefsOf DEF Intact
    <3> QED
      BY <3>1, <3>2, <3>3 DEF Runs
  <2> QED
    BY <2>1, <2>2
<1>5. GamesTell'
  BY DEF GamesTell, RInv, Elsewhere, Owed
<1>6. OwnLog'
  BY ContinuationAssumption DEF OwnLog, RInv, Elsewhere, Owed, Alive
<1>7. RootsSole'
  <2> SUFFICES ASSUME NEW h \in Games, status'[h] = "running", Len(cont'[h].choices) = 0
               PROVE  /\ \A i \in Games \ {h} : status'[i] \in {"running", "waiting"} =>
                           cont'[h].root \notin Refs(cont'[i])
                      /\ \A s \in Snaps : s \in held' /\ snap'[s].status = "waiting" =>
                           cont'[h].root \notin Refs(snap'[s].cont)
    BY DEF RootsSole, Sole, Alive, Waited, Chosen
  <2>1. CASE h = g
    <3>1. ASSUME NEW i \in Games \ {h}, status'[i] \in {"running", "waiting"}
          PROVE  cont'[h].root \notin Refs(cont'[i])
      BY <2>1, <3>1 DEF Elsewhere, Owed, Alive
    <3> QED
      BY <2>1, <3>1 DEF Owed
  <2>2. CASE h # g
    <3>1. status[h] = "running" /\ Chosen(h) = 0 /\ cont'[h] = cont[h]
      BY <2>2 DEF Elsewhere, Chosen
    <3>2. Sole(h)
      BY <3>1 DEF RInv, RootsSole
    <3>3. ASSUME NEW i \in Games \ {h}, status'[i] \in {"running", "waiting"}
          PROVE  cont[h].root \notin Refs(cont'[i])
      <4>1. CASE i = g
        BY <2>2, <3>1, <3>3, <4>1 DEF Owed
      <4>2. CASE i # g
        BY <3>2, <3>3, <4>2 DEF Elsewhere, Sole, Alive
      <4> QED
        BY <4>1, <4>2
    <3>4. ASSUME NEW s \in Snaps, s \in held', snap'[s].status = "waiting"
          PROVE  cont[h].root \notin Refs(snap'[s].cont)
      <4>1. CASE Waited(s) /\ snap'[s] = snap[s]
        BY <3>2, <4>1 DEF Sole
      <4>2. CASE g \in Games /\ status[g] = "waiting" /\ snap'[s].cont = cont[g]
        BY <2>2, <3>2, <4>2 DEF Sole, Alive
      <4> QED
        BY <3>4, <4>1, <4>2 DEF Elsewhere
    <3> QED
      BY <3>1, <3>3, <3>4
  <2> QED
    BY <2>1, <2>2
<1> QED
  BY <1>1, <1>2, <1>3, <1>4, <1>5, <1>6, <1>7 DEF RInv

LEMMA RInitInv == RInit => RInv
<1> SUFFICES ASSUME RInit PROVE RInv
  OBVIOUS
<1>1. NoSnap \in SnapType
  BY DEF NoSnap, SnapType
<1>2. RTypes
  <2>1. RTypeOK
    BY DEF RInit, RTypeOK
  <2>2. <<>> \in Seq(Entry)
    OBVIOUS
  <2> QED
    BY <1>1, <2>1, <2>2 DEF RTypes, RInit, NoSnap
<1>3. held = {} /\ \A g \in Games : status[g] = "idle"
  BY DEF RInit
<1> QED
  BY <1>2, <1>3, ContinuationAssumption
     DEF RInv, GamesSafe, SnapsSafe, GamesWait, GamesRun, GamesTell, OwnLog,
         RootsSole, Alive, Waited, NoSnap

\* Nobody's continuation rests on a snapshot of the pool, or one that somebody holds.
LEMMA Unshared ==
  ASSUME RInv, NEW s \in Snaps, s \in free \/ s \in held
  PROVE  /\ \A h \in Games : Alive(h) => s \notin Refs(cont[h])
         /\ \A t \in Snaps : Waited(t) => s \notin Refs(snap[t].cont)
  BY DEF RInv, GamesSafe, SnapsSafe, Safe

LEMMA PoolSame ==
  ASSUME RInv, UNCHANGED pool
  PROVE  /\ \A h \in Games : Alive(h) => Intact(cont[h])
         /\ \A t \in Snaps : t \in held' /\ snap'[t].status = "waiting" =>
              Waited(t) /\ snap'[t] = snap[t] /\ Intact(snap'[t].cont)
  BY DEF pool, RInv, GamesSafe, SnapsSafe, Safe, Intact, Waited

LEMMA PoolBut ==
  ASSUME RInv, NEW s \in Snaps, NEW x, snap' = [snap EXCEPT ![s] = x],
         free' \subseteq free \cup {s}, held' \subseteq held \cup {s}
  PROVE  /\ \A h \in Games : Alive(h) /\ s \notin Refs(cont[h]) => Intact(cont[h])
         /\ \A t \in Snaps : t # s /\ t \in held' /\ snap'[t].status = "waiting" =>
              /\ Waited(t) /\ snap'[t] = snap[t]
              /\ s \notin Refs(snap[t].cont) => Intact(snap'[t].cont)
         /\ snap'[s] = x
<1>1. DOMAIN snap = Snaps /\ \A t \in Snaps : t # s => snap'[t] = snap[t]
  BY DEF RInv, RTypes
<1>2. ASSUME NEW c, Safe(snap, free, held, c), s \notin Refs(c)
      PROVE  Intact(c)
  <2>1. Refs(c) \subseteq Snaps
    BY <1>2, RefsOf DEF Safe
  <2> QED
    BY <1>1, <1>2, <2>1 DEF Safe, Intact
<1> QED
  BY <1>1, <1>2 DEF RInv, GamesSafe, SnapsSafe, Waited

LEMMA SampleInv ==
  ASSUME RInv, NEW g \in Games, NEW d \in Data, Sample(g, d)
  PROVE  RInv'
<1>1. RTypes'
  BY DEF Sample, pool, RInv, RTypes, RTypeOK
<1>2. Elsewhere(g)
  BY PoolSame DEF Sample, Elsewhere, RInv, RTypes, RTypeOK
<1>3. Owed(g)
  BY DEF Sample, pool, Quiescent, Owed, RInv, GamesWait, GamesSafe, OwnLog, RootsSole, Sole, Alive
<1> QED
  BY <1>1, <1>2, <1>3, Frame

LEMMA SnapshotPooledInv ==
  ASSUME RInv, NEW g \in Games, SnapshotPooled(g)
  PROVE  RInv'
<1> DEFINE x == [data |-> data[g], pending |-> pending[g], status |-> status[g], cont |-> cont[g]]
<1>1. PICK s \in free : /\ snap' = [snap EXCEPT ![s] = x]
                        /\ free' = free \ {s} /\ held' = held \cup {s}
  BY DEF SnapshotPooled
<1>2. UNCHANGED <<data, pending, status, cont, stack, next, log, at, kept>> /\ Quiescent(g)
  BY DEF SnapshotPooled, play
<1>3. RTypes /\ RTypeOK /\ s \in Snaps /\ s \notin held
  BY DEF RInv, RTypes, RTypeOK
<1>4. x \in SnapType /\ x.data \in Data
      /\ IF x.status = "waiting" THEN x.cont \in Conts ELSE x.cont = NoCont
  BY <1>2, <1>3 DEF RTypeOK, SnapType, Quiescent
<1> HIDE DEF x
<1>5. snap' \in [Snaps -> SnapType] /\ snap'[s] = x /\ \A t \in Snaps \ {s} : snap'[t] = snap[t]
  BY <1>1, <1>3, <1>4 DEF RTypes
<1>6. RTypes'
  <2>1. RTypeOK'
    BY <1>1, <1>2, <1>3, <1>4, <1>5 DEF RTypeOK, SnapType
  <2> QED
    BY <1>2, <1>3, <1>4, <1>5, <2>1 DEF RTypes
<1>7. Elsewhere(g)
  <2>1. \A h \in Games : Alive(h) => Intact(cont[h])
    BY <1>1, <1>3, Unshared, PoolBut
  <2>2. ASSUME NEW t \in Snaps, t \in held', snap'[t].status = "waiting"
        PROVE  /\ Intact(snap'[t].cont)
               /\ \/ Waited(t) /\ snap'[t] = snap[t]
                  \/ /\ status[g] = "waiting"
                     /\ snap'[t].cont = cont[g] /\ snap'[t].pending = pending[g]
    <3>1. CASE t = s
      BY <1>5, <2>1, <2>2, <3>1 DEF x, Alive
    <3>2. CASE t # s
      BY <1>1, <1>3, <2>2, <3>2, Unshared, PoolBut
    <3> QED
      BY <3>1, <3>2
  <2> QED
    BY <1>2, <2>1, <2>2 DEF Elsewhere
<1>8. Owed(g)
  <2>1. ASSUME Alive(g) PROVE Safe(snap', free', held', cont[g])
    <3>1. Safe(snap, free, held, cont[g])
      BY <2>1 DEF RInv, GamesSafe
    <3>2. Intact(cont[g])
      BY <1>1, <1>3, <2>1, Unshared, PoolBut
    <3> QED
      BY <3>1, <3>2, SafeIntact DEF Intact
  <2> QED
    BY <1>2, <2>1 DEF Quiescent, Owed, RInv, GamesWait, OwnLog, RootsSole, Sole, Alive
<1> QED
  BY <1>6, <1>7, <1>8, Frame

LEMMA RestoreFromSnapInv ==
  ASSUME RInv, NEW g \in Games, NEW s \in Snaps, RestoreFromSnap(g, s)
  PROVE  RInv'
<1>1. RTypes /\ RTypeOK /\ s \in held /\ s \notin free /\ Quiescent(g) /\ UNCHANGED pool
  BY DEF RInv, RTypes, RTypeOK, RestoreFromSnap
<1>2. /\ snap[s].data \in Data /\ snap[s].pending \in Request \cup {Nil}
      /\ snap[s].status \in {"idle", "waiting"} /\ snap[s].cont \in Conts \cup {NoCont}
      /\ snap[s].status = "waiting" <=> snap[s].cont # NoCont
  BY <1>1, RefsOf DEF RTypes, RTypeOK
<1>3. RTypes'
  <2>1. RTypeOK'
    BY <1>1, <1>2 DEF RTypeOK, RestoreFromSnap, pool, Quiescent
  <2> QED
    BY <1>1, <2>1 DEF RTypes, RestoreFromSnap, pool
<1>4. /\ cont'[g] = snap[s].cont /\ pending'[g] = snap[s].pending /\ status'[g] = snap[s].status
  BY <1>1 DEF RestoreFromSnap, RTypeOK
<1>5. Elsewhere(g)
  BY <1>1, PoolSame DEF RestoreFromSnap, Elsewhere, RTypeOK
<1>6. status'[g] = "waiting" => Waited(s) /\ Safe(snap', free', held', cont'[g])
                                /\ Waits(cont'[g], pending'[g])
  BY <1>1, <1>4 DEF RInv, SnapsSafe, Waited, pool
<1>7. Owed(g)
  BY <1>1, <1>2, <1>4, <1>6 DEF Owed, RestoreFromSnap, RInv, RootsSole, Sole
<1> QED
  BY <1>3, <1>5, <1>7, Frame

\* A snapshot that no continuation rests on goes to the pool.
LEMMA ReleaseInv ==
  ASSUME RInv, NEW s \in Snaps, Release(s), held' = held \ {s},
         \A h \in Games : Alive(h) => s \notin Refs(cont[h]),
         \A t \in Snaps : Waited(t) => s \notin Refs(snap[t].cont)
  PROVE  /\ snap' \in [Snaps -> SnapType] /\ \A t \in Snaps \ {s} : snap'[t] = snap[t]
         /\ snap'[s] = NoSnap /\ free' \subseteq Snaps /\ held' \subseteq Snaps \ free'
         /\ \A h \in Games : Alive(h) => Intact(cont[h])
         /\ \A t \in Snaps : t \in held' /\ snap'[t].status = "waiting" =>
              Waited(t) /\ snap'[t] = snap[t] /\ Intact(snap'[t].cont)
<1>1. NoSnap \in SnapType /\ NoSnap.status # "waiting"
  BY DEF NoSnap, SnapType
<1>2. RTypes /\ RTypeOK /\ snap' = [snap EXCEPT ![s] = NoSnap] /\ free' = free \cup {s}
  BY DEF RInv, RTypes, Release
<1>3. free' \subseteq Snaps /\ held' \subseteq Snaps \ free'
  BY <1>2 DEF RTypeOK
<1>4. /\ snap' \in [Snaps -> SnapType] /\ snap'[s] = NoSnap
      /\ \A t \in Snaps \ {s} : snap'[t] = snap[t]
  BY <1>1, <1>2 DEF RTypes
<1>5. \A h \in Games : Alive(h) => Intact(cont[h])
  BY <1>2, PoolBut
<1>6. \A t \in Snaps : t \in held' /\ snap'[t].status = "waiting" =>
        Waited(t) /\ snap'[t] = snap[t] /\ Intact(snap'[t].cont)
  BY <1>2, PoolBut
<1> QED
  BY <1>3, <1>4, <1>5, <1>6

LEMMA ReleaseTypes ==
  ASSUME RTypes, NEW s \in Snaps, free' = free \cup {s},
         snap' \in [Snaps -> SnapType], \A t \in Snaps \ {s} : snap'[t] = snap[t], snap'[s] = NoSnap
  PROVE  /\ \A t \in Snaps \ free' :
              /\ snap'[t].data \in Data /\ snap'[t].pending \in Request \cup {Nil}
              /\ snap'[t].status \in {"idle", "waiting"} /\ snap'[t].cont \in Conts \cup {NoCont}
         /\ \A t \in Snaps : IF snap'[t].status = "waiting" THEN snap'[t].cont \in Conts
                             ELSE snap'[t].cont = NoCont
<1>1. NoSnap.status # "waiting" /\ NoSnap.cont = NoCont
  BY DEF NoSnap
<1>2. \A t \in Snaps \ free' : t \in Snaps \ free /\ t # s
  OBVIOUS
<1> QED
  BY <1>1, <1>2 DEF RTypes, RTypeOK

LEMMA PutBackInv ==
  ASSUME RInv, NEW s \in Snaps, ReleaseSnap(s) \/ Collect(s)
  PROVE  RInv'
<1>1. /\ Release(s) /\ held' = held \ {s}
      /\ UNCHANGED <<data, pending, status, cont, stack, next, log, at, kept>>
  BY DEF ReleaseSnap, Collect, play
<1>2. /\ \A h \in Games : Alive(h) => s \notin Refs(cont[h])
      /\ \A t \in Snaps : Waited(t) => s \notin Refs(snap[t].cont)
  <2>1. CASE ReleaseSnap(s)
    BY <2>1, Unshared DEF ReleaseSnap
  <2>2. CASE Collect(s)
    BY <2>2 DEF Collect, Live, Alive, Waited, RInv, RTypes, RTypeOK
  <2> QED
    BY <2>1, <2>2
<1>3. /\ snap' \in [Snaps -> SnapType] /\ \A t \in Snaps \ {s} : snap'[t] = snap[t]
      /\ snap'[s] = NoSnap /\ free' \subseteq Snaps /\ held' \subseteq Snaps \ free'
      /\ \A h \in Games : Alive(h) => Intact(cont[h])
      /\ \A t \in Snaps : t \in held' /\ snap'[t].status = "waiting" =>
           Waited(t) /\ snap'[t] = snap[t] /\ Intact(snap'[t].cont)
  BY <1>1, <1>2, ReleaseInv
<1>4. RTypes'
  <2>1. RTypes /\ free' = free \cup {s}
    BY <1>1 DEF Release, RInv
  <2>2. /\ \A t \in Snaps \ free' :
             /\ snap'[t].data \in Data /\ snap'[t].pending \in Request \cup {Nil}
             /\ snap'[t].status \in {"idle", "waiting"} /\ snap'[t].cont \in Conts \cup {NoCont}
        /\ \A t \in Snaps : IF snap'[t].status = "waiting" THEN snap'[t].cont \in Conts
                            ELSE snap'[t].cont = NoCont
    BY <1>3, <2>1, ReleaseTypes
  <2>3. RTypeOK'
    BY <1>1, <1>3, <2>1, <2>2 DEF RTypes, RTypeOK
  <2> QED
    BY <1>1, <1>3, <2>1, <2>2, <2>3 DEF RTypes
<1>5. Elsewhere(Nil)
  BY <1>1, <1>3 DEF Elsewhere
<1>6. Nil \notin Games
  BY ContinuationAssumption
<1> QED
  BY <1>4, <1>5, <1>6, Frame

\* An operation that stops, to wait or for good.
LEMMA StopsTypes ==
  ASSUME RTypes, NEW g \in Games, NEW s \in {"waiting", "idle", "failed"}, Stops(g, s),
         \/ s = "waiting" /\ status[g] = "running" /\ cont' = cont
         \/ s # "waiting" /\ cont' = [cont EXCEPT ![g] = NoCont]
  PROVE  /\ status' \in [Games -> {"idle", "running", "waiting", "failed"}]
         /\ cont' \in [Games -> Conts \cup {NoCont}]
         /\ next' \in [Games -> Nat \ {0}] /\ at' \in [Games -> Nat]
         /\ kept' \in [Games -> Seq(Entry)]
         /\ \A h \in Games : status'[h] \in {"running", "waiting"} <=> cont'[h] # NoCont
         /\ stack' \in [Games -> Stack \cup {Nil}]
         /\ \A h \in Games : status'[h] = "running" <=> stack'[h] # Nil
         /\ \A h \in Games \ {g} :
              /\ status'[h] = status[h] /\ cont'[h] = cont[h] /\ stack'[h] = stack[h]
              /\ next'[h] = next[h] /\ at'[h] = at[h] /\ kept'[h] = kept[h]
         /\ status'[g] = s /\ stack'[g] = Nil
<1>1. status' \in [Games -> {"idle", "running", "waiting", "failed"}]
      /\ status'[g] = s /\ \A h \in Games \ {g} : status'[h] = status[h]
  BY DEF RTypes, RTypeOK, Stops
<1>2. cont' \in [Games -> Conts \cup {NoCont}] /\ \A h \in Games \ {g} : cont'[h] = cont[h]
  BY DEF RTypes, RTypeOK
<1>3. next' \in [Games -> Nat \ {0}] /\ \A h \in Games \ {g} : next'[h] = next[h]
  BY DEF RTypes, RTypeOK, Stops
<1>4. at' \in [Games -> Nat] /\ \A h \in Games \ {g} : at'[h] = at[h]
  BY DEF RTypes, Stops
<1>5. kept' \in [Games -> Seq(Entry)] /\ \A h \in Games \ {g} : kept'[h] = kept[h]
  <2>1. kept' = [kept EXCEPT ![g] = <<>>] /\ <<>> \in Seq(Entry) /\ kept \in [Games -> Seq(Entry)]
    BY DEF RTypes, Stops
  <2> QED
    BY <2>1
<1>6. stack' \in [Games -> Stack \cup {Nil}] /\ stack'[g] = Nil
      /\ \A h \in Games \ {g} : stack'[h] = stack[h]
  BY DEF RTypes, RTypeOK, Stops
<1>7. \A h \in Games : status'[h] \in {"running", "waiting"} <=> cont'[h] # NoCont
  <2>1. cont'[g] # NoCont <=> s = "waiting"
    BY DEF RTypes, RTypeOK
  <2> QED
    BY <1>1, <1>2, <2>1 DEF RTypes, RTypeOK
<1>8. \A h \in Games : status'[h] = "running" <=> stack'[h] # Nil
  BY <1>1, <1>6 DEF RTypes, RTypeOK
<1> QED
  BY <1>1, <1>2, <1>3, <1>4, <1>5, <1>6, <1>7, <1>8

LEMMA SuspendInv ==
  ASSUME RInv, NEW g \in Games, Suspend(g)
  PROVE  RInv'
<1>1. RTypes /\ RTypeOK /\ UNCHANGED <<data, cont, log, pool>> /\ status[g] = "running"
  BY DEF RInv, RTypes, Suspend
<1>2. Runs(snap, cont[g], at[g], data[g], stack[g], next[g])
  BY <1>1 DEF RInv, GamesRun
<1>3. Safe(snap, free, held, cont[g])
  BY <1>1 DEF RInv, GamesSafe, Alive
<1>4. data[g] \in Data /\ stack[g] \in Stack /\ Wants[stack[g]] \in Request
  BY <1>1, ContinuationAssumption DEF RTypeOK
<1>5. Stops(g, "waiting") /\ pending' = [pending EXCEPT ![g] = Wants[stack[g]]]
  BY DEF Suspend
<1>6. RTypes' /\ Elsewhere(g)
  <2>1. pending' \in [Games -> Request \cup {Nil}]
        /\ \A h \in Games \ {g} : pending'[h] = pending[h]
    BY <1>1, <1>4, <1>5 DEF RTypeOK
  <2>2. RTypeOK'
    BY <1>1, <1>5, <2>1, StopsTypes DEF RTypeOK, pool
  <2>3. RTypes'
    BY <1>1, <1>5, <2>2, StopsTypes DEF RTypes, pool
  <2>4. Elsewhere(g)
    BY <1>1, <1>5, <2>1, PoolSame, StopsTypes DEF Elsewhere
  <2> QED
    BY <2>3, <2>4
<1>7. Waits(cont[g], Wants[stack[g]])
  <2>1. ~ (next[g] <= Len(cont[g].choices))
    <3>1. Len(cont[g].choices) \in Nat /\ next[g] \in Nat
      BY <1>1, <1>3, PathOf DEF Safe, RTypeOK
    <3>2. next[g] > Len(cont[g].choices)
      BY DEF Suspend, Chosen
    <3> QED
      BY <3>1, <3>2
  <2>2. at[g] = Len(cont[g].path) /\ Last(cont[g]).used = Len(cont[g].choices)
    BY <1>2, <2>1 DEF Runs
  <2> QED
    BY <1>2, <2>2 DEF Runs, Waits, Last, Suspend
<1>8. status'[g] = "waiting" /\ pending'[g] = Wants[stack[g]] /\ cont'[g] = cont[g]
  BY <1>1, <1>5 DEF Stops, RTypeOK
<1>9. \A h \in Games \ {g} : status[h] = "running" /\ Chosen(h) = 0 =>
        cont[h].root \notin Refs(cont[g])
  BY <1>1 DEF RInv, RootsSole, Sole, Alive
<1>10. g \in Logged => cont[g].of = g
  BY <1>1 DEF RInv, OwnLog, Alive
<1>11. Owed(g)
  BY <1>1, <1>3, <1>7, <1>8, <1>9, <1>10 DEF Owed, pool
<1> QED
  BY <1>6, <1>11, Frame

\* A game whose operation is over, or has failed, has no continuation.
LEMMA FailRuleInv ==
  ASSUME RInv, NEW g \in Games, FailRule(g)
  PROVE  RInv'
<1>1. /\ RTypes /\ RTypeOK /\ UNCHANGED <<data, pending, log, pool>>
      /\ Stops(g, "failed") /\ cont' = [cont EXCEPT ![g] = NoCont]
  BY DEF RInv, RTypes, FailRule
<1>2. RTypeOK'
  BY <1>1, StopsTypes DEF RTypeOK, pool
<1>3. RTypes'
  BY <1>1, <1>2, StopsTypes DEF RTypes, pool
<1>4. Elsewhere(g)
  BY <1>1, PoolSame, StopsTypes DEF Elsewhere
<1>5. Owed(g)
  BY <1>1, StopsTypes DEF Owed
<1> QED
  BY <1>3, <1>4, <1>5, Frame

LEMMA FinishInv ==
  ASSUME RInv, NEW g \in Games, Finish(g)
  PROVE  RInv'
<1> DEFINE s == cont[g].root
<1>1. /\ RTypes /\ RTypeOK /\ UNCHANGED <<data, pending, log, held>> /\ status[g] = "running"
      /\ cont' = [cont EXCEPT ![g] = NoCont] /\ Stops(g, "idle")
  BY DEF RInv, RTypes, Finish
<1>2. Safe(snap, free, held, cont[g]) /\ s \in Snaps /\ s \notin held
  BY <1>1, RefsOf DEF RInv, GamesSafe, Safe, Alive
<1>3. /\ \A h \in Games \ {g} :
           /\ data'[h] = data[h] /\ pending'[h] = pending[h] /\ status'[h] = status[h]
           /\ cont'[h] = cont[h] /\ stack'[h] = stack[h] /\ next'[h] = next[h]
           /\ log'[h] = log[h] /\ at'[h] = at[h] /\ kept'[h] = kept[h]
      /\ cont'[g] = NoCont /\ status'[g] = "idle"
  BY <1>1, StopsTypes DEF RTypes, RTypeOK
<1>4. at' \in [Games -> Nat] /\ kept' \in [Games -> Seq(Entry)]
  BY <1>1, StopsTypes
<1>5. Owed(g)
  BY <1>3 DEF Owed
<1>6. CASE Chosen(g) # 0
  <2>1. UNCHANGED pool
    BY <1>1, <1>6 DEF Finish, pool
  <2>2. RTypeOK'
    BY <1>1, <2>1, StopsTypes DEF RTypeOK, pool
  <2>3. RTypes'
    BY <1>1, <1>4, <2>1, <2>2 DEF RTypes, pool
  <2>4. Elsewhere(g)
    BY <1>3, <2>1, PoolSame DEF Elsewhere
  <2> QED
    BY <1>5, <2>3, <2>4, Frame
<1>7. CASE Chosen(g) = 0
  <2>1. Release(s) /\ held' = held \ {s} /\ free' = free \cup {s}
    BY <1>1, <1>2, <1>7 DEF Finish, Release
  <2>2. Sole(g)
    BY <1>1, <1>7 DEF RInv, RootsSole
  <2> HIDE DEF s
  <2> DEFINE D(h) == h # g /\ Alive(h)
  <2>3. /\ \A h \in Games : Alive(h) /\ h # g => s \notin Refs(cont[h])
        /\ \A t \in Snaps : Waited(t) => s \notin Refs(snap[t].cont)
    BY <2>2 DEF Sole, s
  <2>4. snap' = [snap EXCEPT ![s] = NoSnap] /\ NoSnap \in SnapType /\ NoSnap.status # "waiting"
    BY <2>1 DEF Release, NoSnap, SnapType
  <2>5. /\ snap' \in [Snaps -> SnapType] /\ snap'[s] = NoSnap
        /\ \A t \in Snaps \ {s} : snap'[t] = snap[t]
    BY <1>1, <1>2, <2>4 DEF RTypes
  <2>6. /\ \A t \in Snaps \ free' :
             /\ snap'[t].data \in Data /\ snap'[t].pending \in Request \cup {Nil}
             /\ snap'[t].status \in {"idle", "waiting"} /\ snap'[t].cont \in Conts \cup {NoCont}
        /\ \A t \in Snaps : IF snap'[t].status = "waiting" THEN snap'[t].cont \in Conts
                            ELSE snap'[t].cont = NoCont
    BY <1>1, <1>2, <2>1, <2>5, ReleaseTypes
  <2>7. RTypeOK'
    BY <1>1, <1>2, <2>1, <2>6, StopsTypes DEF RTypeOK
  <2>8. RTypes'
    BY <1>4, <2>5, <2>6, <2>7 DEF RTypes
  <2>9. /\ \A h \in Games \ {g} : Alive(h) => Intact(cont[h])
        /\ \A t \in Snaps : t \in held' /\ snap'[t].status = "waiting" =>
             Waited(t) /\ snap'[t] = snap[t] /\ Intact(snap'[t].cont)
    BY <1>2, <2>1, <2>3, <2>4, PoolBut
  <2>10. Elsewhere(g)
    BY <1>3, <2>9 DEF Elsewhere
  <2> QED
    BY <1>5, <2>8, <2>10, Frame
<1> QED
  BY <1>6, <1>7

\* A snapshot of a game, taken for its continuation.
LEMMA TakenSnap ==
  ASSUME RInv, NEW g \in Games, NEW s \in free, NEW x,
         x = [data |-> data[g], pending |-> pending[g], status |-> "idle", cont |-> NoCont],
         snap' = [snap EXCEPT ![s] = x], free' = free \ {s}, held' = held
  PROVE  /\ s \in Snaps /\ s \notin free' /\ s \notin held' /\ snap'[s] = x
         /\ free' \subseteq Snaps /\ held' \subseteq Snaps \ free'
         /\ snap' \in [Snaps -> SnapType]
         /\ \A t \in Snaps \ free' :
              /\ snap'[t].data \in Data /\ snap'[t].pending \in Request \cup {Nil}
              /\ snap'[t].status \in {"idle", "waiting"} /\ snap'[t].cont \in Conts \cup {NoCont}
         /\ \A t \in Snaps : IF snap'[t].status = "waiting" THEN snap'[t].cont \in Conts
                             ELSE snap'[t].cont = NoCont
         /\ \A h \in Games : Alive(h) => Intact(cont[h]) /\ s \notin Refs(cont[h])
         /\ \A t \in Snaps : t \in held' /\ snap'[t].status = "waiting" =>
              /\ Waited(t) /\ snap'[t] = snap[t] /\ Intact(snap'[t].cont)
              /\ s \notin Refs(snap'[t].cont)
<1>1. RTypes /\ s \in Snaps /\ s \notin free' /\ s \notin held'
  BY DEF RInv, RTypes, RTypeOK
<1>2. x \in SnapType /\ x.data \in Data /\ x.pending \in Request \cup {Nil}
      /\ x.status = "idle" /\ x.cont = NoCont
  BY <1>1 DEF RTypes, RTypeOK, SnapType
<1>3. /\ snap' \in [Snaps -> SnapType] /\ snap'[s] = x
      /\ \A t \in Snaps \ {s} : snap'[t] = snap[t]
  BY <1>1, <1>2 DEF RTypes
<1>4. /\ free' \subseteq Snaps /\ held' \subseteq Snaps \ free'
      /\ \A t \in Snaps \ free' : t = s \/ t \in Snaps \ free
  BY <1>1 DEF RTypes, RTypeOK
<1>5. \A t \in Snaps \ free' :
        /\ snap'[t].data \in Data /\ snap'[t].pending \in Request \cup {Nil}
        /\ snap'[t].status \in {"idle", "waiting"} /\ snap'[t].cont \in Conts \cup {NoCont}
  BY <1>1, <1>2, <1>3, <1>4 DEF RTypes, RTypeOK
<1>6. \A t \in Snaps : IF snap'[t].status = "waiting" THEN snap'[t].cont \in Conts
                       ELSE snap'[t].cont = NoCont
  BY <1>1, <1>2, <1>3 DEF RTypes
<1>7. \A h \in Games : Alive(h) => Intact(cont[h]) /\ s \notin Refs(cont[h])
  BY <1>1, Unshared, PoolBut
<1>8. \A t \in Snaps : t \in held' /\ snap'[t].status = "waiting" =>
        /\ Waited(t) /\ snap'[t] = snap[t] /\ Intact(snap'[t].cont)
        /\ s \notin Refs(snap'[t].cont)
  <2> SUFFICES ASSUME NEW t \in Snaps, t \in held', snap'[t].status = "waiting"
               PROVE  /\ Waited(t) /\ snap'[t] = snap[t] /\ Intact(snap'[t].cont)
                      /\ s \notin Refs(snap'[t].cont)
    OBVIOUS
  <2>1. t # s
    BY <1>2, <1>3
  <2>2. free' \subseteq free \cup {s} /\ held' \subseteq held \cup {s}
    OBVIOUS
  <2>3. /\ Waited(t) /\ snap'[t] = snap[t]
        /\ s \notin Refs(snap[t].cont) => Intact(snap'[t].cont)
    BY <1>1, <2>1, <2>2, PoolBut
  <2>4. s \notin Refs(snap[t].cont)
    BY <1>1, <2>3, Unshared
  <2> QED
    BY <2>3, <2>4
<1> QED
  BY <1>1, <1>3, <1>4, <1>5, <1>6, <1>7, <1>8

LEMMA BeginInv ==
  ASSUME RInv, NEW g \in Games, NEW op \in Ops, Begin(g, op)
  PROVE  RInv'
<1> DEFINE x == [data |-> data[g], pending |-> pending[g], status |-> "idle", cont |-> NoCont]
           p == Place(data[g], op, <<>>, 0)
           C(s) == [root |-> s, op |-> op, choices |-> <<>>,
                    of |-> IF g \in Logged THEN g ELSE Nil,
                    base |-> IF g \in Logged THEN Len(log[g]) ELSE 0, path |-> <<p>>]
<1>1. PICK s \in free : /\ snap' = [snap EXCEPT ![s] = x] /\ free' = free \ {s}
                        /\ cont' = [cont EXCEPT ![g] = C(s)]
  BY DEF Begin
<1>2. /\ RTypes /\ RTypeOK /\ status[g] = "idle" /\ op \in Stack
      /\ status' = [status EXCEPT ![g] = "running"] /\ stack' = [stack EXCEPT ![g] = op]
      /\ next' = [next EXCEPT ![g] = 1] /\ at' = [at EXCEPT ![g] = 1]
      /\ UNCHANGED <<data, pending, log, held, kept>>
  BY ContinuationAssumption DEF Begin, RInv, RTypes
<1> DEFINE c == C(s)
<1>3. /\ s \in Snaps /\ s \notin free' /\ s \notin held' /\ snap'[s] = x
      /\ free' \subseteq Snaps /\ held' \subseteq Snaps \ free'
      /\ snap' \in [Snaps -> SnapType]
      /\ \A t \in Snaps \ free' :
           /\ snap'[t].data \in Data /\ snap'[t].pending \in Request \cup {Nil}
           /\ snap'[t].status \in {"idle", "waiting"} /\ snap'[t].cont \in Conts \cup {NoCont}
      /\ \A t \in Snaps : IF snap'[t].status = "waiting" THEN snap'[t].cont \in Conts
                          ELSE snap'[t].cont = NoCont
      /\ \A h \in Games : Alive(h) => Intact(cont[h]) /\ s \notin Refs(cont[h])
      /\ \A t \in Snaps : t \in held' /\ snap'[t].status = "waiting" =>
           /\ Waited(t) /\ snap'[t] = snap[t] /\ Intact(snap'[t].cont)
           /\ s \notin Refs(snap'[t].cont)
  BY <1>1, <1>2, TakenSnap
<1>4. p \in Places /\ p.data = data[g] /\ p.stack = op /\ p.told = <<>> /\ p.used = 0
  BY <1>2 DEF Place, Places, RTypeOK
<1>5. snap'[s].data = data[g]
  BY <1>3
<1> HIDE DEF p, x
<1>6. /\ <<p>> \in Seq(Places) /\ Len(<<p>>) = 1 /\ <<p>>[1] = p
      /\ <<>> \in Seq([state : Snaps, action : Action])
  BY <1>4
<1>7. c \in Conts /\ c.root = s /\ c.op = op /\ c.choices = <<>> /\ c.path = <<p>>
      /\ (g \in Logged => c.of = g)
  <2>1. log[g] \in Seq(Entry)
    BY <1>2 DEF RTypeOK
  <2>2. (IF g \in Logged THEN Len(log[g]) ELSE 0) \in Nat
    BY <2>1
  <2> QED
    BY <1>2, <1>3, <1>6, <2>2 DEF Conts, Paths, Places
<1> HIDE DEF C
<1>8. Refs(c) = {s} /\ Len(c.choices) = 0
  BY <1>7 DEF Refs
<1>9. Last(c) = p /\ Len(c.path) = 1 /\ c.path[1] = p
  BY <1>6, <1>7 DEF Last
<1>10. Traced(snap', c)
  <2>1. c.path[1] = Place(snap'[c.root].data, c.op, <<>>, 0)
    BY <1>5, <1>7, <1>9 DEF p
  <2>2. 1 .. Len(c.path) - 1 = {} /\ 1 .. Len(c.path) = {1}
    BY <1>9
  <2> QED
    BY <1>4, <1>9, <2>1, <2>2 DEF Traced
<1>11. Safe(snap', free', held', c)
  BY <1>3, <1>7, <1>8, <1>10 DEF Safe
<1>12. /\ cont'[g] = c /\ status'[g] = "running" /\ stack'[g] = op /\ next'[g] = 1 /\ at'[g] = 1
       /\ data'[g] = data[g]
  BY <1>1, <1>2 DEF RTypes, RTypeOK
<1>13. RTypes'
  <2>1. /\ status' \in [Games -> {"idle", "running", "waiting", "failed"}]
        /\ next' \in [Games -> Nat \ {0}] /\ at' \in [Games -> Nat]
    BY <1>2 DEF RTypes, RTypeOK
  <2>2. cont' \in [Games -> Conts \cup {NoCont}] /\ c # NoCont
    BY <1>1, <1>2, <1>7, RefsOf DEF RTypeOK
  <2>3. \A h \in Games : status'[h] \in {"running", "waiting"} <=> cont'[h] # NoCont
    BY <1>1, <1>2, <1>12, <2>2 DEF RTypeOK
  <2>4. stack' \in [Games -> Stack \cup {Nil}] /\ op # Nil
    BY <1>2, ContinuationAssumption DEF RTypeOK
  <2>5. \A h \in Games : status'[h] = "running" <=> stack'[h] # Nil
    BY <1>2, <1>12, <2>4 DEF RTypeOK
  <2>6. RTypeOK'
    BY <1>2, <1>3, <2>1, <2>2, <2>3, <2>4, <2>5 DEF RTypeOK
  <2> QED
    BY <1>2, <1>3, <2>1, <2>6 DEF RTypes
<1>14. Elsewhere(g)
  <2>1. \A h \in Games \ {g} :
           /\ data'[h] = data[h] /\ pending'[h] = pending[h] /\ status'[h] = status[h]
           /\ cont'[h] = cont[h] /\ stack'[h] = stack[h] /\ next'[h] = next[h]
           /\ log'[h] = log[h] /\ at'[h] = at[h] /\ kept'[h] = kept[h]
    BY <1>1, <1>2 DEF RTypes, RTypeOK
  <2> QED
    BY <1>3, <2>1 DEF Elsewhere
<1>15. Owed(g)
  <2>1. Runs(snap', c, 1, data[g], op, 1)
    <3>1. 1 \in 1 .. Len(c.path) /\ ~ (1 <= Len(c.choices))
      BY <1>8, <1>9
    <3> QED
      BY <1>4, <1>8, <1>9, <3>1 DEF Runs
  <2>2. Tells(g, c, 1, 1, log'[g], kept'[g])
    BY <1>7, <1>8 DEF Tells
  <2>3. \A h \in Games \ {g} : status[h] = "running" => cont[h].root # s
    <3>1. ASSUME NEW h \in Games \ {g}, status[h] = "running" PROVE cont[h].root # s
      <4>1. cont[h] \in Conts /\ s \notin Refs(cont[h])
        BY <1>3, <3>1 DEF RInv, GamesSafe, Safe, Alive
      <4> QED
        BY <4>1, RefsOf
    <3> QED
      BY <3>1
  <2> QED
    BY <1>3, <1>7, <1>8, <1>11, <1>12, <2>1, <2>2, <2>3 DEF Owed
<1> QED
  BY <1>13, <1>14, <1>15, Frame

LEMMA ResumeTargetInv ==
  ASSUME RInv, NEW g \in Games, NEW a \in Action, ResumeTarget(g, a)
  PROVE  RInv'
<1> DEFINE x == [data |-> data[g], pending |-> pending[g], status |-> "idle", cont |-> NoCont]
           c == cont[g]
<1>1. PICK s \in free :
        /\ snap' = [snap EXCEPT ![s] = x] /\ free' = free \ {s}
        /\ data' = [data EXCEPT ![g] = snap[c.root].data]
        /\ pending' = [pending EXCEPT ![g] = snap[c.root].pending]
        /\ \/ /\ c.of # g \/ c.base <= Len(log[g])
              /\ log' = [log EXCEPT ![g] = Rewound(g)]
              /\ cont' = [cont EXCEPT ![g] =
                            [c EXCEPT !.choices = Append(@, [state |-> s, action |-> a])]]
              /\ status' = [status EXCEPT ![g] = "running"]
              /\ stack' = [stack EXCEPT ![g] = c.op] /\ next' = [next EXCEPT ![g] = 1]
              /\ at' = [at EXCEPT ![g] = 1] /\ kept' = [kept EXCEPT ![g] = log[g]]
           \/ /\ cont' = [cont EXCEPT ![g] = NoCont] /\ Stops(g, "failed") /\ UNCHANGED log
  BY DEF ResumeTarget
<1>2. /\ RTypes /\ RTypeOK /\ status[g] = "waiting" /\ a \in Legal[data[g], pending[g]]
      /\ held' = held
  BY DEF ResumeTarget, RInv, RTypes
<1>3. /\ s \in Snaps /\ s \notin free' /\ s \notin held' /\ snap'[s] = x
      /\ free' \subseteq Snaps /\ held' \subseteq Snaps \ free'
      /\ snap' \in [Snaps -> SnapType]
      /\ \A t \in Snaps \ free' :
           /\ snap'[t].data \in Data /\ snap'[t].pending \in Request \cup {Nil}
           /\ snap'[t].status \in {"idle", "waiting"} /\ snap'[t].cont \in Conts \cup {NoCont}
      /\ \A t \in Snaps : IF snap'[t].status = "waiting" THEN snap'[t].cont \in Conts
                          ELSE snap'[t].cont = NoCont
      /\ \A h \in Games : Alive(h) => Intact(cont[h]) /\ s \notin Refs(cont[h])
      /\ \A t \in Snaps : t \in held' /\ snap'[t].status = "waiting" =>
           /\ Waited(t) /\ snap'[t] = snap[t] /\ Intact(snap'[t].cont)
           /\ s \notin Refs(snap'[t].cont)
  BY <1>1, <1>2, TakenSnap
<1>4. snap'[s].data = data[g]
  BY <1>3
<1> HIDE DEF x
<1>5. /\ Safe(snap, free, held, c) /\ Waits(c, pending[g]) /\ c \in Conts
      /\ g \in Logged => c.of = g
  BY <1>2 DEF RInv, GamesSafe, GamesWait, OwnLog, Alive, Safe
<1>6. Safe(snap', free', held', c) /\ snap'[c.root] = snap[c.root] /\ c.root \in Snaps \ free
  <2>1. Intact(c)
    BY <1>2, <1>3 DEF Alive
  <2>2. c.root \in Refs(c) /\ Refs(c) \subseteq Snaps
    BY <1>5, RefsOf
  <2>3. Safe(snap', free', held', c)
    BY <1>5, <2>1, SafeIntact DEF Intact
  <2>4. c.root \notin free
    BY <1>5, <2>2 DEF Safe
  <2> QED
    BY <2>1, <2>2, <2>3, <2>4 DEF Intact
<1>7. data' \in [Games -> Data] /\ pending' \in [Games -> Request \cup {Nil}]
  BY <1>1, <1>2, <1>6 DEF RTypeOK
<1>8. CASE cont' = [cont EXCEPT ![g] = NoCont] /\ Stops(g, "failed") /\ UNCHANGED log
  <2>1. RTypeOK'
    BY <1>2, <1>3, <1>7, <1>8, StopsTypes DEF RTypeOK
  <2>2. RTypes'
    BY <1>2, <1>3, <1>8, <2>1, StopsTypes DEF RTypes
  <2>3. \A h \in Games \ {g} : data'[h] = data[h] /\ pending'[h] = pending[h]
    BY <1>1, <1>2 DEF RTypeOK
  <2>4. Elsewhere(g)
    BY <1>2, <1>3, <1>8, <2>3, StopsTypes DEF Elsewhere
  <2>5. Owed(g)
    BY <1>2, <1>8, StopsTypes DEF Owed
  <2> QED
    BY <2>2, <2>4, <2>5, Frame
<1>9. CASE /\ c.of # g \/ c.base <= Len(log[g])
           /\ log' = [log EXCEPT ![g] = Rewound(g)]
           /\ cont' = [cont EXCEPT ![g] =
                         [c EXCEPT !.choices = Append(@, [state |-> s, action |-> a])]]
           /\ status' = [status EXCEPT ![g] = "running"]
           /\ stack' = [stack EXCEPT ![g] = c.op] /\ next' = [next EXCEPT ![g] = 1]
           /\ at' = [at EXCEPT ![g] = 1] /\ kept' = [kept EXCEPT ![g] = log[g]]
  <2> DEFINE c2 == [c EXCEPT !.choices = Append(@, [state |-> s, action |-> a])]
             n == Len(c.choices)
  <2>1. PICK e : e = c2
    OBVIOUS
  <2>2. pending[g] = Wants[Last(c).stack] /\ Last(c).used = n
        /\ Does[Last(c).data, Last(c).stack] = "ask"
    BY <1>5 DEF Waits
  <2>3. n \in Nat /\ Len(c.path) \in Nat /\ Len(c.path) > 0 /\ Last(c) \in Places
        /\ c.path[1] = Place(snap[c.root].data, c.op, <<>>, 0)
    BY <1>5, PathOf DEF Safe, Traced, Last
  <2>4. a \in Action
    OBVIOUS
  <2>5. /\ Safe(snap', free', held', e) /\ Last(e) = Last(c) /\ e.path = c.path
        /\ e.root = c.root /\ e.op = c.op /\ e.of = c.of /\ e.base = c.base
        /\ Len(e.choices) = n + 1 /\ e.choices[n + 1] = [state |-> s, action |-> a]
        /\ Refs(e) = Refs(c) \cup {s}
    BY <1>3, <1>6, <2>1, <2>4, Chosen1
  <2> DEFINE l == Rewound(g)
  <2>6. l \in Seq(Entry) /\ (g \in Logged => c.base <= Len(log[g])
                                            /\ l = SubSeq(log[g], 1, c.base))
    <3>1. log[g] \in Seq(Entry) /\ c.base \in Nat
      BY <1>2, <1>5 DEF RTypeOK, Conts
    <3>2. ASSUME c.base <= Len(log[g]) PROVE SubSeq(log[g], 1, c.base) \in Seq(Entry)
      BY <3>1, <3>2
    <3> QED
      BY <1>5, <1>9, <3>1, <3>2 DEF Rewound
  <2>7. /\ cont' = [cont EXCEPT ![g] = e] /\ log' = [log EXCEPT ![g] = l]
        /\ status' = [status EXCEPT ![g] = "running"]
        /\ stack' = [stack EXCEPT ![g] = c.op] /\ next' = [next EXCEPT ![g] = 1]
        /\ at' = [at EXCEPT ![g] = 1] /\ kept' = [kept EXCEPT ![g] = log[g]]
    BY <1>9, <2>1
  <2> HIDE DEF c2, l
  <2>8. /\ cont'[g] = e /\ log'[g] = l /\ status'[g] = "running" /\ stack'[g] = c.op
        /\ next'[g] = 1 /\ at'[g] = 1 /\ kept'[g] = log[g] /\ data'[g] = snap[c.root].data
    BY <1>1, <1>2, <2>7 DEF RTypes, RTypeOK
  <2>9. RTypes'
    <3>1. e \in Conts /\ e # NoCont
      BY <2>5, RefsOf DEF Safe
    <3>2. c.op \in Stack /\ c.op # Nil
      BY <1>5, ContinuationAssumption DEF Conts
    <3>3. /\ cont' \in [Games -> Conts \cup {NoCont}]
          /\ \A h \in Games : status'[h] \in {"running", "waiting"} <=> cont'[h] # NoCont
      BY <1>2, <2>7, <3>1 DEF RTypeOK
    <3>4. /\ status' \in [Games -> {"idle", "running", "waiting", "failed"}]
          /\ next' \in [Games -> Nat \ {0}] /\ at' \in [Games -> Nat]
      <4>1. status' = [status EXCEPT ![g] = "running"] /\ next' = [next EXCEPT ![g] = 1]
            /\ at' = [at EXCEPT ![g] = 1]
        BY <2>7
      <4>2. /\ status \in [Games -> {"idle", "running", "waiting", "failed"}]
            /\ next \in [Games -> Nat \ {0}] /\ at \in [Games -> Nat]
        BY <1>2 DEF RTypes, RTypeOK
      <4>3. status' \in [Games -> {"idle", "running", "waiting", "failed"}]
        BY <4>1, <4>2
      <4>4. next' \in [Games -> Nat \ {0}]
        BY <4>1, <4>2
      <4> QED
        BY <4>1, <4>2, <4>3, <4>4
    <3>5. /\ log' \in [Games -> Seq(Entry)] /\ kept' \in [Games -> Seq(Entry)]
      BY <1>2, <2>6, <2>7 DEF RTypes, RTypeOK
    <3>6. /\ stack' \in [Games -> Stack \cup {Nil}]
          /\ \A h \in Games : status'[h] = "running" <=> stack'[h] # Nil
      BY <1>2, <2>7, <3>2 DEF RTypeOK
    <3>7. RTypeOK'
      BY <1>3, <1>7, <3>3, <3>4, <3>5, <3>6 DEF RTypeOK
    <3> QED
      BY <1>3, <3>4, <3>5, <3>7 DEF RTypes
  <2>10. Elsewhere(g)
    <3>1. \A h \in Games \ {g} :
            /\ data'[h] = data[h] /\ pending'[h] = pending[h] /\ status'[h] = status[h]
            /\ cont'[h] = cont[h] /\ stack'[h] = stack[h] /\ next'[h] = next[h]
            /\ log'[h] = log[h] /\ at'[h] = at[h] /\ kept'[h] = kept[h]
      BY <1>1, <1>2, <2>7 DEF RTypes, RTypeOK
    <3> QED
      BY <1>3, <3>1 DEF Elsewhere
  <2>11. Owed(g)
    <3>1. c.path[1].data = snap[c.root].data /\ c.path[1].stack = c.op
          /\ c.path[1].told = <<>> /\ c.path[1].used = 0
      BY <2>3 DEF Place
    <3>2. Runs(snap', e, 1, snap[c.root].data, c.op, 1)
      <4>1. e.choices[n + 1].state = s /\ e.choices[n + 1].action = a
        BY <2>5
      <4>2. 1 \in 1 .. Len(e.path) /\ 1 <= Len(e.choices) /\ Last(e).used = Len(e.choices) - 1
            /\ 1 = e.path[1].used + 1
        <5>1. Len(e.path) = Len(c.path) /\ e.path[1] = c.path[1] /\ Last(e) = Last(c)
          BY <2>5
        <5>2. Len(e.choices) = n + 1 /\ Last(c).used = n
          BY <2>2, <2>5
        <5>3. 1 \in 1 .. Len(c.path) /\ 1 <= n + 1 /\ n = n + 1 - 1
          BY <2>3
        <5> QED
          BY <3>1, <5>1, <5>2, <5>3
      <4> QED
        BY <1>2, <1>4, <2>2, <2>5, <3>1, <4>1, <4>2 DEF Runs
    <3>3. Tells(g, e, 1, 1, l, log[g])
      <4>1. l \o <<>> = l
        BY <2>6
      <4> QED
        BY <1>5, <2>5, <2>6, <3>1, <4>1 DEF Tells
    <3>4. Len(e.choices) # 0
      BY <2>3, <2>5
    <3>5. ASSUME NEW h \in Games \ {g}, status[h] = "running", Chosen(h) = 0
          PROVE  cont[h].root \notin Refs(e)
      <4>1. cont[h].root \notin Refs(c)
        BY <1>2, <3>5 DEF RInv, RootsSole, Sole, Alive
      <4>2. cont[h] \in Conts /\ s \notin Refs(cont[h])
        BY <1>3, <3>5 DEF RInv, GamesSafe, Safe, Alive
      <4> QED
        BY <2>5, <4>1, <4>2, RefsOf
    <3> QED
      BY <1>5, <2>5, <2>8, <3>2, <3>3, <3>4, <3>5 DEF Owed
  <2> QED
    BY <2>9, <2>10, <2>11, Frame
<1> QED
  BY <1>1, <1>8, <1>9

\* The rules depend on state and stack alone: there is one place to go from a place.
LEMMA OneOnward ==
  ASSUME NEW sn, NEW c, NEW p, NEW q, NEW r, Onward(sn, c, p, q), Onward(sn, c, p, r)
  PROVE  q = r
<1>1. CASE Does[p.data, p.stack] = "go"
  <2>1. /\ q = Place(Moves[p.data, p.stack].data, Moves[p.data, p.stack].stack,
                     Append(p.told, Moves[p.data, p.stack].event), p.used)
        /\ r = Place(Moves[p.data, p.stack].data, Moves[p.data, p.stack].stack,
                     Append(p.told, Moves[p.data, p.stack].event), p.used)
    BY <1>1, Zenon DEF Onward
  <2> QED
    BY <2>1, Zenon
<1>2. CASE Does[p.data, p.stack] = "ask"
  <2>1. /\ q = Place(sn[c.choices[p.used + 1].state].data,
                     Answer[p.stack, c.choices[p.used + 1].action],
                     Append(p.told, c.choices[p.used + 1].action), p.used + 1)
        /\ r = Place(sn[c.choices[p.used + 1].state].data,
                     Answer[p.stack, c.choices[p.used + 1].action],
                     Append(p.told, c.choices[p.used + 1].action), p.used + 1)
    BY <1>2, Zenon DEF Onward
  <2> QED
    BY <2>1, Zenon
<1> QED
  BY <1>1, <1>2, Zenon DEF Onward

\* A choice is counted when it is taken.
Counts(c, p, q) ==
  \/ Does[p.data, p.stack] = "go" /\ q.used = p.used
  \/ p.used < Len(c.choices) /\ q.used = p.used + 1

\* A step of an operation, which goes along its path or makes it longer.
LEMMA FollowInv ==
  ASSUME RInv, NEW g \in Games, status[g] = "running", NEW p \in Places, NEW e \in Entry,
         Follow(g, p), Tell(g, e), Onward(snap, cont[g], Here(g), p),
         p.told = Append(Here(g).told, e),
         Counts(cont[g], Here(g), p),
         next' \in [Games -> Nat \ {0}], next'[g] = p.used + 1,
         \A h \in Games \ {g} : next'[h] = next[h],
         pending' \in [Games -> Request \cup {Nil}],
         \A h \in Games \ {g} : pending'[h] = pending[h],
         UNCHANGED <<status, pool, kept>>
  PROVE  RInv'
<1> DEFINE c == cont[g]
           i == at[g]
           m == Len(c.choices)
<1>1. RTypes /\ RTypeOK
  BY DEF RInv, RTypes
<1>2. /\ Safe(snap, free, held, c) /\ c \in Conts /\ Traced(snap, c)
      /\ Runs(snap, c, i, data[g], stack[g], next[g])
      /\ Tells(g, c, i, next[g], log[g], kept[g])
      /\ g \in Logged => c.of = g
      /\ m = 0 => Sole(g)
  BY DEF RInv, GamesSafe, GamesRun, GamesTell, OwnLog, RootsSole, Chosen, Alive, Safe
<1>3. /\ m \in Nat /\ Len(c.path) \in Nat /\ i \in 1 .. Len(c.path)
      /\ Here(g) \in Places /\ Last(c) \in Places /\ p.used \in Nat /\ Last(c).used \in Nat
      /\ Here(g).used \in Nat /\ next[g] = Here(g).used + 1
  <2>1. i \in 1 .. Len(c.path) /\ next[g] = c.path[i].used + 1
    BY <1>2 DEF Runs
  <2>2. Len(c.path) \in Nat /\ m \in Nat
    BY <1>2, PathOf
  <2>3. Len(c.path) \in 1 .. Len(c.path)
    BY <2>1, <2>2
  <2> QED
    BY <1>2, <2>1, <2>2, <2>3, PathOf DEF Here, Last, Places
<1>4. /\ at' = [at EXCEPT ![g] = i + 1] /\ data' = [data EXCEPT ![g] = p.data]
      /\ stack' = [stack EXCEPT ![g] = p.stack] /\ p.data \in Data /\ p.stack \in Stack
      /\ cont' = IF i < Len(c.path) THEN cont
                 ELSE [cont EXCEPT ![g] = [c EXCEPT !.path = Append(@, p)]]
  BY <1>1 DEF Follow, Places, RTypeOK
<1>5. /\ log' \in [Games -> Seq(Entry)] /\ \A h \in Games \ {g} : log'[h] = log[h]
      /\ g \in Logged => log'[g] = Append(log[g], e)
  BY <1>1 DEF Tell, RTypeOK
<1>6. PICK c2 : /\ cont'[g] = c2 /\ cont' = [cont EXCEPT ![g] = c2]
                /\ IF i < Len(c.path) THEN c2 = c ELSE c2 = [c EXCEPT !.path = Append(@, p)]
  BY <1>1, <1>4 DEF RTypeOK
<1>7. /\ Safe(snap, free, held, c2) /\ c2.root = c.root /\ c2.choices = c.choices
      /\ c2.of = c.of /\ c2.base = c.base /\ Refs(c2) = Refs(c)
      /\ Runs(snap, c2, i + 1, p.data, p.stack, p.used + 1)
      /\ p.used + 1 <= m => next[g] <= m /\ c2.path[i + 1] = p
  <2>1. CASE i < Len(c.path)
    <3>1. i \in 1 .. Len(c.path) - 1 /\ i + 1 \in 1 .. Len(c.path) /\ i # Len(c.path)
      BY <1>3, <2>1
    <3>2. c.path[i + 1] = p
      <4>1. Onward(snap, c, Here(g), c.path[i + 1])
        BY <1>2, <3>1 DEF Traced, Here
      <4> QED
        BY <4>1, OneOnward
    <3>3. next[g] <= m /\ Last(c).used = m - 1
      BY <1>2, <3>1 DEF Runs
    <3>4. p.used <= Last(c).used
      BY <1>2, <3>1, <3>2 DEF Traced
    <3>5. p.used + 1 <= m
      BY <1>3, <3>3, <3>4
    <3> QED
      BY <1>2, <1>6, <2>1, <3>1, <3>2, <3>3, <3>5 DEF Runs
  <2>2. CASE ~ (i < Len(c.path))
    <3>1. i = Len(c.path) /\ Here(g) = Last(c)
      BY <1>3, <2>2 DEF Here, Last
    <3>2. /\ Safe(snap, free, held, c2) /\ Last(c2) = p /\ Len(c2.path) = Len(c.path) + 1
          /\ c2.path[Len(c.path) + 1] = p
          /\ c2.root = c.root /\ c2.choices = c.choices
          /\ c2.of = c.of /\ c2.base = c.base /\ Refs(c2) = Refs(c)
      BY <1>2, <1>6, <2>2, <3>1, Grown
    <3>3. p.used = m
      <4>1. CASE next[g] <= m
        <5>1. Last(c).used = m - 1 /\ Does[Last(c).data, Last(c).stack] = "ask"
          BY <1>2, <4>1 DEF Runs
        <5>2. p.used = Last(c).used + 1
          BY <3>1, <5>1 DEF Counts
        <5>3. m - 1 + 1 = m
          BY <1>3
        <5> QED
          BY <5>1, <5>2, <5>3
      <4>2. CASE ~ (next[g] <= m)
        <5>1. Last(c).used = m
          BY <1>2, <4>2 DEF Runs
        <5>2. \/ p.used = Last(c).used
              \/ p.used = Last(c).used + 1 /\ Last(c).used < m
          BY <3>1 DEF Counts
        <5>3. ~ (m < m)
          BY <1>3
        <5> QED
          BY <5>1, <5>2, <5>3
      <4> QED
        BY <4>1, <4>2
    <3>4. ~ (p.used + 1 <= m) /\ i + 1 = Len(c2.path) /\ i + 1 \in 1 .. Len(c2.path)
      BY <1>3, <3>1, <3>2, <3>3
    <3> QED
      BY <3>1, <3>2, <3>3, <3>4 DEF Runs
  <2> QED
    BY <2>1, <2>2
<1>8. /\ at'[g] = i + 1 /\ data'[g] = p.data /\ stack'[g] = p.stack /\ status'[g] = "running"
  BY <1>1, <1>4 DEF RTypes, RTypeOK
<1>9. RTypes'
  <2>1. c2 \in Conts /\ c2 # NoCont
    BY <1>7, RefsOf DEF Safe
  <2>2. cont' \in [Games -> Conts \cup {NoCont}]
        /\ \A h \in Games : status'[h] \in {"running", "waiting"} <=> cont'[h] # NoCont
    BY <1>1, <1>6, <2>1 DEF RTypeOK
  <2>3. data' \in [Games -> Data] /\ stack' \in [Games -> Stack \cup {Nil}]
    BY <1>1, <1>4 DEF RTypeOK
  <2>4. \A h \in Games : status'[h] = "running" <=> stack'[h] # Nil
    <3>1. p.stack # Nil
      BY <1>4, ContinuationAssumption
    <3> QED
      BY <1>1, <1>4, <3>1 DEF RTypeOK
  <2>5. at' \in [Games -> Nat]
    <3>1. i + 1 \in Nat
      BY <1>3
    <3> QED
      BY <1>1, <1>4, <3>1 DEF RTypes
  <2>6. RTypeOK'
    BY <1>1, <1>5, <2>2, <2>3, <2>4 DEF RTypeOK, pool
  <2> QED
    BY <1>1, <2>5, <2>6 DEF RTypes, pool
<1>10. Elsewhere(g)
  <2>1. \A h \in Games \ {g} : /\ data'[h] = data[h] /\ cont'[h] = cont[h]
                               /\ stack'[h] = stack[h] /\ at'[h] = at[h]
    BY <1>1, <1>4, <1>6 DEF RTypes, RTypeOK
  <2> QED
    BY <1>5, <2>1, PoolSame DEF Elsewhere
<1>11. Owed(g)
  <2>1. Tells(g, c2, i + 1, p.used + 1, log'[g], kept[g])
    <3> SUFFICES ASSUME g \in Logged, p.used + 1 <= m
                 PROVE  /\ c2.base <= Len(kept[g])
                        /\ log'[g] = SubSeq(kept[g], 1, c2.base) \o c2.path[i + 1].told
      BY <1>2, <1>7 DEF Tells
    <3>1. /\ c.base <= Len(kept[g]) /\ log[g] = SubSeq(kept[g], 1, c.base) \o Here(g).told
          /\ c2.path[i + 1] = p /\ c2.base = c.base
      BY <1>2, <1>7 DEF Tells, Here
    <3>2. kept[g] \in Seq(Entry) /\ c.base \in Nat /\ Here(g).told \in Seq(Entry)
      BY <1>1, <1>2, <1>3 DEF RTypes, Conts, Places
    <3>3. SubSeq(kept[g], 1, c.base) \in Seq(Entry)
      BY <3>1, <3>2
    <3>4. Append(SubSeq(kept[g], 1, c.base) \o Here(g).told, e)
            = SubSeq(kept[g], 1, c.base) \o Append(Here(g).told, e)
      BY <3>2, <3>3, EntryConcat
    <3>5. log'[g] = Append(log[g], e)
      BY <1>5
    <3>6. log'[g] = SubSeq(kept[g], 1, c.base) \o p.told
      BY <3>1, <3>4, <3>5
    <3> QED
      BY <3>1, <3>6
  <2>2. \A h \in Games \ {g} : status[h] = "running" /\ Chosen(h) = 0 =>
          cont[h].root \notin Refs(c2)
    BY <1>7 DEF RInv, RootsSole, Sole, Alive
  <2>3. Len(c2.choices) = 0 =>
          /\ \A h \in Games \ {g} : Alive(h) => c2.root \notin Refs(cont[h])
          /\ \A s \in Snaps : s \in held' /\ snap'[s].status = "waiting" =>
               c2.root \notin Refs(snap'[s].cont)
    BY <1>2, <1>7 DEF Sole, Waited, pool
  <2> QED
    BY <1>2, <1>6, <1>7, <1>8, <2>1, <2>2, <2>3 DEF Owed, pool
<1> QED
  BY <1>9, <1>10, <1>11, Frame

LEMMA HerePlace ==
  ASSUME RInv, NEW g \in Games, status[g] = "running"
  PROVE  /\ cont[g] \in Conts /\ at[g] \in 1 .. Len(cont[g].path) /\ Here(g) \in Places
         /\ Here(g).data = data[g] /\ Here(g).stack = stack[g] /\ Here(g).used \in Nat
         /\ next[g] = Here(g).used + 1
         /\ data[g] \in Data /\ stack[g] \in Stack /\ Chosen(g) \in Nat
<1>1. cont[g] \in Conts /\ Runs(snap, cont[g], at[g], data[g], stack[g], next[g])
  BY DEF RInv, GamesSafe, GamesRun, Alive, Safe
<1>2. data[g] \in Data /\ stack[g] \in Stack
  BY DEF RInv, RTypes, RTypeOK
<1> QED
  BY <1>1, <1>2, PathOf DEF Runs, Here, Chosen

LEMMA MoveTo ==
  ASSUME RInv, NEW g \in Games, Move(g)
  PROVE  LET m == Moves[data[g], stack[g]] IN \E p \in Places :
           /\ p.data = m.data /\ p.stack = m.stack
           /\ p.told = Append(Here(g).told, m.event) /\ p.used = Here(g).used
           /\ m.data \in Data /\ m.event \in Entry
           /\ Follow(g, p) /\ Tell(g, m.event) /\ Onward(snap, cont[g], Here(g), p)
<1> DEFINE m == Moves[data[g], stack[g]]
           p == Place(m.data, m.stack, Append(Here(g).told, m.event), next[g] - 1)
<1>1. /\ status[g] = "running" /\ Does[data[g], stack[g]] = "go"
      /\ Follow(g, p) /\ Tell(g, m.event) /\ UNCHANGED <<pending, status, next, pool, kept>>
  BY DEF Move
<1>2. /\ Here(g) \in Places /\ Here(g).data = data[g] /\ Here(g).stack = stack[g]
      /\ next[g] = Here(g).used + 1 /\ Here(g).used \in Nat
      /\ data[g] \in Data /\ stack[g] \in Stack
  BY <1>1, HerePlace
<1>3. m \in [data : Data, stack : Stack, event : Event]
  BY <1>2, ContinuationAssumption
<1>4. m.event \in Entry /\ m.data \in Data /\ m.stack \in Stack
  BY <1>3 DEF Entry
<1>5. next[g] - 1 = Here(g).used
  <2>1. \A u \in Nat : u + 1 - 1 = u
    OBVIOUS
  <2> QED
    BY <1>2, <2>1
<1>11. Append(Here(g).told, m.event) \in Seq(Entry)
  <2>1. Here(g).told \in Seq(Entry)
    BY <1>2 DEF Places
  <2> QED
    BY <1>4, <2>1, AppendIn, Zenon
<1>6. p \in Places /\ p.told = Append(Here(g).told, m.event) /\ p.used = Here(g).used
      /\ p.data = m.data /\ p.stack = m.stack
  BY <1>2, <1>4, <1>5, <1>11 DEF Place, Places
<1>7. Onward(snap, cont[g], Here(g), p)
  BY <1>1, <1>2, <1>5, Zenon DEF Onward
<1> HIDE DEF p
<1> QED
  BY <1>1, <1>4, <1>6, <1>7

LEMMA MoveInv ==
  ASSUME RInv, NEW g \in Games, Move(g)
  PROVE  RInv'
<1> DEFINE m == Moves[data[g], stack[g]]
<1>1. PICK p \in Places :
        /\ p.told = Append(Here(g).told, m.event) /\ p.used = Here(g).used /\ m.event \in Entry
        /\ Follow(g, p) /\ Tell(g, m.event) /\ Onward(snap, cont[g], Here(g), p)
  BY MoveTo
<1>2. /\ status[g] = "running" /\ Does[data[g], stack[g]] = "go"
      /\ UNCHANGED <<pending, status, next, pool, kept>>
  BY DEF Move
<1>3. /\ Here(g).data = data[g] /\ Here(g).stack = stack[g] /\ next[g] = Here(g).used + 1
  BY <1>2, HerePlace
<1> HIDE DEF m
<1>4. /\ next' \in [Games -> Nat \ {0}] /\ next'[g] = p.used + 1
      /\ \A h \in Games \ {g} : next'[h] = next[h]
      /\ pending' \in [Games -> Request \cup {Nil}]
      /\ \A h \in Games \ {g} : pending'[h] = pending[h]
  BY <1>1, <1>2, <1>3 DEF RInv, RTypes, RTypeOK
<1>5. Counts(cont[g], Here(g), p)
  BY <1>1, <1>2, <1>3 DEF Counts
<1> QED
  BY <1>1, <1>2, <1>4, <1>5, FollowInv

LEMMA ChoiceTo ==
  ASSUME RInv, NEW g \in Games, TakeChoice(g)
  PROVE  LET x == cont[g].choices[next[g]] IN \E p \in Places :
           /\ p.data = snap[x.state].data /\ p.stack = Answer[stack[g], x.action]
           /\ p.told = Append(Here(g).told, x.action) /\ p.used = next[g]
           /\ x.action \in Entry /\ Here(g).used < Len(cont[g].choices)
           /\ Follow(g, p) /\ Tell(g, x.action) /\ Onward(snap, cont[g], Here(g), p)
<1> DEFINE x == cont[g].choices[next[g]]
           p == Place(snap[x.state].data, Answer[stack[g], x.action],
                      Append(Here(g).told, x.action), next[g])
<1>1. /\ status[g] = "running" /\ Does[data[g], stack[g]] = "ask" /\ next[g] <= Chosen(g)
      /\ Fits[x.action] = Wants[stack[g]]
      /\ Follow(g, p) /\ Tell(g, x.action) /\ UNCHANGED <<status, pool, kept>>
      /\ next' = [next EXCEPT ![g] = @ + 1] /\ pending' = [pending EXCEPT ![g] = Nil]
  BY DEF TakeChoice
<1>2. /\ Here(g) \in Places /\ Here(g).data = data[g] /\ Here(g).stack = stack[g]
      /\ next[g] = Here(g).used + 1 /\ Here(g).used \in Nat
      /\ data[g] \in Data /\ stack[g] \in Stack /\ cont[g] \in Conts /\ Chosen(g) \in Nat
  BY <1>1, HerePlace
<1>3. next[g] \in 1 .. Len(cont[g].choices)
  <2>1. \A u, k \in Nat : u + 1 <= k => u + 1 \in 1 .. k
    OBVIOUS
  <2> QED
    BY <1>1, <1>2, <2>1 DEF Chosen
<1>4. x \in [state : Snaps, action : Action] /\ x.state \in Refs(cont[g])
  BY <1>2, <1>3, RefsOf
<1>5. snap[x.state].data \in Data
  BY <1>1, <1>4 DEF RInv, GamesSafe, Safe, Alive, RTypes, RTypeOK
<1>6. x.action \in Entry /\ Answer[stack[g], x.action] \in Stack
  BY <1>2, <1>4, ContinuationAssumption DEF Entry
<1>7. Append(Here(g).told, x.action) \in Seq(Entry)
  <2>1. Here(g).told \in Seq(Entry)
    BY <1>2 DEF Places
  <2> QED
    BY <1>6, <2>1, AppendIn, Zenon
<1>8. p \in Places /\ p.told = Append(Here(g).told, x.action) /\ p.used = next[g]
      /\ p.data = snap[x.state].data /\ p.stack = Answer[stack[g], x.action]
  <2>1. next[g] \in Nat
    BY <1>3
  <2> QED
    BY <1>5, <1>6, <1>7, <2>1 DEF Place, Places
<1>9. Onward(snap, cont[g], Here(g), p)
  <2>1. \A u, k \in Nat : u + 1 <= k => u < k
    OBVIOUS
  <2>2. Here(g).used < Len(cont[g].choices)
    BY <1>1, <1>2, <2>1 DEF Chosen
  <2> QED
    BY <1>1, <1>2, <2>2, Zenon DEF Onward
<1>10. Here(g).used < Len(cont[g].choices)
  <2>1. \A u, k \in Nat : u + 1 <= k => u < k
    OBVIOUS
  <2> QED
    BY <1>1, <1>2, <2>1 DEF Chosen
<1> HIDE DEF p
<1> QED
  BY <1>1, <1>6, <1>8, <1>9, <1>10

LEMMA TakeChoiceInv ==
  ASSUME RInv, NEW g \in Games, TakeChoice(g)
  PROVE  RInv'
<1> DEFINE x == cont[g].choices[next[g]]
<1>1. PICK p \in Places :
        /\ p.told = Append(Here(g).told, x.action) /\ p.used = next[g] /\ x.action \in Entry
        /\ Here(g).used < Len(cont[g].choices)
        /\ Follow(g, p) /\ Tell(g, x.action) /\ Onward(snap, cont[g], Here(g), p)
  BY ChoiceTo
<1>2. /\ status[g] = "running" /\ UNCHANGED <<status, pool, kept>>
      /\ next' = [next EXCEPT ![g] = @ + 1] /\ pending' = [pending EXCEPT ![g] = Nil]
  BY DEF TakeChoice
<1>3. next[g] = Here(g).used + 1 /\ Here(g).used \in Nat
  BY <1>2, HerePlace
<1> HIDE DEF x
<1>4. /\ next' \in [Games -> Nat \ {0}] /\ next'[g] = p.used + 1
      /\ \A h \in Games \ {g} : next'[h] = next[h]
  <2>1. next \in [Games -> Nat \ {0}] /\ next[g] \in Nat
    BY <1>3 DEF RInv, RTypes, RTypeOK
  <2>2. next[g] + 1 \in Nat \ {0}
    BY <2>1
  <2> QED
    BY <1>1, <1>2, <2>1, <2>2
<1>5. /\ pending' \in [Games -> Request \cup {Nil}]
      /\ \A h \in Games \ {g} : pending'[h] = pending[h]
  BY <1>2 DEF RInv, RTypes, RTypeOK
<1>6. Counts(cont[g], Here(g), p)
  BY <1>1, <1>3 DEF Counts
<1> QED
  BY <1>1, <1>2, <1>4, <1>5, <1>6, FollowInv

LEMMA RStepInv == RInv /\ [RNext]_RVars => RInv'
<1> SUFFICES ASSUME RInv, [RNext]_RVars PROVE RInv'
  OBVIOUS
<1>1. ASSUME NEW g \in Games, Running(g) PROVE RInv'
  BY <1>1, MoveInv, SuspendInv, TakeChoiceInv, FinishInv, FailRuleInv DEF Running
<1>2. ASSUME NEW g \in Games, Owner(g) PROVE RInv'
  BY <1>2, BeginInv, ResumeTargetInv, SampleInv, SnapshotPooledInv, RestoreFromSnapInv DEF Owner
<1>3. ASSUME NEW s \in Snaps, ReleaseSnap(s) \/ Collect(s) PROVE RInv'
  BY <1>3, PutBackInv
<1>4. CASE UNCHANGED RVars
  <2>1. UNCHANGED <<data, pending, status, cont, stack, next, log, snap, free, held, at, kept>>
    BY <1>4 DEF RVars, play, pool
  <2>2. RTypes'
    BY <2>1 DEF RInv, RTypes, RTypeOK
  <2>3. Elsewhere(Nil)
    <3>1. UNCHANGED pool
      BY <2>1 DEF pool
    <3> QED
      BY <2>1, <3>1, PoolSame DEF Elsewhere
  <2>4. Nil \notin Games
    BY ContinuationAssumption
  <2> QED
    BY <2>2, <2>3, <2>4, Frame
<1> QED
  BY <1>1, <1>2, <1>3, <1>4 DEF RNext

LEMMA RInvariant == RSpec => []RInv
  BY RInitInv, RStepInv, PTL DEF RSpec

(***************************************************************************)
(* Continuation: a replay meets its choices                                *)
(***************************************************************************)
\* Where an operation is: at the end of its path unless it is replayed; and then it
\* goes on or asks, and at the end it asks for the last choice.
LEMMA Whereabouts ==
  ASSUME RInv, NEW g \in Games, status[g] = "running"
  PROVE  /\ ~ Replaying(g) => at[g] = Len(cont[g].path) /\ Here(g) = Last(cont[g])
         /\ Replaying(g) =>
              /\ Chosen(g) \in 1 .. Chosen(g) /\ Last(cont[g]).used = Chosen(g) - 1
              /\ Does[Last(cont[g]).data, Last(cont[g]).stack] = "ask"
              /\ cont[g].choices[Chosen(g)].action
                   \in Legal[snap[cont[g].choices[Chosen(g)].state].data,
                             Wants[Last(cont[g]).stack]]
              /\ at[g] = Len(cont[g].path) => Here(g) = Last(cont[g]) /\ next[g] = Chosen(g)
              /\ at[g] # Len(cont[g].path) =>
                   /\ at[g] < Len(cont[g].path)
                   /\ Onward(snap, cont[g], Here(g), cont[g].path[at[g] + 1])
<1> DEFINE c == cont[g]
<1>1. /\ Safe(snap, free, held, c) /\ c \in Conts /\ Traced(snap, c)
      /\ Runs(snap, c, at[g], data[g], stack[g], next[g])
  BY DEF RInv, GamesSafe, GamesRun, Alive, Safe
<1>2. /\ at[g] \in 1 .. Len(c.path) /\ Len(c.path) \in Nat /\ Here(g).used \in Nat
      /\ next[g] = Here(g).used + 1 /\ Chosen(g) \in Nat
  BY <1>1, HerePlace, PathOf
<1>3. ASSUME ~ Replaying(g) PROVE at[g] = Len(c.path) /\ Here(g) = Last(c)
  BY <1>1, <1>3 DEF Replaying, Runs, Here, Last, Chosen
<1>4. ASSUME Replaying(g)
      PROVE  /\ Last(c).used = Chosen(g) - 1 /\ Does[Last(c).data, Last(c).stack] = "ask"
             /\ c.choices[Chosen(g)].action
                  \in Legal[snap[c.choices[Chosen(g)].state].data, Wants[Last(c).stack]]
             /\ next[g] <= Chosen(g)
  BY <1>1, <1>4 DEF Replaying, Runs, Chosen
<1>5. ASSUME Replaying(g) PROVE Chosen(g) \in 1 .. Chosen(g)
  <2>1. \A u, k \in Nat : u + 1 <= k => k \in 1 .. k
    OBVIOUS
  <2>2. Here(g).used + 1 <= Chosen(g)
    BY <1>2, <1>4, <1>5
  <2> QED
    BY <1>2, <2>1, <2>2
<1>6. ASSUME Replaying(g), at[g] = Len(c.path)
      PROVE  Here(g) = Last(c) /\ next[g] = Chosen(g)
  <2>1. Here(g) = Last(c)
    BY <1>6 DEF Here, Last
  <2>2. Here(g).used = Chosen(g) - 1
    BY <1>4, <1>6, <2>1
  <2> QED
    BY <1>2, <2>1, <2>2
<1>7. ASSUME Replaying(g), at[g] # Len(c.path)
      PROVE  at[g] < Len(c.path) /\ Onward(snap, c, Here(g), c.path[at[g] + 1])
  <2>1. at[g] < Len(c.path) /\ at[g] \in 1 .. Len(c.path) - 1
    BY <1>2, <1>7
  <2> QED
    BY <1>1, <2>1 DEF Traced, Here
<1> QED
  BY <1>3, <1>4, <1>5, <1>6, <1>7

\* A replay is never lost: its choices are asked for, all of them, with what they
\* reply to; and it is not where the rules fail.
LEMMA NeverLost ==
  ASSUME RInv, NEW g \in Games, status[g] = "running"
  PROVE  /\ ~ Lost(g)
         /\ Replaying(g) => Does[data[g], stack[g]] \in {"go", "ask"}
<1>1. /\ Here(g).data = data[g] /\ Here(g).stack = stack[g] /\ next[g] = Here(g).used + 1
      /\ data[g] \in Data /\ Chosen(g) \in Nat /\ cont[g] \in Conts
  BY HerePlace
<1>2. CASE ~ Replaying(g)
  BY <1>2 DEF Replaying, Lost
<1>3. CASE Replaying(g) /\ at[g] = Len(cont[g].path)
  <2> DEFINE x == cont[g].choices[Chosen(g)]
  <2>1. /\ Does[data[g], stack[g]] = "ask" /\ next[g] = Chosen(g)
        /\ Here(g) = Last(cont[g]) /\ x.action \in Legal[snap[x.state].data, Wants[stack[g]]]
        /\ Chosen(g) \in 1 .. Len(cont[g].choices)
    BY <1>1, <1>3, Whereabouts DEF Chosen
  <2>2. snap[x.state].data \in Data /\ Wants[stack[g]] \in Request
    <3>1. x.state \in Snaps /\ x.state \notin free /\ stack[g] \in Stack
      BY <1>1, <2>1, RefsOf, HerePlace DEF RInv, GamesSafe, Safe, Alive
    <3> QED
      BY <3>1, ContinuationAssumption DEF RInv, RTypes, RTypeOK
  <2>3. Fits[x.action] = Wants[stack[g]]
    BY <2>1, <2>2, ContinuationAssumption
  <2> HIDE DEF x
  <2> QED
    BY <2>1, <2>3 DEF Lost, x
<1>4. CASE Replaying(g) /\ at[g] # Len(cont[g].path)
  <2>1. Onward(snap, cont[g], Here(g), cont[g].path[at[g] + 1])
    BY <1>4, Whereabouts
  <2>2. Here(g).used + 1 = next[g]
    BY <1>1
  <2>3. \/ Does[data[g], stack[g]] = "go"
        \/ /\ Does[data[g], stack[g]] = "ask"
           /\ Fits[cont[g].choices[next[g]].action] = Wants[stack[g]]
    BY <1>1, <2>1, <2>2, Zenon DEF Onward
  <2> QED
    BY <2>3 DEF Lost
<1> QED
  BY <1>2, <1>3, <1>4

\* Types, and every snapshot in one place.
THEOREM ContinuationTypes == RSpec => []RTypeOK
  BY RInvariant, PTL DEF RInv, RTypes

\* What a continuation may still be run from is in no pool and in nobody's hands.
THEOREM SharedStateKept == RSpec => []SharedKept
<1>1. RInv => SharedKept
  <2> SUFFICES ASSUME RInv, NEW c \in Live PROVE \A s \in Refs(c) : s \notin free /\ s \notin held
    BY DEF SharedKept
  <2>1. held \subseteq Snaps
    BY DEF RInv, RTypes, RTypeOK
  <2>2. Safe(snap, free, held, c)
    BY <2>1 DEF Live, RInv, GamesSafe, SnapsSafe, Alive, Waited
  <2> QED
    BY <2>2 DEF Safe
<1> QED
  BY <1>1, RInvariant, PTL

\* No operation fails with "continuation did not reach its recorded input boundary" or
\* "continuation input identity changed": a replay meets each of its choices where it
\* was made.
THEOREM ReplaysMeetTheirChoices ==
  RSpec => [](\A g \in Games : status[g] = "running" => ~ Lost(g))
<1>1. RInv => \A g \in Games : status[g] = "running" => ~ Lost(g)
  BY NeverLost
<1> QED
  BY <1>1, RInvariant, PTL

(***************************************************************************)
(* Continuation implements Coroutine                                       *)
(***************************************************************************)
\* What is seen of game h does not change.
SeenSame(h) ==
  /\ SeenData'[h] = SeenData[h] /\ SeenStatus'[h] = SeenStatus[h]
  /\ SeenStack'[h] = SeenStack[h] /\ SeenTold'[h] = SeenTold[h]
  /\ SeenBase'[h] = SeenBase[h] /\ SeenLog'[h] = SeenLog[h]

LEMMA SeenShape ==
  /\ \A h \in Games :
       /\ SeenData[h] = (IF Replaying(h) THEN snap[cont[h].choices[Chosen(h)].state].data
                         ELSE data[h])
       /\ SeenStatus[h] = (IF Replaying(h) THEN "waiting" ELSE status[h])
       /\ SeenStack[h] = EndOf(cont[h], status[h]).stack
       /\ SeenTold[h] = EndOf(cont[h], status[h]).told
       /\ SeenBase[h] = cont[h].base
       /\ SeenLog[h] = (IF Replaying(h) THEN kept[h] ELSE log[h])
  /\ DOMAIN SeenData = Games /\ DOMAIN SeenStatus = Games /\ DOMAIN SeenStack = Games
  /\ DOMAIN SeenTold = Games /\ DOMAIN SeenBase = Games /\ DOMAIN SeenLog = Games
  /\ SeenData = [h \in Games |-> SeenData[h]] /\ SeenStatus = [h \in Games |-> SeenStatus[h]]
  /\ SeenStack = [h \in Games |-> SeenStack[h]] /\ SeenTold = [h \in Games |-> SeenTold[h]]
  /\ SeenBase = [h \in Games |-> SeenBase[h]] /\ SeenLog = [h \in Games |-> SeenLog[h]]
  BY DEF SeenData, SeenStatus, SeenStack, SeenTold, SeenBase, SeenLog

\* The state the last choice was made in.
LEMMA LastChoice ==
  ASSUME RInv, NEW h \in Games, Replaying(h)
  PROVE  /\ cont[h].choices[Chosen(h)].state \in Refs(cont[h])
         /\ snap[cont[h].choices[Chosen(h)].state].data \in Data
<1>1. cont[h] \in Conts /\ Safe(snap, free, held, cont[h]) /\ Refs(cont[h]) \subseteq Snaps
  BY RefsOf DEF RInv, GamesSafe, Safe, Alive, Replaying
<1>2. Chosen(h) \in 1 .. Len(cont[h].choices)
  BY Whereabouts DEF Replaying, Chosen
<1>3. cont[h].choices[Chosen(h)].state \in Refs(cont[h])
  BY <1>1, <1>2, RefsOf
<1>4. cont[h].choices[Chosen(h)].state \in Snaps \ free
  BY <1>1, <1>3 DEF Safe
<1> QED
  BY <1>3, <1>4 DEF RInv, RTypes, RTypeOK

LEMMA SeenInData == ASSUME RInv PROVE SeenData \in [Games -> Data]
<1>1. \A h \in Games : data[h] \in Data
  BY DEF RInv, RTypes, RTypeOK
<1>2. \A h \in Games : SeenData[h] \in Data
  BY <1>1, LastChoice, SeenShape
<1> QED
  BY <1>2, SeenShape

\* A game that is left alone, with what it rests on, is seen as it was.
LEMMA LeftAlone ==
  ASSUME RInv, NEW h \in Games, data'[h] = data[h], status'[h] = status[h],
         cont'[h] = cont[h], next'[h] = next[h], log'[h] = log[h], kept'[h] = kept[h],
         Alive(h) => Intact(cont[h])
  PROVE  SeenSame(h)
<1>1. Replaying(h)' <=> Replaying(h)
  BY DEF Replaying, Chosen
<1>2. Replaying(h) => snap'[cont[h].choices[Chosen(h)].state].data
                        = snap[cont[h].choices[Chosen(h)].state].data
  BY LastChoice DEF Intact, Alive, Replaying
<1>3. SeenData'[h] = SeenData[h]
  BY <1>1, <1>2, SeenShape DEF SeenData, Chosen
<1>4. SeenStatus'[h] = SeenStatus[h] /\ SeenLog'[h] = SeenLog[h] /\ SeenBase'[h] = SeenBase[h]
  BY <1>1, SeenShape DEF SeenStatus, SeenLog, SeenBase
<1>5. SeenStack'[h] = SeenStack[h] /\ SeenTold'[h] = SeenTold[h]
  BY <1>1, SeenShape DEF SeenStack, SeenTold
<1> QED
  BY <1>3, <1>4, <1>5 DEF SeenSame

LEMMA SavedSame ==
  ASSUME held' = held, \A s \in Snaps : s \in held => snap'[s] = snap[s]
  PROVE  SeenSaved' = SeenSaved
<1>1. \A s \in Snaps : Kept(s)' = Kept(s)
  BY DEF Kept
<1> QED
  BY <1>1 DEF SeenSaved

\* Nothing is seen of a step that all games are seen the same after.
LEMMA Unseen ==
  ASSUME \A h \in Games : SeenSame(h), held' = held, SeenSaved' = SeenSaved
  PROVE  UNCHANGED <<Coroutines!game, held, SeenSaved>>
<1>1. /\ SeenData' = [h \in Games |-> SeenData'[h]]
      /\ SeenStatus' = [h \in Games |-> SeenStatus'[h]]
      /\ SeenStack' = [h \in Games |-> SeenStack'[h]] /\ SeenTold' = [h \in Games |-> SeenTold'[h]]
      /\ SeenBase' = [h \in Games |-> SeenBase'[h]] /\ SeenLog' = [h \in Games |-> SeenLog'[h]]
  BY DEF SeenData, SeenStatus, SeenStack, SeenTold, SeenBase, SeenLog
<1>2. /\ SeenData' = SeenData /\ SeenStatus' = SeenStatus /\ SeenStack' = SeenStack
      /\ SeenTold' = SeenTold /\ SeenBase' = SeenBase /\ SeenLog' = SeenLog
  BY <1>1, SeenShape DEF SeenSame
<1> QED
  BY <1>2 DEF Coroutines!game

\* Only game g is seen to change.
LEMMA SeenBut ==
  ASSUME NEW g \in Games, \A h \in Games \ {g} : SeenSame(h)
  PROVE  /\ SeenData' = [SeenData EXCEPT ![g] = SeenData'[g]]
         /\ SeenStatus' = [SeenStatus EXCEPT ![g] = SeenStatus'[g]]
         /\ SeenStack' = [SeenStack EXCEPT ![g] = SeenStack'[g]]
         /\ SeenTold' = [SeenTold EXCEPT ![g] = SeenTold'[g]]
         /\ SeenBase' = [SeenBase EXCEPT ![g] = SeenBase'[g]]
         /\ SeenLog' = [SeenLog EXCEPT ![g] = SeenLog'[g]]
         /\ SeenData'[g] = SeenData[g] => SeenData' = SeenData
         /\ SeenStatus'[g] = SeenStatus[g] => SeenStatus' = SeenStatus
         /\ SeenStack'[g] = SeenStack[g] => SeenStack' = SeenStack
         /\ SeenTold'[g] = SeenTold[g] => SeenTold' = SeenTold
         /\ SeenBase'[g] = SeenBase[g] => SeenBase' = SeenBase
         /\ SeenLog'[g] = SeenLog[g] => SeenLog' = SeenLog
<1> DEFINE One(f, f2) ==
      /\ f = [h \in Games |-> f[h]] /\ f2 = [h \in Games |-> f2[h]]
      /\ \A h \in Games \ {g} : f2[h] = f[h]
<1>1. \A f, f2 : One(f, f2) => /\ f2 = [f EXCEPT ![g] = f2[g]]
                               /\ f2[g] = f[g] => f2 = f
  <2> SUFFICES ASSUME NEW f, NEW f2, One(f, f2)
               PROVE  f2 = [f EXCEPT ![g] = f2[g]] /\ (f2[g] = f[g] => f2 = f)
    OBVIOUS
  <2>1. f2 = [f EXCEPT ![g] = f2[g]]
    OBVIOUS
  <2>2. f2[g] = f[g] => \A h \in Games : f2[h] = f[h]
    OBVIOUS
  <2> QED
    BY <2>1, <2>2
<1>2. /\ SeenData' = [h \in Games |-> SeenData'[h]]
      /\ SeenStatus' = [h \in Games |-> SeenStatus'[h]]
      /\ SeenStack' = [h \in Games |-> SeenStack'[h]] /\ SeenTold' = [h \in Games |-> SeenTold'[h]]
      /\ SeenBase' = [h \in Games |-> SeenBase'[h]] /\ SeenLog' = [h \in Games |-> SeenLog'[h]]
  BY DEF SeenData, SeenStatus, SeenStack, SeenTold, SeenBase, SeenLog
<1>3. /\ One(SeenData, SeenData') /\ One(SeenStatus, SeenStatus') /\ One(SeenStack, SeenStack')
      /\ One(SeenTold, SeenTold') /\ One(SeenBase, SeenBase') /\ One(SeenLog, SeenLog')
  BY <1>2, SeenShape DEF SeenSame
<1> HIDE DEF One
<1> QED
  BY <1>1, <1>3

LEMMA SeenNext ==
  \A h \in Games :
    /\ SeenData'[h] = (IF Replaying(h)'
                       THEN snap'[cont'[h].choices[Len(cont'[h].choices)].state].data
                       ELSE data'[h])
    /\ SeenStatus'[h] = (IF Replaying(h)' THEN "waiting" ELSE status'[h])
    /\ SeenStack'[h] = EndOf(cont'[h], status'[h]).stack
    /\ SeenTold'[h] = EndOf(cont'[h], status'[h]).told
    /\ SeenBase'[h] = cont'[h].base
    /\ SeenLog'[h] = (IF Replaying(h)' THEN kept'[h] ELSE log'[h])
  BY DEF SeenData, SeenStatus, SeenStack, SeenTold, SeenBase, SeenLog, Chosen

LEMMA EndIs ==
  ASSUME NEW c, NEW s
  PROVE  /\ s \in {"running", "waiting"} => EndOf(c, s) = Last(c)
         /\ s \notin {"running", "waiting"} =>
              EndOf(c, s).stack = Nil /\ EndOf(c, s).told = <<>>
  BY DEF EndOf, Last, Place

\* An operation that is not replayed is seen as it is.
LEMMA SeenRunning ==
  ASSUME RInv, NEW g \in Games, status[g] = "running", ~ Replaying(g)
  PROVE  /\ SeenData[g] = data[g] /\ SeenStatus[g] = "running" /\ SeenStack[g] = stack[g]
         /\ SeenTold[g] = Here(g).told /\ SeenLog[g] = log[g] /\ SeenBase[g] = cont[g].base
<1>1. Here(g) = Last(cont[g]) /\ Here(g).stack = stack[g]
  BY Whereabouts, HerePlace
<1> QED
  BY <1>1, SeenShape, EndIs

\* A game that waits, or is idle.
LEMMA SeenQuiescent ==
  ASSUME RInv, NEW g \in Games, Quiescent(g)
  PROVE  /\ SeenData[g] = data[g] /\ SeenStatus[g] = status[g] /\ SeenLog[g] = log[g]
         /\ SeenBase[g] = cont[g].base
         /\ SeenStack[g] = EndOf(cont[g], status[g]).stack
         /\ SeenTold[g] = EndOf(cont[g], status[g]).told
         /\ status[g] = "idle" => SeenStack[g] = Nil /\ SeenTold[g] = <<>> /\ SeenBase[g] = 0
         /\ status[g] = "waiting" =>
              SeenStack[g] = Last(cont[g]).stack /\ SeenTold[g] = Last(cont[g]).told
<1>1. ~ Replaying(g)
  BY DEF Replaying, Quiescent
<1>2. status[g] = "idle" => cont[g].base = 0
  <2>1. NoCont.base = 0
    BY DEF NoCont
  <2> QED
    BY <2>1 DEF RInv, RTypes, RTypeOK
<1> QED
  BY <1>1, <1>2, SeenShape, EndIs

\* What a step of an operation shows: itself, where the path ended.
LEMMA FollowSeen ==
  ASSUME RInv, NEW g \in Games, status[g] = "running", NEW p \in Places, NEW e \in Entry,
         Follow(g, p), Tell(g, e), Onward(snap, cont[g], Here(g), p),
         \A h \in Games \ {g} : next'[h] = next[h],
         UNCHANGED <<status, pool, kept>>
  PROVE  /\ \A h \in Games \ {g} : SeenSame(h)
         /\ held' = held /\ SeenSaved' = SeenSaved
         /\ data'[g] = p.data /\ log'[g] = (IF g \in Logged THEN Append(log[g], e) ELSE log[g])
         /\ cont'[g].choices = cont[g].choices /\ cont'[g].base = cont[g].base
         /\ at[g] # Len(cont[g].path) => cont'[g] = cont[g] /\ cont[g].path[at[g] + 1] = p
         /\ at[g] = Len(cont[g].path) => Last(cont'[g]) = p
<1> DEFINE c == cont[g]
<1>1. RTypes /\ RTypeOK /\ Safe(snap, free, held, c) /\ c \in Conts /\ Traced(snap, c)
  BY DEF RInv, RTypes, GamesSafe, Safe, Alive
<1>2. /\ \A h \in Games \ {g} : data'[h] = data[h] /\ cont'[h] = cont[h] /\ log'[h] = log[h]
      /\ data'[g] = p.data
  BY <1>1 DEF Follow, Tell, RTypeOK
<1>3. log'[g] = (IF g \in Logged THEN Append(log[g], e) ELSE log[g])
  BY <1>1 DEF Tell, RTypeOK
<1>4. at[g] \in 1 .. Len(c.path) /\ Len(c.path) \in Nat
  BY <1>1, HerePlace, PathOf
<1>5. CASE at[g] # Len(c.path)
  <2>1. at[g] < Len(c.path) /\ at[g] \in 1 .. Len(c.path) - 1
    BY <1>4, <1>5
  <2>2. Onward(snap, c, Here(g), c.path[at[g] + 1])
    BY <1>1, <2>1 DEF Traced, Here
  <2>3. c.path[at[g] + 1] = p
    BY <2>2, OneOnward
  <2>4. cont'[g] = c
    BY <2>1 DEF Follow
  <2> QED
    BY <1>1, <1>2, <1>3, <1>5, <2>3, <2>4, PoolSame, LeftAlone, SavedSame DEF pool
<1>6. CASE at[g] = Len(c.path)
  <2>1. ~ (at[g] < Len(c.path)) /\ Here(g) = Last(c)
    BY <1>4, <1>6 DEF Here, Last
  <2>2. cont'[g] = [c EXCEPT !.path = Append(@, p)]
    BY <1>1, <2>1 DEF Follow, RTypeOK
  <2>3. Last(cont'[g]) = p /\ cont'[g].choices = c.choices /\ cont'[g].base = c.base
    BY <1>1, <2>1, <2>2, Grown
  <2> QED
    BY <1>1, <1>2, <1>3, <1>6, <2>3, PoolSame, LeftAlone, SavedSame DEF pool
<1> QED
  BY <1>5, <1>6

\* A game without a log keeps it empty.
NoLog == \A g \in Games \ Logged : log[g] = <<>> /\ kept[g] = <<>>

LEMMA NoLogInvariant == RSpec => []NoLog
<1>1. RInit => NoLog
  BY DEF RInit, NoLog
<1>2. NoLog /\ RInv /\ [RNext]_RVars => NoLog'
  <2> SUFFICES ASSUME NoLog, RInv, [RNext]_RVars, NEW g \in Games \ Logged
               PROVE  log'[g] = <<>> /\ kept'[g] = <<>>
    BY DEF NoLog
  <2>1. /\ log[g] = <<>> /\ kept[g] = <<>> /\ log \in [Games -> Seq(Entry)]
        /\ kept \in [Games -> Seq(Entry)]
    BY DEF NoLog, RInv, RTypes, RTypeOK
  <2>2. CASE UNCHANGED RVars
    BY <2>1, <2>2 DEF RVars
  <2>3. ASSUME NEW h \in Games, NEW e, Tell(h, e) PROVE log'[g] = <<>>
    BY <2>1, <2>3 DEF Tell
  <2>4. ASSUME NEW h \in Games, NEW t, Stops(h, t) PROVE kept'[g] = <<>>
    BY <2>1, <2>4 DEF Stops
  <2>5. ASSUME NEW h \in Games, Running(h) PROVE log'[g] = <<>> /\ kept'[g] = <<>>
    <3>1. CASE Move(h)
      BY <2>1, <2>3, <3>1 DEF Move
    <3>2. CASE TakeChoice(h)
      BY <2>1, <2>3, <3>2 DEF TakeChoice
    <3>3. CASE Suspend(h)
      BY <2>1, <2>4, <3>3 DEF Suspend
    <3>4. CASE Finish(h)
      BY <2>1, <2>4, <3>4 DEF Finish
    <3>5. CASE FailRule(h)
      BY <2>1, <2>4, <3>5 DEF FailRule
    <3> QED
      BY <2>5, <3>1, <3>2, <3>3, <3>4, <3>5 DEF Running
  <2>6. ASSUME NEW h \in Games, NEW a, ResumeTarget(h, a)
        PROVE  log'[g] = <<>> /\ kept'[g] = <<>>
    <3>1. CASE log' = [log EXCEPT ![h] = Rewound(h)] /\ kept' = [kept EXCEPT ![h] = log[h]]
      BY <2>1, <3>1 DEF Rewound
    <3>2. CASE UNCHANGED log /\ Stops(h, "failed")
      BY <2>1, <2>4, <3>2
    <3> QED
      BY <2>6, <3>1, <3>2 DEF ResumeTarget
  <2>7. ASSUME NEW h \in Games, Owner(h) PROVE log'[g] = <<>> /\ kept'[g] = <<>>
    BY <2>1, <2>6, <2>7 DEF Owner, Begin, Sample, SnapshotPooled, RestoreFromSnap
  <2>8. ASSUME NEW s \in Snaps, ReleaseSnap(s) \/ Collect(s)
        PROVE  log'[g] = <<>> /\ kept'[g] = <<>>
    BY <2>1, <2>8 DEF ReleaseSnap, Collect
  <2> QED
    BY <2>2, <2>5, <2>7, <2>8 DEF RNext
<1> QED
  BY <1>1, <1>2, RInvariant, PTL DEF RSpec

Shown == Coroutines!Next \/ UNCHANGED <<Coroutines!game, held, SeenSaved>>

LEMMA MoveShown ==
  ASSUME RInv, NEW g \in Games, Move(g)
  PROVE  Shown
<1> DEFINE m == Moves[data[g], stack[g]]
<1>1. PICK p \in Places :
        /\ p.data = m.data /\ p.stack = m.stack
        /\ p.told = Append(Here(g).told, m.event) /\ m.event \in Entry
        /\ Follow(g, p) /\ Tell(g, m.event) /\ Onward(snap, cont[g], Here(g), p)
  BY MoveTo
<1>2. /\ status[g] = "running" /\ Does[data[g], stack[g]] = "go" /\ next' = next
      /\ UNCHANGED <<status, pool, kept>>
  BY DEF Move
<1>3. /\ \A h \in Games \ {g} : SeenSame(h)
      /\ held' = held /\ SeenSaved' = SeenSaved
      /\ data'[g] = m.data /\ log'[g] = (IF g \in Logged THEN Append(log[g], m.event) ELSE log[g])
      /\ cont'[g].choices = cont[g].choices /\ cont'[g].base = cont[g].base
      /\ at[g] # Len(cont[g].path) => cont'[g] = cont[g] /\ cont[g].path[at[g] + 1] = p
      /\ at[g] = Len(cont[g].path) => Last(cont'[g]) = p
  <2> HIDE DEF m
  <2> QED
    BY <1>1, <1>2, FollowSeen
<1>4. Replaying(g)' <=> Replaying(g)
  BY <1>2, <1>3 DEF Replaying, Chosen
<1>5. CASE ~ Replaying(g)
  <2>1. /\ SeenData[g] = data[g] /\ SeenStatus[g] = "running" /\ SeenStack[g] = stack[g]
        /\ SeenTold[g] = Here(g).told /\ SeenLog[g] = log[g] /\ SeenBase[g] = cont[g].base
    BY <1>2, <1>5, SeenRunning
  <2>2. Last(cont'[g]) = p
    BY <1>2, <1>3, <1>5, Whereabouts
  <2>3. /\ SeenData'[g] = m.data /\ SeenStatus'[g] = "running" /\ SeenStack'[g] = m.stack
        /\ SeenTold'[g] = Append(SeenTold[g], m.event) /\ SeenBase'[g] = SeenBase[g]
        /\ SeenLog'[g] = (IF g \in Logged THEN Append(SeenLog[g], m.event) ELSE SeenLog[g])
    <3>1. ~ Replaying(g)' /\ EndOf(cont'[g], status'[g]) = p /\ status'[g] = "running"
      BY <1>2, <1>4, <1>5, <2>2, EndIs
    <3> HIDE DEF m
    <3> QED
      BY <1>1, <1>3, <2>1, <3>1, SeenNext
  <2> HIDE DEF m
  <2>4. /\ SeenData' = [SeenData EXCEPT ![g] = m.data]
        /\ SeenStack' = [SeenStack EXCEPT ![g] = m.stack]
        /\ SeenTold' = [SeenTold EXCEPT ![g] = Append(SeenTold[g], m.event)]
        /\ SeenStatus' = SeenStatus /\ SeenBase' = SeenBase
        /\ SeenLog' = IF g \in Logged THEN [SeenLog EXCEPT ![g] = Append(SeenLog[g], m.event)]
                      ELSE SeenLog
    BY <1>3, <2>1, <2>3, SeenBut
  <2>5. m = Moves[SeenData[g], SeenStack[g]] /\ Does[SeenData[g], SeenStack[g]] = "go"
    BY <1>2, <2>1 DEF m
  <2>6. Coroutines!Move(g)
    BY <1>3, <2>1, <2>4, <2>5 DEF Coroutines!Move, Coroutines!Tell
  <2> QED
    BY <2>6 DEF Shown, Coroutines!Next
<1>6. CASE Replaying(g)
  <2>1. at[g] # Len(cont[g].path)
    <3>1. Here(g).data = data[g] /\ Here(g).stack = stack[g]
      BY <1>2, HerePlace
    <3> QED
      BY <1>2, <1>6, <3>1, Whereabouts
  <2>2. cont'[g] = cont[g]
    BY <1>3, <2>1
  <2>3. SeenSame(g)
    <3>1. snap' = snap /\ status' = status /\ kept' = kept
      BY <1>2 DEF pool
    <3> QED
      BY <1>4, <1>6, <2>2, <3>1, SeenNext, SeenShape DEF SeenSame, Chosen
  <2> QED
    BY <1>3, <2>3, Unseen DEF Shown
<1> QED
  BY <1>5, <1>6

\* The last choice of a replay is the one that is seen to be made.
LEMMA TakeChoiceShown ==
  ASSUME RInv, NoLog, NEW g \in Games, TakeChoice(g)
  PROVE  Shown
<1> DEFINE c == cont[g]
           x == c.choices[next[g]]
<1>1. PICK p \in Places :
        /\ p.data = snap[x.state].data /\ p.stack = Answer[stack[g], x.action]
        /\ p.told = Append(Here(g).told, x.action) /\ p.used = next[g] /\ x.action \in Entry
        /\ Follow(g, p) /\ Tell(g, x.action) /\ Onward(snap, c, Here(g), p)
  BY ChoiceTo
<1>2. /\ status[g] = "running" /\ next[g] <= Chosen(g) /\ next' = [next EXCEPT ![g] = @ + 1]
      /\ UNCHANGED <<status, pool, kept>> /\ Replaying(g)
  BY DEF TakeChoice, Replaying
<1>3. next'[g] = next[g] + 1 /\ \A h \in Games \ {g} : next'[h] = next[h]
  BY <1>2 DEF RInv, RTypes, RTypeOK
<1>4. /\ \A h \in Games \ {g} : SeenSame(h)
      /\ held' = held /\ SeenSaved' = SeenSaved
      /\ data'[g] = p.data /\ log'[g] = (IF g \in Logged THEN Append(log[g], x.action) ELSE log[g])
      /\ cont'[g].choices = c.choices /\ cont'[g].base = c.base
      /\ at[g] # Len(c.path) => cont'[g] = c /\ c.path[at[g] + 1] = p
      /\ at[g] = Len(c.path) => Last(cont'[g]) = p
  <2> HIDE DEF x
  <2> QED
    BY <1>1, <1>2, <1>3, FollowSeen
<1>5. /\ Here(g).stack = stack[g] /\ next[g] = Here(g).used + 1 /\ Here(g).used \in Nat
      /\ c \in Conts /\ Chosen(g) \in Nat /\ next[g] \in Nat /\ at[g] \in 1 .. Len(c.path)
  BY <1>2, HerePlace
<1>6. /\ snap' = snap /\ status'[g] = "running" /\ kept' = kept
  BY <1>2 DEF pool
<1>7. CASE at[g] # Len(c.path)
  <2>1. p.used <= Last(c).used /\ Last(c).used = Chosen(g) - 1
    <3>1. at[g] + 1 \in 1 .. Len(c.path)
      <4>1. at[g] < Len(c.path) /\ Len(c.path) \in Nat
        BY <1>2, <1>5, <1>7, Whereabouts, PathOf
      <4> QED
        BY <1>5, <4>1
    <3>2. Traced(snap, c)
      BY <1>2 DEF RInv, GamesSafe, Safe, Alive
    <3> QED
      BY <1>2, <1>4, <1>7, <3>1, <3>2, Whereabouts DEF Traced
  <2>2. next[g] + 1 <= Chosen(g)
    <3>1. next[g] <= Chosen(g) - 1
      BY <1>1, <2>1
    <3> QED
      BY <1>5, <3>1
  <2>3. Replaying(g)' /\ cont'[g] = c
    BY <1>3, <1>4, <1>6, <1>7, <2>2 DEF Replaying, Chosen
  <2>4. SeenSame(g)
    BY <1>2, <1>6, <2>3, SeenNext, SeenShape DEF SeenSame, Chosen
  <2> QED
    BY <1>4, <2>4, Unseen DEF Shown
<1>8. CASE at[g] = Len(c.path)
  <2>1. /\ next[g] = Chosen(g) /\ Here(g) = Last(c) /\ stack[g] = Last(c).stack
        /\ x.action \in Legal[snap[x.state].data, Wants[Last(c).stack]]
    BY <1>2, <1>5, <1>8, Whereabouts
  <2>2. ~ Replaying(g)'
    <3>1. ~ (next[g] + 1 <= next[g])
      BY <1>5
    <3> QED
      BY <1>3, <1>4, <2>1, <3>1 DEF Replaying, Chosen
  <2>3. /\ SeenData[g] = snap[x.state].data /\ SeenStatus[g] = "waiting"
        /\ SeenStack[g] = stack[g] /\ SeenTold[g] = Here(g).told
        /\ SeenBase[g] = c.base /\ SeenLog[g] = kept[g]
    <3>1. EndOf(c, status[g]) = Last(c) /\ x = c.choices[Chosen(g)]
      BY <1>2, <2>1, EndIs
    <3> HIDE DEF x
    <3> QED
      BY <1>2, <2>1, <3>1, SeenShape
  <2>4. g \in Logged => /\ c.base <= Len(kept[g])
                        /\ log[g] = SubSeq(kept[g], 1, c.base) \o Here(g).told
    BY <1>2 DEF RInv, GamesTell, Tells, Chosen, Here
  <2>5. g \in Logged => log'[g] = SubSeq(kept[g], 1, c.base) \o Append(Here(g).told, x.action)
    <3> SUFFICES ASSUME g \in Logged
                 PROVE  log'[g] = SubSeq(kept[g], 1, c.base) \o Append(Here(g).told, x.action)
      OBVIOUS
    <3>1. kept[g] \in Seq(Entry) /\ c.base \in Nat /\ Here(g).told \in Seq(Entry)
      BY <1>2, <1>5, HerePlace DEF RInv, RTypes, Conts, Places
    <3>2. SubSeq(kept[g], 1, c.base) \in Seq(Entry)
      BY <2>4, <3>1
    <3>3. Append(SubSeq(kept[g], 1, c.base) \o Here(g).told, x.action)
            = SubSeq(kept[g], 1, c.base) \o Append(Here(g).told, x.action)
      BY <1>1, <3>1, <3>2, EntryConcat
    <3> QED
      BY <1>4, <2>4, <3>3
  <2>6. /\ SeenData'[g] = SeenData[g] /\ SeenStatus'[g] = "running"
        /\ SeenStack'[g] = Answer[SeenStack[g], x.action]
        /\ SeenTold'[g] = Append(SeenTold[g], x.action) /\ SeenBase'[g] = SeenBase[g]
        /\ SeenLog'[g] = log'[g]
    <3>1. EndOf(cont'[g], status'[g]) = p
      BY <1>4, <1>6, <1>8, EndIs
    <3> HIDE DEF x
    <3> QED
      BY <1>1, <1>4, <1>6, <2>2, <2>3, <3>1, SeenNext
  <2>7. x.action \in Action
    <3>1. next[g] \in 1 .. Len(c.choices)
      BY <1>2, <2>1, Whereabouts DEF Chosen
    <3> QED
      BY <1>5, <3>1, RefsOf
  <2>8. \A h \in Games : h # g => SeenLog'[h] = SeenLog[h]
    BY <1>4 DEF SeenSame
  <2>9. Coroutines!Choose(g, x.action)
    <3> DEFINE a == x.action
    <3>1. SeenStatus[g] = "waiting" /\ a \in Legal[SeenData[g], Wants[SeenStack[g]]]
      BY <2>1, <2>3
    <3>2. g \notin Logged => SeenLog'[g] = SeenLog[g]
      BY <1>4, <2>3, <2>6 DEF NoLog
    <3> HIDE DEF x
    <3>3. /\ SeenStatus' = [SeenStatus EXCEPT ![g] = "running"]
          /\ SeenStack' = [SeenStack EXCEPT ![g] = Answer[SeenStack[g], a]]
          /\ SeenTold' = [SeenTold EXCEPT ![g] = Append(SeenTold[g], a)]
          /\ SeenData' = SeenData /\ SeenBase' = SeenBase
      BY <1>4, <2>6, SeenBut
    <3>4. CASE g \in Logged
      <4>1. SeenLog' = [SeenLog EXCEPT ![g] = log'[g]]
        BY <1>4, <2>6, SeenBut
      <4>2. /\ SeenBase[g] <= Len(SeenLog[g])
            /\ log'[g] = SubSeq(SeenLog[g], 1, SeenBase[g]) \o Append(SeenTold[g], a)
        BY <2>3, <2>4, <2>5, <3>4
      <4> QED
        BY <1>4, <3>1, <3>3, <3>4, <4>1, <4>2 DEF Coroutines!Choose
    <3>5. CASE g \notin Logged
      <4>1. SeenLog' = SeenLog
        BY <1>4, <3>2, <3>5, SeenBut
      <4> QED
        BY <1>4, <3>1, <3>3, <3>5, <4>1 DEF Coroutines!Choose
    <3> QED
      BY <3>4, <3>5
  <2> QED
    BY <2>7, <2>9 DEF Shown, Coroutines!Next
<1> QED
  BY <1>7, <1>8

LEMMA Written ==
  ASSUME RInv, NEW s \in Snaps, s \notin held, NEW x, snap' = [snap EXCEPT ![s] = x],
         held' = held
  PROVE  SeenSaved' = SeenSaved
<1>1. \A t \in Snaps : t \in held => snap'[t] = snap[t]
  BY DEF RInv, RTypes
<1> QED
  BY <1>1, SavedSame

LEMMA BeginShown ==
  ASSUME RInv, NEW g \in Games, NEW op \in Ops, Begin(g, op)
  PROVE  Shown
<1> DEFINE p == Place(data[g], op, <<>>, 0)
           x == [data |-> data[g], pending |-> pending[g], status |-> "idle", cont |-> NoCont]
           b == IF g \in Logged THEN Len(log[g]) ELSE 0
           C(s) == [root |-> s, op |-> op, choices |-> <<>>,
                    of |-> IF g \in Logged THEN g ELSE Nil, base |-> b, path |-> <<p>>]
<1>1. PICK s \in free : /\ snap' = [snap EXCEPT ![s] = x] /\ free' = free \ {s}
                        /\ cont' = [cont EXCEPT ![g] = C(s)]
  BY DEF Begin
<1>2. /\ RTypes /\ RTypeOK /\ status[g] = "idle" /\ held' = held
      /\ status' = [status EXCEPT ![g] = "running"]
      /\ next' = [next EXCEPT ![g] = 1] /\ data' = data /\ log' = log /\ kept' = kept
  BY DEF Begin, RInv, RTypes
<1>3. s \in Snaps /\ s \notin held /\ \A h \in Games : Alive(h) => Intact(cont[h])
  <2> HIDE DEF x
  <2> QED
    BY <1>1, <1>2, TakenSnap DEF x
<1>4. SeenSaved' = SeenSaved
  BY <1>1, <1>2, <1>3, Written
<1>5. PICK c2 : c2 = C(s)
  OBVIOUS
<1>6. /\ Len(c2.choices) = 0 /\ Last(c2) = p /\ c2.base = b
      /\ p.stack = op /\ p.told = <<>>
  <2>1. c2.path = <<p>> /\ c2.choices = <<>> /\ c2.base = b
    BY <1>5
  <2>2. p.stack = op /\ p.told = <<>>
    BY DEF Place
  <2> HIDE DEF p
  <2> QED
    BY <2>1, <2>2 DEF Last
<1>7. /\ cont'[g] = c2 /\ status'[g] = "running" /\ next'[g] = 1
      /\ \A h \in Games \ {g} : /\ cont'[h] = cont[h] /\ status'[h] = status[h]
                                /\ next'[h] = next[h]
  <2> HIDE DEF C
  <2> QED
    BY <1>1, <1>2, <1>5 DEF RTypes, RTypeOK
<1> HIDE DEF C, x, p, b
<1>8. \A h \in Games \ {g} : SeenSame(h)
  BY <1>2, <1>3, <1>7, LeftAlone
<1>9. /\ SeenData[g] = data[g] /\ SeenStatus[g] = "idle" /\ SeenTold[g] = <<>>
      /\ SeenLog[g] = log[g]
  BY <1>2, SeenQuiescent DEF Quiescent
<1>10. /\ SeenData'[g] = data[g] /\ SeenStatus'[g] = "running" /\ SeenStack'[g] = op
       /\ SeenTold'[g] = <<>> /\ SeenBase'[g] = b /\ SeenLog'[g] = log[g]
  <2>1. ~ Replaying(g)'
    BY <1>6, <1>7 DEF Replaying, Chosen
  <2>2. EndOf(cont'[g], status'[g]) = p
    BY <1>6, <1>7, EndIs
  <2> QED
    BY <1>2, <1>6, <1>7, <2>1, <2>2, SeenNext
<1>11. /\ SeenStatus' = [SeenStatus EXCEPT ![g] = "running"]
       /\ SeenStack' = [SeenStack EXCEPT ![g] = op] /\ SeenBase' = [SeenBase EXCEPT ![g] = b]
       /\ SeenData' = SeenData /\ SeenTold' = SeenTold /\ SeenLog' = SeenLog
  BY <1>8, <1>9, <1>10, SeenBut
<1>12. b = IF g \in Logged THEN Len(SeenLog[g]) ELSE 0
  BY <1>9 DEF b
<1>13. Coroutines!Begin(g, op)
  BY <1>2, <1>4, <1>9, <1>11, <1>12 DEF Coroutines!Begin
<1> QED
  BY <1>13 DEF Shown, Coroutines!Next

LEMMA NotReplaying ==
  ASSUME RInv, NEW g \in Games, status[g] = "running", next[g] > Chosen(g)
  PROVE  ~ Replaying(g)
<1>1. \A u, k \in Nat : u > k => ~ (u <= k)
  OBVIOUS
<1>2. Chosen(g) \in Nat /\ next[g] \in Nat
  BY HerePlace DEF RInv, RTypes, RTypeOK
<1> QED
  BY <1>1, <1>2 DEF Replaying

LEMMA SuspendShown ==
  ASSUME RInv, NEW g \in Games, Suspend(g)
  PROVE  Shown
<1>1. /\ RTypes /\ RTypeOK /\ status[g] = "running" /\ ~ Replaying(g)
      /\ Does[data[g], stack[g]] = "ask" /\ UNCHANGED <<data, cont, log, pool>>
      /\ status' = [status EXCEPT ![g] = "waiting"] /\ next' = [next EXCEPT ![g] = 1]
      /\ kept' = [kept EXCEPT ![g] = <<>>]
  <2>1. status[g] = "running" /\ next[g] > Chosen(g)
    BY DEF Suspend
  <2>2. ~ Replaying(g)
    BY <2>1, NotReplaying
  <2> QED
    BY <2>2 DEF Suspend, Stops, RInv, RTypes
<1>2. /\ status'[g] = "waiting"
      /\ \A h \in Games \ {g} : status'[h] = status[h] /\ next'[h] = next[h] /\ kept'[h] = kept[h]
  BY <1>1 DEF RTypes, RTypeOK
<1>3. \A h \in Games \ {g} : SeenSame(h)
  BY <1>1, <1>2, PoolSame, LeftAlone
<1>4. /\ SeenData[g] = data[g] /\ SeenStatus[g] = "running" /\ SeenStack[g] = stack[g]
      /\ SeenLog[g] = log[g] /\ SeenBase[g] = cont[g].base
  BY <1>1, SeenRunning
<1>5. /\ SeenData'[g] = SeenData[g] /\ SeenStatus'[g] = "waiting"
      /\ SeenStack'[g] = SeenStack[g] /\ SeenTold'[g] = SeenTold[g]
      /\ SeenBase'[g] = SeenBase[g] /\ SeenLog'[g] = SeenLog[g]
  <2>1. ~ Replaying(g)' /\ EndOf(cont'[g], status'[g]) = EndOf(cont[g], status[g])
    <3>1. EndOf(cont[g], "waiting") = Last(cont[g]) /\ EndOf(cont[g], "running") = Last(cont[g])
      BY DEF EndOf, Last
    <3>2. ~ Replaying(g)'
      BY <1>2 DEF Replaying
    <3> QED
      BY <1>1, <1>2, <3>1, <3>2
  <2>2. /\ SeenStack[g] = EndOf(cont[g], status[g]).stack
        /\ SeenTold[g] = EndOf(cont[g], status[g]).told
    BY SeenShape
  <2>3. /\ SeenData'[g] = data[g] /\ SeenStatus'[g] = "waiting" /\ SeenBase'[g] = cont[g].base
        /\ SeenLog'[g] = log[g]
    BY <1>1, <1>2, <2>1, SeenNext
  <2>4. /\ SeenStack'[g] = EndOf(cont'[g], status'[g]).stack
        /\ SeenTold'[g] = EndOf(cont'[g], status'[g]).told
    BY SeenNext
  <2> QED
    BY <1>4, <2>1, <2>2, <2>3, <2>4
<1>6. /\ SeenStatus' = [SeenStatus EXCEPT ![g] = "waiting"]
      /\ SeenData' = SeenData /\ SeenStack' = SeenStack /\ SeenTold' = SeenTold
      /\ SeenBase' = SeenBase /\ SeenLog' = SeenLog
  BY <1>3, <1>5, SeenBut
<1>7. held' = held /\ SeenSaved' = SeenSaved
  BY <1>1, SavedSame DEF pool
<1>8. Coroutines!Ask(g)
  BY <1>1, <1>4, <1>6, <1>7 DEF Coroutines!Ask
<1> QED
  BY <1>8 DEF Shown, Coroutines!Next

\* An operation that ends.
LEMMA EndShown ==
  ASSUME RInv, NEW g \in Games, NEW s \in {"idle", "failed"},
         Stops(g, s), cont' = [cont EXCEPT ![g] = NoCont], log' = log,
         \A h \in Games \ {g} : data'[h] = data[h],
         \A h \in Games \ {g} : Alive(h) => Intact(cont[h])
  PROVE  /\ SeenStatus' = [SeenStatus EXCEPT ![g] = s]
         /\ SeenStack' = [SeenStack EXCEPT ![g] = Nil]
         /\ SeenTold' = [SeenTold EXCEPT ![g] = <<>>] /\ SeenBase' = [SeenBase EXCEPT ![g] = 0]
         /\ \A h \in Games \ {g} : SeenData'[h] = SeenData[h]
         /\ SeenData'[g] = data'[g]
         /\ data'[g] = SeenData[g] => SeenData' = SeenData
         /\ SeenLog[g] = log[g] => SeenLog' = SeenLog
<1>1. /\ cont'[g] = NoCont /\ status'[g] = s
      /\ \A h \in Games \ {g} : /\ status'[h] = status[h] /\ next'[h] = next[h]
                                /\ kept'[h] = kept[h] /\ cont'[h] = cont[h]
  BY DEF Stops, RInv, RTypes, RTypeOK
<1>2. \A h \in Games \ {g} : SeenSame(h)
  BY <1>1, LeftAlone
<1>3. ~ Replaying(g)' /\ NoCont.base = 0
  BY <1>1 DEF Replaying, NoCont
<1>4. EndOf(cont'[g], status'[g]).stack = Nil /\ EndOf(cont'[g], status'[g]).told = <<>>
  BY <1>1, EndIs
<1>5. /\ SeenStatus'[g] = s /\ SeenStack'[g] = Nil /\ SeenTold'[g] = <<>> /\ SeenBase'[g] = 0
      /\ SeenData'[g] = data'[g] /\ SeenLog'[g] = log[g]
  BY <1>1, <1>3, <1>4, SeenNext
<1> QED
  BY <1>2, <1>5, SeenBut DEF SeenSame

LEMMA FinishShown ==
  ASSUME RInv, NEW g \in Games, Finish(g)
  PROVE  Shown
<1> DEFINE c == cont[g]
<1>1. /\ status[g] = "running" /\ ~ Replaying(g) /\ Does[data[g], stack[g]] = "done"
      /\ cont' = [cont EXCEPT ![g] = NoCont] /\ Stops(g, "idle")
      /\ data' = data /\ log' = log /\ held' = held
  BY NotReplaying DEF Finish
<1>2. c \in Conts /\ Safe(snap, free, held, c) /\ Alive(g) /\ c.root \in Snaps
      /\ c.root \in Refs(c) /\ c.root \notin held
  BY <1>1, RefsOf DEF RInv, GamesSafe, Safe, Alive, Conts
<1>3. /\ \A h \in Games \ {g} : Alive(h) => Intact(cont[h])
      /\ SeenSaved' = SeenSaved
  <2>1. CASE Chosen(g) = 0
    <3>1. snap' = [snap EXCEPT ![c.root] = NoSnap] /\ free' = free \cup {c.root}
      BY <2>1 DEF Finish, Release
    <3>2. \A h \in Games \ {g} : Alive(h) => c.root \notin Refs(cont[h])
      BY <1>1, <2>1 DEF RInv, RootsSole, Sole
    <3>3. \A h \in Games : Alive(h) /\ c.root \notin Refs(cont[h]) => Intact(cont[h])
      BY <1>1, <1>2, <3>1, PoolBut
    <3>4. SeenSaved' = SeenSaved
      BY <1>1, <1>2, <3>1, Written
    <3> QED
      BY <3>2, <3>3, <3>4
  <2>2. CASE Chosen(g) # 0
    <3>1. UNCHANGED pool
      BY <1>1, <2>2 DEF Finish, pool
    <3> QED
      BY <3>1, PoolSame, SavedSame DEF pool
  <2> QED
    BY <2>1, <2>2
<1>4. /\ SeenStatus' = [SeenStatus EXCEPT ![g] = "idle"]
      /\ SeenStack' = [SeenStack EXCEPT ![g] = Nil]
      /\ SeenTold' = [SeenTold EXCEPT ![g] = <<>>] /\ SeenBase' = [SeenBase EXCEPT ![g] = 0]
      /\ data'[g] = SeenData[g] => SeenData' = SeenData
      /\ SeenLog[g] = log[g] => SeenLog' = SeenLog
  BY <1>1, <1>3, EndShown
<1>5. /\ SeenData[g] = data[g] /\ SeenStatus[g] = "running" /\ SeenStack[g] = stack[g]
      /\ SeenLog[g] = log[g]
  BY <1>1, SeenRunning
<1>6. Coroutines!Done(g)
  BY <1>1, <1>3, <1>4, <1>5 DEF Coroutines!Done, Coroutines!Finished
<1> QED
  BY <1>6 DEF Shown, Coroutines!Next

\* A game fails where the rules do, never because it was replayed.
LEMMA FailRuleShown ==
  ASSUME RInv, RInv', NEW g \in Games, FailRule(g)
  PROVE  Shown
<1>1. /\ status[g] = "running" /\ ~ Replaying(g) /\ Does[data[g], stack[g]] = "fail"
      /\ cont' = [cont EXCEPT ![g] = NoCont] /\ Stops(g, "failed")
      /\ data' = data /\ log' = log /\ UNCHANGED pool
  BY NeverLost DEF FailRule
<1>2. /\ \A h \in Games : Alive(h) => Intact(cont[h])
      /\ held' = held /\ SeenSaved' = SeenSaved
  BY <1>1, PoolSame, SavedSame DEF pool
<1>3. /\ SeenStatus' = [SeenStatus EXCEPT ![g] = "failed"]
      /\ SeenStack' = [SeenStack EXCEPT ![g] = Nil]
      /\ SeenTold' = [SeenTold EXCEPT ![g] = <<>>] /\ SeenBase' = [SeenBase EXCEPT ![g] = 0]
      /\ data'[g] = SeenData[g] => SeenData' = SeenData
      /\ SeenLog[g] = log[g] => SeenLog' = SeenLog
  BY <1>1, <1>2, EndShown
<1>4. /\ SeenData[g] = data[g] /\ SeenStatus[g] = "running" /\ SeenStack[g] = stack[g]
      /\ SeenLog[g] = log[g] /\ SeenData \in [Games -> Data]
  BY <1>1, SeenRunning, SeenInData
<1>5. Coroutines!Fail(g)
  BY <1>1, <1>2, <1>3, <1>4 DEF Coroutines!Fail, Coroutines!Finished
<1> QED
  BY <1>5 DEF Shown, Coroutines!Next

\* A resumption is not seen, until it is back where the game waited.
LEMMA ResumeTargetShown ==
  ASSUME RInv, RInv', NEW g \in Games, NEW a \in Action, ResumeTarget(g, a)
  PROVE  Shown
<1> DEFINE x == [data |-> data[g], pending |-> pending[g], status |-> "idle", cont |-> NoCont]
           c == cont[g]
<1>1. PICK s \in free :
        /\ snap' = [snap EXCEPT ![s] = x] /\ free' = free \ {s}
        /\ data' = [data EXCEPT ![g] = snap[c.root].data]
        /\ \/ /\ cont' = [cont EXCEPT ![g] =
                            [c EXCEPT !.choices = Append(@, [state |-> s, action |-> a])]]
              /\ log' = [log EXCEPT ![g] = Rewound(g)]
              /\ status' = [status EXCEPT ![g] = "running"] /\ next' = [next EXCEPT ![g] = 1]
              /\ kept' = [kept EXCEPT ![g] = log[g]]
           \/ /\ c.of = g /\ Len(log[g]) < c.base
              /\ cont' = [cont EXCEPT ![g] = NoCont] /\ Stops(g, "failed") /\ log' = log
  BY DEF ResumeTarget
<1>2. /\ RTypes /\ RTypeOK /\ status[g] = "waiting" /\ held' = held
      /\ Safe(snap, free, held, c) /\ c \in Conts
  BY DEF ResumeTarget, RInv, RTypes, GamesSafe, Safe, Alive
<1>3. /\ s \in Snaps /\ s \notin free' /\ s \notin held' /\ snap'[s] = x
      /\ \A h \in Games : Alive(h) => Intact(cont[h])
  <2> HIDE DEF x
  <2> QED
    BY <1>1, <1>2, TakenSnap DEF x
<1>4. SeenSaved' = SeenSaved
  BY <1>1, <1>2, <1>3, Written
<1>5. /\ SeenData[g] = data[g] /\ SeenStatus[g] = "waiting" /\ SeenLog[g] = log[g]
      /\ SeenBase[g] = c.base /\ SeenStack[g] = Last(c).stack /\ SeenTold[g] = Last(c).told
  BY <1>2, SeenQuiescent DEF Quiescent
<1>6. \A h \in Games \ {g} : data'[h] = data[h]
  BY <1>1, <1>2 DEF RTypeOK
<1>7. CASE /\ cont' = [cont EXCEPT ![g] =
                         [c EXCEPT !.choices = Append(@, [state |-> s, action |-> a])]]
           /\ log' = [log EXCEPT ![g] = Rewound(g)]
           /\ status' = [status EXCEPT ![g] = "running"] /\ next' = [next EXCEPT ![g] = 1]
           /\ kept' = [kept EXCEPT ![g] = log[g]]
  <2>1. PICK e : e = [c EXCEPT !.choices = Append(@, [state |-> s, action |-> a])]
    OBVIOUS
  <2>2. s \notin free' /\ s \notin held' /\ Safe(snap', free', held', c)
    BY <1>2, <1>3, SafeIntact DEF Intact, Alive
  <2>3. /\ Last(e) = Last(c) /\ e.base = c.base /\ Len(e.choices) = Len(c.choices) + 1
        /\ e.choices[Len(c.choices) + 1] = [state |-> s, action |-> a]
        /\ Len(c.choices) \in Nat
    BY <1>2, <1>3, <2>1, <2>2, Chosen1, PathOf
  <2>4. /\ cont'[g] = e /\ status'[g] = "running" /\ next'[g] = 1 /\ kept'[g] = log[g]
    BY <1>2, <1>7, <2>1 DEF RTypes, RTypeOK
  <2>5. \A h \in Games \ {g} : /\ cont'[h] = cont[h] /\ status'[h] = status[h]
                               /\ next'[h] = next[h] /\ kept'[h] = kept[h] /\ log'[h] = log[h]
    BY <1>2, <1>7 DEF RTypes, RTypeOK
  <2>6. \A h \in Games \ {g} : SeenSame(h)
    BY <1>3, <1>6, <2>5, LeftAlone
  <2>7. Replaying(g)'
    <3>1. \A n \in Nat : 1 <= n + 1
      OBVIOUS
    <3> QED
      BY <2>3, <2>4, <3>1 DEF Replaying, Chosen
  <2>8. snap'[cont'[g].choices[Len(cont'[g].choices)].state].data = data[g]
    BY <1>3, <2>3, <2>4
  <2>9. EndOf(cont'[g], status'[g]) = Last(c)
    BY <2>3, <2>4, EndIs
  <2>10. SeenSame(g)
    BY <1>5, <2>3, <2>4, <2>7, <2>8, <2>9, SeenNext DEF SeenSame
  <2> QED
    BY <1>2, <1>4, <2>6, <2>10, Unseen DEF Shown
<1>8. CASE /\ c.of = g /\ Len(log[g]) < c.base
           /\ cont' = [cont EXCEPT ![g] = NoCont] /\ Stops(g, "failed") /\ log' = log
  <2>1. g \in Logged
    BY <1>2, <1>8, ContinuationAssumption DEF Conts
  <2>2. /\ SeenStatus' = [SeenStatus EXCEPT ![g] = "failed"]
        /\ SeenStack' = [SeenStack EXCEPT ![g] = Nil]
        /\ SeenTold' = [SeenTold EXCEPT ![g] = <<>>] /\ SeenBase' = [SeenBase EXCEPT ![g] = 0]
        /\ \A h \in Games \ {g} : SeenData'[h] = SeenData[h]
        /\ SeenLog' = SeenLog
    BY <1>3, <1>5, <1>6, <1>8, EndShown
  <2>3. SeenData' \in [Games -> Data]
    <3>1. \A h \in Games \ {g} : SeenData'[h] \in Data
      BY <2>2, SeenInData
    <3>2. data'[g] \in Data /\ SeenData'[g] = data'[g]
      <4>1. data'[g] \in Data
        BY DEF RInv, RTypes, RTypeOK
      <4> QED
        BY <1>3, <1>6, <1>8, <4>1, EndShown
    <3>3. SeenData' = [h \in Games |-> SeenData'[h]]
      BY DEF SeenData
    <3> QED
      BY <3>1, <3>2, <3>3
  <2>4. Coroutines!Fail(g)
    BY <1>2, <1>4, <1>5, <1>8, <2>1, <2>2, <2>3 DEF Coroutines!Fail, Coroutines!Finished
  <2> QED
    BY <2>4 DEF Shown, Coroutines!Next
<1> QED
  BY <1>1, <1>7, <1>8

LEMMA SampleShown ==
  ASSUME RInv, NEW g \in Games, NEW d \in Data, Sample(g, d)
  PROVE  Shown
<1>1. /\ RTypes /\ RTypeOK /\ Quiescent(g) /\ data' = [data EXCEPT ![g] = d]
      /\ status' = status /\ cont' = cont /\ next' = next /\ log' = log /\ kept' = kept
      /\ UNCHANGED pool
  BY DEF Sample, RInv, RTypes
<1>2. data'[g] = d /\ \A h \in Games \ {g} : data'[h] = data[h]
  BY <1>1 DEF RTypeOK
<1>3. \A h \in Games \ {g} : SeenSame(h)
  BY <1>1, <1>2, PoolSame, LeftAlone
<1>4. /\ SeenStatus[g] = status[g] /\ SeenLog[g] = log[g]
      /\ SeenBase[g] = cont[g].base
      /\ SeenStack[g] = EndOf(cont[g], status[g]).stack
      /\ SeenTold[g] = EndOf(cont[g], status[g]).told
  BY <1>1, SeenQuiescent
<1>5. ~ Replaying(g)'
  BY <1>1 DEF Replaying, Quiescent
<1>6. /\ SeenData'[g] = d /\ SeenStatus'[g] = SeenStatus[g] /\ SeenLog'[g] = SeenLog[g]
      /\ SeenBase'[g] = SeenBase[g] /\ SeenStack'[g] = SeenStack[g] /\ SeenTold'[g] = SeenTold[g]
  BY <1>1, <1>2, <1>4, <1>5, SeenNext
<1>7. /\ SeenData' = [SeenData EXCEPT ![g] = d]
      /\ SeenStatus' = SeenStatus /\ SeenLog' = SeenLog /\ SeenBase' = SeenBase
      /\ SeenStack' = SeenStack /\ SeenTold' = SeenTold
  BY <1>3, <1>6, SeenBut
<1>8. held' = held /\ SeenSaved' = SeenSaved
  BY <1>1, SavedSame DEF pool
<1>9. Coroutines!Sample(g, d)
  BY <1>1, <1>4, <1>7, <1>8 DEF Coroutines!Sample, Quiescent
<1> QED
  BY <1>9 DEF Shown, Coroutines!Next

\* Only what is kept in snapshot s is seen to change.
LEMMA SavedBut ==
  ASSUME NEW s \in Snaps,
         \A t \in Snaps \ {s} : (t \in held' <=> t \in held) /\ (t \in held => snap'[t] = snap[t])
  PROVE  SeenSaved' = [SeenSaved EXCEPT ![s] = Kept(s)']
<1>1. \A t \in Snaps \ {s} : Kept(t)' = Kept(t)
  BY DEF Kept
<1> QED
  BY <1>1 DEF SeenSaved

LEMMA SnapshotPooledShown ==
  ASSUME RInv, NEW g \in Games, SnapshotPooled(g)
  PROVE  Shown
<1> DEFINE x == [data |-> data[g], pending |-> pending[g], status |-> status[g], cont |-> cont[g]]
<1>1. PICK s \in free : /\ snap' = [snap EXCEPT ![s] = x] /\ free' = free \ {s}
                        /\ held' = held \cup {s}
  BY DEF SnapshotPooled
<1>2. /\ RTypes /\ RTypeOK /\ Quiescent(g) /\ s \in Snaps /\ s \notin held
      /\ UNCHANGED <<data, status, cont, next, log, kept>>
  BY DEF SnapshotPooled, play, RInv, RTypes, RTypeOK
<1>3. \A h \in Games : Alive(h) => Intact(cont[h])
  <2>1. \A h \in Games : Alive(h) => s \notin Refs(cont[h])
    BY <1>2, Unshared
  <2>2. free' \subseteq free \cup {s} /\ held' \subseteq held \cup {s}
    BY <1>1
  <2> HIDE DEF x
  <2> QED
    BY <1>1, <1>2, <2>1, <2>2, PoolBut
<1>4. \A h \in Games : SeenSame(h)
  BY <1>2, <1>3, LeftAlone
<1>5. /\ SeenData[g] = data[g] /\ SeenStatus[g] = status[g] /\ SeenBase[g] = cont[g].base
      /\ SeenStack[g] = EndOf(cont[g], status[g]).stack
      /\ SeenTold[g] = EndOf(cont[g], status[g]).told
  BY <1>2, SeenQuiescent
<1>6. Kept(s)' = [data |-> SeenData[g], status |-> SeenStatus[g], stack |-> SeenStack[g],
                  told |-> SeenTold[g], base |-> SeenBase[g]]
  <2>1. snap'[s] = x /\ s \in held'
    BY <1>1, <1>2 DEF RTypes
  <2>2. x.data = data[g] /\ x.status = status[g] /\ x.cont = cont[g]
    OBVIOUS
  <2> HIDE DEF x
  <2> QED
    BY <1>5, <2>1, <2>2 DEF Kept
<1>7. SeenSaved' = [SeenSaved EXCEPT ![s] = Kept(s)']
  <2> HIDE DEF x
  <2>1. \A t \in Snaps \ {s} : (t \in held' <=> t \in held) /\ snap'[t] = snap[t]
    BY <1>1, <1>2 DEF RTypes
  <2> QED
    BY <1>2, <2>1, SavedBut
<1>8. UNCHANGED Coroutines!game
  <2>1. /\ SeenData' = SeenData /\ SeenStatus' = SeenStatus /\ SeenStack' = SeenStack
        /\ SeenTold' = SeenTold /\ SeenBase' = SeenBase /\ SeenLog' = SeenLog
    BY <1>4, SeenBut DEF SeenSame
  <2> QED
    BY <2>1 DEF Coroutines!game
<1>9. Coroutines!Save(g, s)
  <2>1. SeenStatus[g] \in {"idle", "waiting"}
    BY <1>2, <1>5 DEF Quiescent
  <2> QED
    BY <1>1, <1>2, <1>6, <1>7, <1>8, <2>1 DEF Coroutines!Save
<1> QED
  BY <1>2, <1>9 DEF Shown, Coroutines!Next

LEMMA RestoreFromSnapShown ==
  ASSUME RInv, NEW g \in Games, NEW s \in Snaps, RestoreFromSnap(g, s)
  PROVE  Shown
<1>1. /\ RTypes /\ RTypeOK /\ Quiescent(g) /\ s \in held
      /\ data' = [data EXCEPT ![g] = snap[s].data]
      /\ status' = [status EXCEPT ![g] = snap[s].status]
      /\ cont' = [cont EXCEPT ![g] = snap[s].cont]
      /\ next' = next /\ log' = log /\ kept' = kept /\ UNCHANGED pool
  BY DEF RestoreFromSnap, RInv, RTypes
<1>2. /\ data'[g] = snap[s].data /\ status'[g] = snap[s].status /\ cont'[g] = snap[s].cont
      /\ \A h \in Games \ {g} : /\ data'[h] = data[h] /\ status'[h] = status[h]
                                /\ cont'[h] = cont[h]
  BY <1>1 DEF RTypeOK
<1>3. \A h \in Games \ {g} : SeenSame(h)
  BY <1>1, <1>2, PoolSame, LeftAlone
<1>4. snap[s].status \in {"idle", "waiting"}
  BY <1>1 DEF RTypeOK
<1>5. ~ Replaying(g)'
  BY <1>2, <1>4 DEF Replaying
<1>6. /\ SeenSaved[s].data = snap[s].data /\ SeenSaved[s].status = snap[s].status
      /\ SeenSaved[s].stack = EndOf(snap[s].cont, snap[s].status).stack
      /\ SeenSaved[s].told = EndOf(snap[s].cont, snap[s].status).told
      /\ SeenSaved[s].base = snap[s].cont.base
  BY <1>1 DEF SeenSaved, Kept
<1>7. /\ SeenStatus[g] = status[g] /\ SeenLog[g] = log[g]
  BY <1>1, SeenQuiescent
<1>8. /\ SeenData'[g] = SeenSaved[s].data /\ SeenStatus'[g] = SeenSaved[s].status
      /\ SeenStack'[g] = SeenSaved[s].stack /\ SeenTold'[g] = SeenSaved[s].told
      /\ SeenBase'[g] = SeenSaved[s].base /\ SeenLog'[g] = SeenLog[g]
  BY <1>1, <1>2, <1>5, <1>6, <1>7, SeenNext
<1>9. /\ SeenData' = [SeenData EXCEPT ![g] = SeenSaved[s].data]
      /\ SeenStatus' = [SeenStatus EXCEPT ![g] = SeenSaved[s].status]
      /\ SeenStack' = [SeenStack EXCEPT ![g] = SeenSaved[s].stack]
      /\ SeenTold' = [SeenTold EXCEPT ![g] = SeenSaved[s].told]
      /\ SeenBase' = [SeenBase EXCEPT ![g] = SeenSaved[s].base] /\ SeenLog' = SeenLog
  BY <1>3, <1>8, SeenBut
<1>10. held' = held /\ SeenSaved' = SeenSaved
  BY <1>1, SavedSame DEF pool
<1>11. Coroutines!Load(g, s)
  BY <1>1, <1>7, <1>9, <1>10 DEF Coroutines!Load, Quiescent
<1> QED
  BY <1>11 DEF Shown, Coroutines!Next

LEMMA PutBackShown ==
  ASSUME RInv, NEW s \in Snaps, ReleaseSnap(s) \/ Collect(s)
  PROVE  Shown
<1>1. /\ snap' = [snap EXCEPT ![s] = NoSnap] /\ free' = free \cup {s}
      /\ held' \subseteq held
      /\ UNCHANGED <<data, status, cont, next, log, kept>>
  BY DEF ReleaseSnap, Collect, Release, play
<1>2. \A h \in Games : Alive(h) => s \notin Refs(cont[h])
  <2>1. CASE ReleaseSnap(s)
    BY <2>1, Unshared DEF ReleaseSnap
  <2>2. CASE Collect(s)
    BY <2>2 DEF Collect, Live, Alive
  <2> QED
    BY <2>1, <2>2
<1>3. \A h \in Games : SeenSame(h)
  <2>1. \A h \in Games : Alive(h) => Intact(cont[h])
    <3>1. free' \subseteq free \cup {s} /\ held' \subseteq held \cup {s}
      BY <1>1
    <3> QED
      BY <1>1, <1>2, <3>1, PoolBut
  <2> QED
    BY <1>1, <2>1, LeftAlone
<1>4. CASE ReleaseSnap(s)
  <2>1. s \in held /\ held' = held \ {s}
    BY <1>4 DEF ReleaseSnap
  <2>2. SeenSaved' = [SeenSaved EXCEPT ![s] = Kept(s)']
    <3>1. \A t \in Snaps \ {s} : (t \in held' <=> t \in held) /\ snap'[t] = snap[t]
      BY <1>1, <2>1 DEF RInv, RTypes
    <3> QED
      BY <3>1, SavedBut
  <2>3. Kept(s)' = Coroutines!Empty
    BY <2>1 DEF Kept, Coroutines!Empty
  <2>4. UNCHANGED Coroutines!game
    <3>1. \A g \in Games : /\ SeenData' = SeenData /\ SeenStatus' = SeenStatus
                           /\ SeenStack' = SeenStack /\ SeenTold' = SeenTold
                           /\ SeenBase' = SeenBase /\ SeenLog' = SeenLog
      BY <1>3, SeenBut DEF SeenSame
    <3>2. Games # {} => UNCHANGED Coroutines!game
      BY <3>1 DEF Coroutines!game
    <3>3. Games = {} => UNCHANGED Coroutines!game
      BY DEF Coroutines!game, SeenData, SeenStatus, SeenStack, SeenTold, SeenBase, SeenLog
    <3> QED
      BY <3>2, <3>3
  <2>5. Coroutines!Free(s)
    BY <2>1, <2>2, <2>3, <2>4 DEF Coroutines!Free
  <2> QED
    BY <2>5 DEF Shown, Coroutines!Next
<1>5. CASE Collect(s)
  <2>1. s \notin held /\ held' = held
    BY <1>5 DEF Collect
  <2>2. SeenSaved' = SeenSaved
    BY <1>1, <2>1, Written
  <2> QED
    BY <1>3, <2>1, <2>2, Unseen DEF Shown
<1> QED
  BY <1>4, <1>5

LEMMA InitShown == RInit => Coroutines!Init
<1> SUFFICES ASSUME RInit PROVE Coroutines!Init
  OBVIOUS
<1>1. /\ data \in [Games -> Data] /\ held = {}
      /\ \A g \in Games : status[g] = "idle" /\ cont[g] = NoCont /\ log[g] = <<>>
  BY DEF RInit
<1>2. NoCont.base = 0
  BY DEF NoCont
<1>3. \A g \in Games : ~ Replaying(g)
  BY <1>1 DEF Replaying
<1>4. \A g \in Games :
        /\ SeenData[g] = data[g] /\ SeenStatus[g] = "idle" /\ SeenStack[g] = Nil
        /\ SeenTold[g] = <<>> /\ SeenBase[g] = 0 /\ SeenLog[g] = <<>>
  <2>1. \A g \in Games : /\ EndOf(cont[g], status[g]).stack = Nil
                          /\ EndOf(cont[g], status[g]).told = <<>>
    BY <1>1 DEF EndOf, Place
  <2> QED
    BY <1>1, <1>2, <1>3, <2>1, SeenShape
<1>5. /\ SeenData \in [Games -> Data] /\ SeenStatus = [g \in Games |-> "idle"]
      /\ SeenStack = [g \in Games |-> Nil] /\ SeenTold = [g \in Games |-> <<>>]
      /\ SeenBase = [g \in Games |-> 0] /\ SeenLog = [g \in Games |-> <<>>]
  BY <1>1, <1>4, SeenShape
<1>6. SeenSaved = [s \in Snaps |-> Coroutines!Empty]
  BY <1>1 DEF SeenSaved, Kept, Coroutines!Empty
<1> QED
  BY <1>1, <1>5, <1>6 DEF Coroutines!Init

LEMMA StepShown == RInv /\ RInv' /\ NoLog /\ [RNext]_RVars => Shown
<1> SUFFICES ASSUME RInv, RInv', NoLog, [RNext]_RVars PROVE Shown
  OBVIOUS
<1>1. ASSUME NEW g \in Games, Running(g) PROVE Shown
  BY <1>1, MoveShown, SuspendShown, TakeChoiceShown, FinishShown, FailRuleShown DEF Running
<1>2. ASSUME NEW g \in Games, Owner(g) PROVE Shown
  BY <1>2, BeginShown, ResumeTargetShown, SampleShown, SnapshotPooledShown,
     RestoreFromSnapShown DEF Owner
<1>3. ASSUME NEW s \in Snaps, ReleaseSnap(s) \/ Collect(s) PROVE Shown
  BY <1>3, PutBackShown
<1>4. CASE UNCHANGED RVars
  <2>1. UNCHANGED <<data, status, cont, next, log, snap, held, kept>> /\ UNCHANGED pool
    BY <1>4 DEF RVars, play, pool
  <2>2. \A h \in Games : SeenSame(h)
    BY <2>1, PoolSame, LeftAlone
  <2> QED
    BY <2>1, <2>2, SavedSame, Unseen DEF Shown
<1> QED
  BY <1>1, <1>2, <1>3, <1>4 DEF RNext

\* Games that throw their stack away and run their operations again do what games do
\* that keep it.
THEOREM SuspensionIsNotSeen == RSpec => ImplementsCoroutine
<1>1. RInv /\ RInv' /\ NoLog /\ [RNext]_RVars
        => [Coroutines!Next]_<<Coroutines!game, held, SeenSaved>>
  BY StepShown DEF Shown
<1> QED
  BY <1>1, InitShown, RInvariant, NoLogInvariant, PTL
     DEF RSpec, ImplementsCoroutine, Coroutines!Spec
=============================================================================
