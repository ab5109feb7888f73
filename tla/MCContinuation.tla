--------------------------- MODULE MCContinuation ---------------------------
(* Model-checking instance of Continuation: a game with a log and a clone. *)
(* The operation asks first.  One answer has it draw a random bit, which   *)
(* it keeps in a local and which decides whether it asks again; the other  *)
(* has it ask again at once.  In the end it is done, or fails.             *)
EXTENDS Continuation, FiniteSets, TLC

CONSTANTS original, clone

Bits    == {0, 1}
Actions == {"a", "b"}

\* A stack: how far the operation is, and its local.
Stacks == {"first", "draw", "second", "end"} \X Bits
Begins == {<<"first", 0>>}

DoesOf[d \in Bits, k \in Stacks] ==
  CASE k[1] \in {"first", "second"} -> "ask"
    [] k[1] = "draw"                -> "go"
    [] k[1] = "end"                 -> IF d = 1 /\ k[2] = 1 THEN "fail" ELSE "done"

MovesOf[d \in Bits, k \in Stacks] ==
  [data |-> 1 - d, event |-> "drew", stack |-> <<IF d = 1 THEN "second" ELSE "end", d>>]

AnswerOf[k \in Stacks, a \in Actions] ==
  <<IF k[1] = "second" THEN "end" ELSE IF a = "a" THEN "draw" ELSE "second", k[2]>>
WantsOf == [k \in Stacks |-> "target"]
FitsOf  == [a \in Actions |-> "target"]
LegalOf[d \in Bits, r \in {"target"}] == IF d = 0 THEN Actions ELSE {"a"}
Similar == Permutations(Snaps)

\* Bound of the run: four snapshots for the game alone, three and a short log once
\* the clone takes part.
AtRest(h) == status[h] = "idle" /\ data[h] = 0
Few == AtRest(clone) \/ (Cardinality(Snaps \ free) <= 3 /\ Len(log[original]) <= 3)
=============================================================================
