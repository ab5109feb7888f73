----------------------------- MODULE RpcService -----------------------------
(***************************************************************************)
(* What the inference service promises its actors.  There is a register of *)
(* weights, which only ever goes on to newer ones that were published; it  *)
(* may pass over some, whose load failed, and when it goes on is not       *)
(* promised, nor that a call made after a publication meets it.            *)
(* Each actor calls, and its call is answered at one moment after it, for  *)
(* several calls at once: with the row of its own observation, computed    *)
(* throughout with the weights of that moment; or with an error.  An actor *)
(* gets what its call was answered, once, or gives up, and plays on only   *)
(* with a row.                                                             *)
(***************************************************************************)
EXTENDS Integers

CONSTANT Client

VARIABLES
  pushed,  \* number of weights published
  net,     \* the newest the service has loaded
  actor,   \* playing, waiting or ended
  sent,    \* calls each has made
  call,    \* what has become of its call
  result   \* what its last call returned

NoRow  == [obs |-> <<>>, ver |-> -1, emb |-> -1]
NoCall == [status |-> "none", row |-> NoRow]

Init ==
  /\ pushed = 0 /\ net = 0
  /\ actor = [c \in Client |-> "playing"] /\ sent = [c \in Client |-> 0]
  /\ call = [c \in Client |-> NoCall]
  /\ result = [c \in Client |-> [status |-> "none", row |-> NoRow]]

Publish ==
  /\ pushed' = pushed + 1
  /\ UNCHANGED <<net, actor, sent, call, result>>

Load ==
  /\ net' \in (net + 1) .. pushed
  /\ UNCHANGED <<pushed, actor, sent, call, result>>

Ask(c) ==
  /\ actor[c] = "playing"
  /\ actor' = [actor EXCEPT ![c] = "waiting"] /\ sent' = [sent EXCEPT ![c] = @ + 1]
  /\ call' = [call EXCEPT ![c] = [status |-> "asked", row |-> NoRow]]
  /\ result' = [result EXCEPT ![c] = [status |-> "none", row |-> NoRow]]
  /\ UNCHANGED <<pushed, net>>

Answer(c, status) ==
  [status |-> status,
   row |-> IF status = "ok" THEN [obs |-> <<c, sent[c]>>, ver |-> net, emb |-> net] ELSE NoRow]

\* One forward for all calls in S.
Serve(S, status) ==
  /\ \A c \in S : call[c].status = "asked"
  /\ call' = [c \in Client |-> IF c \in S THEN Answer(c, status) ELSE call[c]]
  /\ UNCHANGED <<pushed, net, actor, sent, result>>

Ends(c, status, row) ==
  /\ actor[c] = "waiting"
  /\ actor' = [actor EXCEPT ![c] = IF status = "ok" THEN "playing" ELSE "ended"]
  /\ result' = [result EXCEPT ![c] = [status |-> status, row |-> row]]
  /\ call' = [call EXCEPT ![c] = NoCall]
  /\ UNCHANGED <<pushed, net, sent>>

Return(c) ==
  /\ call[c].status \in {"ok", "miss", "failed"}
  /\ Ends(c, call[c].status, call[c].row)

GiveUp(c) == \E why \in {"timeout", "lost", "stopping"} : Ends(c, why, NoRow)

Next ==
  \/ Publish \/ Load
  \/ \E c \in Client : Ask(c) \/ Return(c) \/ GiveUp(c)
  \/ \E S \in SUBSET Client : \E status \in {"ok", "miss", "failed"} : Serve(S, status)

Spec == Init /\ [][Next]_<<pushed, net, actor, sent, call, result>>
=============================================================================
