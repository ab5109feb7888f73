---------------------------- MODULE MpscChannel ----------------------------
(***************************************************************************)
(* What the transition ring promises: a bounded FIFO from many producers   *)
(* to one consumer.  A producer claims the next place, which fixes the     *)
(* order of delivery, and makes its message ready later; the consumer      *)
(* takes the oldest message once it is ready.  Messages of one producer    *)
(* carry increasing numbers, so each is delivered whole, in order and at   *)
(* most once.                                                              *)
(***************************************************************************)
EXTENDS Naturals, Sequences

CONSTANTS Producers,  \* who may claim a place
          Cap,        \* places in the channel
          MaxSeq      \* messages each producer has to send

VARIABLES queue,      \* the claimed places, oldest first: [msg, ready]
          out         \* what the consumer received: <<header, payload>> pairs

Message == Producers \X (1 .. MaxSeq)

\* m is newer than every message of its producer so far, and those are ready.
Fresh(m) ==
  /\ \A k \in DOMAIN queue :
       queue[k].msg[1] = m[1] => queue[k].ready /\ queue[k].msg[2] < m[2]
  /\ \A k \in DOMAIN out : out[k][1][1] = m[1] => out[k][1][2] < m[2]

Init == queue = <<>> /\ out = <<>>

Claim(m) ==
  /\ Len(queue) < Cap /\ Fresh(m)
  /\ queue' = Append(queue, [msg |-> m, ready |-> FALSE])
  /\ UNCHANGED out

MakeReady(k) ==
  /\ ~queue[k].ready
  /\ queue' = [queue EXCEPT ![k] = [msg |-> @.msg, ready |-> TRUE]]
  /\ UNCHANGED out

Deliver ==
  /\ queue # <<>> /\ queue[1].ready
  /\ out' = Append(out, <<queue[1].msg, queue[1].msg>>)
  /\ queue' = Tail(queue)

Next ==
  \/ \E m \in Message : Claim(m)
  \/ \E k \in DOMAIN queue : MakeReady(k)
  \/ Deliver

Spec == Init /\ [][Next]_<<queue, out>>
============================================================================
