------------------------------- MODULE ShmRing -------------------------------
(***************************************************************************)
(* The shared-memory transition ring: Go actors (many producers, in many   *)
(* processes) push episode frames with shm_ring_push and the Python master *)
(* (one consumer) takes them with shm_ring_pop                             *)
(* (gicg_actor/shm/shm_unix.c; shm_win.c is the same algorithm).  Every    *)
(* atomic load, compare-and-swap and store of the C code is a step of its  *)
(* own, so the interleavings are those of the lock-free code.  The caller  *)
(* of the push is TransitionWriterShm.Push, which retries a full ring      *)
(* until a deadline and then gives the frame up.                           *)
(*                                                                         *)
(* A producer may die at any point (SIGKILL, or os.Exit in the SIGTERM     *)
(* handler of gicg_actor/pool.go) and leaves the shared memory as it is.   *)
(*                                                                         *)
(* A frame is abstracted to <<p, n>>: the n-th frame of producer p.  The   *)
(* slot header (client_id, req_id, payload_len) and the payload are        *)
(* written and read separately, so a torn slot can be told from a whole    *)
(* one.                                                                    *)
(***************************************************************************)
EXTENDS Integers, Sequences, FiniteSets

CONSTANTS Producers,   \* the actor goroutines that share the ring
          Cap,         \* the number of slots, fixed when the ring is created
          MaxSeq,      \* bound: frames each producer sends
          Crashable    \* the producers whose process may be killed

ASSUME RingAssumption ==
  /\ IsFiniteSet(Producers)
  /\ Cap \in Nat \ {0}
  /\ MaxSeq \in Nat
  /\ Crashable \subseteq Producers

Slots   == 0 .. Cap - 1
Msg     == Producers \X (1 .. MaxSeq)
NoMsg   == <<>>                     \* what a slot never written holds
EMPTY   == 0
FULL    == 1

VARIABLES
  head, tail, count,     \* ShmRingHeader
  status, hdr, body,     \* the slots: status, header fields, payload
  pc, cnt, old, seq,     \* per producer: control, loaded count, loaded tail, frames done
  alive,                 \* the producers that still run
  cpc, chdr, cbody,      \* the consumer: control, copied header and payload
  claims,                \* history: the frames whose slot is claimed and not yet released
  delivered,             \* history: what pop returned, <<header, payload>> pairs
  dropped                \* history: the frames given up after the push deadline

shared   == <<head, tail, count, status, hdr, body>>
local    == <<pc, cnt, old, seq>>
consumer == <<cpc, chdr, cbody>>
history  == <<claims, delivered, dropped>>
vars     == <<shared, local, alive, consumer, history>>

Succ(i)  == (i + 1) % Cap
Frame(p) == <<p, seq[p] + 1>>       \* the frame p is sending

ProducerPC == {"idle", "load", "cas", "full", "loadTail", "casTail",
               "header", "payload", "publish"}
ConsumerPC == {"idle", "status", "header", "payload", "release", "advance", "uncount"}

Init ==
  /\ head = 0 /\ tail = 0 /\ count = 0
  /\ status = [i \in Slots |-> EMPTY]
  /\ hdr  = [i \in Slots |-> NoMsg]
  /\ body = [i \in Slots |-> NoMsg]
  /\ pc  = [p \in Producers |-> "idle"]
  /\ cnt = [p \in Producers |-> 0]
  /\ old = [p \in Producers |-> 0]
  /\ seq = [p \in Producers |-> 0]
  /\ alive = Producers
  /\ cpc = "idle" /\ chdr = NoMsg /\ cbody = NoMsg
  /\ claims = <<>> /\ delivered = <<>> /\ dropped = {}

Goto(p, l) == pc' = [pc EXCEPT ![p] = l]

(***************************************************************************)
(* shm_ring_push, called by TransitionWriterShm.Push                       *)
(***************************************************************************)
Push(p) ==
  /\ pc[p] = "idle" /\ seq[p] < MaxSeq
  /\ Goto(p, "load")
  /\ UNCHANGED <<shared, cnt, old, seq, alive, consumer, history>>

LoadCount(p) ==
  /\ pc[p] = "load" /\ count < Cap
  /\ cnt' = [cnt EXCEPT ![p] = count]
  /\ Goto(p, "cas")
  /\ UNCHANGED <<shared, old, seq, alive, consumer, history>>

\* Mutant of PushFull: the frame is given up at the first full ring, uncounted.
PushFull_Dropping(p) ==
  /\ pc[p] = "load" /\ count >= Cap
  /\ seq' = [seq EXCEPT ![p] = @ + 1]
  /\ UNCHANGED <<shared, pc, cnt, old, alive, consumer, history>>

\* The loaded count is not below the capacity: the push returns 0.
PushFull(p) ==
  /\ pc[p] = "load" /\ count >= Cap
  /\ Goto(p, "full")
  /\ UNCHANGED <<shared, cnt, old, seq, alive, consumer, history>>

\* Mutants of CasCount: a fetch-and-add without the comparison, a plain store.
CasCount_Blind(p) ==
  /\ pc[p] = "cas" /\ count' = count + 1 /\ Goto(p, "loadTail")
  /\ cnt' = [cnt EXCEPT ![p] = 0]
  /\ UNCHANGED <<head, tail, status, hdr, body, old, seq, alive, consumer, history>>
CasCount_Store(p) ==
  /\ pc[p] = "cas" /\ count' = cnt[p] + 1 /\ Goto(p, "loadTail")
  /\ cnt' = [cnt EXCEPT ![p] = 0]
  /\ UNCHANGED <<head, tail, status, hdr, body, old, seq, alive, consumer, history>>

CasCount(p) ==
  /\ pc[p] = "cas"
  /\ IF count = cnt[p]
       THEN count' = count + 1 /\ Goto(p, "loadTail")
       ELSE count' = count /\ Goto(p, "load")
  /\ cnt' = [cnt EXCEPT ![p] = 0]               \* the local is dead or reloaded
  /\ UNCHANGED <<head, tail, status, hdr, body, old, seq, alive, consumer, history>>

LoadTail(p) ==
  /\ pc[p] = "loadTail"
  /\ old' = [old EXCEPT ![p] = tail]
  /\ Goto(p, "casTail")
  /\ UNCHANGED <<shared, cnt, seq, alive, consumer, history>>

\* Mutants of CasTail: the index does not wrap; a store instead of the swap.
CasTail_NoWrap(p) ==
  /\ pc[p] = "casTail" /\ tail = old[p]
  /\ tail' = old[p] + 1 /\ Goto(p, "header")
  /\ claims' = Append(claims, Frame(p))
  /\ UNCHANGED <<head, count, status, hdr, body, cnt, old, seq, alive, consumer,
                 delivered, dropped>>
CasTail_Store(p) ==
  /\ pc[p] = "casTail"
  /\ tail' = Succ(old[p]) /\ Goto(p, "header")
  /\ claims' = Append(claims, Frame(p))
  /\ UNCHANGED <<head, count, status, hdr, body, cnt, old, seq, alive, consumer,
                 delivered, dropped>>

CasTail(p) ==
  /\ pc[p] = "casTail"
  /\ IF tail = old[p]
       THEN /\ tail' = Succ(old[p]) /\ Goto(p, "header")
            /\ claims' = Append(claims, Frame(p))
       ELSE /\ Goto(p, "loadTail")
            /\ UNCHANGED <<tail, claims>>
  /\ UNCHANGED <<head, count, status, hdr, body, cnt, old, seq, alive, consumer,
                 delivered, dropped>>

\* Mutant of WriteHeader: the slot is published with the header.
WriteHeader_Publishing(p) ==
  /\ pc[p] = "header"
  /\ hdr' = [hdr EXCEPT ![old[p]] = Frame(p)]
  /\ status' = [status EXCEPT ![old[p]] = FULL]
  /\ Goto(p, "payload")
  /\ UNCHANGED <<head, tail, count, body, cnt, old, seq, alive, consumer, history>>

WriteHeader(p) ==
  /\ pc[p] = "header"
  /\ hdr' = [hdr EXCEPT ![old[p]] = Frame(p)]
  /\ Goto(p, "payload")
  /\ UNCHANGED <<head, tail, count, status, body, cnt, old, seq, alive, consumer, history>>

WritePayload(p) ==
  /\ pc[p] = "payload"
  /\ body' = [body EXCEPT ![old[p]] = Frame(p)]
  /\ Goto(p, "publish")
  /\ UNCHANGED <<head, tail, count, status, hdr, cnt, old, seq, alive, consumer, history>>

\* Mutants of Publish: the push returns 0 for the frame it published, so that it
\* is pushed again; the status byte of the slot at tail, not of the claimed one.
Publish_Unreported(p) ==
  /\ pc[p] = "publish"
  /\ status' = [status EXCEPT ![old[p]] = FULL]
  /\ old' = [old EXCEPT ![p] = 0]
  /\ Goto(p, "full")
  /\ UNCHANGED <<head, tail, count, hdr, body, cnt, seq, alive, consumer, history>>
Publish_AtTail(p) ==
  /\ pc[p] = "publish"
  /\ status' = [status EXCEPT ![tail] = FULL]
  /\ seq' = [seq EXCEPT ![p] = @ + 1]
  /\ old' = [old EXCEPT ![p] = 0]
  /\ Goto(p, "idle")
  /\ UNCHANGED <<head, tail, count, hdr, body, cnt, alive, consumer, history>>

\* The release store of FULL; the push returns 1 and pushTotal counts it.
Publish(p) ==
  /\ pc[p] = "publish"
  /\ status' = [status EXCEPT ![old[p]] = FULL]
  /\ seq' = [seq EXCEPT ![p] = @ + 1]
  /\ old' = [old EXCEPT ![p] = 0]
  /\ Goto(p, "idle")
  /\ UNCHANGED <<head, tail, count, hdr, body, cnt, alive, consumer, history>>

\* "ring full" before the deadline: sleep pushRetryInterval and try again.
Retry(p) ==
  /\ pc[p] = "full"
  /\ Goto(p, "load")
  /\ UNCHANGED <<shared, cnt, old, seq, alive, consumer, history>>

\* "ring full" after pushTimeout: pushDropTimeout counts it, the episode is lost.
GiveUp(p) ==
  /\ pc[p] = "full"
  /\ dropped' = dropped \cup {Frame(p)}
  /\ seq' = [seq EXCEPT ![p] = @ + 1]
  /\ Goto(p, "idle")
  /\ UNCHANGED <<shared, cnt, old, alive, consumer, claims, delivered>>

(***************************************************************************)
(* shm_ring_pop                                                            *)
(***************************************************************************)
PopBegin ==
  /\ cpc = "idle" /\ count > 0
  /\ cpc' = "status"
  /\ UNCHANGED <<shared, local, alive, chdr, cbody, history>>

\* The head slot is claimed and not published yet: pop returns 0.
PopTransient ==
  /\ cpc = "status" /\ status[head] # FULL
  /\ cpc' = "idle"
  /\ UNCHANGED <<shared, local, alive, chdr, cbody, history>>

PopFull ==
  /\ cpc = "status" /\ status[head] = FULL
  /\ cpc' = "header"
  /\ UNCHANGED <<shared, local, alive, chdr, cbody, history>>

PopHeader ==
  /\ cpc = "header"
  /\ chdr' = hdr[head] /\ cpc' = "payload"
  /\ UNCHANGED <<shared, local, alive, cbody, history>>

PopPayload ==
  /\ cpc = "payload"
  /\ cbody' = body[head] /\ cpc' = "release"
  /\ UNCHANGED <<shared, local, alive, chdr, history>>

\* Mutant of PopRelease: the slot is left FULL.
PopRelease_KeepFull ==
  /\ cpc = "release"
  /\ cpc' = "advance" /\ chdr' = NoMsg /\ cbody' = NoMsg
  /\ claims' = Tail(claims)
  /\ delivered' = Append(delivered, <<chdr, cbody>>)
  /\ UNCHANGED <<shared, local, alive, dropped>>

PopRelease ==
  /\ cpc = "release"
  /\ status' = [status EXCEPT ![head] = EMPTY]
  /\ cpc' = "advance" /\ chdr' = NoMsg /\ cbody' = NoMsg
  /\ claims' = Tail(claims)
  /\ delivered' = Append(delivered, <<chdr, cbody>>)
  /\ UNCHANGED <<head, tail, count, hdr, body, local, alive, dropped>>

PopAdvance ==
  /\ cpc = "advance"
  /\ head' = Succ(head) /\ cpc' = "uncount"
  /\ UNCHANGED <<tail, count, status, hdr, body, local, alive, chdr, cbody, history>>

PopUncount ==
  /\ cpc = "uncount"
  /\ count' = count - 1 /\ cpc' = "idle"
  /\ UNCHANGED <<head, tail, status, hdr, body, local, alive, chdr, cbody, history>>

(***************************************************************************)
(* A producer's process is killed: it takes no further step.               *)
(***************************************************************************)
Crash(p) ==
  /\ p \in Crashable
  /\ alive' = alive \ {p}
  /\ UNCHANGED <<shared, local, consumer, history>>

ProducerStep(p) ==
  \/ Push(p) \/ LoadCount(p) \/ PushFull(p) \/ CasCount(p)
  \/ LoadTail(p) \/ CasTail(p) \/ WriteHeader(p) \/ WritePayload(p) \/ Publish(p) \/ Retry(p) \/ GiveUp(p)
  \/ Crash(p)

Pop ==
  \/ PopBegin \/ PopTransient \/ PopFull \/ PopHeader \/ PopPayload
  \/ PopRelease \/ PopAdvance \/ PopUncount

Next == Pop \/ \E p \in alive : ProducerStep(p)

Spec == Init /\ [][Next]_vars

\* Every thread that has started an operation is scheduled; nothing obliges an
\* actor to send a frame, to be killed, or to reach its deadline.
PushSteps(p) ==
  /\ p \in alive
  /\ \/ LoadCount(p) \/ PushFull(p) \/ CasCount(p) \/ LoadTail(p)
     \/ CasTail(p) \/ WriteHeader(p) \/ WritePayload(p) \/ Publish(p) \/ Retry(p)
FairSpec == Spec /\ WF_vars(Pop) /\ \A p \in Producers : WF_vars(PushSteps(p))

(***************************************************************************)
(* Properties                                                              *)
(***************************************************************************)
\* Producers that hold a reservation of count and have not claimed a slot.
Reserved == {p \in Producers : pc[p] \in {"loadTail", "casTail"}}
\* Producers that own a claimed slot and have not published it.
Writing  == {p \in Producers : pc[p] \in {"header", "payload", "publish"}}

\* The first claimed slot: head, or the next one once pop has released it.
First   == IF cpc = "advance" THEN Succ(head) ELSE head
SlotOf(k) == (First + k - 1) % Cap            \* the slot of claims[k]
Window  == {SlotOf(k) : k \in 1 .. Len(claims)}

\* Pops that released their slot and still have to give their count back.
Unpaid == IF cpc \in {"advance", "uncount"} THEN 1 ELSE 0

(* Every variable has its type: every index stays inside the ring.        *)
TypeOK ==
  /\ head \in Slots /\ tail \in Slots /\ count \in Int
  /\ status \in [Slots -> {EMPTY, FULL}]
  /\ hdr \in [Slots -> Msg \cup {NoMsg}] /\ body \in [Slots -> Msg \cup {NoMsg}]
  /\ pc \in [Producers -> ProducerPC] /\ cnt \in [Producers -> Int]
  /\ old \in [Producers -> Slots] /\ seq \in [Producers -> 0 .. MaxSeq]
  /\ alive \in SUBSET Producers
  /\ cpc \in ConsumerPC
  /\ chdr \in Msg \cup {NoMsg} /\ cbody \in Msg \cup {NoMsg}
  /\ claims \in Seq(Msg)
  /\ delivered \in Seq((Msg \cup {NoMsg}) \X (Msg \cup {NoMsg}))
  /\ dropped \in SUBSET Msg

(* count never exceeds the capacity: what the CAS on count was introduced  *)
(* for (shm_unix.c, "over-reservation impossible by construction"), even   *)
(* when producers die holding a reservation.                               *)
CountBounded == 0 <= count /\ count <= Cap

(* count is exactly the claimed slots, plus the reservations on their way  *)
(* to a slot, plus the pop that has released its slot and not decremented  *)
(* yet: no push or pop loses or invents a unit of capacity.                *)
CountAccounted == count = Len(claims) + Cardinality(Reserved) + Unpaid

(* A producer that writes a slot is its only owner: the slot is EMPTY, no  *)
(* other producer writes it, and the consumer is not reading it (the       *)
(* overwritten unconsumed slot of the "Win N=19 production deadlock").     *)
SlotExclusive ==
  \A p \in Writing :
    /\ status[old[p]] = EMPTY
    /\ \A q \in Writing \ {p} : old[q] # old[p]
    /\ cpc \in {"header", "payload", "release"} => head # old[p]

(* The status of a slot tells its place in the ring: the unpublished slots *)
(* of the claimed window are exactly those a producer (alive or dead) is   *)
(* writing, and no slot outside the window is FULL.  So a slot the         *)
(* consumer waits for always has an owner that can publish it.             *)
EmptyMeansOwned ==
  /\ \A i \in Window : status[i] = EMPTY => \E p \in Writing : old[p] = i
  /\ \A i \in Slots \ Window : status[i] = EMPTY

(* pop never returns a torn or stale slot: header and payload are those of *)
(* one frame.                                                              *)
NoTornDelivery ==
  \A k \in DOMAIN delivered : delivered[k][1] = delivered[k][2]

(* Each producer's frames come out in the order it pushed them, each at    *)
(* most once, however the producers interleave and the indexes wrap.       *)
PerProducerOrder ==
  \A j, k \in DOMAIN delivered :
    (j < k /\ delivered[j][1][1] = delivered[k][1][1])
      => delivered[j][1][2] < delivered[k][1][2]

(* Nothing is lost silently: a frame whose push returned is delivered, in  *)
(* the ring, or counted as dropped at the push deadline, and one of these  *)
(* only.                                                                   *)
Delivered == {delivered[k][1] : k \in DOMAIN delivered}
InRing    == {claims[k] : k \in DOMAIN claims}
Accounted ==
  /\ \A p \in Producers : \A n \in 1 .. seq[p] : <<p, n>> \in Delivered \cup InRing \cup dropped
  /\ Delivered \cap InRing = {}
  /\ dropped \cap (Delivered \cup InRing) = {}

(* Unless a producer dies, the consumer drains the ring: a claimed frame   *)
(* is followed by a delivery, so head-of-line waiting for an unpublished   *)
(* slot always ends.                                                       *)
Drains ==
  \A n \in 0 .. MaxSeq * Cardinality(Producers) :
    (Len(delivered) = n /\ claims # <<>>) ~> (Len(delivered) > n \/ alive # Producers)

(* The state in which pop returns 0 although count > 0, "transient         *)
(* state; consumer will retry next call" (shm_unix.c): it goes away.       *)
WaitingForPublish == count > 0 /\ status[head] # FULL
TransientEnds == WaitingForPublish ~> ~WaitingForPublish

(* The ring implements the bounded channel: place k of the channel is the  *)
(* k-th slot of the claimed window, ready once its status is FULL, and the *)
(* consumer receives when it releases the slot.                            *)
ChannelQueue ==
  [k \in 1 .. Len(claims) |-> [msg |-> claims[k], ready |-> status[SlotOf(k)] = FULL]]
Channel == INSTANCE MpscChannel WITH queue <- ChannelQueue, out <- delivered
ImplementsChannel == Channel!Spec
==============================================================================
