---------------------------- MODULE ShmRingProofs ----------------------------
(***************************************************************************)
(* The transition ring, for every set of producers, every capacity and any *)
(* number of frames and of crashes: its safety, the order of the frames    *)
(* and the account of every frame, that it implements the bounded channel  *)
(* of MpscChannel, and what the collector's look at it is worth.           *)
(***************************************************************************)
EXTENDS ShmRingProbe, FiniteSetTheorems, SequenceTheorems, TLAPS

(***************************************************************************)
(* Arithmetic of the indexes.                                              *)
(***************************************************************************)
LEMMA ModWrap ==
  \A a \in 0 .. 2 * Cap - 1 : a % Cap = IF a < Cap THEN a ELSE a - Cap
  BY RingAssumption

LEMMA SuccWrap ==
  \A i \in Slots : Succ(i) \in Slots /\ Succ(i) = IF i + 1 = Cap THEN 0 ELSE i + 1
<1> TAKE i \in Slots
<1>1. i + 1 \in 0 .. 2 * Cap - 1
  BY RingAssumption DEF Slots
<1> QED
  BY <1>1, ModWrap, RingAssumption DEF Slots, Succ

\* Position k steps after slot f.
Pos(f, k) == (f + k - 1) % Cap

LEMMA PosWrap ==
  ASSUME NEW f \in Slots, NEW k \in 1 .. Cap
  PROVE  /\ Pos(f, k) = IF f + k - 1 < Cap THEN f + k - 1 ELSE f + k - 1 - Cap
         /\ Pos(f, k) \in Slots
<1> DEFINE a == f + k - 1
<1>1. a \in 0 .. 2 * Cap - 1
  BY RingAssumption DEF Slots
<1>2. a % Cap = IF a < Cap THEN a ELSE a - Cap
  BY <1>1, ModWrap
<1>3. Pos(f, k) = IF a < Cap THEN a ELSE a - Cap
  BY <1>2 DEF Pos
<1> QED
  BY <1>1, <1>3, RingAssumption DEF Slots

LEMMA PosInjective ==
  ASSUME NEW f \in Slots, NEW j \in 1 .. Cap, NEW k \in 1 .. Cap, Pos(f, j) = Pos(f, k)
  PROVE  j = k
<1>1. Pos(f, j) = IF f + j - 1 < Cap THEN f + j - 1 ELSE f + j - 1 - Cap
  BY PosWrap
<1>2. Pos(f, k) = IF f + k - 1 < Cap THEN f + k - 1 ELSE f + k - 1 - Cap
  BY PosWrap
<1>3. (IF f + j - 1 < Cap THEN f + j - 1 ELSE f + j - 1 - Cap)
        = (IF f + k - 1 < Cap THEN f + k - 1 ELSE f + k - 1 - Cap)
  BY <1>1, <1>2
<1> QED
  BY <1>3, RingAssumption DEF Slots

\* The first position is the slot itself, and so is the one after a whole turn.
LEMMA PosFirst ==
  ASSUME NEW f \in Slots
  PROVE  Pos(f, 1) = f /\ Pos(f, Cap + 1) = f
<1>1. f \in 0 .. 2 * Cap - 1 /\ f + Cap \in 0 .. 2 * Cap - 1
  BY RingAssumption DEF Slots
<1>2. f % Cap = f /\ (f + Cap) % Cap = f
  BY <1>1, ModWrap, RingAssumption DEF Slots
<1>3. f + 1 - 1 = f /\ f + (Cap + 1) - 1 = f + Cap
  BY RingAssumption DEF Slots
<1> QED
  BY <1>2, <1>3 DEF Pos

\* Stepping the first slot is stepping every position.
LEMMA PosStep ==
  ASSUME NEW f \in Slots, NEW k \in 1 .. Cap
  PROVE  Pos(Succ(f), k) = Pos(f, k + 1)
<1>1. Succ(f) \in Slots /\ Succ(f) = IF f + 1 = Cap THEN 0 ELSE f + 1
  BY SuccWrap
<1>2. Pos(Succ(f), k) = IF Succ(f) + k - 1 < Cap THEN Succ(f) + k - 1 ELSE Succ(f) + k - 1 - Cap
  BY <1>1, PosWrap
<1>3. CASE k < Cap
  <2>1. k + 1 \in 1 .. Cap
    BY <1>3, RingAssumption
  <2>2. Pos(f, k + 1) = IF f + (k + 1) - 1 < Cap THEN f + (k + 1) - 1 ELSE f + (k + 1) - 1 - Cap
    BY <2>1, PosWrap
  <2> QED
    BY <1>1, <1>2, <2>2, RingAssumption DEF Slots
<1>4. CASE k = Cap
  BY <1>1, <1>2, <1>4, PosFirst, RingAssumption DEF Slots
<1> QED
  BY <1>3, <1>4, RingAssumption

\* The position after a position is its successor.
LEMMA PosNext ==
  ASSUME NEW f \in Slots, NEW n \in 0 .. Cap - 1
  PROVE  Pos(f, n + 2) = Succ(Pos(f, n + 1))
<1>1. n + 1 \in 1 .. Cap
  BY RingAssumption
<1>2. /\ Pos(f, n + 1) = IF f + (n + 1) - 1 < Cap THEN f + (n + 1) - 1 ELSE f + (n + 1) - 1 - Cap
      /\ Pos(f, n + 1) \in Slots
  BY <1>1, PosWrap
<1>3. Succ(Pos(f, n + 1)) = IF Pos(f, n + 1) + 1 = Cap THEN 0 ELSE Pos(f, n + 1) + 1
  BY <1>2, SuccWrap
<1>4. CASE n + 2 <= Cap
  <2>1. n + 2 \in 1 .. Cap
    BY <1>4, RingAssumption
  <2>2. Pos(f, n + 2) = IF f + (n + 2) - 1 < Cap THEN f + (n + 2) - 1 ELSE f + (n + 2) - 1 - Cap
    BY <2>1, PosWrap
  <2> QED
    BY <2>2, <1>2, <1>3, RingAssumption DEF Slots
<1>5. CASE n + 2 = Cap + 1
  <2>1. Pos(f, n + 2) = f
    BY <1>5, PosFirst
  <2> QED
    BY <2>1, <1>5, <1>2, <1>3, RingAssumption DEF Slots
<1> QED
  BY <1>4, <1>5, RingAssumption

(***************************************************************************)
(* The inductive invariant.                                                *)
(***************************************************************************)
\* What a producer knows between its steps.
LocalInv ==
  /\ \A p \in Producers : pc[p] # "idle" => seq[p] < MaxSeq
  /\ \A p \in Producers : pc[p] = "cas" => cnt[p] < Cap

CountInv == CountAccounted /\ count <= Cap

\* The claimed window runs from First to tail.
TailInv == tail = Pos(First, Len(claims) + 1)

\* A writer's slot is the place of its own frame in the window, unpublished.
Place(p, k) == old[p] = Pos(First, k) /\ claims[k] = Frame(p)
WriterInv ==
  \A p \in Writing :
    /\ status[old[p]] = EMPTY
    /\ \E k \in DOMAIN claims : Place(p, k)
    /\ pc[p] \in {"payload", "publish"} => hdr[old[p]] = Frame(p)
    /\ pc[p] = "publish" => body[old[p]] = Frame(p)
OneWriter == \A p, q \in Writing : old[p] = old[q] => p = q

\* A claimed slot is published and holds its frame, or has a writer.
FullInv ==
  \A k \in DOMAIN claims :
    LET i == Pos(First, k)
    IN  \/ status[i] = FULL /\ hdr[i] = claims[k] /\ body[i] = claims[k]
        \/ status[i] = EMPTY /\ \E p \in Writing : old[p] = i

OutsideInv ==
  \A i \in Slots : (\A k \in DOMAIN claims : i # Pos(First, k)) => status[i] = EMPTY

\* The consumer reads the first claimed slot, and only once it is published.
ConsumerInv ==
  /\ cpc \in {"header", "payload", "release"} => claims # <<>> /\ status[head] = FULL
  /\ cpc \in {"payload", "release"} => chdr = claims[1]
  /\ cpc = "release" => cbody = claims[1]

RingInv == TailInv /\ WriterInv /\ OneWriter /\ FullInv /\ OutsideInv

IInv == TypeOK /\ LocalInv /\ CountInv /\ RingInv /\ ConsumerInv

(***************************************************************************)
(* Every step keeps the types and what the producers know.                 *)
(***************************************************************************)
LEMMA FrameType ==
  ASSUME TypeOK, LocalInv, NEW p \in Producers, pc[p] # "idle"
  PROVE  Frame(p) \in Msg /\ seq[p] + 1 \in 0 .. MaxSeq
<1>1. seq[p] \in 0 .. MaxSeq /\ seq[p] < MaxSeq
  BY DEF TypeOK, LocalInv
<1> QED
  BY <1>1, RingAssumption DEF Frame, Msg

LEMMA TypeStep ==
  ASSUME TypeOK, LocalInv, ConsumerInv, [Next]_vars
  PROVE  TypeOK' /\ LocalInv'
<1> USE DEF TypeOK, LocalInv, shared, local, consumer, history, ProducerPC, ConsumerPC, Goto
<1> USE RingAssumption
<1>1. ASSUME NEW p \in alive, Push(p) PROVE TypeOK' /\ LocalInv'
  BY <1>1 DEF Push
<1>2. ASSUME NEW p \in alive, LoadCount(p) PROVE TypeOK' /\ LocalInv'
  BY <1>2 DEF LoadCount
<1>3. ASSUME NEW p \in alive, PushFull(p) PROVE TypeOK' /\ LocalInv'
  BY <1>3 DEF PushFull
<1>4. ASSUME NEW p \in alive, CasCount(p) PROVE TypeOK' /\ LocalInv'
  <2>1. /\ cnt' = [cnt EXCEPT ![p] = 0] /\ count' \in Int
        /\ pc' = [pc EXCEPT ![p] = "loadTail"] \/ pc' = [pc EXCEPT ![p] = "load"]
    BY <1>4 DEF CasCount
  <2>2. pc[p] = "cas" /\ UNCHANGED <<head, tail, status, hdr, body, old, seq, alive, consumer, history>>
    BY <1>4 DEF CasCount
  <2>3. CASE pc' = [pc EXCEPT ![p] = "loadTail"]
    BY <2>1, <2>2, <2>3
  <2>4. CASE pc' = [pc EXCEPT ![p] = "load"]
    BY <2>1, <2>2, <2>4
  <2> QED
    BY <2>1, <2>3, <2>4
<1>5. ASSUME NEW p \in alive, LoadTail(p) PROVE TypeOK' /\ LocalInv'
  BY <1>5 DEF LoadTail
<1>6. ASSUME NEW p \in alive, CasTail(p) PROVE TypeOK' /\ LocalInv'
  <2>1. Frame(p) \in Msg /\ Succ(old[p]) \in Slots
    BY <1>6, FrameType, SuccWrap DEF CasTail
  <2>2. Append(claims, Frame(p)) \in Seq(Msg)
    BY <2>1
  <2> QED
    BY <1>6, <2>1, <2>2 DEF CasTail
<1>7. ASSUME NEW p \in alive, WriteHeader(p) PROVE TypeOK' /\ LocalInv'
  BY <1>7, FrameType DEF WriteHeader
<1>8. ASSUME NEW p \in alive, WritePayload(p) PROVE TypeOK' /\ LocalInv'
  BY <1>8, FrameType DEF WritePayload
<1>9. ASSUME NEW p \in alive, Publish(p) PROVE TypeOK' /\ LocalInv'
  <2>1. Frame(p) \in Msg /\ seq[p] + 1 \in 0 .. MaxSeq
    BY <1>9, FrameType DEF Publish
  <2> QED
    BY <1>9, <2>1 DEF Publish, Slots
<1>10. ASSUME NEW p \in alive, Retry(p) PROVE TypeOK' /\ LocalInv'
  BY <1>10 DEF Retry
<1>11. ASSUME NEW p \in alive, GiveUp(p) PROVE TypeOK' /\ LocalInv'
  <2>1. Frame(p) \in Msg /\ seq[p] + 1 \in 0 .. MaxSeq
    BY <1>11, FrameType DEF GiveUp
  <2> QED
    BY <1>11, <2>1 DEF GiveUp, Slots
<1>12. ASSUME NEW p \in alive, Crash(p) PROVE TypeOK' /\ LocalInv'
  BY <1>12 DEF Crash
<1>13. CASE PopBegin
  BY <1>13 DEF PopBegin
<1>14. CASE PopTransient
  BY <1>14 DEF PopTransient
<1>15. CASE PopFull
  BY <1>15 DEF PopFull
<1>16. CASE PopHeader
  BY <1>16 DEF PopHeader
<1>17. CASE PopPayload
  BY <1>17 DEF PopPayload
<1>18. CASE PopRelease
  <2>1. Tail(claims) \in Seq(Msg)
    BY <1>18 DEF PopRelease, ConsumerInv
  <2>2. Append(delivered, <<chdr, cbody>>) \in Seq((Msg \cup {NoMsg}) \X (Msg \cup {NoMsg}))
    OBVIOUS
  <2> QED
    BY <1>18, <2>1, <2>2 DEF PopRelease
<1>19. CASE PopAdvance
  BY <1>19, SuccWrap DEF PopAdvance
<1>20. CASE PopUncount
  BY <1>20 DEF PopUncount
<1>21. CASE UNCHANGED vars
  BY <1>21 DEF vars
<1> QED
  BY <1>1, <1>2, <1>3, <1>4, <1>5, <1>6, <1>7, <1>8, <1>9, <1>10, <1>11, <1>12, <1>13, <1>14, <1>15, <1>16, <1>17, <1>18, <1>19, <1>20, <1>21 DEF Next, Pop, ProducerStep

(***************************************************************************)
(* Every step keeps the account of count.                                  *)
(***************************************************************************)
LEMMA ReservedFinite == IsFiniteSet(Reserved) /\ Cardinality(Reserved) \in Nat
<1>1. Reserved \subseteq Producers
  BY DEF Reserved
<1> QED
  BY <1>1, RingAssumption, FS_Subset, FS_CardinalityType

\* With a reservation or a pop still to be paid, the window is not full.
LEMMA Room ==
  ASSUME TypeOK, CountInv, NEW p \in Producers, pc[p] \in {"loadTail", "casTail"}
  PROVE  Len(claims) \in 0 .. Cap - 1
<1>1. p \in Reserved
  BY DEF Reserved
<1>2. Cardinality(Reserved) # 0
  BY <1>1, ReservedFinite, FS_EmptySet
<1>3. Unpaid \in {0, 1} /\ Len(claims) \in Nat
  BY DEF Unpaid, TypeOK
<1> QED
  BY <1>2, <1>3, ReservedFinite, RingAssumption DEF CountInv, CountAccounted, TypeOK

LEMMA CountStep ==
  ASSUME TypeOK, LocalInv, CountInv, ConsumerInv, [Next]_vars
  PROVE  CountInv'
<1> USE DEF TypeOK, shared, local, consumer, history, Goto
<1>0. /\ IsFiniteSet(Reserved) /\ Cardinality(Reserved) \in Nat
      /\ Len(claims) \in Nat /\ Cap \in Nat
  BY ReservedFinite, RingAssumption
<1>1. ASSUME NEW p \in alive, CasCount(p) PROVE CountInv'
  <2>1. CASE count = cnt[p]
    <3>1. pc[p] = "cas" /\ pc' = [pc EXCEPT ![p] = "loadTail"]
      BY <1>1, <2>1 DEF CasCount
    <3>2. p \notin Reserved /\ Reserved' = Reserved \cup {p}
      BY <3>1 DEF Reserved
    <3>3. Cardinality(Reserved') = Cardinality(Reserved) + 1
      BY <1>0, <3>2, FS_AddElement
    <3>4. count' = count + 1 /\ count < Cap /\ UNCHANGED <<claims, cpc>>
      BY <1>1, <2>1, <3>1 DEF CasCount, LocalInv
    <3> QED
      BY <1>0, <3>3, <3>4, SMTT(30) DEF CountInv, CountAccounted, Unpaid
  <2>2. CASE count # cnt[p]
    <3>1. pc[p] = "cas" /\ pc' = [pc EXCEPT ![p] = "load"] /\ UNCHANGED <<count, claims, cpc>>
      BY <1>1, <2>2 DEF CasCount
    <3>2. Reserved' = Reserved
      BY <3>1 DEF Reserved
    <3> QED
      BY <3>1, <3>2 DEF CountInv, CountAccounted, Unpaid
  <2> QED
    BY <2>1, <2>2
<1>2. ASSUME NEW p \in alive, CasTail(p) PROVE CountInv'
  <2>1. CASE tail = old[p]
    <3>1. pc[p] = "casTail" /\ pc' = [pc EXCEPT ![p] = "header"]
      BY <1>2, <2>1 DEF CasTail
    <3>2. p \in Reserved /\ Reserved' = Reserved \ {p}
      BY <3>1 DEF Reserved
    <3>3. Cardinality(Reserved') = Cardinality(Reserved) - 1
      BY <1>0, <3>2, FS_RemoveElement
    <3>4. claims' = Append(claims, Frame(p)) /\ UNCHANGED <<count, cpc>>
      BY <1>2, <2>1 DEF CasTail
    <3>5. Len(claims') = Len(claims) + 1
      BY <3>4
    <3> QED
      BY <1>0, <3>3, <3>4, <3>5 DEF CountInv, CountAccounted, Unpaid
  <2>2. CASE tail # old[p]
    <3>1. pc[p] = "casTail" /\ pc' = [pc EXCEPT ![p] = "loadTail"] /\ UNCHANGED <<count, claims, cpc>>
      BY <1>2, <2>2 DEF CasTail
    <3>2. Reserved' = Reserved
      BY <3>1 DEF Reserved
    <3> QED
      BY <3>1, <3>2 DEF CountInv, CountAccounted, Unpaid
  <2> QED
    BY <2>1, <2>2
<1>3. ASSUME NEW p \in alive, ProducerStep(p), ~CasCount(p), ~CasTail(p) PROVE CountInv'
  <2>1. UNCHANGED <<count, claims, cpc>>
    BY <1>3 DEF ProducerStep, Push, LoadCount, PushFull, LoadTail, WriteHeader, WritePayload,
                Publish, Retry, GiveUp, Crash
  <2>2. Reserved' = Reserved
    BY <1>3 DEF Reserved, ProducerStep, Push, LoadCount, PushFull, LoadTail, WriteHeader,
                WritePayload, Publish, Retry, GiveUp, Crash
  <2> QED
    BY <2>1, <2>2 DEF CountInv, CountAccounted, Unpaid
<1>4. ASSUME Pop PROVE CountInv'
  <2>1. Reserved' = Reserved
    BY <1>4 DEF Pop, PopBegin, PopTransient, PopFull, PopHeader, PopPayload, PopRelease,
                PopAdvance, PopUncount, Reserved
  <2>2. CASE PopRelease
    <3>1. Len(claims') = Len(claims) - 1 /\ count' = count
      BY <2>2 DEF PopRelease, ConsumerInv
    <3>2. Unpaid = 0 /\ Unpaid' = 1
      BY <2>2 DEF PopRelease, Unpaid
    <3> QED
      BY <1>0, <2>1, <3>1, <3>2 DEF CountInv, CountAccounted
  <2>3. CASE PopUncount
    <3>1. claims' = claims /\ count' = count - 1 /\ Unpaid = 1 /\ Unpaid' = 0
      BY <2>3 DEF PopUncount, Unpaid
    <3> QED
      BY <1>0, <2>1, <3>1 DEF CountInv, CountAccounted
  <2>4. CASE ~PopRelease /\ ~PopUncount
    <3>1. claims' = claims /\ count' = count /\ Unpaid' = Unpaid
      BY <1>4, <2>4 DEF Pop, PopBegin, PopTransient, PopFull, PopHeader, PopPayload,
                        PopAdvance, Unpaid
    <3> QED
      BY <2>1, <3>1 DEF CountInv, CountAccounted
  <2> QED
    BY <2>2, <2>3, <2>4
<1>5. CASE UNCHANGED vars
  BY <1>5 DEF vars, CountInv, CountAccounted, Reserved, Unpaid
<1> QED
  BY <1>1, <1>2, <1>3, <1>4, <1>5 DEF Next

(***************************************************************************)
(* Every step keeps the ring: the claimed window and its slots.            *)
(***************************************************************************)
LEMMA WindowSize ==
  ASSUME TypeOK, CountInv
  PROVE  /\ First \in Slots
         /\ Len(claims) \in 0 .. Cap
         /\ DOMAIN claims = 1 .. Len(claims)
<1>1. Unpaid \in {0, 1} /\ Len(claims) \in Nat
  BY DEF Unpaid, TypeOK
<1>2. Len(claims) \in 0 .. Cap
  BY <1>1, ReservedFinite, RingAssumption DEF CountInv, CountAccounted, TypeOK
<1>3. First \in Slots
  BY SuccWrap DEF First, TypeOK
<1> QED
  BY <1>2, <1>3 DEF TypeOK

LEMMA PlaceSlot ==
  ASSUME TypeOK, CountInv, NEW k \in DOMAIN claims
  PROVE  k \in 1 .. Cap /\ Pos(First, k) \in Slots
<1>1. k \in 1 .. Cap
  BY WindowSize, RingAssumption
<1> QED
  BY <1>1, WindowSize, PosWrap

\* Two places of the window are the same slot only if they are the same place.
LEMMA OnePlace ==
  ASSUME TypeOK, CountInv, NEW j \in DOMAIN claims, NEW k \in DOMAIN claims,
         Pos(First, j) = Pos(First, k)
  PROVE  j = k
<1>1. j \in 1 .. Cap /\ k \in 1 .. Cap
  BY WindowSize, RingAssumption
<1>2. Pos(First, j) = Pos(First, k)
  OBVIOUS
<1> QED
  BY <1>1, <1>2, WindowSize, PosInjective

\* A step that leaves the slots, the window and the writers alone.
LEMMA RingQuiet ==
  ASSUME RingInv, First' = First, UNCHANGED <<tail, status, hdr, body, claims>>,
         Writing' = Writing,
         \A p \in Writing : old'[p] = old[p] /\ pc'[p] = pc[p] /\ seq'[p] = seq[p]
  PROVE  RingInv'
<1>1. \A p \in Writing : Frame(p)' = Frame(p)
  BY DEF Frame
<1>2. TailInv' /\ OneWriter' /\ OutsideInv' /\ FullInv'
  BY DEF RingInv, TailInv, OneWriter, OutsideInv, FullInv
<1>3. WriterInv'
  BY <1>1 DEF RingInv, WriterInv, Place
<1> QED
  BY <1>2, <1>3 DEF RingInv

LEMMA RingCasTail ==
  ASSUME TypeOK, LocalInv, CountInv, RingInv, NEW p \in Producers, CasTail(p)
  PROVE  RingInv'
<1>1. CASE tail = old[p]
  <2> DEFINE f == First
  <2>0. PICK n \in 0 .. Cap - 1 : n = Len(claims)
    BY Room DEF CasTail
  <2>1. /\ f \in Slots /\ n \in 0 .. Cap - 1 /\ DOMAIN claims = 1 .. n
        /\ n + 1 \in 1 .. Cap /\ Cap \in Nat
    BY <2>0, WindowSize, RingAssumption
  <2>2. /\ claims' = Append(claims, Frame(p)) /\ pc[p] = "casTail"
        /\ pc' = [pc EXCEPT ![p] = "header"] /\ tail' = Succ(old[p])
        /\ UNCHANGED <<head, status, hdr, body, old, seq, cpc>>
    BY <1>1 DEF CasTail, Goto, consumer
  <2>3. /\ DOMAIN claims' = 1 .. n + 1 /\ Len(claims') = n + 1
        /\ \A k \in 1 .. n : claims'[k] = claims[k]
        /\ claims'[n + 1] = Frame(p)
    BY <2>0, <2>1, <2>2 DEF TypeOK
  <2>4. Writing' = Writing \cup {p} /\ p \notin Writing
    BY <2>2 DEF Writing, TypeOK
  <2>5. f' = f /\ \A q \in Producers : Frame(q)' = Frame(q)
    BY <2>2 DEF First, Frame
  <2>6. old[p] = Pos(f, n + 1) /\ old[p] \in Slots
    BY <1>1, <2>0 DEF RingInv, TailInv, TypeOK
  <2>7. \A k \in 1 .. n : Pos(f, k) # old[p]
    <3>1. TAKE k \in 1 .. n
    <3>2. k \in 1 .. Cap /\ k # n + 1
      BY <2>1
    <3> QED
      BY <2>1, <2>6, <3>2, PosInjective
  <2>8. status[old[p]] = EMPTY
    BY <2>1, <2>6, <2>7 DEF RingInv, OutsideInv
  <2>9. TailInv'
    <3>1. tail' = Pos(f, n + 2)
      BY <2>1, <2>2, <2>6, PosNext
    <3>2. n + 2 = Len(claims') + 1
      BY <2>1, <2>3
    <3> QED
      BY <2>5, <3>1, <3>2 DEF TailInv
  <2>10. ASSUME NEW q \in Writing
         PROVE  \E k \in 1 .. n : Place(q, k)
    BY <2>1, <2>10 DEF RingInv, WriterInv
  <2>11. WriterInv'
    <3>1. ASSUME NEW q \in Writing'
          PROVE  /\ status'[old'[q]] = EMPTY
                 /\ \E k \in DOMAIN claims' : Place(q, k)'
                 /\ pc'[q] \in {"payload", "publish"} => hdr'[old'[q]] = Frame(q)'
                 /\ pc'[q] = "publish" => body'[old'[q]] = Frame(q)'
      <4>1. CASE q = p
        <5>1. Place(p, n + 1)'
          BY <2>2, <2>3, <2>5, <2>6 DEF Place
        <5>2. pc'[p] = "header" /\ status'[old'[p]] = EMPTY
          BY <2>2, <2>8 DEF TypeOK
        <5>3. n + 1 \in DOMAIN claims'
          BY <2>1, <2>3
        <5>4. \E k \in DOMAIN claims' : Place(p, k)'
          BY <5>1, <5>3
        <5> QED
          BY <4>1, <5>2, <5>4
      <4>2. CASE q # p
        <5>1. q \in Writing /\ q \in Producers
          BY <2>4, <3>1, <4>2 DEF Writing
        <5>2. PICK k \in 1 .. n : Place(q, k)
          BY <5>1, <2>10
        <5>3. k \in DOMAIN claims' /\ Place(q, k)'
          BY <2>1, <2>2, <2>3, <2>5, <5>1, <5>2 DEF Place
        <5>4. pc'[q] = pc[q]
          BY <2>2, <4>2, <5>1 DEF TypeOK
        <5> QED
          BY <2>2, <2>5, <5>1, <5>3, <5>4 DEF RingInv, WriterInv
      <4> QED
        BY <4>1, <4>2
    <3> QED
      BY <3>1 DEF WriterInv
  <2>12. OneWriter'
    <3>1. ASSUME NEW q \in Writing PROVE old[q] # old[p]
      BY <3>1, <2>7, <2>10 DEF Place
    <3> QED
      BY <2>2, <2>4, <3>1 DEF OneWriter, RingInv
  <2>13. FullInv'
    <3>1. ASSUME NEW k \in DOMAIN claims'
          PROVE  LET i == Pos(f, k)
                 IN  \/ status[i] = FULL /\ hdr[i] = claims'[k] /\ body[i] = claims'[k]
                     \/ status[i] = EMPTY /\ \E q \in Writing' : old[q] = i
      <4>1. CASE k = n + 1
        BY <2>4, <2>6, <2>8, <4>1
      <4>2. CASE k \in 1 .. n
        BY <2>1, <2>3, <2>4, <4>2 DEF RingInv, FullInv
      <4> QED
        BY <2>1, <2>3, <4>1, <4>2
    <3> QED
      BY <3>1, <2>2, <2>5 DEF FullInv
  <2>14. OutsideInv'
    BY <2>1, <2>2, <2>3, <2>5 DEF RingInv, OutsideInv
  <2> QED
    BY <2>9, <2>11, <2>12, <2>13, <2>14 DEF RingInv
<1>2. CASE tail # old[p]
  <2>1. /\ pc[p] = "casTail" /\ pc' = [pc EXCEPT ![p] = "loadTail"]
        /\ UNCHANGED <<head, tail, status, hdr, body, claims, old, seq, cpc>>
    BY <1>2 DEF CasTail, Goto, consumer
  <2>2. Writing' = Writing /\ p \notin Writing /\ First' = First
    BY <2>1 DEF Writing, TypeOK, First
  <2>3. \A q \in Writing : pc'[q] = pc[q]
    BY <2>1, <2>2 DEF TypeOK, Writing
  <2> QED
    BY <2>1, <2>2, <2>3, RingQuiet
<1> QED
  BY <1>1, <1>2

LEMMA RingWriteHeader ==
  ASSUME TypeOK, CountInv, RingInv, NEW p \in Producers, WriteHeader(p)
  PROVE  RingInv'
<1>1. /\ hdr' = [hdr EXCEPT ![old[p]] = Frame(p)] /\ pc[p] = "header"
      /\ pc' = [pc EXCEPT ![p] = "payload"]
      /\ UNCHANGED <<head, tail, status, body, claims, old, seq, cpc>>
  BY DEF WriteHeader, Goto, consumer, history
<1>2. Writing' = Writing /\ p \in Writing /\ old[p] \in Slots
  BY <1>1 DEF Writing, TypeOK
<1>3. First' = First /\ \A q \in Producers : Frame(q)' = Frame(q)
  BY <1>1 DEF First, Frame
<1>4. status[old[p]] = EMPTY
  BY <1>2 DEF RingInv, WriterInv
<1>5. TailInv' /\ OneWriter' /\ OutsideInv'
  BY <1>1, <1>2, <1>3 DEF RingInv, TailInv, OneWriter, OutsideInv
<1>6. FullInv'
  <2>1. ASSUME NEW i \in Slots, status[i] = FULL PROVE hdr'[i] = hdr[i]
    BY <1>1, <1>4, <2>1 DEF TypeOK, EMPTY, FULL
  <2>2. \A k \in DOMAIN claims : Pos(First, k) \in Slots
    BY PlaceSlot
  <2> QED
    BY <1>1, <1>2, <1>3, <2>1, <2>2 DEF RingInv, FullInv
<1>7. WriterInv'
  <2>1. ASSUME NEW q \in Writing
        PROVE  /\ status'[old'[q]] = EMPTY
               /\ \E k \in DOMAIN claims' : Place(q, k)'
               /\ pc'[q] \in {"payload", "publish"} => hdr'[old'[q]] = Frame(q)'
               /\ pc'[q] = "publish" => body'[old'[q]] = Frame(q)'
    <3>1. status'[old'[q]] = EMPTY /\ \E k \in DOMAIN claims' : Place(q, k)'
      BY <1>1, <1>3 DEF RingInv, WriterInv, Place, Writing
    <3>2. CASE q = p
      BY <1>1, <1>2, <1>3, <3>1, <3>2 DEF TypeOK
    <3>3. CASE q # p
      <4>1. old[q] # old[p] /\ old[q] \in Slots /\ q \in Producers
        BY <1>2, <3>3 DEF RingInv, OneWriter, TypeOK, Writing
      <4>2. hdr'[old[q]] = hdr[old[q]] /\ pc'[q] = pc[q]
        BY <1>1, <3>3, <4>1 DEF TypeOK
      <4> QED
        BY <1>1, <1>3, <3>1, <4>1, <4>2 DEF RingInv, WriterInv
    <3> QED
      BY <3>2, <3>3
  <2> QED
    BY <1>2, <2>1 DEF WriterInv
<1> QED
  BY <1>5, <1>6, <1>7 DEF RingInv

LEMMA RingWritePayload ==
  ASSUME TypeOK, CountInv, RingInv, NEW p \in Producers, WritePayload(p)
  PROVE  RingInv'
<1>1. /\ body' = [body EXCEPT ![old[p]] = Frame(p)] /\ pc[p] = "payload"
      /\ pc' = [pc EXCEPT ![p] = "publish"]
      /\ UNCHANGED <<head, tail, status, hdr, claims, old, seq, cpc>>
  BY DEF WritePayload, Goto, consumer, history
<1>2. Writing' = Writing /\ p \in Writing /\ old[p] \in Slots
  BY <1>1 DEF Writing, TypeOK
<1>3. First' = First /\ \A q \in Producers : Frame(q)' = Frame(q)
  BY <1>1 DEF First, Frame
<1>4. status[old[p]] = EMPTY
  BY <1>2 DEF RingInv, WriterInv
<1>5. TailInv' /\ OneWriter' /\ OutsideInv'
  BY <1>1, <1>2, <1>3 DEF RingInv, TailInv, OneWriter, OutsideInv
<1>6. FullInv'
  <2>1. ASSUME NEW i \in Slots, status[i] = FULL PROVE body'[i] = body[i]
    BY <1>1, <1>4, <2>1 DEF TypeOK, EMPTY, FULL
  <2>2. \A k \in DOMAIN claims : Pos(First, k) \in Slots
    BY PlaceSlot
  <2> QED
    BY <1>1, <1>2, <1>3, <2>1, <2>2 DEF RingInv, FullInv
<1>7. WriterInv'
  <2>1. ASSUME NEW q \in Writing
        PROVE  /\ status'[old'[q]] = EMPTY
               /\ \E k \in DOMAIN claims' : Place(q, k)'
               /\ pc'[q] \in {"payload", "publish"} => hdr'[old'[q]] = Frame(q)'
               /\ pc'[q] = "publish" => body'[old'[q]] = Frame(q)'
    <3>1. status'[old'[q]] = EMPTY /\ \E k \in DOMAIN claims' : Place(q, k)'
      BY <1>1, <1>3 DEF RingInv, WriterInv, Place, Writing
    <3>2. CASE q = p
      <4>1. hdr[old[p]] = Frame(p)
        BY <1>1, <1>2 DEF RingInv, WriterInv
      <4> QED
        BY <1>1, <1>2, <1>3, <3>1, <3>2, <4>1 DEF TypeOK
    <3>3. CASE q # p
      <4>1. old[q] # old[p] /\ old[q] \in Slots /\ q \in Producers
        BY <1>2, <3>3 DEF RingInv, OneWriter, TypeOK, Writing
      <4>2. body'[old[q]] = body[old[q]] /\ pc'[q] = pc[q]
        BY <1>1, <3>3, <4>1 DEF TypeOK
      <4> QED
        BY <1>1, <1>3, <3>1, <4>1, <4>2 DEF RingInv, WriterInv
    <3> QED
      BY <3>2, <3>3
  <2> QED
    BY <1>2, <2>1 DEF WriterInv
<1> QED
  BY <1>5, <1>6, <1>7 DEF RingInv

LEMMA RingPublish ==
  ASSUME TypeOK, CountInv, RingInv, NEW p \in Producers, Publish(p)
  PROVE  RingInv'
<1>1. /\ status' = [status EXCEPT ![old[p]] = FULL] /\ pc[p] = "publish"
      /\ pc' = [pc EXCEPT ![p] = "idle"] /\ old' = [old EXCEPT ![p] = 0]
      /\ seq' = [seq EXCEPT ![p] = @ + 1]
      /\ UNCHANGED <<head, tail, hdr, body, claims, cpc>>
  BY DEF Publish, Goto, consumer, history
<1>2. Writing' = Writing \ {p} /\ p \in Writing /\ old[p] \in Slots
  BY <1>1 DEF Writing, TypeOK
<1>3. First' = First
  BY <1>1 DEF First
<1>4. ASSUME NEW q \in Writing \ {p}
      PROVE  /\ old'[q] = old[q] /\ pc'[q] = pc[q] /\ Frame(q)' = Frame(q)
             /\ old[q] # old[p] /\ old[q] \in Slots
  <2>1. q \in Producers
    BY DEF Writing
  <2> QED
    BY <1>1, <1>2, <2>1 DEF TypeOK, Frame, RingInv, OneWriter
<1>5. TailInv'
  BY <1>1, <1>3 DEF RingInv, TailInv
<1>6. OneWriter'
  BY <1>2, <1>4 DEF RingInv, OneWriter
<1>7. PICK k \in DOMAIN claims : Place(p, k)
  BY <1>2 DEF RingInv, WriterInv
<1>8. OutsideInv'
  BY <1>1, <1>2, <1>3, <1>7 DEF RingInv, OutsideInv, Place, TypeOK
<1>9. WriterInv'
  <2>1. ASSUME NEW q \in Writing \ {p}
        PROVE  /\ status'[old'[q]] = EMPTY
               /\ \E j \in DOMAIN claims' : Place(q, j)'
               /\ pc'[q] \in {"payload", "publish"} => hdr'[old'[q]] = Frame(q)'
               /\ pc'[q] = "publish" => body'[old'[q]] = Frame(q)'
    <3>1. status'[old[q]] = status[old[q]]
      BY <1>1, <1>2, <1>4 DEF TypeOK
    <3>2. \E j \in DOMAIN claims' : Place(q, j)'
      BY <1>1, <1>3, <1>4 DEF RingInv, WriterInv, Place
    <3> QED
      BY <1>1, <1>4, <3>1, <3>2 DEF RingInv, WriterInv
  <2> QED
    BY <1>2, <2>1 DEF WriterInv
<1>10. FullInv'
  <2>1. ASSUME NEW j \in DOMAIN claims
        PROVE  LET i == Pos(First, j)
               IN  \/ status'[i] = FULL /\ hdr[i] = claims[j] /\ body[i] = claims[j]
                   \/ status'[i] = EMPTY /\ \E q \in Writing' : old'[q] = i
    <3>1. Pos(First, j) \in Slots
      BY PlaceSlot
    <3>2. CASE Pos(First, j) = old[p]
      <4>1. j = k
        BY <1>7, <3>2, OnePlace DEF Place
      <4>2. status'[old[p]] = FULL
        BY <1>1, <1>2 DEF TypeOK
      <4>3. hdr[old[p]] = Frame(p) /\ body[old[p]] = Frame(p)
        BY <1>1, <1>2 DEF RingInv, WriterInv
      <4> QED
        BY <1>7, <3>2, <4>1, <4>2, <4>3 DEF Place
    <3>3. CASE Pos(First, j) # old[p]
      <4>1. status'[Pos(First, j)] = status[Pos(First, j)]
        BY <1>1, <1>2, <3>1, <3>3 DEF TypeOK
      <4>2. ASSUME NEW q \in Writing, old[q] = Pos(First, j)
            PROVE  \E r \in Writing' : old'[r] = Pos(First, j)
        BY <1>2, <1>4, <3>3, <4>2
      <4> QED
        BY <4>1, <4>2 DEF RingInv, FullInv
    <3> QED
      BY <3>2, <3>3
  <2> QED
    BY <1>1, <1>3, <2>1 DEF FullInv
<1> QED
  BY <1>5, <1>6, <1>8, <1>9, <1>10 DEF RingInv

LEMMA RingRelease ==
  ASSUME TypeOK, CountInv, RingInv, ConsumerInv, PopRelease
  PROVE  RingInv'
<1>0. PICK n \in 1 .. Cap : n = Len(claims)
  <2>1. claims # <<>> /\ claims \in Seq(Msg)
    BY DEF PopRelease, ConsumerInv, TypeOK
  <2>2. Len(claims) # 0
    BY <2>1
  <2>3. Len(claims) \in 1 .. Cap
    <3>1. Len(claims) \in 0 .. Cap
      BY WindowSize
    <3> QED
      BY <2>2, <3>1, RingAssumption
  <2> QED
    BY <2>3
<1>1. /\ status' = [status EXCEPT ![head] = EMPTY] /\ cpc = "release" /\ cpc' = "advance"
      /\ claims' = Tail(claims)
      /\ UNCHANGED <<head, tail, hdr, body, pc, old, seq>>
  BY DEF PopRelease, local
<1>2. claims # <<>> /\ status[head] = FULL /\ head \in Slots
  BY <1>1 DEF ConsumerInv, TypeOK
<1>3. First = head /\ First' = Succ(head)
  BY <1>1 DEF First
<1>4. /\ DOMAIN claims = 1 .. n /\ DOMAIN claims' = 1 .. n - 1 /\ Len(claims') = n - 1
      /\ \A k \in 1 .. n - 1 : claims'[k] = claims[k + 1] /\ k + 1 \in 1 .. n
  BY <1>0, <1>1, <1>2 DEF TypeOK
<1>5. \A k \in 1 .. n : Pos(Succ(head), k) = Pos(head, k + 1)
  <2>1. TAKE k \in 1 .. n
  <2>2. k \in 1 .. Cap
    BY RingAssumption
  <2> QED
    BY <1>2, <2>2, PosStep
<1>6. Writing' = Writing /\ \A q \in Producers : Frame(q)' = Frame(q)
  BY <1>1 DEF Writing, Frame
<1>7. Pos(head, 1) = head
  BY <1>2, PosFirst
<1>8. ASSUME NEW q \in Writing
      PROVE  /\ old[q] # head /\ old[q] \in Slots /\ status'[old[q]] = EMPTY
             /\ \E k \in 1 .. n - 1 : old[q] = Pos(Succ(head), k) /\ claims'[k] = Frame(q)
  <2>1. q \in Producers /\ status[old[q]] = EMPTY
    BY DEF Writing, RingInv, WriterInv
  <2>2. old[q] # head /\ old[q] \in Slots
    BY <1>2, <2>1 DEF TypeOK, EMPTY, FULL
  <2>3. PICK k \in DOMAIN claims : Place(q, k)
    BY DEF RingInv, WriterInv
  <2>4. k # 1 /\ k \in 1 .. n
    BY <1>3, <1>4, <1>7, <2>2, <2>3 DEF Place
  <2>5. k - 1 \in 1 .. n - 1 /\ k - 1 \in 1 .. n /\ (k - 1) + 1 = k
    BY <2>4
  <2>6. old[q] = Pos(Succ(head), k - 1) /\ claims'[k - 1] = Frame(q)
    BY <1>3, <1>4, <1>5, <2>3, <2>5 DEF Place
  <2> QED
    BY <1>1, <2>1, <2>2, <2>5, <2>6 DEF TypeOK
<1>9. TailInv'
  <2>1. n \in 1 .. n /\ (n - 1) + 1 = n
    OBVIOUS
  <2> QED
    BY <1>0, <1>1, <1>3, <1>4, <1>5, <2>1 DEF RingInv, TailInv
<1>10. OneWriter'
  BY <1>1, <1>6 DEF RingInv, OneWriter
<1>11. WriterInv'
  <2>1. ASSUME NEW q \in Writing
        PROVE  /\ status'[old'[q]] = EMPTY
               /\ \E k \in DOMAIN claims' : Place(q, k)'
               /\ pc'[q] \in {"payload", "publish"} => hdr'[old'[q]] = Frame(q)'
               /\ pc'[q] = "publish" => body'[old'[q]] = Frame(q)'
    <3>1. q \in Producers
      BY DEF Writing
    <3>2. \E k \in DOMAIN claims' : Place(q, k)'
      BY <1>1, <1>3, <1>4, <1>6, <1>8, <3>1 DEF Place
    <3> QED
      BY <1>1, <1>6, <1>8, <3>1, <3>2 DEF RingInv, WriterInv
  <2> QED
    BY <1>6, <2>1 DEF WriterInv
<1>12. FullInv'
  <2>1. ASSUME NEW j \in 1 .. n - 1
        PROVE  LET i == Pos(Succ(head), j)
               IN  \/ status'[i] = FULL /\ hdr[i] = claims'[j] /\ body[i] = claims'[j]
                   \/ status'[i] = EMPTY /\ \E q \in Writing : old[q] = i
    <3>1. j + 1 \in DOMAIN claims /\ j \in 1 .. n /\ claims'[j] = claims[j + 1]
      BY <1>4
    <3>2. Pos(Succ(head), j) = Pos(First, j + 1)
      BY <1>3, <1>5, <3>1
    <3>3. Pos(First, j + 1) \in Slots
      BY <3>1, PlaceSlot
    <3>4. 1 \in DOMAIN claims /\ 1 # j + 1
      BY <1>0, <1>4
    <3>5. Pos(First, j + 1) # head
      BY <1>3, <1>7, <3>1, <3>4, OnePlace
    <3>6. status'[Pos(First, j + 1)] = status[Pos(First, j + 1)]
      BY <1>1, <3>3, <3>5 DEF TypeOK
    <3> QED
      BY <3>1, <3>2, <3>6 DEF RingInv, FullInv
  <2> QED
    BY <1>1, <1>3, <1>4, <1>6, <2>1 DEF FullInv
<1>13. OutsideInv'
  <2>1. ASSUME NEW i \in Slots, \A k \in 1 .. n - 1 : i # Pos(Succ(head), k)
        PROVE  status'[i] = EMPTY
    <3>1. CASE i = head
      BY <1>1, <3>1 DEF TypeOK
    <3>2. CASE i # head
      <4>1. ASSUME NEW k \in DOMAIN claims PROVE i # Pos(First, k)
        <5>1. CASE k = 1
          BY <1>3, <1>7, <3>2, <5>1
        <5>2. CASE k # 1
          <6>1. k - 1 \in 1 .. n - 1 /\ k - 1 \in 1 .. n /\ (k - 1) + 1 = k
            BY <1>4, <5>2
          <6> QED
            BY <1>3, <1>5, <2>1, <6>1
        <5> QED
          BY <5>1, <5>2
      <4>2. status[i] = EMPTY
        BY <4>1 DEF RingInv, OutsideInv
      <4> QED
        BY <1>1, <3>2, <4>2 DEF TypeOK
    <3> QED
      BY <3>1, <3>2
  <2> QED
    BY <1>3, <1>4, <2>1 DEF OutsideInv
<1> QED
  BY <1>9, <1>10, <1>11, <1>12, <1>13 DEF RingInv

LEMMA RingStep ==
  ASSUME TypeOK, LocalInv, CountInv, RingInv, ConsumerInv, [Next]_vars
  PROVE  RingInv'
<1>1. ASSUME NEW p \in alive, ProducerStep(p) PROVE RingInv'
  <2>0. p \in Producers
    BY DEF TypeOK
  <2>1. CASE CasTail(p)
    BY <2>0, <2>1, RingCasTail
  <2>2. CASE WriteHeader(p)
    BY <2>0, <2>2, RingWriteHeader
  <2>3. CASE WritePayload(p)
    BY <2>0, <2>3, RingWritePayload
  <2>4. CASE Publish(p)
    BY <2>0, <2>4, RingPublish
  <2>5. CASE ~CasTail(p) /\ ~WriteHeader(p) /\ ~WritePayload(p) /\ ~Publish(p)
    <3> USE DEF Push, LoadCount, PushFull, CasCount, LoadTail, Retry, GiveUp, Crash,
                shared, consumer, history, local, Goto
    <3>1. \/ Push(p) \/ LoadCount(p) \/ PushFull(p) \/ CasCount(p) \/ LoadTail(p)
          \/ Retry(p) \/ GiveUp(p) \/ Crash(p)
      BY <1>1, <2>5 DEF ProducerStep
    <3>2. UNCHANGED <<head, tail, status, hdr, body, claims, cpc>>
      BY <3>1
    <3>3. p \in Writing => Crash(p)
      BY <3>1 DEF Writing
    <3>4. Writing' = Writing
      BY <2>0, <3>1 DEF Writing, TypeOK
    <3>5. \A q \in Writing : old'[q] = old[q] /\ pc'[q] = pc[q] /\ seq'[q] = seq[q]
      BY <2>0, <3>1, <3>3 DEF TypeOK, Writing
    <3>6. First' = First
      BY <3>2 DEF First
    <3> QED
      BY <3>2, <3>4, <3>5, <3>6, RingQuiet
  <2> QED
    BY <2>1, <2>2, <2>3, <2>4, <2>5
<1>2. ASSUME Pop PROVE RingInv'
  <2>1. CASE PopRelease
    BY <2>1, RingRelease
  <2>2. CASE ~PopRelease
    <3>1. UNCHANGED <<tail, status, hdr, body, claims, pc, old, seq>>
      BY <1>2, <2>2 DEF Pop, PopBegin, PopTransient, PopFull, PopHeader, PopPayload,
                        PopAdvance, PopUncount, shared, local, history
    <3>2. First' = First
      BY <1>2, <2>2 DEF Pop, PopBegin, PopTransient, PopFull, PopHeader, PopPayload,
                        PopAdvance, PopUncount, shared, First
    <3>3. Writing' = Writing
      BY <3>1 DEF Writing
    <3> QED
      BY <3>1, <3>2, <3>3, RingQuiet
  <2> QED
    BY <2>1, <2>2
<1>3. CASE UNCHANGED vars
  <2>1. UNCHANGED <<head, tail, status, hdr, body, claims, pc, old, seq, cpc>>
    BY <1>3 DEF vars, shared, local, consumer, history
  <2>2. First' = First /\ Writing' = Writing
    BY <2>1 DEF First, Writing
  <2> QED
    BY <2>1, <2>2, RingQuiet
<1> QED
  BY <1>1, <1>2, <1>3 DEF Next

(***************************************************************************)
(* Every step keeps what the consumer has copied.                          *)
(***************************************************************************)
\* A published head slot is the first place, and holds its frame.
LEMMA HeadFull ==
  ASSUME TypeOK, CountInv, RingInv, cpc # "advance", status[head] = FULL
  PROVE  claims # <<>> /\ 1 \in DOMAIN claims /\ hdr[head] = claims[1] /\ body[head] = claims[1]
<1>1. First = head /\ head \in Slots /\ Pos(head, 1) = head
  BY PosFirst DEF First, TypeOK
<1>2. PICK k \in DOMAIN claims : head = Pos(First, k)
  BY <1>1 DEF RingInv, OutsideInv, EMPTY, FULL
<1>3. claims # <<>> /\ 1 \in DOMAIN claims
  BY <1>2, WindowSize
<1> QED
  BY <1>1, <1>3 DEF RingInv, FullInv, EMPTY, FULL

LEMMA ConsumerStep ==
  ASSUME TypeOK, LocalInv, CountInv, RingInv, ConsumerInv, [Next]_vars
  PROVE  ConsumerInv'
<1> USE DEF shared, local, consumer, history, Goto
<1>1. ASSUME NEW p \in alive, ProducerStep(p) PROVE ConsumerInv'
  <2>0. p \in Producers
    BY DEF TypeOK
  <2>1. UNCHANGED <<head, cpc, chdr, cbody>>
    BY <1>1 DEF ProducerStep, Push, LoadCount, PushFull, CasCount, LoadTail, CasTail,
                WriteHeader, WritePayload, Publish, Retry, GiveUp, Crash
  <2>2. claims' = claims \/ (pc[p] = "casTail" /\ claims' = Append(claims, Frame(p)))
    BY <1>1 DEF ProducerStep, Push, LoadCount, PushFull, CasCount, LoadTail, CasTail,
                WriteHeader, WritePayload, Publish, Retry, GiveUp, Crash
  <2>3. claims # <<>> => claims' # <<>> /\ claims'[1] = claims[1]
    <3>1. pc[p] = "casTail" => Frame(p) \in Msg
      BY <2>0, FrameType
    <3>2. claims \in Seq(Msg)
      BY DEF TypeOK
    <3>3. CASE claims # <<>> /\ claims' = Append(claims, Frame(p)) /\ Frame(p) \in Msg
      <4>1. Len(claims) \in Nat \ {0} /\ Len(claims') = Len(claims) + 1
        BY <3>2, <3>3
      <4> QED
        BY <3>2, <3>3, <4>1
    <3> QED
      BY <2>2, <3>1, <3>3
  <2>4. status[head] = FULL => status'[head] = FULL
    BY <1>1 DEF ProducerStep, Push, LoadCount, PushFull, CasCount, LoadTail, CasTail,
                WriteHeader, WritePayload, Publish, Retry, GiveUp, Crash, TypeOK
  <2> QED
    BY <2>1, <2>3, <2>4 DEF ConsumerInv
<1>2. CASE PopFull \/ PopHeader \/ PopPayload
  <2>1. UNCHANGED <<head, status, claims>> /\ status[head] = FULL /\ cpc # "advance"
    BY <1>2 DEF PopFull, PopHeader, PopPayload, ConsumerInv
  <2> QED
    BY <1>2, <2>1, HeadFull DEF PopFull, PopHeader, PopPayload, ConsumerInv
<1>3. CASE PopBegin \/ PopTransient \/ PopRelease \/ PopAdvance \/ PopUncount
  BY <1>3 DEF PopBegin, PopTransient, PopRelease, PopAdvance, PopUncount, ConsumerInv
<1>4. CASE UNCHANGED vars
  BY <1>4 DEF vars, ConsumerInv
<1> QED
  BY <1>1, <1>2, <1>3, <1>4 DEF Next, Pop

(***************************************************************************)
(* The invariant holds.                                                    *)
(***************************************************************************)
LEMMA InitInv == Init => IInv
<1> SUFFICES ASSUME Init PROVE IInv
  OBVIOUS
<1> USE RingAssumption DEF Init
<1>1. TypeOK
  BY DEF TypeOK, Slots, ProducerPC, ConsumerPC
<1>2. LocalInv /\ ConsumerInv /\ Writing = {} /\ Reserved = {}
  BY DEF LocalInv, ConsumerInv, Writing, Reserved
<1>3. CountInv
  BY <1>2, FS_EmptySet DEF CountInv, CountAccounted, Unpaid
<1>4. First = 0 /\ 0 \in Slots /\ Pos(0, 1) = 0
  BY PosFirst DEF First, Slots
<1>5. RingInv
  BY <1>2, <1>4 DEF RingInv, TailInv, WriterInv, OneWriter, FullInv, OutsideInv
<1> QED
  BY <1>1, <1>2, <1>3, <1>5 DEF IInv

LEMMA StepInv == IInv /\ [Next]_vars => IInv'
  BY TypeStep, CountStep, RingStep, ConsumerStep DEF IInv

LEMMA Invariance == Spec => []IInv
  BY InitInv, StepInv, PTL DEF Spec

(***************************************************************************)
(* Type correctness, whatever the producers and the capacity.              *)
(***************************************************************************)
THEOREM TypeCorrect == Spec => []TypeOK
<1>1. IInv => TypeOK
  BY DEF IInv
<1> QED
  BY <1>1, Invariance, PTL

(***************************************************************************)
(* count, on which push and pop decide, is the exact account of the slots  *)
(* claimed, reserved and released, and never leaves 0 .. Cap, even when    *)
(* producers die holding a reservation.                                    *)
(***************************************************************************)
THEOREM CountCorrect == Spec => [](CountBounded /\ CountAccounted)
<1>1. IInv => CountBounded /\ CountAccounted
  <2> SUFFICES ASSUME IInv PROVE 0 <= count
    BY DEF IInv, CountInv, CountBounded
  <2>1. Unpaid \in {0, 1} /\ Len(claims) \in Nat
    BY DEF IInv, Unpaid, TypeOK
  <2> QED
    BY <2>1, ReservedFinite DEF IInv, CountInv, CountAccounted
<1> QED
  BY <1>1, Invariance, PTL

(***************************************************************************)
(* A producer writing a slot is its only owner.                            *)
(***************************************************************************)
THEOREM Exclusive == Spec => []SlotExclusive
<1>1. IInv => SlotExclusive
  BY DEF IInv, RingInv, WriterInv, OneWriter, ConsumerInv, SlotExclusive, EMPTY, FULL
<1> QED
  BY <1>1, Invariance, PTL

(***************************************************************************)
(* A slot of the window that is not published has a writer, and no slot    *)
(* outside the window is published.                                        *)
(***************************************************************************)
THEOREM Owned == Spec => []EmptyMeansOwned
<1>1. IInv => EmptyMeansOwned
  <2> SUFFICES ASSUME IInv PROVE EmptyMeansOwned
    OBVIOUS
  <2>1. DOMAIN claims = 1 .. Len(claims)
    BY WindowSize DEF IInv
  <2>2. Window = {Pos(First, k) : k \in DOMAIN claims}
    BY <2>1 DEF Window, SlotOf, Pos
  <2> QED
    BY <2>2 DEF IInv, RingInv, FullInv, OutsideInv, EmptyMeansOwned, EMPTY, FULL
<1> QED
  BY <1>1, Invariance, PTL

(***************************************************************************)
(* pop returns the header and the payload of one and the same push.        *)
(***************************************************************************)
THEOREM NeverTorn == Spec => []NoTornDelivery
<1>1. Init => NoTornDelivery
  BY DEF Init, NoTornDelivery
<1>2. IInv /\ NoTornDelivery /\ [Next]_vars => NoTornDelivery'
  <2> SUFFICES ASSUME IInv, NoTornDelivery, [Next]_vars PROVE NoTornDelivery'
    OBVIOUS
  <2>1. CASE PopRelease
    <3>1. chdr = cbody /\ delivered' = Append(delivered, <<chdr, cbody>>)
      BY <2>1 DEF PopRelease, IInv, ConsumerInv
    <3> QED
      BY <3>1 DEF IInv, TypeOK, NoTornDelivery
  <2>2. CASE ~PopRelease
    <3>1. delivered' = delivered
      BY <2>2 DEF Next, Pop, PopBegin, PopTransient, PopFull, PopHeader, PopPayload,
                  PopAdvance, PopUncount, ProducerStep, Push, LoadCount, PushFull, CasCount,
                  LoadTail, CasTail, WriteHeader, WritePayload, Publish, Retry, GiveUp, Crash,
                  history, vars
    <3> QED
      BY <3>1 DEF NoTornDelivery
  <2> QED
    BY <2>1, <2>2
<1> QED
  BY <1>1, <1>2, Invariance, PTL DEF Spec

(***************************************************************************)
(* Frames are numbered in the order they are claimed and delivered.        *)
(***************************************************************************)
\* A claimed frame is at most its producer's current one, and is that one
\* only while the producer writes it.
ClaimsCurrent ==
  \A k \in DOMAIN claims :
    /\ claims[k][2] <= seq[claims[k][1]] + 1
    /\ claims[k][2] = seq[claims[k][1]] + 1 => claims[k][1] \in Writing
ClaimsSorted ==
  \A j, k \in DOMAIN claims :
    j < k /\ claims[j][1] = claims[k][1] => claims[j][2] < claims[k][2]
DeliveredDone ==
  \A d \in DOMAIN delivered :
    delivered[d][1] \in Msg /\ delivered[d][1][2] <= seq[delivered[d][1][1]]
DeliveredFirst ==
  \A d \in DOMAIN delivered : \A k \in DOMAIN claims :
    claims[k][1] = delivered[d][1][1] => delivered[d][1][2] < claims[k][2]
DroppedDone == \A m \in dropped : m[2] <= seq[m[1]]

OrderInv == /\ ClaimsCurrent /\ ClaimsSorted /\ DeliveredDone /\ DeliveredFirst
            /\ DroppedDone /\ PerProducerOrder /\ Accounted

LEMMA ClaimType ==
  ASSUME TypeOK, NEW k \in DOMAIN claims
  PROVE  claims[k] \in Msg /\ claims[k][1] \in Producers /\ claims[k][2] \in 1 .. MaxSeq
<1>1. claims[k] \in Msg
  BY DEF TypeOK
<1> QED
  BY <1>1 DEF Msg

\* A step that leaves the frames and the producers' progress alone.
LEMMA OrderQuiet ==
  ASSUME OrderInv, UNCHANGED <<claims, delivered, dropped, seq>>, Writing' = Writing
  PROVE  OrderInv'
  BY DEF OrderInv, ClaimsCurrent, ClaimsSorted, DeliveredDone, DeliveredFirst, DroppedDone,
         PerProducerOrder, Accounted, Delivered, InRing

\* The effect of a claim on the frames.
LEMMA ClaimEffect ==
  ASSUME IInv, NEW p \in Producers, CasTail(p), tail = old[p]
  PROVE  /\ claims' = Append(claims, Frame(p)) /\ Len(claims') = Len(claims) + 1
         /\ Len(claims) \in 0 .. Cap - 1
         /\ DOMAIN claims = 1 .. Len(claims) /\ DOMAIN claims' = 1 .. Len(claims) + 1
         /\ \A k \in DOMAIN claims : claims'[k] = claims[k]
         /\ claims'[Len(claims) + 1] = Frame(p)
         /\ Frame(p) \in Msg
         /\ p \notin Writing /\ Writing' = Writing \cup {p} /\ First' = First
         /\ status[old[p]] = EMPTY /\ old[p] = Pos(First, Len(claims) + 1)
         /\ UNCHANGED <<status, old, seq, delivered, dropped>>
<1>1. Frame(p) \in Msg
  BY FrameType DEF IInv, CasTail
<1>2. /\ claims' = Append(claims, Frame(p)) /\ pc' = [pc EXCEPT ![p] = "header"]
      /\ pc[p] = "casTail" /\ UNCHANGED <<head, cpc, status, old, seq, delivered, dropped>>
  BY DEF CasTail, Goto, consumer
<1>3. Len(claims) \in 0 .. Cap - 1
  BY Room DEF IInv, CasTail
<1>4. /\ DOMAIN claims = 1 .. Len(claims) /\ DOMAIN claims' = 1 .. Len(claims) + 1
      /\ Len(claims') = Len(claims) + 1
      /\ \A k \in DOMAIN claims : claims'[k] = claims[k]
      /\ claims'[Len(claims) + 1] = Frame(p)
  BY <1>1, <1>2, <1>3 DEF IInv, TypeOK
<1>5. p \notin Writing /\ Writing' = Writing \cup {p} /\ First' = First
  BY <1>2 DEF Writing, IInv, TypeOK, First
<1>6. old[p] = Pos(First, Len(claims) + 1) /\ old[p] \in Slots
  BY DEF IInv, RingInv, TailInv, TypeOK
<1>7. \A k \in DOMAIN claims : Pos(First, k) # old[p]
  <2>1. TAKE k \in DOMAIN claims
  <2>2. k \in 1 .. Cap /\ Len(claims) + 1 \in 1 .. Cap /\ k # Len(claims) + 1
    BY <1>3, <1>4, RingAssumption
  <2>3. First \in Slots
    BY WindowSize DEF IInv
  <2> QED
    BY <1>6, <2>2, <2>3, PosInjective
<1>8. status[old[p]] = EMPTY
  BY <1>6, <1>7 DEF IInv, RingInv, OutsideInv
<1> QED
  BY <1>1, <1>2, <1>3, <1>4, <1>5, <1>6, <1>8

\* The effect of a release on the frames.
LEMMA ReleaseEffect ==
  ASSUME IInv, PopRelease
  PROVE  /\ Len(claims) \in 1 .. Cap /\ Len(claims') = Len(claims) - 1
         /\ DOMAIN claims = 1 .. Len(claims) /\ DOMAIN claims' = 1 .. Len(claims) - 1
         /\ claims' = Tail(claims) /\ 1 \in DOMAIN claims
         /\ \A k \in DOMAIN claims' : claims'[k] = claims[k + 1] /\ k + 1 \in DOMAIN claims
         /\ delivered' = Append(delivered, <<claims[1], claims[1]>>)
         /\ DOMAIN delivered = 1 .. Len(delivered) /\ Len(delivered) \in Nat
         /\ DOMAIN delivered' = 1 .. Len(delivered) + 1
         /\ \A d \in DOMAIN delivered : delivered'[d] = delivered[d]
         /\ delivered'[Len(delivered) + 1] = <<claims[1], claims[1]>>
         /\ status' = [status EXCEPT ![head] = EMPTY] /\ status[head] = FULL
         /\ First = head /\ head \in Slots /\ First' = Succ(head)
         /\ Writing' = Writing /\ UNCHANGED <<seq, dropped>>
<1>1. /\ claims' = Tail(claims) /\ claims # <<>> /\ claims \in Seq(Msg)
      /\ delivered' = Append(delivered, <<claims[1], claims[1]>>)
      /\ status' = [status EXCEPT ![head] = EMPTY] /\ status[head] = FULL
      /\ First = head /\ head \in Slots /\ First' = Succ(head)
      /\ Writing' = Writing /\ UNCHANGED <<seq, dropped>>
  BY DEF PopRelease, IInv, TypeOK, ConsumerInv, First, Writing, local
<1>2. Len(claims) # 0 /\ Len(claims) \in 0 .. Cap /\ DOMAIN claims = 1 .. Len(claims)
  BY <1>1, WindowSize DEF IInv
<1>3. Len(claims) \in 1 .. Cap /\ 1 \in DOMAIN claims
  BY <1>2, RingAssumption
<1>4. /\ Len(claims') = Len(claims) - 1 /\ DOMAIN claims' = 1 .. Len(claims) - 1
      /\ \A k \in DOMAIN claims' : claims'[k] = claims[k + 1] /\ k + 1 \in DOMAIN claims
  BY <1>1, <1>2
<1>5. <<claims[1], claims[1]>> \in (Msg \cup {NoMsg}) \X (Msg \cup {NoMsg})
  BY <1>1, <1>3
<1>6. /\ DOMAIN delivered = 1 .. Len(delivered) /\ Len(delivered) \in Nat
      /\ DOMAIN delivered' = 1 .. Len(delivered) + 1
      /\ \A d \in DOMAIN delivered : delivered'[d] = delivered[d]
      /\ delivered'[Len(delivered) + 1] = <<claims[1], claims[1]>>
  BY <1>1, <1>5 DEF IInv, TypeOK
<1> QED
  BY <1>1, <1>2, <1>3, <1>4, <1>6

LEMMA OrderClaim ==
  ASSUME IInv, OrderInv, NEW p \in Producers, CasTail(p)
  PROVE  OrderInv'
<1>1. CASE tail = old[p]
  <2>1. PICK n \in 0 .. Cap - 1 : n = Len(claims)
    BY <1>1, ClaimEffect
  <2>2. /\ DOMAIN claims = 1 .. n /\ DOMAIN claims' = 1 .. n + 1
        /\ \A k \in 1 .. n : claims'[k] = claims[k]
        /\ claims'[n + 1] = Frame(p) /\ Frame(p) = <<p, seq[p] + 1>>
        /\ p \notin Writing /\ Writing' = Writing \cup {p}
        /\ UNCHANGED <<seq, delivered, dropped>>
    BY <1>1, <2>1, ClaimEffect DEF Frame
  <2>3. \A k \in DOMAIN claims' : k = n + 1 \/ k \in 1 .. n
    BY <2>1, <2>2
  <2>4. seq[p] \in 0 .. MaxSeq /\ MaxSeq \in Nat
    BY RingAssumption DEF IInv, TypeOK
  <2>5. \A k \in 1 .. n : claims[k][2] \in Nat /\ (claims[k][1] = p => claims[k][2] <= seq[p])
    <3>1. TAKE k \in 1 .. n
    <3>2. claims[k][2] \in 1 .. MaxSeq
      BY <2>2, ClaimType DEF IInv
    <3>3. claims[k][1] = p => claims[k][2] <= seq[p] + 1 /\ claims[k][2] # seq[p] + 1
      BY <2>2 DEF OrderInv, ClaimsCurrent
    <3> QED
      BY <2>4, <3>2, <3>3
  <2>6. ClaimsCurrent'
    BY <2>2, <2>3, <2>4 DEF OrderInv, ClaimsCurrent
  <2>7. ClaimsSorted'
    <3>1. ASSUME NEW j \in 1 .. n + 1, NEW k \in 1 .. n + 1,
                 j < k, claims'[j][1] = claims'[k][1]
          PROVE  claims'[j][2] < claims'[k][2]
      <4>1. j \in 1 .. n
        BY <3>1, <2>1
      <4>2. CASE k = n + 1
        BY <2>2, <2>4, <2>5, <3>1, <4>1, <4>2
      <4>3. CASE k \in 1 .. n
        BY <2>2, <3>1, <4>1, <4>3 DEF OrderInv, ClaimsSorted
      <4> QED
        BY <2>1, <4>2, <4>3
    <3> QED
      BY <2>2, <3>1 DEF ClaimsSorted
  <2>8. DeliveredDone' /\ DroppedDone' /\ PerProducerOrder'
    BY <2>2 DEF OrderInv, DeliveredDone, DroppedDone, PerProducerOrder
  <2>9. DeliveredFirst'
    <3>1. ASSUME NEW d \in DOMAIN delivered, delivered[d][1][1] = p
          PROVE  delivered[d][1][2] < seq[p] + 1
      <4>1. delivered[d][1][2] \in 1 .. MaxSeq /\ delivered[d][1][2] <= seq[p]
        BY <3>1 DEF OrderInv, DeliveredDone, Msg
      <4> QED
        BY <2>4, <4>1
    <3> QED
      BY <2>2, <2>3, <3>1 DEF OrderInv, DeliveredFirst
  <2>10. Accounted'
    <3>1. Delivered' = Delivered /\ dropped' = dropped /\ InRing' = InRing \cup {Frame(p)}
      <4>1. \A k \in 1 .. n : k \in 1 .. n + 1
        BY <2>1
      <4>2. n + 1 \in 1 .. n + 1
        BY <2>1
      <4> QED
        BY <2>2, <2>3, <4>1, <4>2 DEF Delivered, InRing
    <3>2. Frame(p) \notin Delivered
      BY <2>2, <2>4 DEF OrderInv, DeliveredDone, Delivered
    <3>3. Frame(p) \notin dropped
      BY <2>2, <2>4 DEF OrderInv, DroppedDone
    <3> QED
      BY <2>2, <3>1, <3>2, <3>3 DEF OrderInv, Accounted
  <2> QED
    BY <2>6, <2>7, <2>8, <2>9, <2>10 DEF OrderInv
<1>2. CASE tail # old[p]
  <2>1. /\ pc[p] = "casTail" /\ pc' = [pc EXCEPT ![p] = "loadTail"]
        /\ UNCHANGED <<claims, delivered, dropped, seq>>
    BY <1>2 DEF CasTail, Goto
  <2>2. Writing' = Writing
    BY <2>1 DEF Writing, IInv, TypeOK
  <2> QED
    BY <2>1, <2>2, OrderQuiet
<1> QED
  BY <1>1, <1>2

\* Publish and GiveUp: the producer is done with its frame.
LEMMA OrderDone ==
  ASSUME IInv, OrderInv, NEW p \in Producers, Publish(p) \/ GiveUp(p)
  PROVE  OrderInv'
<1>1. /\ seq' = [seq EXCEPT ![p] = @ + 1] /\ Writing' = Writing \ {p}
      /\ UNCHANGED <<claims, delivered>>
      /\ dropped' = dropped \/ (dropped' = dropped \cup {Frame(p)} /\ p \notin Writing)
  BY DEF Publish, GiveUp, Goto, Writing, history, IInv, TypeOK
<1>2. /\ seq[p] \in Nat /\ seq'[p] = seq[p] + 1
      /\ \A q \in Producers : q # p => seq'[q] = seq[q]
      /\ \A q \in Producers : seq[q] \in Nat /\ seq'[q] \in Nat /\ seq[q] <= seq'[q]
  BY <1>1 DEF IInv, TypeOK
<1>3. ClaimsCurrent'
  <2>1. ASSUME NEW k \in DOMAIN claims
        PROVE  /\ claims[k][2] <= seq'[claims[k][1]] + 1
               /\ claims[k][2] = seq'[claims[k][1]] + 1 => claims[k][1] \in Writing'
    <3>1. claims[k][1] \in Producers /\ claims[k][2] \in Nat
      BY ClaimType DEF IInv
    <3>2. /\ claims[k][2] <= seq[claims[k][1]] + 1
          /\ claims[k][2] = seq[claims[k][1]] + 1 => claims[k][1] \in Writing
      BY DEF OrderInv, ClaimsCurrent
    <3>3. CASE claims[k][1] = p
      BY <1>2, <3>1, <3>2, <3>3
    <3>4. CASE claims[k][1] # p
      BY <1>1, <1>2, <3>1, <3>2, <3>4
    <3> QED
      BY <3>3, <3>4
  <2> QED
    BY <1>1, <2>1 DEF ClaimsCurrent
<1>4. ClaimsSorted' /\ DeliveredFirst' /\ PerProducerOrder'
  BY <1>1 DEF OrderInv, ClaimsSorted, DeliveredFirst, PerProducerOrder
<1>5. DeliveredDone'
  <2>1. ASSUME NEW d \in DOMAIN delivered
        PROVE  delivered[d][1][2] <= seq'[delivered[d][1][1]]
    <3>1. delivered[d][1][1] \in Producers /\ delivered[d][1][2] \in Nat
      BY DEF OrderInv, DeliveredDone, Msg
    <3> QED
      BY <1>2, <3>1 DEF OrderInv, DeliveredDone
  <2> QED
    BY <1>1, <2>1 DEF OrderInv, DeliveredDone
<1>6. Frame(p) = <<p, seq[p] + 1>>
  BY DEF Frame
<1>7. DroppedDone'
  <2>1. ASSUME NEW m \in dropped PROVE m[2] <= seq'[m[1]]
    <3>1. m[1] \in Producers /\ m[2] \in Nat
      BY DEF IInv, TypeOK, Msg
    <3> QED
      BY <1>2, <3>1 DEF OrderInv, DroppedDone
  <2>2. Frame(p)[2] <= seq'[Frame(p)[1]]
    BY <1>2, <1>6
  <2> QED
    BY <1>1, <2>1, <2>2 DEF DroppedDone
<1>8. Accounted'
  <2>1. Delivered' = Delivered /\ InRing' = InRing
    BY <1>1 DEF Delivered, InRing
  <2>2. ASSUME NEW q \in Producers, NEW n \in 1 .. seq'[q]
        PROVE  <<q, n>> \in Delivered \cup InRing \cup dropped'
    <3>1. CASE n <= seq[q]
      <4>1. n \in 1 .. seq[q]
        BY <1>2, <3>1
      <4> QED
        BY <1>1, <4>1 DEF OrderInv, Accounted
    <3>2. CASE ~(n <= seq[q])
      <4>1. q = p /\ n = seq[p] + 1
        BY <1>2, <3>2
      <4>2. CASE Publish(p)
        <5>1. p \in Writing
          BY <4>2 DEF Publish, Writing
        <5>2. PICK k \in DOMAIN claims : claims[k] = Frame(p)
          BY <5>1 DEF IInv, RingInv, WriterInv, Place
        <5> QED
          BY <1>6, <4>1, <5>2 DEF InRing
      <4>3. CASE GiveUp(p)
        BY <1>6, <4>1, <4>3 DEF GiveUp
      <4> QED
        BY <4>2, <4>3
    <3> QED
      BY <3>1, <3>2
  <2>3. Frame(p) \notin Delivered
    BY <1>2, <1>6 DEF OrderInv, DeliveredDone, Delivered
  <2>4. p \notin Writing => Frame(p) \notin InRing
    BY <1>2, <1>6 DEF OrderInv, ClaimsCurrent, InRing
  <2> QED
    BY <1>1, <2>1, <2>2, <2>3, <2>4 DEF OrderInv, Accounted
<1> QED
  BY <1>3, <1>4, <1>5, <1>7, <1>8 DEF OrderInv

\* The frame released was published: its producer has gone on.
LEMMA FirstDone ==
  ASSUME IInv, OrderInv, PopRelease
  PROVE  claims[1] \in Msg /\ claims[1][2] <= seq[claims[1][1]]
<1>1. /\ 1 \in DOMAIN claims /\ First = head /\ head \in Slots /\ status[head] = FULL
  BY ReleaseEffect
<1>2. claims[1] \in Msg /\ claims[1][1] \in Producers /\ claims[1][2] \in Nat
  BY <1>1, ClaimType DEF IInv
<1>3. ASSUME claims[1][2] = seq[claims[1][1]] + 1
      PROVE  FALSE
  <2> DEFINE q == claims[1][1]
  <2>1. q \in Writing
    BY <1>1, <1>3 DEF OrderInv, ClaimsCurrent
  <2>2. PICK k \in DOMAIN claims : Place(q, k)
    BY <2>1 DEF IInv, RingInv, WriterInv
  <2>3. claims[k][1] = claims[1][1] /\ claims[k][2] = claims[1][2]
    BY <1>3, <2>2 DEF Place, Frame
  <2>4. k = 1
    <3>1. k \in Nat /\ (k = 1 \/ 1 < k)
      BY WindowSize DEF IInv
    <3> QED
      BY <1>1, <1>2, <2>3, <3>1 DEF OrderInv, ClaimsSorted
  <2>5. old[q] = head
    BY <1>1, <2>2, <2>4, PosFirst DEF Place
  <2> QED
    BY <1>1, <2>1, <2>5 DEF IInv, RingInv, WriterInv, EMPTY, FULL
<1>4. claims[1][2] <= seq[claims[1][1]] + 1 /\ seq[claims[1][1]] \in Nat
  BY <1>1, <1>2 DEF OrderInv, ClaimsCurrent, IInv, TypeOK
<1> QED
  BY <1>2, <1>3, <1>4

LEMMA OrderRelease ==
  ASSUME IInv, OrderInv, PopRelease
  PROVE  OrderInv'
<1>0. PICK n \in 1 .. Cap, e \in Nat : n = Len(claims) /\ e = Len(delivered)
  BY ReleaseEffect
<1>first. PICK m \in Msg : m = claims[1]
  BY FirstDone
<1>1. /\ DOMAIN claims = 1 .. n /\ DOMAIN claims' = 1 .. n - 1
      /\ \A k \in 1 .. n - 1 : claims'[k] = claims[k + 1] /\ k + 1 \in 1 .. n
      /\ DOMAIN delivered = 1 .. e /\ DOMAIN delivered' = 1 .. e + 1
      /\ \A d \in 1 .. e : delivered'[d] = delivered[d]
      /\ delivered'[e + 1][1] = m
      /\ Writing' = Writing /\ UNCHANGED <<seq, dropped>>
  <2>1. delivered'[e + 1] = <<m, m>>
    BY <1>0, <1>first, ReleaseEffect
  <2>2. delivered'[e + 1][1] = m
    BY <2>1
  <2>3. /\ DOMAIN claims = 1 .. n /\ DOMAIN claims' = 1 .. n - 1
        /\ \A k \in 1 .. n - 1 : claims'[k] = claims[k + 1] /\ k + 1 \in 1 .. n
    BY <1>0, ReleaseEffect
  <2>4. /\ DOMAIN delivered = 1 .. e /\ DOMAIN delivered' = 1 .. e + 1
        /\ \A d \in 1 .. e : delivered'[d] = delivered[d]
    BY <1>0, ReleaseEffect
  <2> QED
    BY <2>2, <2>3, <2>4, ReleaseEffect
<1>2. \A d \in 1 .. e + 1 : d \in 1 .. e \/ d = e + 1
  BY <1>0
<1>3. /\ m[2] <= seq[m[1]] /\ n \in Nat /\ 1 \in 1 .. n
      /\ \A k \in 1 .. n - 1 : 1 < k + 1
  BY <1>0, <1>first, FirstDone, RingAssumption
<1>4. ClaimsCurrent'
  <2>1. ASSUME NEW k \in 1 .. n - 1
        PROVE  /\ claims'[k][2] <= seq'[claims'[k][1]] + 1
               /\ claims'[k][2] = seq'[claims'[k][1]] + 1 => claims'[k][1] \in Writing'
    <3>1. claims'[k] = claims[k + 1] /\ k + 1 \in DOMAIN claims
      BY <1>1
    <3>2. seq' = seq /\ Writing' = Writing
      BY <1>1
    <3>3. /\ claims[k + 1][2] <= seq[claims[k + 1][1]] + 1
          /\ claims[k + 1][2] = seq[claims[k + 1][1]] + 1 => claims[k + 1][1] \in Writing
      BY <3>1 DEF OrderInv, ClaimsCurrent
    <3> QED
      BY <3>1, <3>2, <3>3
  <2>2. DOMAIN claims' = 1 .. n - 1
    BY <1>1
  <2> QED
    BY <2>1, <2>2 DEF ClaimsCurrent
<1>5. ClaimsSorted'
  <2>1. ASSUME NEW j \in 1 .. n - 1, NEW k \in 1 .. n - 1,
               j < k, claims'[j][1] = claims'[k][1]
        PROVE  claims'[j][2] < claims'[k][2]
    <3>1. j + 1 < k + 1
      BY <2>1
    <3>2. /\ claims'[j] = claims[j + 1] /\ j + 1 \in DOMAIN claims
          /\ claims'[k] = claims[k + 1] /\ k + 1 \in DOMAIN claims
      BY <1>1
    <3>3. claims[j + 1][1] = claims[k + 1][1]
      BY <2>1, <3>2
    <3>4. claims[j + 1][2] < claims[k + 1][2]
      BY <3>1, <3>2, <3>3 DEF OrderInv, ClaimsSorted
    <3> QED
      BY <3>2, <3>4
  <2> QED
    BY <1>1, <2>1 DEF ClaimsSorted
<1>6. DeliveredDone' /\ DroppedDone'
  BY <1>1, <1>2, <1>3 DEF OrderInv, DeliveredDone, DroppedDone
<1>7. \A k \in 1 .. n - 1 : claims'[k][1] = m[1] => m[2] < claims'[k][2]
  <2>1. TAKE k \in 1 .. n - 1
  <2>2. /\ claims'[k] = claims[k + 1] /\ k + 1 \in DOMAIN claims
        /\ 1 \in DOMAIN claims /\ 1 < k + 1
    BY <1>1, <1>3
  <2>3. claims[k + 1][1] = claims[1][1] => claims[1][2] < claims[k + 1][2]
    BY <2>2 DEF OrderInv, ClaimsSorted
  <2> QED
    BY <1>first, <2>2, <2>3
<1>8. DeliveredFirst'
  <2>1. ASSUME NEW d \in 1 .. e + 1, NEW k \in 1 .. n - 1, claims'[k][1] = delivered'[d][1][1]
        PROVE  delivered'[d][1][2] < claims'[k][2]
    <3>1. CASE d = e + 1
      BY <1>1, <1>7, <2>1, <3>1
    <3>2. CASE d \in 1 .. e
      <4>1. /\ claims'[k] = claims[k + 1] /\ k + 1 \in DOMAIN claims
            /\ delivered'[d] = delivered[d] /\ d \in DOMAIN delivered
        BY <1>1, <3>2
      <4>2. delivered[d][1][2] < claims[k + 1][2]
        BY <2>1, <4>1 DEF OrderInv, DeliveredFirst
      <4> QED
        BY <4>1, <4>2
    <3> QED
      BY <1>2, <3>1, <3>2
  <2> QED
    BY <1>1, <2>1 DEF DeliveredFirst
<1>9. PerProducerOrder'
  <2>1. ASSUME NEW i \in 1 .. e + 1, NEW j \in 1 .. e + 1, i < j,
               delivered'[i][1][1] = delivered'[j][1][1]
        PROVE  delivered'[i][1][2] < delivered'[j][1][2]
    <3>1. i \in 1 .. e
      BY <1>0, <2>1
    <3>2. CASE j = e + 1
      <4>1. delivered'[i] = delivered[i] /\ i \in DOMAIN delivered /\ 1 \in DOMAIN claims
        BY <1>1, <1>3, <3>1
      <4>2. claims[1][1] = delivered[i][1][1]
        BY <1>1, <1>first, <2>1, <3>2, <4>1
      <4>3. delivered[i][1][2] < claims[1][2]
        BY <4>1, <4>2 DEF OrderInv, DeliveredFirst
      <4> QED
        BY <1>1, <1>first, <3>2, <4>1, <4>3
    <3>3. CASE j \in 1 .. e
      BY <1>1, <2>1, <3>1, <3>3 DEF OrderInv, PerProducerOrder
    <3> QED
      BY <1>2, <3>2, <3>3
  <2> QED
    BY <1>1, <2>1 DEF PerProducerOrder
<1>10. Accounted'
  <2>1. Delivered' = Delivered \cup {m}
    <3>1. \A d \in 1 .. e : d \in 1 .. e + 1
      BY <1>0
    <3>2. e + 1 \in 1 .. e + 1
      BY <1>0
    <3> QED
      BY <1>1, <1>2, <3>1, <3>2 DEF Delivered
  <2>2. m \in InRing
    BY <1>1, <1>3, <1>first DEF InRing
  <2>3. InRing \subseteq InRing' \cup {m}
    <3>1. ASSUME NEW k \in 1 .. n PROVE claims[k] \in InRing' \cup {m}
      <4>1. CASE k = 1
        BY <1>first, <4>1
      <4>2. CASE k # 1
        <5>1. k - 1 \in 1 .. n - 1 /\ (k - 1) + 1 = k
          BY <1>3, <4>2
        <5>2. claims'[k - 1] = claims[k] /\ k - 1 \in DOMAIN claims'
          BY <1>1, <5>1
        <5> QED
          BY <5>2 DEF InRing
      <4> QED
        BY <4>1, <4>2
    <3> QED
      BY <1>1, <3>1 DEF InRing
  <2>4. InRing' \subseteq InRing
    BY <1>1 DEF InRing
  <2>5. m \notin InRing'
    <3>1. \A k \in 1 .. n - 1 : claims'[k] # m
      <4>1. m[2] \in Nat
        BY <1>3 DEF Msg
      <4> QED
        BY <1>7, <4>1
    <3> QED
      BY <1>1, <3>1 DEF InRing
  <2> QED
    BY <1>1, <2>1, <2>2, <2>3, <2>4, <2>5 DEF OrderInv, Accounted
<1> QED
  BY <1>4, <1>5, <1>6, <1>8, <1>9, <1>10 DEF OrderInv

LEMMA OrderStep == IInv /\ OrderInv /\ [Next]_vars => OrderInv'
<1> SUFFICES ASSUME IInv, OrderInv, [Next]_vars PROVE OrderInv'
  OBVIOUS
<1>1. ASSUME NEW p \in alive, ProducerStep(p) PROVE OrderInv'
  <2>0. p \in Producers
    BY DEF IInv, TypeOK
  <2>1. CASE CasTail(p)
    BY <2>0, <2>1, OrderClaim
  <2>2. CASE Publish(p) \/ GiveUp(p)
    BY <2>0, <2>2, OrderDone
  <2>3. CASE ~CasTail(p) /\ ~Publish(p) /\ ~GiveUp(p)
    <3> USE DEF Push, LoadCount, PushFull, CasCount, LoadTail, WriteHeader, WritePayload, Retry,
                Crash, shared, consumer, history, local, Goto
    <3>1. \/ Push(p) \/ LoadCount(p) \/ PushFull(p) \/ CasCount(p) \/ LoadTail(p)
          \/ WriteHeader(p) \/ WritePayload(p) \/ Retry(p) \/ Crash(p)
      BY <1>1, <2>3 DEF ProducerStep
    <3>2. UNCHANGED <<claims, delivered, dropped, seq>>
      BY <3>1
    <3>3. Writing' = Writing
      BY <2>0, <3>1 DEF Writing, IInv, TypeOK
    <3> QED
      BY <3>2, <3>3, OrderQuiet
  <2> QED
    BY <2>1, <2>2, <2>3
<1>2. ASSUME Pop PROVE OrderInv'
  <2>1. CASE PopRelease
    BY <2>1, OrderRelease
  <2>2. CASE ~PopRelease
    <3>1. UNCHANGED <<claims, delivered, dropped, seq, pc>>
      BY <1>2, <2>2 DEF Pop, PopBegin, PopTransient, PopFull, PopHeader, PopPayload,
                        PopAdvance, PopUncount, local, history
    <3>2. Writing' = Writing
      BY <3>1 DEF Writing
    <3> QED
      BY <3>1, <3>2, OrderQuiet
  <2> QED
    BY <2>1, <2>2
<1>3. CASE UNCHANGED vars
  <2>1. UNCHANGED <<claims, delivered, dropped, seq, pc>>
    BY <1>3 DEF vars, local, history
  <2>2. Writing' = Writing
    BY <2>1 DEF Writing
  <2> QED
    BY <2>1, <2>2, OrderQuiet
<1> QED
  BY <1>1, <1>2, <1>3 DEF Next

LEMMA OrderInit == Init => OrderInv
<1> SUFFICES ASSUME Init PROVE OrderInv
  OBVIOUS
<1>1. claims = <<>> /\ delivered = <<>> /\ dropped = {} /\ seq = [p \in Producers |-> 0]
  BY DEF Init
<1>2. ClaimsCurrent /\ ClaimsSorted /\ DeliveredDone /\ DeliveredFirst /\ DroppedDone /\ PerProducerOrder
  BY <1>1 DEF ClaimsCurrent, ClaimsSorted, DeliveredDone, DeliveredFirst, DroppedDone, PerProducerOrder
<1>3. \A p \in Producers : 1 .. seq[p] = {}
  BY <1>1
<1>4. Accounted
  BY <1>1, <1>3 DEF Accounted, Delivered, InRing
<1> QED
  BY <1>2, <1>4 DEF OrderInv

LEMMA OrderInvariance == Spec => []OrderInv
  BY OrderInit, OrderStep, Invariance, PTL DEF Spec

(***************************************************************************)
(* The consumer receives the frames of each producer in the order they     *)
(* were pushed, each at most once.                                         *)
(***************************************************************************)
THEOREM InOrder == Spec => []PerProducerOrder
<1>1. OrderInv => PerProducerOrder
  BY DEF OrderInv
<1> QED
  BY <1>1, OrderInvariance, PTL

(***************************************************************************)
(* Every frame whose push has ended is delivered, still in the ring, or    *)
(* dropped at the push deadline, and only one of these.                    *)
(***************************************************************************)
THEOREM NothingLost == Spec => []Accounted
<1>1. OrderInv => Accounted
  BY DEF OrderInv
<1> QED
  BY <1>1, OrderInvariance, PTL

(***************************************************************************)
(* The refinement.                                                         *)
(***************************************************************************)
ChannelPlace == [msg : Msg, ready : BOOLEAN]
Ready(k) == status[Pos(First, k)] = FULL
QueueShape ==
  /\ ChannelQueue \in Seq(ChannelPlace) /\ Len(ChannelQueue) = Len(claims)
  /\ DOMAIN ChannelQueue = DOMAIN claims
  /\ \A k \in DOMAIN claims : ChannelQueue[k] = [msg |-> claims[k], ready |-> Ready(k)]

LEMMA QueueShaped == IInv => QueueShape
<1> SUFFICES ASSUME IInv PROVE QueueShape
  OBVIOUS
<1>1. DOMAIN claims = 1 .. Len(claims) /\ Len(claims) \in Nat
  BY DEF IInv, TypeOK
<1>2. ChannelQueue = [k \in 1 .. Len(claims) |-> [msg |-> claims[k], ready |-> Ready(k)]]
  BY DEF ChannelQueue, SlotOf, Pos, Ready
<1>3. \A k \in 1 .. Len(claims) : [msg |-> claims[k], ready |-> Ready(k)] \in ChannelPlace
  <2>1. TAKE k \in 1 .. Len(claims)
  <2>2. claims[k] \in Msg
    BY <1>1, ClaimType DEF IInv
  <2>3. Ready(k) \in BOOLEAN
    BY DEF Ready
  <2> QED
    BY <2>2, <2>3 DEF ChannelPlace
<1>4. ChannelQueue \in [1 .. Len(claims) -> ChannelPlace]
  BY <1>2, <1>3
<1>5. ChannelQueue \in Seq(ChannelPlace) /\ Len(ChannelQueue) = Len(claims)
  BY <1>1, <1>4, SeqDef
<1> QED
  BY <1>1, <1>2, <1>5 DEF QueueShape

LEMMA QueueShapedNext == IInv' => QueueShape'
  BY QueueShaped, PTL

\* A step that leaves the window and the status of its slots alone.
LEMMA QueueQuiet ==
  ASSUME UNCHANGED <<claims, status, delivered>>, First' = First
  PROVE  UNCHANGED <<ChannelQueue, delivered>>
  BY DEF ChannelQueue, SlotOf

LEMMA ClaimRefines ==
  ASSUME IInv, OrderInv, IInv', NEW p \in Producers, CasTail(p)
  PROVE  Channel!Claim(Frame(p)) \/ UNCHANGED <<ChannelQueue, delivered>>
<1>1. CASE tail = old[p]
  <2>0. PICK n \in 0 .. Cap - 1, m \in Msg : n = Len(claims) /\ m = Frame(p)
    BY <1>1, ClaimEffect
  <2>1. QueueShape /\ QueueShape'
    BY QueueShaped, QueueShapedNext
  <2>2. /\ DOMAIN claims = 1 .. n /\ DOMAIN claims' = 1 .. n + 1 /\ Len(claims') = n + 1
        /\ \A k \in 1 .. n : claims'[k] = claims[k]
        /\ claims'[n + 1] = m
        /\ p \notin Writing /\ First' = First
        /\ status[Pos(First, n + 1)] = EMPTY
        /\ UNCHANGED <<status, seq, delivered>>
    BY <1>1, <2>0, ClaimEffect
  <2>3. m[1] = p /\ m[2] = seq[p] + 1 /\ seq[p] \in Nat
    BY <2>0 DEF Frame, IInv, TypeOK
  <2>4. ASSUME NEW k \in DOMAIN claims, claims[k][1] = p
        PROVE  Ready(k) /\ claims[k][2] < m[2]
    <3>1. claims[k][2] \in Nat /\ claims[k][2] <= seq[p]
      <4>1. claims[k][2] <= seq[p] + 1 /\ claims[k][2] # seq[p] + 1
        BY <2>2, <2>4 DEF OrderInv, ClaimsCurrent
      <4>2. claims[k][2] \in 1 .. MaxSeq
        BY ClaimType DEF IInv
      <4> QED
        BY <2>3, <4>1, <4>2
    <3>2. ASSUME NEW q \in Writing, old[q] = Pos(First, k) PROVE FALSE
      <4>1. PICK j \in DOMAIN claims : Place(q, j)
        BY DEF IInv, RingInv, WriterInv
      <4>2. Pos(First, j) = Pos(First, k)
        BY <3>2, <4>1 DEF Place
      <4>3. j = k
        BY <4>2, OnePlace DEF IInv
      <4> QED
        BY <2>2, <2>4, <4>1, <4>3 DEF Place, Frame
    <3>3. status[Pos(First, k)] = FULL
      BY <3>2 DEF IInv, RingInv, FullInv
    <3> QED
      BY <2>3, <3>1, <3>3 DEF Ready
  <2>5. Channel!Fresh(m)
    <3>1. ASSUME NEW k \in DOMAIN ChannelQueue, ChannelQueue[k].msg[1] = m[1]
          PROVE  ChannelQueue[k].ready /\ ChannelQueue[k].msg[2] < m[2]
      <4>1. k \in DOMAIN claims /\ ChannelQueue[k] = [msg |-> claims[k], ready |-> Ready(k)]
        BY <2>1, <3>1 DEF QueueShape
      <4>2. claims[k][1] = p
        BY <2>3, <3>1, <4>1
      <4> QED
        BY <2>4, <4>1, <4>2
    <3>2. ASSUME NEW d \in DOMAIN delivered, delivered[d][1][1] = m[1]
          PROVE  delivered[d][1][2] < m[2]
      <4>1. delivered[d][1][2] <= seq[p] /\ delivered[d][1][2] \in 1 .. MaxSeq
        BY <2>3, <3>2 DEF OrderInv, DeliveredDone, Msg
      <4> QED
        BY <2>3, <4>1
    <3> QED
      BY <3>1, <3>2 DEF Channel!Fresh
  <2>6. ChannelQueue' = Append(ChannelQueue, [msg |-> m, ready |-> FALSE])
    <3> DEFINE e == [msg |-> m, ready |-> FALSE]
    <3>1. e \in ChannelPlace
      BY DEF ChannelPlace
    <3>2. /\ Append(ChannelQueue, e) \in Seq(ChannelPlace)
          /\ Len(Append(ChannelQueue, e)) = n + 1
          /\ \A k \in 1 .. n : Append(ChannelQueue, e)[k] = ChannelQueue[k]
          /\ Append(ChannelQueue, e)[n + 1] = e
      BY <2>0, <2>1, <3>1, AppendProperties DEF QueueShape
    <3>3. \A k \in 1 .. n : ChannelQueue'[k] = ChannelQueue[k]
      <4>1. TAKE k \in 1 .. n
      <4>2. k \in DOMAIN claims /\ k \in DOMAIN claims' /\ claims'[k] = claims[k]
        BY <2>0, <2>2
      <4>3. Ready(k)' = Ready(k)
        BY <2>2 DEF Ready
      <4>4. ChannelQueue'[k] = [msg |-> claims'[k], ready |-> Ready(k)']
        BY <2>1, <4>2 DEF QueueShape
      <4> QED
        BY <2>1, <4>2, <4>3, <4>4 DEF QueueShape
    <3>4. ChannelQueue'[n + 1] = e
      <4>1. n + 1 \in DOMAIN claims' /\ n + 1 \in 1 .. n + 1
        BY <2>0, <2>2
      <4>2. Ready(n + 1)' = FALSE
        BY <2>2 DEF Ready, EMPTY, FULL
      <4>3. ChannelQueue'[n + 1] = [msg |-> claims'[n + 1], ready |-> Ready(n + 1)']
        BY <2>1, <4>1 DEF QueueShape
      <4> QED
        BY <2>2, <4>2, <4>3
    <3>5. ChannelQueue' \in Seq(ChannelPlace) /\ Len(ChannelQueue') = n + 1
      BY <2>1, <2>2 DEF QueueShape, ChannelPlace
    <3>6. \A k \in 1 .. n + 1 : ChannelQueue'[k] = Append(ChannelQueue, e)[k]
      <4>1. \A k \in 1 .. n + 1 : k \in 1 .. n \/ k = n + 1
        BY <2>0
      <4> QED
        BY <3>2, <3>3, <3>4, <4>1
    <3> HIDE DEF e
    <3>7. ChannelQueue' = Append(ChannelQueue, e)
      BY <3>2, <3>5, <3>6, SeqEqual
    <3> QED
      BY <3>7 DEF e
  <2>7. Len(ChannelQueue) < Cap
    BY <2>0, <2>1, RingAssumption DEF QueueShape
  <2> QED
    BY <2>0, <2>2, <2>5, <2>6, <2>7 DEF Channel!Claim
<1>2. CASE tail # old[p]
  <2>1. UNCHANGED <<claims, status, delivered, head, cpc>>
    BY <1>2 DEF CasTail, consumer
  <2> QED
    BY <2>1, QueueQuiet DEF First
<1> QED
  BY <1>1, <1>2

LEMMA PublishRefines ==
  ASSUME IInv, IInv', NEW p \in Producers, Publish(p)
  PROVE  \E k \in DOMAIN ChannelQueue : Channel!MakeReady(k)
<1>1. QueueShape /\ QueueShape'
  BY QueueShaped, QueueShapedNext
<1>2. /\ status' = [status EXCEPT ![old[p]] = FULL] /\ UNCHANGED <<claims, delivered, head, cpc>>
      /\ p \in Writing
  BY DEF Publish, consumer, history, Writing
<1>3. First' = First
  BY <1>2 DEF First
<1>4. status[old[p]] = EMPTY
  BY <1>2 DEF IInv, RingInv, WriterInv
<1>5. PICK k \in DOMAIN claims : Place(p, k)
  BY <1>2 DEF IInv, RingInv, WriterInv
<1>6. k \in DOMAIN ChannelQueue /\ ~ChannelQueue[k].ready
  <2>1. Ready(k) = FALSE
    BY <1>4, <1>5 DEF Ready, Place, EMPTY, FULL
  <2>2. ChannelQueue[k] = [msg |-> claims[k], ready |-> Ready(k)]
    BY <1>1 DEF QueueShape
  <2> QED
    BY <1>1, <2>1, <2>2 DEF QueueShape
<1>7. ChannelQueue' = [ChannelQueue EXCEPT ![k] = [msg |-> @.msg, ready |-> TRUE]]
  <2> DEFINE Q == [ChannelQueue EXCEPT ![k] = [msg |-> @.msg, ready |-> TRUE]]
  <2>0. PICK n \in Nat : n = Len(claims) /\ DOMAIN claims = 1 .. n
    BY DEF IInv, TypeOK
  <2>1. ChannelQueue[k] = [msg |-> claims[k], ready |-> Ready(k)] /\ claims[k] \in Msg
    BY <1>1, ClaimType DEF QueueShape, IInv
  <2>2. ChannelQueue[k].msg = claims[k]
    BY <2>1
  <2>3. Q = [ChannelQueue EXCEPT ![k] = [msg |-> claims[k], ready |-> TRUE]]
    BY <2>2
  <2>4. k \in 1 .. Len(ChannelQueue) /\ [msg |-> claims[k], ready |-> TRUE] \in ChannelPlace
    BY <1>1, <2>0, <2>1 DEF QueueShape, ChannelPlace
  <2>5. /\ Q \in Seq(ChannelPlace) /\ Len(Q) = n
        /\ \A j \in 1 .. n : Q[j] = IF j = k THEN [msg |-> claims[k], ready |-> TRUE] ELSE ChannelQueue[j]
    <3>1. /\ Q \in Seq(ChannelPlace) /\ Len(Q) = Len(ChannelQueue)
          /\ \A j \in 1 .. Len(ChannelQueue) :
               Q[j] = IF j = k THEN [msg |-> claims[k], ready |-> TRUE] ELSE ChannelQueue[j]
      <4>1. ChannelQueue \in Seq(ChannelPlace)
        BY <1>1 DEF QueueShape
      <4> DEFINE e == [msg |-> claims[k], ready |-> TRUE]
      <4>2. e \in ChannelPlace
        BY <2>4
      <4> HIDE DEF e
      <4>3. /\ [ChannelQueue EXCEPT ![k] = e] \in Seq(ChannelPlace)
            /\ Len([ChannelQueue EXCEPT ![k] = e]) = Len(ChannelQueue)
            /\ \A j \in 1 .. Len(ChannelQueue) :
                 [ChannelQueue EXCEPT ![k] = e][j] = IF j = k THEN e ELSE ChannelQueue[j]
        BY <2>4, <4>1, <4>2, ExceptSeq
      <4>4. Q = [ChannelQueue EXCEPT ![k] = e]
        BY <2>3 DEF e
      <4> HIDE DEF Q
      <4>5. /\ Q \in Seq(ChannelPlace) /\ Len(Q) = Len(ChannelQueue)
            /\ \A j \in 1 .. Len(ChannelQueue) : Q[j] = IF j = k THEN e ELSE ChannelQueue[j]
        BY <4>3, <4>4
      <4> QED
        BY <4>5 DEF e
    <3>2. Len(ChannelQueue) = n
      BY <1>1, <2>0 DEF QueueShape
    <3> HIDE DEF Q
    <3> QED
      BY <3>1, <3>2
  <2>6. ChannelQueue' \in Seq(ChannelPlace) /\ Len(ChannelQueue') = n
    BY <1>1, <1>2, <2>0 DEF QueueShape, ChannelPlace
  <2>7. \A j \in 1 .. n : ChannelQueue'[j] = Q[j]
    <3>1. TAKE j \in 1 .. n
    <3>2. /\ ChannelQueue[j] = [msg |-> claims[j], ready |-> Ready(j)]
          /\ ChannelQueue'[j] = [msg |-> claims[j], ready |-> Ready(j)']
      BY <1>1, <1>2, <2>0 DEF QueueShape
    <3>3. Pos(First, j) \in Slots /\ Pos(First, k) = old[p]
      BY <1>5, <2>0, PlaceSlot DEF IInv, Place
    <3>4. CASE j = k
      <4>1. Ready(j)' = TRUE
        BY <1>2, <1>3, <3>3, <3>4 DEF Ready, IInv, TypeOK
      <4> QED
        BY <2>5, <3>2, <3>4, <4>1
    <3>5. CASE j # k
      <4>1. Pos(First, j) # old[p]
        BY <2>0, <3>3, <3>5, OnePlace DEF IInv
      <4>2. Ready(j)' = Ready(j)
        BY <1>2, <1>3, <3>3, <4>1 DEF Ready, IInv, TypeOK
      <4> QED
        BY <2>5, <3>2, <3>5, <4>2
    <3> QED
      BY <3>4, <3>5
  <2> HIDE DEF Q
  <2>8. ChannelQueue' = Q
    BY <2>5, <2>6, <2>7, SeqEqual
  <2> QED
    BY <2>8 DEF Q
<1> QED
  BY <1>2, <1>6, <1>7 DEF Channel!MakeReady

LEMMA ReleaseRefines ==
  ASSUME IInv, IInv', PopRelease
  PROVE  Channel!Deliver
<1>1. QueueShape /\ QueueShape'
  BY QueueShaped, QueueShapedNext
<1>2. PICK n \in 1 .. Cap : n = Len(claims)
  BY ReleaseEffect
<1>3. /\ DOMAIN claims = 1 .. n /\ DOMAIN claims' = 1 .. n - 1 /\ Len(claims') = n - 1
      /\ \A k \in 1 .. n - 1 : claims'[k] = claims[k + 1] /\ k + 1 \in 1 .. n
  BY <1>2, ReleaseEffect
<1>4. /\ delivered' = Append(delivered, <<claims[1], claims[1]>>)
      /\ status' = [status EXCEPT ![head] = EMPTY] /\ status[head] = FULL
      /\ First = head /\ head \in Slots /\ First' = Succ(head) /\ 1 \in DOMAIN claims
  BY ReleaseEffect
<1>5. Pos(head, 1) = head
  BY <1>4, PosFirst
<1>6. ChannelQueue[1] = [msg |-> claims[1], ready |-> TRUE]
  <2>1. Ready(1) = TRUE
    BY <1>4, <1>5 DEF Ready
  <2> QED
    BY <1>1, <1>4, <2>1 DEF QueueShape
<1>7. ChannelQueue # <<>>
  <2>1. Len(ChannelQueue) = n /\ n # 0
    BY <1>1, <1>2, RingAssumption DEF QueueShape
  <2> QED
    BY <1>1, <2>1, EmptySeq
<1>8. /\ Tail(ChannelQueue) \in Seq(ChannelPlace) /\ Len(Tail(ChannelQueue)) = n - 1
      /\ \A k \in 1 .. n - 1 : Tail(ChannelQueue)[k] = ChannelQueue[k + 1]
  BY <1>1, <1>2, <1>7, HeadTailProperties DEF QueueShape
<1>9. ChannelQueue' \in Seq(ChannelPlace) /\ Len(ChannelQueue') = n - 1
  BY <1>1, <1>3 DEF QueueShape, ChannelPlace
<1>10. \A k \in 1 .. n - 1 : ChannelQueue'[k] = Tail(ChannelQueue)[k]
  <2>1. TAKE k \in 1 .. n - 1
  <2>2. /\ k \in DOMAIN claims' /\ k + 1 \in DOMAIN claims /\ claims'[k] = claims[k + 1]
        /\ k \in 1 .. Cap /\ k + 1 # 1
    BY <1>3, RingAssumption
  <2>3. Pos(First', k) = Pos(First, k + 1)
    BY <1>4, <2>2, PosStep
  <2>4. Pos(First, k + 1) \in Slots /\ Pos(First, k + 1) # head
    BY <1>4, <1>5, <2>2, PlaceSlot, OnePlace DEF IInv
  <2>5. Ready(k)' = Ready(k + 1)
    BY <1>4, <2>3, <2>4 DEF Ready, IInv, TypeOK
  <2>6. ChannelQueue'[k] = [msg |-> claims'[k], ready |-> Ready(k)']
    BY <1>1, <2>2 DEF QueueShape
  <2>7. ChannelQueue[k + 1] = [msg |-> claims[k + 1], ready |-> Ready(k + 1)]
    BY <1>1, <2>2 DEF QueueShape
  <2> QED
    BY <1>8, <2>2, <2>5, <2>6, <2>7
<1>11. ChannelQueue' = Tail(ChannelQueue)
  BY <1>8, <1>9, <1>10, SeqEqual
<1> QED
  BY <1>4, <1>6, <1>7, <1>11 DEF Channel!Deliver

LEMMA StepRefines ==
  IInv /\ IInv' /\ OrderInv /\ [Next]_vars => [Channel!Next]_<<ChannelQueue, delivered>>
<1> SUFFICES ASSUME IInv, IInv', OrderInv, [Next]_vars
             PROVE  Channel!Next \/ UNCHANGED <<ChannelQueue, delivered>>
  OBVIOUS
<1>1. ASSUME NEW p \in alive, ProducerStep(p)
      PROVE  Channel!Next \/ UNCHANGED <<ChannelQueue, delivered>>
  <2>0. p \in Producers
    BY DEF IInv, TypeOK
  <2>1. CASE CasTail(p)
    <3>1. tail = old[p] => Frame(p) \in Channel!Message
      BY <2>0, <2>1, ClaimEffect DEF Channel!Message, Msg
    <3>2. tail # old[p] => UNCHANGED <<ChannelQueue, delivered>>
      <4>1. tail # old[p] => UNCHANGED <<claims, status, delivered, head, cpc>>
        BY <2>1 DEF CasTail, consumer
      <4> QED
        BY <4>1, QueueQuiet DEF First
    <3> QED
      BY <2>0, <2>1, <3>1, <3>2, ClaimRefines DEF Channel!Next
  <2>2. CASE Publish(p)
    BY <2>0, <2>2, PublishRefines DEF Channel!Next
  <2>3. CASE ~CasTail(p) /\ ~Publish(p)
    <3>1. UNCHANGED <<claims, status, delivered, head, cpc>>
      BY <1>1, <2>3 DEF ProducerStep, Push, LoadCount, PushFull, CasCount, LoadTail, WriteHeader,
                        WritePayload, Retry, GiveUp, Crash, shared, consumer, history
    <3> QED
      BY <3>1, QueueQuiet DEF First
  <2> QED
    BY <2>1, <2>2, <2>3
<1>2. ASSUME Pop PROVE Channel!Next \/ UNCHANGED <<ChannelQueue, delivered>>
  <2>1. CASE PopRelease
    BY <2>1, ReleaseRefines DEF Channel!Next
  <2>2. CASE ~PopRelease
    <3>1. UNCHANGED <<claims, status, delivered>>
      BY <1>2, <2>2 DEF Pop, PopBegin, PopTransient, PopFull, PopHeader, PopPayload,
                        PopAdvance, PopUncount, shared, history
    <3>2. First' = First
      BY <1>2, <2>2 DEF Pop, PopBegin, PopTransient, PopFull, PopHeader, PopPayload,
                        PopAdvance, PopUncount, shared, First
    <3> QED
      BY <3>1, <3>2, QueueQuiet
  <2> QED
    BY <2>1, <2>2
<1>3. CASE UNCHANGED vars
  <2>1. UNCHANGED <<claims, status, delivered, head, cpc>>
    BY <1>3 DEF vars, shared, consumer, history
  <2> QED
    BY <2>1, QueueQuiet DEF First
<1> QED
  BY <1>1, <1>2, <1>3 DEF Next

(***************************************************************************)
(* The lock-free ring implements the bounded FIFO channel: what push and   *)
(* pop do is a claim, a publication and a delivery, whole and in order.    *)
(***************************************************************************)
THEOREM RingImplementsChannel == Spec => ImplementsChannel
<1>1. Init => Channel!Init
  <2> SUFFICES ASSUME Init PROVE ChannelQueue = <<>> /\ delivered = <<>>
    BY DEF Channel!Init
  <2>1. QueueShape /\ claims = <<>> /\ delivered = <<>>
    BY InitInv, QueueShaped DEF Init
  <2>2. Len(ChannelQueue) = 0
    BY <2>1 DEF QueueShape
  <2> QED
    BY <2>1, <2>2, EmptySeq DEF QueueShape
<1> QED
  BY <1>1, StepRefines, Invariance, OrderInvariance, PTL DEF Spec, ImplementsChannel, Channel!Spec

(***************************************************************************)
(* The collector's look at the ring.                                       *)
(***************************************************************************)
\* A scan runs between two pops, so head stays where it is from the first byte
\* read until the pop that follows; a head slot seen FULL stays FULL until then.
ProbeInv ==
  /\ probe \in [at : {"none", "scan", "done"}, cnt : Int, full : Nat, i : Nat]
  /\ probe.cnt <= Cap
  /\ probe.full <= probe.i
  /\ probe.at = "none" => probe.i = 0
  /\ probe.at = "scan" => cpc = "idle" /\ probe.i < ScanLimit
  /\ probe.at = "done" => cpc \notin {"advance", "uncount"}
  /\ probe.at = "done" /\ probe.cnt > 0 => probe.i = ScanLimit
  /\ probe.i > 0 /\ probe.full = probe.i => status[head] = FULL

LEMMA ProbeNextSteps == [ProbeNext]_<<vars, probe>> => [Next]_vars
  BY DEF ProbeNext, ProbeRead, ProbeScan, ProbedPop, Next

LEMMA ProbeInitInv == ProbeInit => ProbeInv
  BY RingAssumption DEF ProbeInit, Init, NoProbe, ProbeInv

\* A producer takes neither head nor a published slot from the consumer.
LEMMA ProducerKeepsFull ==
  ASSUME TypeOK, NEW p \in alive, ProducerStep(p)
  PROVE  UNCHANGED <<cpc, head>> /\ (status[head] = FULL => status'[head] = FULL)
<1>1. UNCHANGED <<cpc, head>>
  BY DEF ProducerStep, Push, LoadCount, PushFull, CasCount, LoadTail, CasTail, WriteHeader,
         WritePayload, Publish, Retry, GiveUp, Crash, shared, consumer
<1>2. status' = status \/ status' = [status EXCEPT ![old[p]] = FULL]
  BY DEF ProducerStep, Push, LoadCount, PushFull, CasCount, LoadTail, CasTail, WriteHeader,
         WritePayload, Publish, Retry, GiveUp, Crash, shared
<1> QED
  BY <1>1, <1>2 DEF TypeOK

LEMMA ProbeStep ==
  ASSUME IInv, ProbeInv, [ProbeNext]_<<vars, probe>>
  PROVE  ProbeInv'
<1>0. TypeOK /\ count <= Cap /\ count \in Int /\ head \in Slots /\ Cap \in Nat \ {0}
  BY RingAssumption DEF IInv, TypeOK, CountInv
<1>1. CASE ProbeRead
  <2>1. UNCHANGED <<cpc, head, status>>
    BY <1>1 DEF ProbeRead, vars, shared, consumer
  <2>2. /\ cpc = "idle" /\ probe'.cnt = count /\ probe'.full = 0 /\ probe'.i = 0
        /\ probe'.at = IF count <= 0 THEN "done" ELSE "scan"
    BY <1>1 DEF ProbeRead
  <2>3. probe' \in [at : {"none", "scan", "done"}, cnt : Int, full : Nat, i : Nat]
    BY <1>0, <1>1 DEF ProbeRead
  <2> QED
    BY <1>0, <2>1, <2>2, <2>3 DEF ProbeInv, ScanLimit
<1>2. CASE ProbeScan
  <2>1. UNCHANGED <<cpc, head, status>>
    BY <1>2 DEF ProbeScan, vars, shared, consumer
  <2> DEFINE b == IF status[(head + probe.i) % Cap] = FULL THEN 1 ELSE 0
  <2>2. probe' = [probe EXCEPT !.i = probe.i + 1, !.full = @ + b,
                               !.at = IF probe.i + 1 = ScanLimit THEN "done" ELSE @]
    BY <1>2 DEF ProbeScan
  <2> HIDE DEF b
  <2>3. b \in {0, 1} /\ (probe.i = 0 /\ b = 1 => status[head] = FULL)
    BY <1>0 DEF b, Slots, ProbeInv
  <2>4. probe.at = "scan" /\ cpc = "idle" /\ probe.i < ScanLimit /\ ScanLimit = probe.cnt
    BY <1>0, <1>2 DEF ProbeScan, ProbeInv, ScanLimit
  <2>5. /\ probe'.cnt = probe.cnt /\ probe'.i = probe.i + 1 /\ probe'.full = probe.full + b
        /\ probe'.at = IF probe.i + 1 = ScanLimit THEN "done" ELSE "scan"
    BY <2>2, <2>4, <1>2 DEF ProbeScan, ProbeInv
  <2>6. ScanLimit' = ScanLimit
    BY <2>5 DEF ScanLimit
  <2>7. probe' = [at |-> probe'.at, cnt |-> probe'.cnt, full |-> probe'.full, i |-> probe'.i]
    BY <2>2 DEF ProbeInv
  <2>8. /\ probe'.at \in {"none", "scan", "done"} /\ probe'.cnt \in Int
        /\ probe'.full \in Nat /\ probe'.i \in Nat
    BY <2>3, <2>5 DEF ProbeInv
  <2>9. probe' \in [at : {"none", "scan", "done"}, cnt : Int, full : Nat, i : Nat]
    BY <2>7, <2>8
  <2> QED
    BY <1>0, <2>1, <2>3, <2>4, <2>5, <2>6, <2>9 DEF ProbeInv
<1>3. CASE ProbedPop
  <2>1. CASE PopRelease \/ PopTransient
    <3>1. probe' = NoProbe
      BY <1>3, <2>1 DEF ProbedPop
    <3> QED
      BY <3>1, <1>0 DEF ProbeInv, NoProbe
  <2>2. CASE ~(PopRelease \/ PopTransient)
    <3>1. probe' = probe /\ probe.at # "scan" /\ Pop
      BY <1>3, <2>2 DEF ProbedPop
    <3>2. UNCHANGED status
      BY <2>2, <3>1 DEF Pop, PopBegin, PopFull, PopHeader, PopPayload, PopAdvance, PopUncount,
                        shared
    <3>3. \/ cpc \in {"advance", "uncount"}
          \/ UNCHANGED head /\ cpc' \notin {"advance", "uncount"}
      BY <2>2, <3>1 DEF Pop, PopBegin, PopFull, PopHeader, PopPayload, PopAdvance, PopUncount,
                        shared
    <3>4. probe.at = "done" => UNCHANGED head /\ cpc' \notin {"advance", "uncount"}
      BY <3>3 DEF ProbeInv
    <3>5. UNCHANGED ScanLimit
      BY <3>1 DEF ScanLimit
    <3> QED
      BY <3>1, <3>2, <3>4, <3>5 DEF ProbeInv
  <2> QED
    BY <2>1, <2>2
<1>4. ASSUME NEW p \in alive, ProducerStep(p), UNCHANGED probe PROVE ProbeInv'
  <2>1. UNCHANGED <<cpc, head>> /\ (status[head] = FULL => status'[head] = FULL)
    BY <1>0, <1>4, ProducerKeepsFull
  <2>2. UNCHANGED ScanLimit
    BY <1>4 DEF ScanLimit
  <2> QED
    BY <1>4, <2>1, <2>2 DEF ProbeInv
<1>5. CASE UNCHANGED <<vars, probe>>
  BY <1>5 DEF ProbeInv, ScanLimit, vars, shared, consumer
<1> QED
  BY <1>1, <1>2, <1>3, <1>4, <1>5 DEF ProbeNext

(***************************************************************************)
(* "ring healthy, pop should get a frame" (ring_shm.py): when the          *)
(* collector has counted as many published slots as the ring's count, the  *)
(* pop that follows does not come back empty-handed, although the scan     *)
(* races with the producers.                                               *)
(***************************************************************************)
THEOREM HealthyPops == ProbeSpec => HealthyMeansPop
<1>1. IInv /\ ProbeInv => (Healthy /\ cpc = "status" => ~PopTransient)
  BY RingAssumption DEF ProbeInv, Healthy, ScanLimit, PopTransient
<1>2. ProbeInit => IInv /\ ProbeInv
  BY InitInv, ProbeInitInv DEF ProbeInit
<1>3. IInv /\ ProbeInv /\ [ProbeNext]_<<vars, probe>> => (IInv /\ ProbeInv)'
  BY ProbeNextSteps, StepInv, ProbeStep
<1> QED
  BY <1>1, <1>2, <1>3, PTL DEF ProbeSpec, HealthyMeansPop
==============================================================================
