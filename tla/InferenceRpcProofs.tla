-------------------------- MODULE InferenceRpcProofs --------------------------
(***************************************************************************)
(* Proofs about InferenceRpc, for any number of clients, any size of a     *)
(* batch and any number of requests and updates.                           *)
(*                                                                         *)
(* Two things are followed through the queues.  The weights: the pipe of   *)
(* the request queue and the owner's outbox behind it hold, in order, the  *)
(* updates the network has not met yet, each newer than what it holds.     *)
(* The request itself: until an actor plays on, what it asked for is in    *)
(* one place only, a connection, an outbox, a queue, the batch or the rows *)
(* of it.  That place is the call RpcService speaks of, so every step is   *)
(* one of that service or is not seen by an actor.                         *)
(***************************************************************************)
EXTENDS InferenceRpc, SequenceTheorems, TLAPS

IsWeights(m) == m.type = "weights"

\* In a queue: the updates are in order; they are newer than lo and not than hi; those
\* of one queue are older than those of another.
Rising(s) ==
  \A i, j \in DOMAIN s : i < j /\ IsWeights(s[i]) /\ IsWeights(s[j]) => s[i].ver < s[j].ver
Within(s, lo, hi) == \A i \in DOMAIN s : IsWeights(s[i]) => lo < s[i].ver /\ s[i].ver <= hi
Before(s, t) ==
  \A i \in DOMAIN s : \A j \in DOMAIN t :
    IsWeights(s[i]) /\ IsWeights(t[j]) => s[i].ver < t[j].ver

\* What the network holds and what is still to be met.
Updates ==
  /\ netVer <= pushed /\ cache \in {NoVer, netVer}
  /\ Within(requestQ, netVer, pushed) /\ Within(outbox["owner"], netVer, pushed)
  /\ Rising(requestQ) /\ Rising(outbox["owner"]) /\ Before(requestQ, outbox["owner"])
  /\ \A p \in Producer \ {"owner"} : \A i \in DOMAIN outbox[p] : ~IsWeights(outbox[p][i])

Forwarded ==
  /\ \A i \in DOMAIN decoded : decoded[i].emb = netVer
  /\ decoded # <<>> => server = "decode"

\* The embedding of a row is as new as the row.
Current(r) == r.status = "ok" => r.row.emb = r.row.ver
Rows ==
  /\ \A k \in DOMAIN rows : Current(rows[k].reply)
  /\ \A c \in Client : \A i \in DOMAIN responseQ[c] : Current(responseQ[c][i])

Kinds == {"up", "outbox", "requestQ", "batch", "decoded", "rows", "responseQ", "down"}

\* The process that puts the requests of a client into the queue.
Writer(c) == IF c \in SocketClients THEN "server" ELSE c

\* The request of a client, or its answer, is the i-th item of a queue.
At(c, k, i) ==
  \/ k = "up" /\ c \in SocketClients /\ i \in DOMAIN up[c]
  \/ /\ k = "outbox" /\ i \in DOMAIN outbox[Writer(c)]
     /\ outbox[Writer(c)][i].type = "infer" /\ outbox[Writer(c)][i].client = c
  \/ k = "requestQ" /\ i \in DOMAIN requestQ /\ requestQ[i].type = "infer" /\ requestQ[i].client = c
  \/ k = "batch" /\ i \in DOMAIN batch /\ batch[i].client = c
  \/ k = "decoded" /\ i \in DOMAIN decoded /\ decoded[i].msg.client = c
  \/ k = "rows" /\ i \in DOMAIN rows /\ rows[i].client = c
  \/ k = "responseQ" /\ i \in DOMAIN responseQ[c]
  \/ k = "down" /\ c \in SocketClients /\ i \in DOMAIN down[c] /\ down[c][i].status # "stopping"

Single(c) ==
  \A k, l \in Kinds : \A i, j \in Nat : At(c, k, i) /\ At(c, l, j) => k = l /\ i = j
OnePlace == \A c \in Client : Single(c)
Empty(c) == \A k \in Kinds : \A i \in Nat : ~At(c, k, i)
NoPlace == \A c \in Client : actor[c] = "playing" => Empty(c)

\* What there is of a client is about its present request.
Id(c) == IF c \in SocketClients THEN turn[c] ELSE sent[c]
Asks(m, c) == m.obs = <<c, sent[c]>> /\ m.rid = Id(c)
Tells(r, c) ==
  r.rid = Id(c) /\ r.status # "mismatch" /\ (r.status = "ok" => r.row.obs = <<c, sent[c]>>)
MineAsked ==
  /\ \A c \in SocketClients : \A i \in DOMAIN up[c] : up[c][i].client = c /\ Asks(up[c][i], c)
  /\ \A p \in Producer : \A i \in DOMAIN outbox[p] : outbox[p][i].type = "infer" =>
       Writer(outbox[p][i].client) = p /\ Asks(outbox[p][i], outbox[p][i].client)
  /\ \A i \in DOMAIN requestQ : requestQ[i].type = "infer" => Asks(requestQ[i], requestQ[i].client)
MineTaken ==
  /\ \A i \in DOMAIN batch : Asks(batch[i], batch[i].client)
  /\ \A i \in DOMAIN decoded : Asks(decoded[i].msg, decoded[i].msg.client)
MineTold ==
  /\ \A i \in DOMAIN rows : Tells(rows[i].reply, rows[i].client)
  /\ \A c \in Client : \A i \in DOMAIN responseQ[c] : Tells(responseQ[c][i], c)
  /\ \A c \in SocketClients : \A i \in DOMAIN down[c] :
       down[c][i].status # "stopping" => Tells(down[c][i], c)
Mine == MineAsked /\ MineTaken /\ MineTold

Turns == \A c \in Client : turn[c] <= sent[c]

\* The invariant: how new the weights are, and where the requests are.
Fresh == TypeOK /\ Turns /\ Updates /\ Forwarded /\ Rows
Whole == OnePlace /\ NoPlace /\ Mine /\ OwnRow /\ NoStaleReply
IInv  == Fresh /\ Whole

\* A tuple of variables that many actions leave alone.
USE DEF queues

(***************************************************************************)
(* Queues                                                                  *)
(***************************************************************************)
LEMMA Appended ==
  ASSUME NEW S, NEW s \in Seq(S), NEW e \in S
  PROVE  /\ Append(s, e) \in Seq(S) /\ Append(s, e) # <<>> /\ Len(s) \in Nat
         /\ DOMAIN s = 1 .. Len(s) /\ DOMAIN Append(s, e) = 1 .. (Len(s) + 1)
         /\ \A i \in DOMAIN s : Append(s, e)[i] = s[i]
         /\ Append(s, e)[Len(s) + 1] = e
BY AppendProperties, LenProperties

LEMMA Removed ==
  ASSUME NEW S, NEW s \in Seq(S), s # <<>>
  PROVE  /\ Head(s) \in S /\ Head(s) = s[1] /\ Tail(s) \in Seq(S) /\ Len(s) \in Nat \ {0}
         /\ DOMAIN s = 1 .. Len(s) /\ DOMAIN Tail(s) = 1 .. (Len(s) - 1)
         /\ \A i \in DOMAIN Tail(s) : Tail(s)[i] = s[i + 1]
BY HeadTailProperties, LenProperties, EmptySeq

LEMMA Kinds3 ==
  \A m \in Queued : \/ m.type = "infer" /\ m \in Message
                    \/ m.type = "weights" /\ m.ver \in Version
                    \/ m.type = "stop"
BY DEF Queued, Message, Stop

LEMMA Replies ==
  ASSUME NEW m, m.rid \in 0 .. MaxRequests,
         NEW s \in {"ok", "miss", "failed", "stopping", "mismatch"}, NEW r \in Row
  PROVE  /\ Reply(m, s, r) \in Response /\ Reply(m, s, r).status = s
         /\ Reply(m, s, r).rid = m.rid /\ Reply(m, s, r).row = r
BY DEF Reply, Response

(***************************************************************************)
(* Types                                                                   *)
(***************************************************************************)
LEMMA InitTypes == Init => TypeOK /\ Turns
<1> SUFFICES ASSUME Init PROVE TypeOK /\ Turns
  OBVIOUS
<1> USE RpcAssumption
<1>1. \A S : <<>> \in Seq(S)
  BY EmptySeq
<1>2. 0 \in 0 .. MaxRequests /\ 0 \in Version
  BY DEF Version
<1>3. /\ requestQ \in Seq(Queued) /\ responseQ \in [Client -> Seq(Response)]
      /\ outbox \in [Producer -> Seq(Queued)]
      /\ up \in [SocketClients -> Seq(Message)] /\ down \in [SocketClients -> Seq(Response)]
      /\ batch \in Seq(Message) /\ decoded \in Seq([msg : Message, emb : Version])
      /\ rows \in Seq([client : Client, reply : Response])
  BY <1>1 DEF Init
<1>4. result \in [Client -> Returned]
  BY DEF Init, Returned
<1>5. TypeOK
  BY <1>2, <1>3, <1>4 DEF Init, TypeOK
<1>6. QED
  BY <1>2, <1>5 DEF Init, Turns

\* One outbox is longer by a message, the others are what they were.
LEMMA PutTypes2 ==
  ASSUME TypeOK, NEW p \in Producer, NEW m \in Queued, PutRequest(p, m)
  PROVE  /\ outbox' \in [Producer -> Seq(Queued)] /\ outbox[p] \in Seq(Queued)
         /\ requestQ' = requestQ
         /\ outbox'[p] = Append(outbox[p], m) /\ \A q \in Producer \ {p} : outbox'[q] = outbox[q]
BY Appended DEF TypeOK, PutRequest

\* The first message of an outbox goes to the end of the pipe.
LEMMA FeedTypes ==
  ASSUME TypeOK, NEW p \in Producer, Feed(p)
  PROVE  /\ TypeOK' /\ outbox[p] # <<>> /\ outbox[p] \in Seq(Queued) /\ Head(outbox[p]) \in Queued
         /\ requestQ' = Append(requestQ, Head(outbox[p]))
         /\ outbox'[p] = Tail(outbox[p]) /\ \A q \in Producer \ {p} : outbox'[q] = outbox[q]
<1>1. outbox[p] # <<>> /\ outbox[p] \in Seq(Queued) /\ outbox' = [outbox EXCEPT ![p] = Tail(@)]
      /\ requestQ' = Append(requestQ, Head(outbox[p]))
  BY DEF Feed, TypeOK
<1>2. Head(outbox[p]) \in Queued /\ Tail(outbox[p]) \in Seq(Queued)
  BY <1>1, Removed
<1>3. outbox' \in [Producer -> Seq(Queued)] /\ requestQ' \in Seq(Queued)
  BY <1>1, <1>2, Appended DEF TypeOK
<1>4. TypeOK'
  BY <1>3 DEF Feed, TypeOK, owner, loop, weights, work, actors, sockets
<1>5. QED
  BY <1>1, <1>2, <1>4 DEF TypeOK

LEMMA OwnerTypes ==
  ASSUME TypeOK, Started \/ UpdateNetwork \/ StopServer \/ Reap PROVE TypeOK'
<1> USE RpcAssumption
<1>1. CASE Started
  BY <1>1 DEF Started, TypeOK, loop, weights, work, actors, sockets
<1>2. CASE UpdateNetwork
  <2>1. pushed' \in Version /\ Weights(pushed + 1) \in Queued
    BY <1>2 DEF UpdateNetwork, TypeOK, Version, Weights, Queued
  <2>2. outbox' \in [Producer -> Seq(Queued)] /\ requestQ' = requestQ
    BY <1>2, <2>1, PutTypes2 DEF UpdateNetwork, Producer
  <2>3. QED
    BY <1>2, <2>1, <2>2 DEF UpdateNetwork, TypeOK, loop, weights, work, actors, sockets
<1>3. CASE StopServer
  <2>1. outbox' \in [Producer -> Seq(Queued)] /\ requestQ' = requestQ
    BY <1>3, PutTypes2 DEF StopServer, Producer, Queued
  <2>2. QED
    BY <1>3, <2>1 DEF StopServer, TypeOK, loop, weights, work, actors, sockets
<1>4. CASE Reap
  BY <1>4 DEF Reap, TypeOK, owner, weights, work, actors
<1>5. QED
  BY <1>1, <1>2, <1>3, <1>4

LEMMA QuietTypes ==
  ASSUME TypeOK,
         ServerReady \/ ServerFails \/ Poll \/ GetEmpty \/ BatchClosed \/ ServerExit
  PROVE  TypeOK'
<1>1. CASE ServerReady
  BY <1>1 DEF ServerReady, TypeOK, owner, weights, work, actors, sockets
<1>2. CASE ServerFails
  BY <1>2 DEF ServerFails, TypeOK, owner, weights, work, actors
<1>3. CASE Poll \/ GetEmpty
  BY <1>3 DEF Poll, GetEmpty, TypeOK, owner, weights, work, actors, sockets
<1>4. CASE BatchClosed
  BY <1>4 DEF BatchClosed, TypeOK, owner, weights, work, actors, sockets
<1>5. CASE ServerExit
  BY <1>5 DEF ServerExit, TypeOK, owner, weights, work, actors
<1>6. QED
  BY <1>1, <1>2, <1>3, <1>4, <1>5

LEMMA QueueTypes == ASSUME TypeOK, Get \/ Fill PROVE TypeOK'
<1>1. /\ requestQ # <<>> /\ requestQ' = Tail(requestQ)
      /\ UNCHANGED <<outbox, parent, pushed, ready, decoded, rows, responseQ, actor, sent, turn, result,
                     handler, up, down>>
  BY DEF Get, Fill, owner, actors, sockets
<1>2. Head(requestQ) \in Queued /\ requestQ' \in Seq(Queued)
  BY <1>1, Removed DEF TypeOK
<1>3. server' \in {"head", "get", "fill", "decode", "dispatch", "done", "gone"}
          /\ stopEvent' \in BOOLEAN
  BY DEF Get, Fill, TypeOK
<1>4. netVer' \in Version /\ cache' \in Version \cup {NoVer} /\ batch' \in Seq(Message)
  <2>1. CASE Head(requestQ).type = "infer"
    <3>1. UNCHANGED weights /\ (batch' = <<Head(requestQ)>> \/ batch' = Append(batch, Head(requestQ)))
      BY <2>1 DEF Get, Fill
    <3>2. Head(requestQ) \in Message
      BY <1>2, <2>1, Kinds3
    <3>3. <<Head(requestQ)>> \in Seq(Message) /\ Append(batch, Head(requestQ)) \in Seq(Message)
      BY <3>2, Appended DEF TypeOK
    <3>4. batch' \in Seq(Message)
      BY <3>1, <3>3
    <3>5. QED
      BY <3>1, <3>4 DEF TypeOK, weights
  <2>2. CASE Head(requestQ).type # "infer"
    BY <1>2, <2>2, Kinds3 DEF Get, Fill, LoadWeights, weights, TypeOK
  <2>3. QED
    BY <2>1, <2>2
<1>5. QED
  BY <1>1, <1>2, <1>3, <1>4 DEF TypeOK

LEMMA PutTypes ==
  ASSUME TypeOK, NEW c \in Client, NEW r \in Response, Put(c, r)
  PROVE  responseQ' \in [Client -> Seq(Response)]
BY Appended DEF TypeOK, Put

LEMMA MessageParts ==
  ASSUME NEW m \in Message
  PROVE  /\ m.client \in Client /\ m.rid \in 0 .. MaxRequests
         /\ m.obs \in Client \X (1 .. MaxRequests) /\ m.type = "infer"
BY RpcAssumption DEF Message

LEMMA DecodeTypes == ASSUME TypeOK, Decode PROVE TypeOK'
<1> USE RpcAssumption
<1>1. /\ batch # <<>> /\ batch' = Tail(batch)
      /\ UNCHANGED <<parent, pushed, stopEvent, ready, server, netVer, rows, outbox, requestQ, actor,
                     sent, turn, result, handler, up, down>>
  BY DEF Decode, owner, actors, sockets
<1>2. Head(batch) \in Message /\ batch' \in Seq(Message)
  BY <1>1, Removed DEF TypeOK
<1>3. Embedding \in Version
  BY DEF Embedding, TypeOK
<1>4. cache' \in Version \cup {NoVer} /\ decoded' \in Seq([msg : Message, emb : Version])
  <2>1. CASE UNCHANGED <<cache, decoded>>
    BY <2>1 DEF TypeOK
  <2>2. CASE cache' = Embedding /\ decoded' = Append(decoded, [msg |-> Head(batch), emb |-> Embedding])
    BY <1>2, <1>3, <2>2, Appended DEF TypeOK
  <2>3. QED
    BY <2>1, <2>2 DEF Decode
<1>5. responseQ' \in [Client -> Seq(Response)]
  <2>1. CASE UNCHANGED responseQ
    BY <2>1 DEF TypeOK
  <2>2. CASE Put(Head(batch).client, Reply(Head(batch), "miss", NoRow))
    <3>1. Reply(Head(batch), "miss", NoRow) \in Response
      BY <1>2, MessageParts, Replies DEF Row
    <3>2. QED
      BY <1>2, <2>2, <3>1, MessageParts, PutTypes
  <2>3. QED
    BY <2>1, <2>2 DEF Decode
<1>6. QED
  BY <1>1, <1>2, <1>4, <1>5 DEF TypeOK

LEMMA OutcomeTypes ==
  ASSUME TypeOK, NEW k \in DOMAIN decoded, NEW ok \in BOOLEAN
  PROVE  /\ decoded[k] \in [msg : Message, emb : Version]
         /\ Outcome(k, ok) \in [client : Client, reply : Response]
<1>1. decoded[k] \in [msg : Message, emb : Version]
  <2>1. decoded \in Seq([msg : Message, emb : Version])
    BY DEF TypeOK
  <2>2. k \in 1 .. Len(decoded)
    BY <2>1, LenProperties
  <2>3. QED
    BY <2>1, <2>2, ElementOfSeq
<1>2. decoded[k].msg \in Message /\ decoded[k].emb \in Version
  BY <1>1
<1>3. OutputRow(k) \in Row /\ NoRow \in Row
  BY <1>2, MessageParts DEF OutputRow, Row, TypeOK
<1>4. /\ Reply(decoded[k].msg, "ok", OutputRow(k)) \in Response
      /\ Reply(decoded[k].msg, "failed", NoRow) \in Response
  BY <1>2, <1>3, MessageParts, Replies
<1>5. QED
  BY <1>1, <1>2, <1>4, MessageParts DEF Outcome

LEMMA ForwardTypes == ASSUME TypeOK, ForwardBatch \/ Dispatch PROVE TypeOK'
<1>1. CASE ForwardBatch
  <2>1. PICK ok \in BOOLEAN : rows' = [k \in 1 .. Len(decoded) |-> Outcome(k, ok)]
    BY <1>1 DEF ForwardBatch
  <2>2. Len(decoded) \in Nat /\ DOMAIN decoded = 1 .. Len(decoded)
    BY LenProperties DEF TypeOK
  <2>3. rows' \in Seq([client : Client, reply : Response])
    <3>1. \A k \in 1 .. Len(decoded) : Outcome(k, ok) \in [client : Client, reply : Response]
      BY <2>2, OutcomeTypes
    <3>2. QED
      BY <2>1, <2>2, <3>1, IsASeq
  <2>4. QED
    BY <1>1, <2>3 DEF ForwardBatch, TypeOK, owner, weights, actors, sockets
<1>2. CASE Dispatch
  <2>1. CASE rows = <<>>
    BY <1>2, <2>1 DEF Dispatch, TypeOK, owner, weights, actors, sockets
  <2>2. CASE rows # <<>>
    <3>1. Head(rows) \in [client : Client, reply : Response]
              /\ Tail(rows) \in Seq([client : Client, reply : Response])
      BY <2>2, Removed DEF TypeOK
    <3>2. responseQ' \in [Client -> Seq(Response)]
      BY <1>2, <2>2, <3>1, PutTypes DEF Dispatch
    <3>3. QED
      BY <1>2, <2>2, <3>1, <3>2 DEF Dispatch, TypeOK, owner, weights, actors, sockets
  <2>3. QED
    BY <2>1, <2>2
<1>3. QED
  BY <1>1, <1>2

LEMMA HandlerTypes == ASSUME TypeOK, NEW c \in SocketClients, HandlerStep(c) PROVE TypeOK'
<1> USE RpcAssumption
<1>0. c \in Client
  BY DEF Client
<1>1. CASE Forward(c)
  <2>1. Head(up[c]) \in Message /\ Tail(up[c]) \in Seq(Message)
    BY <1>1, Removed DEF Forward, TypeOK
  <2>2. outbox' \in [Producer -> Seq(Queued)] /\ requestQ' = requestQ
    BY <1>1, <2>1, PutTypes2 DEF Forward, Producer, Queued
  <2>3. QED
    BY <1>1, <2>1, <2>2 DEF Forward, TypeOK, owner, loop, weights, work, actors
<1>2. CASE TakeReply(c)
  <2>1. Head(responseQ[c]) \in Response /\ Tail(responseQ[c]) \in Seq(Response)
    BY <1>0, <1>2, Removed DEF TakeReply, TypeOK
  <2>2. Append(down[c], Head(responseQ[c])) \in Seq(Response)
    BY <2>1, Appended DEF TypeOK
  <2>3. down' \in [SocketClients -> Seq(Response)]
            /\ handler' \in [SocketClients -> {"reading", "waiting", "dead"}]
    BY <1>2, <2>2 DEF TakeReply, TypeOK
  <2>4. QED
    BY <1>2, <2>1, <2>3 DEF TakeReply, TypeOK, owner, loop, weights, work, actors
<1>3. CASE StopReply(c)
  <2>1. Reply([rid |-> turn[c]], "stopping", NoRow) \in Response
    BY <1>0, Replies DEF TypeOK, Row
  <2>2. Append(down[c], Reply([rid |-> turn[c]], "stopping", NoRow)) \in Seq(Response)
    BY <2>1, Appended DEF TypeOK
  <2>3. /\ down' \in [SocketClients -> Seq(Response)]
        /\ handler' \in [SocketClients -> {"reading", "waiting", "dead"}]
    BY <1>3, <2>2 DEF StopReply, TypeOK
  <2>4. UNCHANGED <<parent, pushed, stopEvent, ready, server, netVer, cache, batch, decoded, rows,
                    outbox, requestQ, responseQ, actor, sent, turn, result, up>>
    BY <1>3 DEF StopReply, owner, loop, weights, work, actors
  <2>5. QED
    BY <2>3, <2>4 DEF TypeOK
<1>4. QED
  BY <1>1, <1>2, <1>3 DEF HandlerStep

LEMMA ReturnTypes ==
  ASSUME TypeOK, NEW c \in Client, NEW r \in Returned, Return(c, r)
  PROVE  /\ result' \in [Client -> Returned] /\ UNCHANGED <<sent, turn>>
         /\ actor' \in [Client -> {"playing", "waiting", "ended"}]
BY DEF TypeOK, Return

LEMMA ActorTypes ==
  ASSUME TypeOK, Turns, NEW c \in Client,
         \/ Request(c) \/ NextEpisode(c) \/ Timeout(c)
         \/ c \in QueueClients /\ ReceiveQueue(c)
         \/ c \in SocketClients /\ (ReceiveSocket(c) \/ ConnectionLost(c))
  PROVE  TypeOK'
<1> USE RpcAssumption
<1>1. CASE Request(c)
  <2>1. sent[c] + 1 \in 1 .. MaxRequests /\ turn[c] + 1 \in 1 .. MaxRequests
    <3>1. sent[c] \in 0 .. MaxRequests /\ turn[c] \in 0 .. MaxRequests /\ turn[c] <= sent[c]
      BY DEF TypeOK, Turns
    <3>2. QED
      BY <1>1, <3>1 DEF Request
  <2> DEFINE m == Infer(c, sent[c] + 1, turn[c] = 0,
                        IF c \in SocketClients THEN turn[c] + 1 ELSE sent[c] + 1)
  <2>2. m \in Message
    BY <2>1 DEF Infer, Message, TypeOK
  <2>3. \/ up' = [up EXCEPT ![c] = Append(@, m)] /\ UNCHANGED queues /\ c \in SocketClients
        \/ c \notin SocketClients /\ PutRequest(c, m) /\ up' = up
    BY <1>1 DEF Request
  <2> HIDE DEF m
  <2>4. up' \in [SocketClients -> Seq(Message)] /\ outbox' \in [Producer -> Seq(Queued)]
        /\ requestQ' = requestQ
    <3>1. CASE up' = [up EXCEPT ![c] = Append(@, m)] /\ UNCHANGED queues /\ c \in SocketClients
      <4>1. Append(up[c], m) \in Seq(Message)
        BY <2>2, <3>1, Appended DEF TypeOK
      <4>2. QED
        BY <3>1, <4>1 DEF TypeOK
    <3>2. CASE c \notin SocketClients /\ PutRequest(c, m) /\ up' = up
      <4>1. m \in Queued /\ c \in Producer
        BY <2>2, <3>2 DEF Queued, Client, Producer
      <4>2. QED
        BY <3>2, <4>1, PutTypes2 DEF TypeOK
    <3>3. QED
      BY <2>3, <3>1, <3>2
  <2>5. /\ sent' \in [Client -> 0 .. MaxRequests] /\ turn' \in [Client -> 0 .. MaxRequests]
        /\ actor' \in [Client -> {"playing", "waiting", "ended"}]
        /\ result' \in [Client -> Returned]
    <3>1. /\ sent' = [sent EXCEPT ![c] = @ + 1] /\ turn' = [turn EXCEPT ![c] = @ + 1]
          /\ actor' = [actor EXCEPT ![c] = "waiting"] /\ result' = [result EXCEPT ![c] = NoResult]
      BY <1>1 DEF Request
    <3>2. \A x \in 1 .. MaxRequests : x \in 0 .. MaxRequests
      OBVIOUS
    <3>3. /\ sent' \in [Client -> 0 .. MaxRequests]
          /\ turn' \in [Client -> 0 .. MaxRequests]
      BY <2>1, <3>1, <3>2 DEF TypeOK
    <3> QED
      BY <3>1, <3>3 DEF TypeOK, Returned
  <2>6. QED
    BY <1>1, <2>4, <2>5 DEF Request, TypeOK, owner, loop, weights, work
<1>2. CASE NextEpisode(c)
  BY <1>2 DEF NextEpisode, TypeOK, owner, loop, weights, work, sockets
<1>3. CASE Timeout(c)
  <2>1. [status |-> "timeout"] \in Returned
    BY DEF Returned
  <2>2. QED
    BY <1>3, <2>1, ReturnTypes DEF Timeout, TypeOK, owner, loop, weights, work, sockets
<1>4. CASE ReceiveQueue(c)
  <2>1. Head(responseQ[c]) \in Response /\ Tail(responseQ[c]) \in Seq(Response)
    BY <1>4, Removed DEF ReceiveQueue, TypeOK
  <2>2. [Head(responseQ[c]) EXCEPT !.status = "mismatch"] \in Response
    BY <2>1 DEF Response
  <2>3. QED
    BY <1>4, <2>1, <2>2, ReturnTypes
       DEF ReceiveQueue, Returned, TypeOK, owner, loop, weights, work, sockets
<1>5. CASE c \in SocketClients /\ ReceiveSocket(c)
  <2>1. Head(down[c]) \in Response /\ Tail(down[c]) \in Seq(Response)
    BY <1>5, Removed DEF ReceiveSocket, TypeOK
  <2>2. QED
    BY <1>5, <2>1, ReturnTypes DEF ReceiveSocket, Returned, TypeOK, owner, loop, weights, work
<1>6. CASE c \in SocketClients /\ ConnectionLost(c)
  <2>1. [status |-> "lost"] \in Returned
    BY DEF Returned
  <2>2. QED
    BY <1>6, <2>1, ReturnTypes DEF ConnectionLost, TypeOK, owner, loop, weights, work, sockets
<1>7. QED
  BY <1>1, <1>2, <1>3, <1>4, <1>5, <1>6

(***************************************************************************)
(* The weights                                                             *)
(***************************************************************************)
LEMMA Versions ==
  ASSUME TypeOK PROVE pushed \in Int /\ netVer \in Int
BY RpcAssumption DEF TypeOK, Version

LEMMA QueuedTypes ==
  ASSUME NEW s \in Seq(Queued)
  PROVE  /\ \A i \in DOMAIN s : s[i] \in Queued /\ i \in Int
         /\ \A i \in DOMAIN s : IsWeights(s[i]) => s[i].ver \in Int
<1>1. \A i \in DOMAIN s : s[i] \in Queued /\ i \in Int
  BY ElementOfSeq, LenProperties
<1>2. Version \subseteq Int
  BY RpcAssumption DEF Version
<1>3. QED
  BY <1>1, <1>2, Kinds3, MessageParts DEF IsWeights

\* A message that is not an update joins a queue.
LEMMA OtherJoins ==
  ASSUME NEW s \in Seq(Queued), NEW m \in Queued, ~IsWeights(m)
  PROVE  /\ Rising(s) => Rising(Append(s, m))
         /\ \A lo, hi : Within(s, lo, hi) => Within(Append(s, m), lo, hi)
         /\ \A t : Before(t, s) => Before(t, Append(s, m))
         /\ \A t : Before(s, t) => Before(Append(s, m), t)
<1>1. \A i \in DOMAIN Append(s, m) :
        (i \in DOMAIN s /\ Append(s, m)[i] = s[i]) \/ Append(s, m)[i] = m
  BY Appended
<1>2. QED
  BY <1>1 DEF Rising, Within, Before

\* An update newer than all there are joins a queue.
LEMMA UpdateJoins ==
  ASSUME NEW s \in Seq(Queued), NEW m \in Queued, NEW lo \in Int, NEW hi \in Int,
         IsWeights(m), Rising(s), Within(s, lo, hi), lo < m.ver,
         \A i \in DOMAIN s : IsWeights(s[i]) => s[i].ver < m.ver
  PROVE  /\ Rising(Append(s, m))
         /\ \A top \in Int : hi <= top /\ m.ver <= top => Within(Append(s, m), lo, top)
<1>1. \A i \in DOMAIN Append(s, m) :
        \/ i \in DOMAIN s /\ Append(s, m)[i] = s[i] /\ i < Len(s) + 1
        \/ i = Len(s) + 1 /\ Append(s, m)[i] = m
  BY Appended
<1>2. Rising(Append(s, m))
  <2> SUFFICES ASSUME NEW i \in DOMAIN Append(s, m), NEW j \in DOMAIN Append(s, m), i < j,
                      IsWeights(Append(s, m)[i]), IsWeights(Append(s, m)[j])
               PROVE  Append(s, m)[i].ver < Append(s, m)[j].ver
    BY DEF Rising
  <2>1. i \in DOMAIN s /\ Append(s, m)[i] = s[i]
    BY Appended
  <2>2. CASE j \in DOMAIN s /\ Append(s, m)[j] = s[j]
    BY <2>1, <2>2 DEF Rising
  <2>3. CASE Append(s, m)[j] = m
    BY <2>1, <2>3
  <2>4. QED
    BY <1>1, <2>2, <2>3
<1>3. ASSUME NEW top \in Int, hi <= top, m.ver <= top PROVE Within(Append(s, m), lo, top)
  <2>1. \A i \in DOMAIN s : IsWeights(s[i]) => s[i].ver \in Int
    BY QueuedTypes
  <2>2. QED
    BY <1>1, <1>3, <2>1 DEF Within
<1>4. QED
  BY <1>2, <1>3

\* The first message leaves a queue.
LEMMA FirstLeaves ==
  ASSUME NEW s \in Seq(Queued), s # <<>>
  PROVE  /\ Rising(s) => Rising(Tail(s))
         /\ \A lo, hi : Within(s, lo, hi) => Within(Tail(s), lo, hi)
         /\ \A t : Before(s, t) => Before(Tail(s), t)
         /\ \A t : Before(t, s) => Before(t, Tail(s))
         /\ Head(s) \in Queued /\ 1 \in DOMAIN s /\ Head(s) = s[1]
         /\ Rising(s) /\ IsWeights(Head(s)) =>
              \A i \in DOMAIN Tail(s) : IsWeights(Tail(s)[i]) => Head(s).ver < Tail(s)[i].ver
<1>1. /\ Head(s) \in Queued /\ 1 \in DOMAIN s /\ Head(s) = s[1]
      /\ \A i \in DOMAIN Tail(s) : i \in Int /\ i + 1 \in DOMAIN s /\ Tail(s)[i] = s[i + 1]
             /\ 1 < i + 1
  BY Removed
<1>2. Rising(s) => Rising(Tail(s))
  BY <1>1 DEF Rising
<1>3. QED
  BY <1>1, <1>2 DEF Rising, Within, Before

\* An update is met: it is newer than the network and older than those behind it.
LEMMA UpdateMet ==
  ASSUME NEW s \in Seq(Queued), NEW t \in Seq(Queued), s # <<>>, IsWeights(Head(s)),
         NEW lo, NEW hi, Rising(s), Before(s, t), Within(s, lo, hi), Within(t, lo, hi)
  PROVE  /\ lo < Head(s).ver /\ Head(s).ver <= hi
         /\ Within(Tail(s), Head(s).ver, hi) /\ Within(t, Head(s).ver, hi)
<1>1. /\ Within(Tail(s), lo, hi) /\ 1 \in DOMAIN s /\ Head(s) = s[1]
      /\ \A i \in DOMAIN Tail(s) : IsWeights(Tail(s)[i]) => Head(s).ver < Tail(s)[i].ver
  BY FirstLeaves
<1>2. QED
  BY <1>1 DEF Within, Before

LEMMA InitFresh == Init => Fresh
<1> SUFFICES ASSUME Init PROVE Fresh
  OBVIOUS
<1>1. \A S : \A s \in Seq(S) : s = <<>> => DOMAIN s = {}
  BY LenProperties, EmptySeq
<1>2. TypeOK /\ Turns
  BY InitTypes
<1>3. /\ DOMAIN requestQ = {} /\ DOMAIN batch = {} /\ DOMAIN decoded = {} /\ DOMAIN rows = {}
      /\ \A p \in Producer : DOMAIN outbox[p] = {}
      /\ \A c \in SocketClients : DOMAIN up[c] = {}
      /\ \A c \in Client : DOMAIN responseQ[c] = {}
  BY <1>1, <1>2 DEF Init, TypeOK
<1>4. "owner" \in Producer
  BY DEF Producer
<1>5. Updates
  BY <1>3, <1>4, RpcAssumption DEF Init, Updates, Rising, Within, Before
<1>6. QED
  BY <1>2, <1>3, <1>5 DEF Init, Fresh, Forwarded, Rows

\* A step that leaves the weights, the queue and the forward alone.
LEMMA FreshUnchanged ==
  ASSUME Fresh, TypeOK', Turns',
         UNCHANGED <<pushed, netVer, cache, outbox, requestQ, decoded, rows>>,
         decoded # <<>> => server' = server,
         \A c \in Client : \A i \in DOMAIN responseQ'[c] : Current(responseQ'[c][i])
  PROVE  Fresh'
BY DEF Fresh, Updates, Forwarded, Rows, Current

\* A process puts a request, or the stop, into the queue.
LEMMA OtherPut ==
  ASSUME TypeOK, Updates, NEW p \in Producer, NEW m \in Queued, ~IsWeights(m), PutRequest(p, m),
         UNCHANGED <<pushed, netVer, cache>>
  PROVE  Updates'
<1>1. /\ outbox[p] \in Seq(Queued) /\ requestQ' = requestQ
      /\ outbox'[p] = Append(outbox[p], m) /\ \A q \in Producer \ {p} : outbox'[q] = outbox[q]
  BY PutTypes2
<1>2. "owner" \in Producer
  BY DEF Producer
<1>3. CASE p = "owner"
  BY <1>1, <1>3, OtherJoins DEF Updates
<1>4. CASE p # "owner"
  <2>1. outbox'["owner"] = outbox["owner"]
    BY <1>1, <1>2, <1>4
  <2>2. \A i \in DOMAIN outbox'[p] : (i \in DOMAIN outbox[p] /\ outbox'[p][i] = outbox[p][i])
                                    \/ outbox'[p][i] = m
    BY <1>1, Appended
  <2>3. \A q \in Producer \ {"owner"} : \A i \in DOMAIN outbox'[q] : ~IsWeights(outbox'[q][i])
    BY <1>1, <1>4, <2>2 DEF Updates
  <2>4. QED
    BY <1>1, <2>1, <2>3 DEF Updates
<1>5. QED
  BY <1>3, <1>4

\* The owner publishes weights.
LEMMA UpdatePut == ASSUME TypeOK, Updates, UpdateNetwork PROVE Updates'
<1> DEFINE m == Weights(pushed + 1)
           o == outbox["owner"]
<1>1. /\ PutRequest("owner", m) /\ pushed' = pushed + 1 /\ UNCHANGED <<netVer, cache>>
      /\ IsWeights(m) /\ m.ver = pushed + 1 /\ m \in Queued
  BY RpcAssumption DEF UpdateNetwork, loop, weights, Weights, IsWeights, Queued, TypeOK, Version
<1>2. "owner" \in Producer /\ pushed \in Int /\ netVer \in Int /\ netVer <= pushed
  BY Versions DEF Producer, Updates
<1> HIDE DEF m
<1>3. /\ o \in Seq(Queued) /\ requestQ' = requestQ /\ requestQ \in Seq(Queued)
      /\ outbox'["owner"] = Append(o, m) /\ \A q \in Producer \ {"owner"} : outbox'[q] = outbox[q]
  BY <1>1, <1>2, PutTypes2 DEF TypeOK
<1>4. /\ Within(o, netVer, pushed) /\ Within(requestQ, netVer, pushed) /\ Rising(o)
      /\ Rising(requestQ) /\ Before(requestQ, o)
  BY DEF Updates
<1> HIDE DEF o
<1>5. /\ \A i \in DOMAIN o : IsWeights(o[i]) => o[i].ver < m.ver
      /\ \A i \in DOMAIN requestQ : IsWeights(requestQ[i]) => requestQ[i].ver < m.ver
  BY <1>1, <1>2, <1>3, <1>4, QueuedTypes DEF Within
<1>6. Rising(Append(o, m)) /\ Within(Append(o, m), netVer, pushed + 1)
  BY <1>1, <1>2, <1>3, <1>4, <1>5, UpdateJoins
<1>7. Within(requestQ, netVer, pushed + 1)
  BY <1>2, <1>3, <1>4, QueuedTypes DEF Within
<1>8. Before(requestQ, Append(o, m))
  <2>1. \A i \in DOMAIN Append(o, m) :
          (i \in DOMAIN o /\ Append(o, m)[i] = o[i]) \/ Append(o, m)[i] = m
    BY <1>1, <1>3, Appended
  <2>2. QED
    BY <1>4, <1>5, <2>1 DEF Before
<1>9. \A p \in Producer \ {"owner"} : \A i \in DOMAIN outbox'[p] : ~IsWeights(outbox'[p][i])
  BY <1>3 DEF Updates
<1>10. netVer' <= pushed' /\ cache' \in {NoVer, netVer'}
  BY <1>1, <1>2 DEF Updates
<1>11. QED
  BY <1>1, <1>3, <1>4, <1>6, <1>7, <1>8, <1>9, <1>10 DEF Updates

\* A feeder moves the first message of an outbox to the end of the pipe.
LEMMA FeedFresh == ASSUME Fresh, NEW p \in Producer, Feed(p) PROVE Fresh'
<1>1. TypeOK /\ TypeOK' /\ Updates
  BY FeedTypes DEF Fresh
<1> DEFINE h == Head(outbox[p])
           o == outbox["owner"]
<1>2. /\ outbox[p] # <<>> /\ outbox[p] \in Seq(Queued) /\ h \in Queued /\ requestQ \in Seq(Queued)
      /\ requestQ' = Append(requestQ, h) /\ outbox'[p] = Tail(outbox[p])
      /\ \A q \in Producer \ {p} : outbox'[q] = outbox[q]
  BY <1>1, FeedTypes DEF TypeOK
<1>3. UNCHANGED <<pushed, netVer, cache, server, decoded, rows, responseQ, sent, turn>>
  BY DEF Feed, owner, loop, weights, work, actors
<1>4. /\ Within(o, netVer, pushed) /\ Within(requestQ, netVer, pushed) /\ Rising(o)
      /\ Rising(requestQ) /\ Before(requestQ, o) /\ o \in Seq(Queued)
      /\ pushed \in Int /\ netVer \in Int /\ netVer <= pushed
  BY <1>1, Versions DEF Updates, TypeOK, Producer
<1>5. \A q \in Producer \ {"owner"} : \A i \in DOMAIN outbox'[q] : ~IsWeights(outbox'[q][i])
  <2>1. ASSUME NEW q \in Producer \ {"owner"}, NEW i \in DOMAIN outbox'[q]
        PROVE  ~IsWeights(outbox'[q][i])
    <3>1. CASE q # p
      BY <1>1, <1>2, <2>1, <3>1 DEF Updates
    <3>2. CASE q = p
      <4>1. i + 1 \in DOMAIN outbox[p] /\ outbox'[p][i] = outbox[p][i + 1]
        <5>1. i \in DOMAIN Tail(outbox[p])
          BY <1>2, <2>1, <3>2
        <5>2. /\ DOMAIN outbox[p] = 1 .. Len(outbox[p]) /\ Len(outbox[p]) \in Nat \ {0}
              /\ DOMAIN Tail(outbox[p]) = 1 .. (Len(outbox[p]) - 1)
              /\ \A j \in DOMAIN Tail(outbox[p]) : Tail(outbox[p])[j] = outbox[p][j + 1]
          BY <1>2, Removed
        <5>3. QED
          BY <1>2, <5>1, <5>2
      <4>2. QED
        BY <1>1, <2>1, <3>2, <4>1 DEF Updates
    <3>3. QED
      BY <3>1, <3>2
  <2>2. QED
    BY <2>1
<1>6. 1 \in DOMAIN outbox[p] /\ h = outbox[p][1]
  BY <1>2, FirstLeaves
<1>7. CASE p = "owner" /\ IsWeights(h)
  <2> DEFINE t == Tail(o)
  <2>1. o # <<>> /\ outbox'["owner"] = t /\ h = Head(o)
    BY <1>2, <1>7
  <2> HIDE DEF h
  <2>2. Rising(t) /\ Within(t, netVer, pushed) /\ Before(requestQ, t)
        /\ \A i \in DOMAIN t : IsWeights(t[i]) => h.ver < t[i].ver
    BY <1>4, <1>7, <2>1, FirstLeaves
  <2>3. /\ \A i \in DOMAIN requestQ : IsWeights(requestQ[i]) => requestQ[i].ver < h.ver
        /\ netVer < h.ver /\ h.ver <= pushed
    BY <1>4, <1>6, <1>7 DEF Before, Within
  <2> HIDE DEF o, t
  <2>4. Rising(Append(requestQ, h)) /\ Within(Append(requestQ, h), netVer, pushed)
    BY <1>2, <1>4, <1>7, <2>3, UpdateJoins
  <2>5. Before(Append(requestQ, h), t)
    <3>1. \A i \in DOMAIN Append(requestQ, h) :
            (i \in DOMAIN requestQ /\ Append(requestQ, h)[i] = requestQ[i])
               \/ Append(requestQ, h)[i] = h
      BY <1>2, Appended
    <3>2. QED
      BY <2>2, <3>1 DEF Before
  <2>6. Updates'
    BY <1>1, <1>2, <1>3, <1>5, <2>1, <2>2, <2>4, <2>5 DEF Updates
  <2>7. QED
    BY <1>1, <1>3, <2>6 DEF Fresh, Turns, Forwarded, Rows, Current
<1>8. CASE ~IsWeights(h)
  <2>1. /\ Rising(outbox'["owner"]) /\ Within(outbox'["owner"], netVer, pushed)
        /\ Before(requestQ, outbox'["owner"])
    <3>1. CASE p = "owner"
      BY <1>2, <1>4, <3>1, FirstLeaves
    <3>2. CASE p # "owner"
      <4>1. outbox'["owner"] = o
        BY <1>2, <3>2 DEF Producer
      <4>2. QED
        BY <1>4, <4>1
    <3>3. QED
      BY <3>1, <3>2
  <2> HIDE DEF h
  <2>2. /\ Rising(requestQ') /\ Within(requestQ', netVer, pushed)
        /\ Before(requestQ', outbox'["owner"])
    BY <1>2, <1>4, <1>8, <2>1, OtherJoins
  <2>3. Updates'
    BY <1>1, <1>3, <1>5, <2>1, <2>2 DEF Updates
  <2>4. QED
    BY <1>1, <1>3, <2>3 DEF Fresh, Turns, Forwarded, Rows, Current
<1>9. p # "owner" => ~IsWeights(h)
  BY <1>1, <1>6 DEF Updates
<1>10. QED
  BY <1>7, <1>8, <1>9

\* A sequence with an element more or less has no other elements.
LEMMA AllAppended ==
  ASSUME NEW S, NEW s \in Seq(S), NEW e \in S, NEW i \in DOMAIN Append(s, e)
  PROVE  (i \in DOMAIN s /\ Append(s, e)[i] = s[i]) \/ (i = Len(s) + 1 /\ Append(s, e)[i] = e)
BY Appended

LEMMA AllRemoved ==
  ASSUME NEW S, NEW s \in Seq(S), s # <<>>
  PROVE  /\ 1 \in DOMAIN s
         /\ \A i \in DOMAIN Tail(s) : i + 1 \in DOMAIN s /\ Tail(s)[i] = s[i + 1]
BY Removed

\* A row put into a response queue.
LEMMA PutFresh ==
  ASSUME TypeOK, Rows, NEW d \in Client, NEW r \in Response, Put(d, r), Current(r)
  PROVE  \A c \in Client : \A i \in DOMAIN responseQ'[c] : Current(responseQ'[c][i])
<1> TAKE c \in Client
<1>1. responseQ[c] \in Seq(Response) /\ responseQ'[c] = IF c = d THEN Append(responseQ[c], r) ELSE responseQ[c]
  BY DEF Put, TypeOK
<1>2. QED
  BY <1>1, AllAppended DEF Rows

\* A queue of replies that is shortened.
LEMMA TakeFresh ==
  ASSUME TypeOK, Rows, NEW d \in Client, responseQ[d] # <<>>,
         responseQ' = [responseQ EXCEPT ![d] = Tail(@)]
  PROVE  \A c \in Client : \A i \in DOMAIN responseQ'[c] : Current(responseQ'[c][i])
<1> TAKE c \in Client
<1>1. responseQ[c] \in Seq(Response) /\ responseQ'[c] = IF c = d THEN Tail(responseQ[c])
          ELSE responseQ[c]
  BY DEF TypeOK
<1>2. QED
  BY <1>1, AllRemoved DEF Rows

\* A process puts a request, or the stop, and the rest is as it was.
LEMMA OtherFresh ==
  ASSUME Fresh, TypeOK', Turns', NEW p \in Producer, NEW m \in Queued, ~IsWeights(m),
         PutRequest(p, m), UNCHANGED <<pushed, netVer, cache, server, decoded, rows, responseQ>>
  PROVE  Fresh'
<1>1. Updates'
  BY OtherPut DEF Fresh
<1>2. QED
  BY <1>1 DEF Fresh, Forwarded, Rows, Current

LEMMA OwnerFresh ==
  ASSUME Fresh, Started \/ UpdateNetwork \/ StopServer \/ Reap PROVE Fresh'
<1>1. TypeOK /\ TypeOK' /\ Turns'
  BY OwnerTypes DEF Fresh, Turns, Started, UpdateNetwork, StopServer, Reap, actors
<1>2. CASE Started \/ Reap
  <2>1. UNCHANGED <<pushed, netVer, cache, outbox, requestQ, decoded, rows, responseQ>>
    BY <1>2 DEF Started, Reap, owner, loop, weights, work
  <2>2. decoded # <<>> => server' = server
    BY <1>2 DEF Started, Reap, loop, Fresh, Forwarded
  <2>3. QED
    BY <1>1, <2>1, <2>2, FreshUnchanged DEF Fresh, Rows
<1>3. CASE UpdateNetwork
  <2>1. UNCHANGED <<netVer, server, decoded, rows, responseQ>>
    BY <1>3 DEF UpdateNetwork, loop, weights, work
  <2>2. Updates'
    BY <1>1, <1>3, UpdatePut DEF Fresh
  <2>3. QED
    BY <1>1, <2>1, <2>2 DEF Fresh, Forwarded, Rows, Current
<1>4. CASE StopServer
  <2>1. UNCHANGED <<pushed, netVer, cache, server, decoded, rows, responseQ>>
        /\ PutRequest("owner", Stop)
    BY <1>4 DEF StopServer, loop, weights, work
  <2>2. Stop \in Queued /\ ~IsWeights(Stop) /\ "owner" \in Producer
    BY DEF Queued, IsWeights, Stop, Producer
  <2>3. QED
    BY <1>1, <2>1, <2>2, OtherFresh
<1>5. QED
  BY <1>2, <1>3, <1>4

LEMMA QuietFresh ==
  ASSUME Fresh, ServerReady \/ ServerFails \/ Poll \/ GetEmpty \/ BatchClosed \/ ServerExit
  PROVE  Fresh'
<1>1. TypeOK /\ TypeOK' /\ Turns'
  BY QuietTypes
     DEF Fresh, Turns, ServerReady, ServerFails, Poll, GetEmpty, BatchClosed, ServerExit, actors
<1>2. UNCHANGED <<pushed, netVer, cache, outbox, requestQ, decoded, rows, responseQ>>
  BY DEF ServerReady, ServerFails, Poll, GetEmpty, BatchClosed, ServerExit, owner, weights, work
<1>3. decoded # <<>> => server' = server
  BY DEF Fresh, Forwarded, ServerReady, ServerFails, Poll, GetEmpty, BatchClosed, ServerExit
<1>4. QED
  BY <1>1, <1>2, <1>3, FreshUnchanged DEF Fresh, Rows

LEMMA QueueFresh == ASSUME Fresh, Get \/ Fill PROVE Fresh'
<1>1. TypeOK /\ TypeOK' /\ Turns' /\ Updates
  BY QueueTypes DEF Fresh, Turns, Get, Fill, actors
<1>2. /\ requestQ # <<>> /\ requestQ' = Tail(requestQ) /\ server \in {"get", "fill"}
      /\ UNCHANGED <<pushed, decoded, rows, outbox, responseQ>>
  BY DEF Get, Fill, owner
<1>3. /\ requestQ \in Seq(Queued) /\ outbox["owner"] \in Seq(Queued)
      /\ Head(requestQ) \in Queued /\ pushed \in Int /\ netVer \in Int
  BY <1>1, <1>2, FirstLeaves, Versions DEF TypeOK, Producer
<1>4. \/ IsWeights(Head(requestQ)) /\ LoadWeights(Head(requestQ).ver)
      \/ UNCHANGED <<netVer, cache>>
  BY DEF Get, Fill, IsWeights, weights
<1>5. /\ Rising(requestQ') /\ Rising(outbox'["owner"]) /\ Before(requestQ', outbox'["owner"])
  BY <1>1, <1>2, <1>3, FirstLeaves DEF Updates
<1>6. /\ Within(requestQ', netVer', pushed') /\ Within(outbox'["owner"], netVer', pushed')
      /\ netVer' <= pushed' /\ cache' \in {NoVer, netVer'}
  <2>1. CASE UNCHANGED <<netVer, cache>>
    BY <1>1, <1>2, <1>3, <2>1, FirstLeaves DEF Updates
  <2>2. CASE IsWeights(Head(requestQ)) /\ netVer' = Head(requestQ).ver /\ cache' = NoVer
    BY <1>1, <1>2, <1>3, <2>2, UpdateMet DEF Updates
  <2>3. QED
    BY <1>4, <2>1, <2>2 DEF LoadWeights, weights
<1>7. decoded' = <<>> /\ DOMAIN decoded' = {}
  <2>1. decoded = <<>>
    BY <1>2 DEF Fresh, Forwarded
  <2>2. QED
    BY <1>2, <2>1
<1>8. Updates'
  BY <1>1, <1>2, <1>5, <1>6 DEF Updates
<1>9. QED
  BY <1>1, <1>2, <1>7, <1>8 DEF Fresh, Forwarded, Rows, Current

LEMMA DecodeFresh == ASSUME Fresh, Decode PROVE Fresh'
<1>1. TypeOK /\ TypeOK' /\ Turns'
  BY DecodeTypes DEF Fresh, Turns, Decode, actors
<1>2. /\ batch # <<>> /\ server = "decode"
      /\ UNCHANGED <<pushed, server, netVer, rows, outbox, requestQ>>
  BY DEF Decode, owner
<1>3. Head(batch) \in Message
  BY <1>1, <1>2, Removed DEF TypeOK
<1>4. /\ cache' \in {NoVer, netVer} /\ Embedding \in {netVer}
      /\ \/ UNCHANGED decoded
         \/ decoded' = Append(decoded, [msg |-> Head(batch), emb |-> Embedding])
  BY DEF Decode, Embedding, Fresh, Updates
<1>5. \A i \in DOMAIN decoded' : decoded'[i].emb = netVer
  <2>1. CASE UNCHANGED decoded
    BY <2>1 DEF Fresh, Forwarded
  <2>2. CASE decoded' = Append(decoded, [msg |-> Head(batch), emb |-> Embedding])
    <3> DEFINE e == [msg |-> Head(batch), emb |-> Embedding]
    <3>1. e \in [msg : Message, emb : Version] /\ e.emb = netVer
      BY <1>1, <1>3, <1>4 DEF TypeOK
    <3>2. decoded \in Seq([msg : Message, emb : Version]) /\ decoded' = Append(decoded, e)
      BY <1>1, <2>2 DEF TypeOK
    <3> HIDE DEF e
    <3>3. \A i \in DOMAIN decoded' : (i \in DOMAIN decoded /\ decoded'[i] = decoded[i])
              \/ decoded'[i] = e
      BY <3>1, <3>2, AllAppended
    <3>4. QED
      BY <3>1, <3>3 DEF Fresh, Forwarded
  <2>3. QED
    BY <1>4, <2>1, <2>2
<1>6. \A c \in Client : \A i \in DOMAIN responseQ'[c] : Current(responseQ'[c][i])
  <2>1. CASE UNCHANGED responseQ
    BY <2>1 DEF Fresh, Rows
  <2>2. CASE Put(Head(batch).client, Reply(Head(batch), "miss", NoRow))
    <3>1. Reply(Head(batch), "miss", NoRow) \in Response
              /\ Current(Reply(Head(batch), "miss", NoRow))
      BY <1>3, MessageParts, Replies DEF Row, Current
    <3>2. QED
      BY <1>1, <1>3, <2>2, <3>1, MessageParts, PutFresh DEF Fresh
  <2>3. QED
    BY <2>1, <2>2 DEF Decode
<1>7. Updates'
  BY <1>2, <1>4 DEF Fresh, Updates
<1>8. QED
  BY <1>1, <1>2, <1>5, <1>6, <1>7 DEF Fresh, Forwarded, Rows, Current

LEMMA ForwardFresh == ASSUME Fresh, ForwardBatch \/ Dispatch PROVE Fresh'
<1>1. TypeOK /\ TypeOK' /\ Turns'
  BY ForwardTypes DEF Fresh, Turns, ForwardBatch, Dispatch, actors
<1>2. CASE ForwardBatch
  <2>1. /\ UNCHANGED <<pushed, netVer, cache, outbox, requestQ, responseQ>>
        /\ decoded' = <<>>
    BY <1>2 DEF ForwardBatch, owner, weights
  <2>2. PICK ok \in BOOLEAN : rows' = [k \in 1 .. Len(decoded) |-> Outcome(k, ok)]
    BY <1>2 DEF ForwardBatch
  <2>3. ASSUME NEW k \in DOMAIN rows' PROVE Current(rows'[k].reply)
    <3>1. k \in DOMAIN decoded /\ rows'[k] = Outcome(k, ok)
      BY <1>1, <2>2, LenProperties DEF TypeOK
    <3>2. /\ decoded[k].msg \in Message /\ decoded[k].emb = netVer
          /\ OutputRow(k) \in Row /\ NoRow \in Row
      BY <1>1, <3>1, OutcomeTypes DEF Fresh, Forwarded, OutputRow, Row, TypeOK, Message
    <3>3. OutputRow(k).ver = netVer /\ OutputRow(k).emb = netVer
      BY <3>2 DEF OutputRow
    <3>4. Current(Reply(decoded[k].msg, "ok", OutputRow(k)))
              /\ Current(Reply(decoded[k].msg, "failed", NoRow))
      BY <3>2, <3>3, MessageParts, Replies DEF Current
    <3>5. QED
      BY <3>1, <3>4 DEF Outcome
  <2>4. DOMAIN decoded' = {}
    BY <2>1
  <2>5. QED
    BY <1>1, <2>1, <2>3, <2>4 DEF Fresh, Updates, Forwarded, Rows, Current
<1>3. CASE Dispatch
  <2>1. UNCHANGED <<pushed, netVer, cache, decoded, outbox, requestQ>> /\ server = "dispatch"
    BY <1>3 DEF Dispatch, owner, weights
  <2>2. CASE rows = <<>>
    BY <1>1, <1>3, <2>1, <2>2 DEF Dispatch, Fresh, Updates, Forwarded, Rows, Current
  <2>3. CASE rows # <<>>
    <3>1. /\ Head(rows) \in [client : Client, reply : Response] /\ Current(Head(rows).reply)
          /\ \A k \in DOMAIN Tail(rows) : Current(Tail(rows)[k].reply)
      <4> DEFINE S == [client : Client, reply : Response]
      <4>1. rows \in Seq(S)
        BY <1>1 DEF TypeOK
      <4> HIDE DEF S
      <4>2. /\ Head(rows) \in S /\ Head(rows) = rows[1] /\ 1 \in DOMAIN rows
            /\ \A k \in DOMAIN Tail(rows) : k + 1 \in DOMAIN rows /\ Tail(rows)[k] = rows[k + 1]
        BY <2>3, <4>1, Removed
      <4>3. QED
        BY <4>2 DEF Fresh, Rows, S
    <3>2. \A c \in Client : \A i \in DOMAIN responseQ'[c] : Current(responseQ'[c][i])
      BY <1>1, <1>3, <2>3, <3>1, PutFresh DEF Dispatch, Fresh
    <3>3. rows' = Tail(rows)
      BY <1>3, <2>3 DEF Dispatch
    <3>4. Rows'
      BY <3>1, <3>2, <3>3 DEF Rows, Current
    <3>5. Updates' /\ Forwarded'
      BY <2>1 DEF Fresh, Updates, Forwarded
    <3>6. QED
      BY <1>1, <3>4, <3>5 DEF Fresh
  <2>4. QED
    BY <2>2, <2>3
<1>4. QED
  BY <1>2, <1>3

LEMMA HandlerFresh == ASSUME Fresh, NEW c \in SocketClients, HandlerStep(c) PROVE Fresh'
<1>1. TypeOK /\ TypeOK' /\ Turns' /\ c \in Client
  BY HandlerTypes DEF Fresh, Turns, HandlerStep, Forward, TakeReply, StopReply, actors, Client
<1>2. CASE Forward(c)
  <2>1. /\ UNCHANGED <<pushed, netVer, cache, server, decoded, rows, responseQ>>
        /\ PutRequest("server", Head(up[c])) /\ up[c] # <<>> /\ up[c] \in Seq(Message)
    BY <1>1, <1>2 DEF Forward, owner, loop, weights, work, TypeOK
  <2>2. Head(up[c]) \in Message
    BY <2>1, Removed
  <2>3. Head(up[c]) \in Queued /\ ~IsWeights(Head(up[c])) /\ "server" \in Producer
    BY <2>2, MessageParts DEF Queued, IsWeights, Producer
  <2>4. QED
    BY <1>1, <2>1, <2>3, OtherFresh
<1>3. CASE TakeReply(c)
  <2>1. UNCHANGED <<pushed, netVer, cache, outbox, requestQ, server, decoded, rows>>
    BY <1>3 DEF TakeReply, owner, loop, weights, work
  <2>2. \A d \in Client : \A i \in DOMAIN responseQ'[d] : Current(responseQ'[d][i])
    BY <1>1, <1>3, TakeFresh DEF TakeReply, Fresh
  <2>3. QED
    BY <1>1, <2>1, <2>2, FreshUnchanged
<1>4. CASE StopReply(c)
  BY <1>1, <1>4, FreshUnchanged DEF StopReply, owner, loop, weights, work, Fresh, Rows
<1>5. QED
  BY <1>2, <1>3, <1>4 DEF HandlerStep

LEMMA ActorFresh ==
  ASSUME Fresh, NEW c \in Client,
         \/ Request(c) \/ NextEpisode(c) \/ Timeout(c)
         \/ c \in QueueClients /\ ReceiveQueue(c)
         \/ c \in SocketClients /\ (ReceiveSocket(c) \/ ConnectionLost(c))
  PROVE  Fresh'
<1>1. TypeOK /\ TypeOK'
  BY ActorTypes DEF Fresh
<1>2. sent[c] \in Int /\ turn[c] \in Int /\ turn[c] <= sent[c] /\ 0 <= sent[c]
  BY <1>1, RpcAssumption DEF Fresh, Turns, TypeOK
<1>3. CASE Request(c)
  <2>1. Turns'
    BY <1>1, <1>2, <1>3 DEF Fresh, Turns, Request, TypeOK
  <2> DEFINE m == Infer(c, sent[c] + 1, turn[c] = 0,
                        IF c \in SocketClients THEN turn[c] + 1 ELSE sent[c] + 1)
  <2>2. m.type = "infer" /\ ~IsWeights(m)
    BY DEF Infer, IsWeights
  <2>3. m \in Message
    <3>1. sent[c] + 1 \in 1 .. MaxRequests /\ turn[c] + 1 \in 1 .. MaxRequests
      <4>1. sent[c] \in 0 .. MaxRequests /\ turn[c] \in 0 .. MaxRequests
        BY <1>1 DEF TypeOK
      <4>2. QED
        BY <1>2, <1>3, <4>1, RpcAssumption DEF Request
    <3>2. QED
      BY <1>1, <3>1 DEF Infer, Message, TypeOK
  <2>4. /\ UNCHANGED <<pushed, netVer, cache, server, decoded, rows, responseQ>>
        /\ \/ UNCHANGED <<outbox, requestQ>>
           \/ c \notin SocketClients /\ PutRequest(c, m)
    BY <1>3 DEF Request, owner, loop, weights, work
  <2> HIDE DEF m
  <2>5. CASE UNCHANGED <<outbox, requestQ>>
    BY <1>1, <2>1, <2>4, <2>5, FreshUnchanged DEF Fresh, Rows
  <2>6. CASE c \notin SocketClients /\ PutRequest(c, m)
    <3>1. m \in Queued /\ c \in Producer
      BY <2>3, <2>6 DEF Queued, Client, Producer
    <3>2. QED
      BY <1>1, <2>1, <2>2, <2>4, <2>6, <3>1, OtherFresh
  <2>7. QED
    BY <2>4, <2>5, <2>6
<1>4. CASE NextEpisode(c)
  <2>1. Turns'
    BY <1>1, <1>2, <1>4 DEF Fresh, Turns, NextEpisode, TypeOK
  <2>2. QED
    BY <1>1, <1>4, <2>1, FreshUnchanged
       DEF NextEpisode, owner, loop, weights, work, Fresh, Rows
<1>5. CASE Timeout(c) \/ (c \in SocketClients /\ ConnectionLost(c))
  <2>1. Turns' /\ UNCHANGED <<owner, loop, outbox, requestQ, responseQ>>
    BY <1>5 DEF Fresh, Turns, Timeout, ConnectionLost, Return
  <2>2. QED
    BY <1>1, <2>1, FreshUnchanged DEF owner, loop, weights, work, Fresh, Rows
<1>6. CASE ReceiveQueue(c)
  <2>1. Turns' /\ UNCHANGED <<owner, loop, outbox, requestQ>>
    BY <1>6 DEF Fresh, Turns, ReceiveQueue, Return
  <2>2. \A d \in Client : \A i \in DOMAIN responseQ'[d] : Current(responseQ'[d][i])
    BY <1>1, <1>6, TakeFresh DEF ReceiveQueue, Fresh
  <2>3. QED
    BY <1>1, <2>1, <2>2, FreshUnchanged DEF owner, loop, weights, work
<1>7. CASE ReceiveSocket(c)
  <2>1. Turns' /\ UNCHANGED <<owner, loop, outbox, requestQ, responseQ>>
    BY <1>7 DEF Fresh, Turns, ReceiveSocket, Return
  <2>2. QED
    BY <1>1, <2>1, FreshUnchanged DEF owner, loop, weights, work, Fresh, Rows
<1>8. QED
  BY <1>3, <1>4, <1>5, <1>6, <1>7

LEMMA NextFresh == Fresh /\ [Next]_vars => Fresh'
<1> SUFFICES ASSUME Fresh, [Next]_vars PROVE Fresh'
  OBVIOUS
<1>1. CASE Started \/ UpdateNetwork \/ StopServer \/ Reap
  BY <1>1, OwnerFresh
<1>2. CASE ServerStep
  BY <1>2, QuietFresh, QueueFresh, DecodeFresh, ForwardFresh DEF ServerStep
<1>3. ASSUME NEW p \in Producer, Feed(p) PROVE Fresh'
  BY <1>3, FeedFresh
<1>4. ASSUME NEW c \in SocketClients, HandlerStep(c) PROVE Fresh'
  BY <1>4, HandlerFresh
<1>5. ASSUME NEW c \in SocketClients, ReceiveSocket(c) \/ ConnectionLost(c) PROVE Fresh'
  BY <1>5, ActorFresh DEF Client
<1>6. ASSUME NEW c \in QueueClients, ReceiveQueue(c) PROVE Fresh'
  BY <1>6, ActorFresh DEF Client
<1>7. ASSUME NEW c \in Client, Request(c) \/ NextEpisode(c) \/ Timeout(c) PROVE Fresh'
  BY <1>7, ActorFresh
<1>8. CASE UNCHANGED vars
  BY <1>8
     DEF vars, owner, loop, weights, work, actors, sockets, Fresh, TypeOK, Turns, Updates,
         Forwarded, Rows
<1>9. QED
  BY <1>1, <1>2, <1>3, <1>4, <1>5, <1>6, <1>7, <1>8 DEF Next

(***************************************************************************)
(* One place                                                               *)
(***************************************************************************)
LEMMA NothingMoves ==
  ASSUME UNCHANGED <<up, outbox, requestQ, batch, decoded, rows, responseQ, down>>, NEW c, NEW k, NEW i
  PROVE  At(c, k, i)' <=> At(c, k, i)
BY DEF At

\* The head of a queue leaves it, and nothing else moves.
LEMMA Leaves ==
  ASSUME NEW c, NEW A \in Kinds, Single(c),
         \A i \in Nat : At(c, A, i)' => At(c, A, i + 1),
         \A k \in Kinds \ {A} : \A i \in Nat : At(c, k, i)' => At(c, k, i)
  PROVE  Single(c)' /\ (Empty(c) => Empty(c)')
<1>0. Empty(c) => Empty(c)'
  BY DEF Empty
<1> SUFFICES ASSUME NEW k \in Kinds, NEW l \in Kinds, NEW i \in Nat, NEW j \in Nat,
                    At(c, k, i)', At(c, l, j)'
             PROVE  k = l /\ i = j
  BY <1>0 DEF Single
<1>1. \E x \in {i, i + 1} : At(c, k, x) /\ (x = i + 1 <=> k = A)
  BY DEF Kinds
<1>2. \E x \in {j, j + 1} : At(c, l, x) /\ (x = j + 1 <=> l = A)
  BY DEF Kinds
<1>3. QED
  BY <1>1, <1>2 DEF Single

\* It enters another queue.
Moved(c, A, B, n) ==
  /\ \A i \in Nat : At(c, A, i)' => At(c, A, i + 1) /\ i # 0
  /\ \A i \in Nat : At(c, B, i)' => At(c, B, i) \/ (i = n /\ At(c, A, 1))
  /\ \A k \in Kinds \ {A, B} : \A i \in Nat : At(c, k, i)' => At(c, k, i)

LEMMA Moves ==
  ASSUME NEW c, NEW A \in Kinds, NEW B \in Kinds \ {A}, Single(c), NEW n \in Nat,
         Moved(c, A, B, n)
  PROVE  Single(c)' /\ (Empty(c) => Empty(c)')
<1>0. Empty(c) => Empty(c)'
  BY DEF Empty, Moved
<1> SUFFICES ASSUME NEW k \in Kinds, NEW l \in Kinds, NEW i \in Nat, NEW j \in Nat,
                    At(c, k, i)', At(c, l, j)'
             PROVE  k = l /\ i = j
  BY <1>0 DEF Single
<1>1. \/ k = A /\ At(c, A, i + 1) /\ i # 0
      \/ k = B /\ At(c, A, 1) /\ i = n
      \/ k # A /\ At(c, k, i)
  BY DEF Moved
<1>2. \/ l = A /\ At(c, A, j + 1) /\ j # 0
      \/ l = B /\ At(c, A, 1) /\ j = n
      \/ l # A /\ At(c, l, j)
  BY DEF Moved
<1>3. QED
  BY <1>1, <1>2 DEF Single

\* Where there was nothing, one thing enters.
LEMMA Enters ==
  ASSUME NEW c, NEW B \in Kinds, NEW n \in Nat,
         \A k \in Kinds : \A i \in Nat : At(c, k, i)' => k = B /\ i = n
  PROVE  Single(c)'
BY DEF Single

\* The only thing there was goes.
LEMMA Goes ==
  ASSUME NEW c, NEW A \in Kinds, Single(c), At(c, A, 1),
         \A i \in Nat : At(c, A, i)' => At(c, A, i + 1) /\ i # 0,
         \A k \in Kinds \ {A} : \A i \in Nat : At(c, k, i)' => At(c, k, i)
  PROVE  Single(c)' /\ Empty(c)'
<1>1. ASSUME NEW k \in Kinds, NEW i \in Nat, At(c, k, i)' PROVE FALSE
  <2>1. CASE k = A
    BY <1>1, <2>1 DEF Single
  <2>2. CASE k # A
    BY <1>1, <2>2 DEF Single
  <2>3. QED
    BY <2>1, <2>2
<1>2. QED
  BY <1>1 DEF Single, Empty

\* Steps that leave the queues alone.
LEMMA WholeUnchanged ==
  ASSUME Whole, UNCHANGED <<up, outbox, requestQ, batch, decoded, rows, responseQ, down, sent, turn>>,
         \A c \in Client : actor'[c] = "playing" => actor[c] = "playing",
         \A c \in Client : result'[c] = result[c] \/ result'[c].status \in {"timeout", "lost"}
  PROVE  Whole'
<1>1. OnePlace'
  BY NothingMoves DEF Whole, OnePlace, Single
<1>2. NoPlace'
  BY NothingMoves DEF Whole, NoPlace, Empty
<1>3. Mine' /\ OwnRow'
  BY DEF Whole, Mine, MineAsked, MineTaken, MineTold, Asks, Tells, Id, OwnRow
<1>4. NoStaleReply'
  BY DEF Whole, Mine, MineAsked, MineTaken, MineTold, Tells, Id, NoStaleReply, Client
<1>5. QED
  BY <1>1, <1>2, <1>3, <1>4 DEF Whole

\* Steps that move things between the queues.
LEMMA WholeMoves ==
  ASSUME Whole, UNCHANGED <<actor, sent, turn, result>>, Mine',
         \A c \in Client : Single(c)' /\ (Empty(c) => Empty(c)')
  PROVE  Whole'
<1>1. OnePlace' /\ NoPlace'
  BY DEF Whole, OnePlace, NoPlace
<1>2. OwnRow'
  BY DEF Whole, OwnRow
<1>3. NoStaleReply'
  BY DEF Whole, Mine, MineAsked, MineTaken, MineTold, Tells, Id, NoStaleReply, Client
<1>4. QED
  BY <1>1, <1>2, <1>3 DEF Whole

LEMMA InitWhole == Init => Whole
<1> SUFFICES ASSUME Init PROVE Whole
  OBVIOUS
<1>1. \A S : \A s \in Seq(S) : s = <<>> => DOMAIN s = {}
  BY LenProperties, EmptySeq
<1>2. TypeOK
  BY InitTypes
<1>3. /\ DOMAIN requestQ = {} /\ DOMAIN batch = {} /\ DOMAIN decoded = {} /\ DOMAIN rows = {}
      /\ \A p \in Producer : DOMAIN outbox[p] = {}
      /\ \A c \in SocketClients : DOMAIN up[c] = {} /\ DOMAIN down[c] = {}
      /\ \A c \in Client : DOMAIN responseQ[c] = {}
  BY <1>1, <1>2 DEF Init, TypeOK
<1>4. \A c \in Client : Writer(c) \in Producer
  BY DEF Writer, Client, Producer
<1>5. \A c \in Client : Empty(c) /\ Single(c)
  BY <1>3, <1>4 DEF Empty, Single, At
<1>6. \A c \in Client : result[c].status = "none"
  BY DEF Init, NoResult
<1>7. QED
  BY <1>3, <1>5, <1>6 DEF Whole, OnePlace, NoPlace, Mine, MineAsked, MineTaken, MineTold, OwnRow, NoStaleReply, Client

LEMMA Stays ==
  ASSUME NEW c, Single(c), \A k \in Kinds : \A i \in Nat : At(c, k, i)' => At(c, k, i)
  PROVE  Single(c)' /\ (Empty(c) => Empty(c)')
BY DEF Single, Empty

\* A queue of messages or replies: what is in it was there, or came last.
Grown(s, t, e) ==
  \E n \in Nat : \A i \in DOMAIN t : (i \in DOMAIN s /\ t[i] = s[i]) \/ (i = n /\ t[i] = e)
Shrunk(s, t) ==
  /\ 1 \in DOMAIN s /\ Head(s) = s[1]
  /\ \A i \in DOMAIN t : i # 0 /\ i + 1 \in DOMAIN s /\ t[i] = s[i + 1]

LEMMA GrownBy ==
  ASSUME NEW S, NEW s \in Seq(S), NEW e \in S PROVE Grown(s, Append(s, e), e)
<1>1. Len(s) + 1 \in Nat
  BY Appended
<1>2. \A i \in DOMAIN Append(s, e) :
        \/ i \in DOMAIN s /\ Append(s, e)[i] = s[i]
        \/ i = Len(s) + 1 /\ Append(s, e)[i] = e
  BY Appended
<1>3. QED
  BY <1>1, <1>2 DEF Grown

LEMMA ShrunkBy ==
  ASSUME NEW S, NEW s \in Seq(S), s # <<>> PROVE Shrunk(s, Tail(s)) /\ Head(s) \in S
BY Removed DEF Shrunk

LEMMA PutGrows ==
  ASSUME TypeOK, NEW d \in Client, NEW r \in Response, Put(d, r)
  PROVE  \E n \in Nat : \A c \in Client : \A i \in DOMAIN responseQ'[c] :
           \/ i \in DOMAIN responseQ[c] /\ responseQ'[c][i] = responseQ[c][i]
           \/ c = d /\ i = n /\ responseQ'[c][i] = r
<1>1. \A c \in Client : responseQ'[c] = IF c = d THEN Append(responseQ[c], r) ELSE responseQ[c]
  BY DEF Put, TypeOK
<1>2. responseQ[d] \in Seq(Response)
  BY DEF TypeOK
<1>3. PICK n \in Nat : \A i \in DOMAIN Append(responseQ[d], r) :
        \/ i \in DOMAIN responseQ[d] /\ Append(responseQ[d], r)[i] = responseQ[d][i]
        \/ i = n /\ Append(responseQ[d], r)[i] = r
  BY <1>2, GrownBy DEF Grown
<1>4. ASSUME NEW c \in Client, NEW i \in DOMAIN responseQ'[c]
      PROVE  \/ i \in DOMAIN responseQ[c] /\ responseQ'[c][i] = responseQ[c][i]
             \/ c = d /\ i = n /\ responseQ'[c][i] = r
  <2>1. CASE c = d
    BY <1>1, <1>3, <1>4, <2>1
  <2>2. CASE c # d
    BY <1>1, <1>4, <2>2
  <2>3. QED
    BY <2>1, <2>2
<1>5. QED
  BY <1>4

LEMMA Writers == \A c \in Client : Writer(c) \in Producer
BY DEF Writer, Client, Producer

\* An outbox that grows.
LEMMA OutboxGrows ==
  ASSUME TypeOK, NEW p \in Producer, NEW m \in Queued, PutRequest(p, m)
  PROVE  /\ requestQ' = requestQ
         /\ \E n \in Nat : \A q \in Producer : \A i \in DOMAIN outbox'[q] :
              \/ i \in DOMAIN outbox[q] /\ outbox'[q][i] = outbox[q][i]
              \/ q = p /\ i = n /\ outbox'[q][i] = m
<1>1. /\ outbox[p] \in Seq(Queued) /\ requestQ' = requestQ
      /\ outbox'[p] = Append(outbox[p], m) /\ \A q \in Producer \ {p} : outbox'[q] = outbox[q]
  BY PutTypes2
<1>2. PICK n \in Nat : \A i \in DOMAIN Append(outbox[p], m) :
        \/ i \in DOMAIN outbox[p] /\ Append(outbox[p], m)[i] = outbox[p][i]
        \/ i = n /\ Append(outbox[p], m)[i] = m
  BY <1>1, GrownBy DEF Grown
<1>3. ASSUME NEW q \in Producer, NEW i \in DOMAIN outbox'[q]
      PROVE  \/ i \in DOMAIN outbox[q] /\ outbox'[q][i] = outbox[q][i]
             \/ q = p /\ i = n /\ outbox'[q][i] = m
  <2>1. CASE q = p
    BY <1>1, <1>2, <1>3, <2>1
  <2>2. CASE q # p
    BY <1>1, <1>3, <2>2
  <2>3. QED
    BY <2>1, <2>2
<1>4. QED
  BY <1>1, <1>3

LEMMA QuietWhole ==
  ASSUME Whole, \/ Started \/ Reap \/ ServerReady \/ ServerFails \/ Poll \/ GetEmpty
                \/ BatchClosed \/ ServerExit
  PROVE  Whole'
<1>1. UNCHANGED <<up, outbox, requestQ, batch, decoded, rows, responseQ, down, actor, sent, turn, result>>
  BY DEF Started, Reap, ServerReady, ServerFails, Poll, GetEmpty, BatchClosed, ServerExit,
         owner, loop, weights, work, actors, sockets
<1>2. QED
  BY <1>1, WholeUnchanged

LEMMA OwnerWhole == ASSUME TypeOK, Whole, UpdateNetwork \/ StopServer PROVE Whole'
<1>1. UNCHANGED <<up, batch, decoded, rows, responseQ, down, actor, sent, turn, result>>
  BY DEF UpdateNetwork, StopServer, loop, weights, work, actors, sockets
<1>2. PICK m \in Queued : PutRequest("owner", m) /\ m.type # "infer"
  <2>1. CASE UpdateNetwork
    <3>1. Weights(pushed + 1) \in Queued /\ Weights(pushed + 1).type # "infer"
      BY <2>1, RpcAssumption DEF UpdateNetwork, Weights, Queued, TypeOK, Version
    <3>2. QED
      BY <2>1, <3>1 DEF UpdateNetwork
  <2>2. CASE StopServer
    BY <2>2 DEF StopServer, Stop, Queued
  <2>3. QED
    BY <2>1, <2>2
<1>3. /\ requestQ' = requestQ
      /\ \A p \in Producer : \A i \in DOMAIN outbox'[p] : outbox'[p][i].type = "infer" =>
           i \in DOMAIN outbox[p] /\ outbox'[p][i] = outbox[p][i]
  BY <1>2, OutboxGrows DEF Producer
<1>4. Mine'
  BY <1>1, <1>3 DEF Whole, Mine, MineAsked, MineTaken, MineTold, Asks, Tells, Id
<1>5. ASSUME NEW c \in Client PROVE Single(c)' /\ (Empty(c) => Empty(c)')
  <2>1. \A k \in Kinds : \A i \in Nat : At(c, k, i)' => At(c, k, i)
    BY <1>1, <1>3, Writers DEF At
  <2>2. QED
    BY <1>5, <2>1, Stays DEF Whole, OnePlace
<1>6. QED
  BY <1>1, <1>4, <1>5, WholeMoves

\* A request passes from an outbox into the pipe.
LEMMA FeedWhole == ASSUME TypeOK, Whole, NEW p \in Producer, Feed(p) PROVE Whole'
<1>1. /\ UNCHANGED <<up, batch, decoded, rows, responseQ, down, actor, sent, turn, result>>
      /\ outbox[p] # <<>> /\ outbox[p] \in Seq(Queued)
      /\ requestQ' = Append(requestQ, Head(outbox[p])) /\ requestQ \in Seq(Queued)
      /\ outbox'[p] = Tail(outbox[p]) /\ \A q \in Producer \ {p} : outbox'[q] = outbox[q]
  BY FeedTypes DEF Feed, loop, work, actors, sockets, TypeOK
<1> DEFINE h == outbox[p][1]
<1>2. /\ h \in Queued /\ 1 \in DOMAIN outbox[p] /\ Head(outbox[p]) = h
      /\ \A i \in DOMAIN outbox'[p] :
           i # 0 /\ i + 1 \in DOMAIN outbox[p] /\ outbox'[p][i] = outbox[p][i + 1]
  <2>1. Shrunk(outbox[p], Tail(outbox[p])) /\ Head(outbox[p]) \in Queued
    BY <1>1, ShrunkBy
  <2>2. QED
    BY <1>1, <2>1 DEF Shrunk
<1>3. PICK n \in Nat : \A i \in DOMAIN requestQ' :
        \/ i \in DOMAIN requestQ /\ requestQ'[i] = requestQ[i]
        \/ i = n /\ requestQ'[i] = h
  <2>1. Grown(requestQ, requestQ', h)
    BY <1>1, <1>2, GrownBy
  <2>2. QED
    BY <2>1 DEF Grown
<1>4. h.type = "infer" => Writer(h.client) = p /\ Asks(h, h.client)
  BY <1>2 DEF Whole, Mine, MineAsked, MineTaken, MineTold
<1>5. Mine'
  <2>1. \A i \in DOMAIN requestQ' :
          (requestQ[i].type = "infer" => Asks(requestQ[i], requestQ[i].client))'
    BY <1>1, <1>3, <1>4 DEF Whole, Mine, MineAsked, MineTaken, MineTold, Asks, Id
  <2>2. ASSUME NEW q \in Producer, NEW i \in DOMAIN outbox'[q], outbox'[q][i].type = "infer"
        PROVE  Writer(outbox'[q][i].client) = q /\ Asks(outbox'[q][i], outbox'[q][i].client)
    <3>1. CASE q = p
      BY <1>2, <2>2, <3>1 DEF Whole, Mine, MineAsked, MineTaken, MineTold
    <3>2. CASE q # p
      BY <1>1, <2>2, <3>2 DEF Whole, Mine, MineAsked, MineTaken, MineTold
    <3>3. QED
      BY <3>1, <3>2
  <2>3. MineAsked'
    BY <1>1, <2>1, <2>2 DEF Whole, Mine, MineAsked, Asks, Id
  <2>4. MineTaken' /\ MineTold'
    BY <1>1 DEF Whole, Mine, MineTaken, MineTold, Asks, Tells, Id
  <2>5. QED
    BY <2>3, <2>4 DEF Mine
<1> HIDE DEF h
<1>6. ASSUME NEW c \in Client PROVE Single(c)' /\ (Empty(c) => Empty(c)')
  <2>1. CASE Writer(c) = p
    <3>1. \A i \in Nat : At(c, "outbox", i)' => At(c, "outbox", i + 1) /\ i # 0
      BY <1>2, <2>1 DEF At
    <3>2. \A i \in Nat : At(c, "requestQ", i)' =>
            At(c, "requestQ", i) \/ (i = n /\ At(c, "outbox", 1))
      BY <1>2, <1>3, <2>1 DEF At, h
    <3>3. \A k \in Kinds \ {"outbox", "requestQ"} : \A i \in Nat : At(c, k, i)' => At(c, k, i)
      BY <1>1 DEF At
    <3>4. Single(c) /\ "outbox" \in Kinds /\ "requestQ" \in Kinds \ {"outbox"}
      BY <1>6 DEF Whole, OnePlace, Kinds
    <3>5. Moved(c, "outbox", "requestQ", n)
      BY <3>1, <3>2, <3>3 DEF Moved
    <3>6. QED
      BY <3>4, <3>5, Moves
  <2>2. CASE Writer(c) # p
    <3>1. \A k \in Kinds : \A i \in Nat : At(c, k, i)' => At(c, k, i)
      BY <1>1, <1>3, <1>4, <1>6, <2>2, Writers DEF At
    <3>2. QED
      BY <1>6, <3>1, Stays DEF Whole, OnePlace
  <2>3. QED
    BY <2>1, <2>2
<1>7. QED
  BY <1>1, <1>5, <1>6, WholeMoves

LEMMA QueueWhole == ASSUME TypeOK, Whole, Get \/ Fill PROVE Whole'
<1>1. /\ requestQ # <<>> /\ requestQ' = Tail(requestQ)
      /\ UNCHANGED <<up, outbox, decoded, rows, responseQ, down, actor, sent, turn, result>>
  BY DEF Get, Fill, owner, actors, sockets
<1>2. /\ requestQ[1] \in Queued /\ 1 \in DOMAIN requestQ /\ Head(requestQ) = requestQ[1]
      /\ \A i \in DOMAIN requestQ' : i # 0 /\ i + 1 \in DOMAIN requestQ
             /\ requestQ'[i] = requestQ[i + 1]
  <2>1. Shrunk(requestQ, requestQ') /\ Head(requestQ) \in Queued
    BY <1>1, ShrunkBy DEF TypeOK
  <2>2. QED
    BY <2>1 DEF Shrunk
<1>3. CASE UNCHANGED batch
  <2>1. Mine'
    BY <1>1, <1>2, <1>3 DEF Whole, Mine, MineAsked, MineTaken, MineTold, Asks, Tells, Id
  <2>2. ASSUME NEW c \in Client PROVE Single(c)' /\ (Empty(c) => Empty(c)')
    <3>1. \A i \in Nat : At(c, "requestQ", i)' => At(c, "requestQ", i + 1)
      BY <1>2 DEF At
    <3>2. \A k \in Kinds \ {"requestQ"} : \A i \in Nat : At(c, k, i)' => At(c, k, i)
      BY <1>1, <1>3 DEF At
    <3>3. QED
      BY <2>2, <3>1, <3>2, Leaves DEF Whole, OnePlace, Kinds
  <2>3. QED
    BY <1>1, <2>1, <2>2, WholeMoves
<1>4. CASE /\ requestQ[1].type = "infer"
           /\ batch' = <<requestQ[1]>> \/ batch' = Append(batch, requestQ[1])
  <2>1. PICK n \in Nat :
          \A i \in DOMAIN batch' : (i \in DOMAIN batch /\ batch'[i] = batch[i])
                                   \/ (i = n /\ batch'[i] = requestQ[1])
    <3>1. CASE batch' = <<requestQ[1]>>
      <4>1. \A i \in DOMAIN batch' : i = 1 /\ batch'[i] = requestQ[1]
        BY <3>1
      <4>2. QED
        BY <4>1
    <3>2. CASE batch' = Append(batch, requestQ[1])
      <4>1. requestQ[1] \in Message /\ batch \in Seq(Message)
        BY <1>2, <1>4, Kinds3 DEF TypeOK
      <4>2. Grown(batch, batch', requestQ[1])
        BY <3>2, <4>1, GrownBy
      <4>3. QED
        BY <4>2 DEF Grown
    <3>3. QED
      BY <1>4, <3>1, <3>2
  <2>2. Mine'
    <3>1. \A i \in DOMAIN batch' : Asks(batch[i], batch[i].client)'
      BY <1>1, <1>2, <1>4, <2>1 DEF Whole, Mine, MineAsked, MineTaken, MineTold, Asks, Id
    <3>2. MineAsked'
      BY <1>1, <1>2 DEF Whole, Mine, MineAsked, Asks, Id
    <3>3. MineTaken'
      BY <1>1, <3>1 DEF Whole, Mine, MineTaken, Asks, Id
    <3>4. MineTold'
      BY <1>1 DEF Whole, Mine, MineTold, Tells, Id
    <3>5. QED
      BY <3>2, <3>3, <3>4 DEF Mine
  <2>3. ASSUME NEW c \in Client PROVE Single(c)' /\ (Empty(c) => Empty(c)')
    <3>1. \A i \in Nat : At(c, "requestQ", i)' => At(c, "requestQ", i + 1) /\ i # 0
      BY <1>2 DEF At
    <3>2. \A i \in Nat : At(c, "batch", i)' =>
            At(c, "batch", i) \/ (i = n /\ At(c, "requestQ", 1))
      BY <1>2, <1>4, <2>1 DEF At
    <3>3. \A k \in Kinds \ {"requestQ", "batch"} : \A i \in Nat : At(c, k, i)' => At(c, k, i)
      BY <1>1 DEF At
    <3>4. Single(c) /\ "requestQ" \in Kinds /\ "batch" \in Kinds \ {"requestQ"}
      BY <2>3 DEF Whole, OnePlace, Kinds
    <3>5. Moved(c, "requestQ", "batch", n)
      BY <3>1, <3>2, <3>3 DEF Moved
    <3>6. QED
      BY <3>4, <3>5, Moves
  <2>4. QED
    BY <1>1, <2>2, <2>3, WholeMoves
<1>5. \/ UNCHANGED batch
      \/ /\ requestQ[1].type = "infer"
         /\ batch' = <<requestQ[1]>> \/ batch' = Append(batch, requestQ[1])
  BY <1>2 DEF Get, Fill
<1>6. QED
  BY <1>3, <1>4, <1>5

LEMMA DecodeWhole == ASSUME TypeOK, Whole, Decode PROVE Whole'
<1>1. /\ batch # <<>> /\ batch' = Tail(batch)
      /\ UNCHANGED <<up, outbox, requestQ, rows, down, actor, sent, turn, result>>
  BY DEF Decode, actors, sockets
<1>2. /\ batch[1] \in Message /\ 1 \in DOMAIN batch /\ Head(batch) = batch[1]
      /\ \A i \in DOMAIN batch' : i # 0 /\ i + 1 \in DOMAIN batch /\ batch'[i] = batch[i + 1]
  <2>1. Shrunk(batch, batch') /\ Head(batch) \in Message
    BY <1>1, ShrunkBy DEF TypeOK
  <2>2. QED
    BY <2>1 DEF Shrunk
<1>3. batch[1].client \in Client /\ Asks(batch[1], batch[1].client)
  BY <1>2, MessageParts DEF Whole, Mine, MineAsked, MineTaken, MineTold
<1>4. CASE UNCHANGED responseQ /\ decoded' = Append(decoded, [msg |-> batch[1], emb |-> Embedding])
  <2>1. PICK n \in Nat :
          \A i \in DOMAIN decoded' : (i \in DOMAIN decoded /\ decoded'[i] = decoded[i])
                                     \/ (i = n /\ decoded'[i].msg = batch[1])
    <3>1. [msg |-> batch[1], emb |-> Embedding] \in [msg : Message, emb : Version]
      BY <1>2 DEF Embedding, TypeOK
    <3>2. decoded \in Seq([msg : Message, emb : Version])
      BY DEF TypeOK
    <3> DEFINE e == [msg |-> batch[1], emb |-> Embedding]
    <3>3. e.msg = batch[1] /\ e \in [msg : Message, emb : Version] /\ decoded' = Append(decoded, e)
      BY <1>4, <3>1
    <3> DEFINE S == [msg : Message, emb : Version]
    <3>6. decoded \in Seq(S) /\ e \in S
      BY <3>2, <3>3
    <3> HIDE DEF e, S
    <3>4. Grown(decoded, decoded', e)
      BY <3>3, <3>6, GrownBy
    <3>5. QED
      BY <3>3, <3>4 DEF Grown
  <2>2. Mine'
    <3>1. \A i \in DOMAIN batch' : Asks(batch[i], batch[i].client)'
      BY <1>1, <1>2 DEF Whole, Mine, MineAsked, MineTaken, MineTold, Asks, Id
    <3>2. \A i \in DOMAIN decoded' : Asks(decoded[i].msg, decoded[i].msg.client)'
      BY <1>1, <1>3, <2>1 DEF Whole, Mine, MineAsked, MineTaken, MineTold, Asks, Id
    <3>3. MineTaken'
      BY <3>1, <3>2 DEF MineTaken, Asks, Id
    <3>4. MineAsked'
      BY <1>1 DEF Whole, Mine, MineAsked, Asks, Id
    <3>5. MineTold'
      BY <1>1, <1>4 DEF Whole, Mine, MineTold, Tells, Id
    <3>6. QED
      BY <3>3, <3>4, <3>5 DEF Mine
  <2>3. ASSUME NEW c \in Client PROVE Single(c)' /\ (Empty(c) => Empty(c)')
    <3>1. \A i \in Nat : At(c, "batch", i)' => At(c, "batch", i + 1) /\ i # 0
      BY <1>2 DEF At
    <3>2. \A i \in Nat : At(c, "decoded", i)' =>
            At(c, "decoded", i) \/ (i = n /\ At(c, "batch", 1))
      BY <1>2, <2>1 DEF At
    <3>3. \A k \in Kinds \ {"batch", "decoded"} : \A i \in Nat : At(c, k, i)' => At(c, k, i)
      BY <1>1, <1>4 DEF At
    <3>4. Single(c) /\ "batch" \in Kinds /\ "decoded" \in Kinds \ {"batch"}
      BY <2>3 DEF Whole, OnePlace, Kinds
    <3>5. Moved(c, "batch", "decoded", n)
      BY <3>1, <3>2, <3>3 DEF Moved
    <3>6. QED
      BY <3>4, <3>5, Moves
  <2>4. QED
    BY <1>1, <2>2, <2>3, WholeMoves
<1>5. CASE Put(batch[1].client, Reply(batch[1], "miss", NoRow)) /\ UNCHANGED decoded
  <2> DEFINE d == batch[1].client
             r == Reply(batch[1], "miss", NoRow)
  <2>1. r \in Response /\ Tells(r, d)
    BY <1>2, <1>3, MessageParts, Replies DEF Row, Tells, Asks
  <2>3. PICK n \in Nat :
          \A c \in Client : \A i \in DOMAIN responseQ'[c] :
            \/ i \in DOMAIN responseQ[c] /\ responseQ'[c][i] = responseQ[c][i]
            \/ c = d /\ i = n /\ responseQ'[c][i] = r
    BY <1>3, <1>5, <2>1, PutGrows
  <2>4. Mine'
    <3>1. MineAsked'
      BY <1>1 DEF Whole, Mine, MineAsked, Asks, Id
    <3>2. MineTaken'
      BY <1>1, <1>2, <1>5 DEF Whole, Mine, MineTaken, Asks, Id
    <3>3. MineTold'
      BY <1>1, <2>1, <2>3 DEF Whole, Mine, MineTold, Tells, Id
    <3>4. QED
      BY <3>1, <3>2, <3>3 DEF Mine
  <2>5. ASSUME NEW c \in Client PROVE Single(c)' /\ (Empty(c) => Empty(c)')
    <3>1. \A i \in Nat : At(c, "batch", i)' => At(c, "batch", i + 1) /\ i # 0
      BY <1>2 DEF At
    <3>2. \A i \in Nat : At(c, "responseQ", i)' =>
            At(c, "responseQ", i) \/ (i = n /\ At(c, "batch", 1))
      BY <1>2, <2>3, <2>5 DEF At
    <3>3. \A k \in Kinds \ {"batch", "responseQ"} : \A i \in Nat : At(c, k, i)' => At(c, k, i)
      BY <1>1, <1>5 DEF At
    <3>4. Single(c) /\ "batch" \in Kinds /\ "responseQ" \in Kinds \ {"batch"}
      BY <2>5 DEF Whole, OnePlace, Kinds
    <3>5. Moved(c, "batch", "responseQ", n)
      BY <3>1, <3>2, <3>3 DEF Moved
    <3>6. QED
      BY <3>4, <3>5, Moves
  <2>6. QED
    BY <1>1, <2>4, <2>5, WholeMoves
<1>6. QED
  BY <1>2, <1>4, <1>5 DEF Decode

LEMMA ForwardWhole == ASSUME TypeOK, Whole, ForwardBatch PROVE Whole'
<1>1. /\ decoded' = <<>> /\ DOMAIN decoded' = {}
      /\ UNCHANGED <<up, outbox, requestQ, batch, responseQ, down, actor, sent, turn, result>>
  BY DEF ForwardBatch, actors, sockets
<1>2. PICK ok \in BOOLEAN : rows' = [k \in 1 .. Len(decoded) |-> Outcome(k, ok)]
  BY DEF ForwardBatch
<1>3. ASSUME NEW k \in DOMAIN rows'
      PROVE  /\ k \in DOMAIN decoded /\ rows'[k].client = decoded[k].msg.client
             /\ Tells(rows'[k].reply, rows'[k].client)
  <2>1. k \in DOMAIN decoded /\ rows'[k] = Outcome(k, ok)
    BY <1>2, <1>3, LenProperties DEF TypeOK
  <2>2. /\ decoded[k].msg \in Message /\ decoded[k].emb \in Version
        /\ Asks(decoded[k].msg, decoded[k].msg.client)
    BY <2>1, OutcomeTypes DEF Whole, Mine, MineAsked, MineTaken, MineTold
  <2>3. OutputRow(k) \in Row /\ NoRow \in Row /\ OutputRow(k).obs = decoded[k].msg.obs
    BY <2>2 DEF OutputRow, Row, Message, TypeOK
  <2>4. /\ Tells(Reply(decoded[k].msg, "ok", OutputRow(k)), decoded[k].msg.client)
        /\ Tells(Reply(decoded[k].msg, "failed", NoRow), decoded[k].msg.client)
    BY <2>2, <2>3, MessageParts, Replies DEF Tells, Asks
  <2>5. QED
    BY <2>1, <2>4 DEF Outcome
<1>4. Mine'
  BY <1>1, <1>3 DEF Whole, Mine, MineAsked, MineTaken, MineTold, Asks, Tells, Id
<1>5. ASSUME NEW c \in Client PROVE Single(c)' /\ (Empty(c) => Empty(c)')
  <2>1. \A k \in Kinds : \A i \in Nat : At(c, k, i)' =>
          \/ k = "rows" /\ At(c, "decoded", i)
          \/ k \notin {"rows", "decoded"} /\ At(c, k, i)
    BY <1>1, <1>3 DEF At
  <2>2. Single(c) /\ "decoded" \in Kinds
    BY <1>5 DEF Whole, OnePlace, Kinds
  <2>3. ASSUME NEW k \in Kinds, NEW l \in Kinds, NEW i \in Nat, NEW j \in Nat,
               At(c, k, i)', At(c, l, j)'
        PROVE  k = l /\ i = j
    BY <2>1, <2>2, <2>3 DEF Single
  <2>4. QED
    BY <2>1, <2>2, <2>3 DEF Single, Empty
<1>6. QED
  BY <1>1, <1>4, <1>5, WholeMoves

LEMMA DispatchWhole == ASSUME TypeOK, Whole, Dispatch PROVE Whole'
<1>1. UNCHANGED <<up, outbox, requestQ, batch, decoded, down, actor, sent, turn, result>>
  BY DEF Dispatch, actors, sockets
<1>2. CASE rows = <<>>
  BY <1>1, <1>2, WholeUnchanged DEF Dispatch
<1>3. CASE rows # <<>>
  <2> DEFINE d == rows[1].client
             r == rows[1].reply
  <2>1. rows \in Seq([client : Client, reply : Response]) /\ rows' = Tail(rows)
    BY <1>3 DEF Dispatch, TypeOK
  <2>2. /\ rows[1] \in [client : Client, reply : Response] /\ 1 \in DOMAIN rows
               /\ Head(rows) = rows[1]
        /\ \A i \in DOMAIN rows' : i # 0 /\ i + 1 \in DOMAIN rows /\ rows'[i] = rows[i + 1]
    <3>1. Shrunk(rows, rows') /\ Head(rows) \in [client : Client, reply : Response]
      <4> DEFINE S == [client : Client, reply : Response]
      <4>1. rows \in Seq(S)
        BY <2>1
      <4> HIDE DEF S
      <4>2. Shrunk(rows, Tail(rows)) /\ Head(rows) \in S
        BY <1>3, <4>1, ShrunkBy
      <4>3. QED
        BY <2>1, <4>2 DEF S
    <3>2. QED
      BY <3>1 DEF Shrunk
  <2>3. d \in Client /\ r \in Response /\ Tells(r, d) /\ Put(d, r)
    BY <1>3, <2>2 DEF Dispatch, Whole, Mine, MineAsked, MineTaken, MineTold
  <2>4. PICK n \in Nat :
          \A c \in Client : \A i \in DOMAIN responseQ'[c] :
            \/ i \in DOMAIN responseQ[c] /\ responseQ'[c][i] = responseQ[c][i]
            \/ c = d /\ i = n /\ responseQ'[c][i] = r
    BY <2>3, PutGrows
  <2>5. Mine'
    BY <1>1, <2>2, <2>3, <2>4 DEF Whole, Mine, MineAsked, MineTaken, MineTold, Asks, Tells, Id
  <2>6. ASSUME NEW c \in Client PROVE Single(c)' /\ (Empty(c) => Empty(c)')
    <3>1. \A i \in Nat : At(c, "rows", i)' => At(c, "rows", i + 1) /\ i # 0
      BY <2>2 DEF At
    <3>2. \A i \in Nat : At(c, "responseQ", i)' =>
            At(c, "responseQ", i) \/ (i = n /\ At(c, "rows", 1))
      BY <2>2, <2>4, <2>6 DEF At
    <3>3. \A k \in Kinds \ {"rows", "responseQ"} : \A i \in Nat : At(c, k, i)' => At(c, k, i)
      BY <1>1 DEF At
    <3>4. Single(c) /\ "rows" \in Kinds /\ "responseQ" \in Kinds \ {"rows"}
      BY <2>6 DEF Whole, OnePlace, Kinds
    <3>5. Moved(c, "rows", "responseQ", n)
      BY <3>1, <3>2, <3>3 DEF Moved
    <3>6. QED
      BY <3>4, <3>5, Moves
  <2>7. QED
    BY <1>1, <2>5, <2>6, WholeMoves
<1>4. QED
  BY <1>2, <1>3

LEMMA HandlerWhole == ASSUME TypeOK, Whole, NEW d \in SocketClients, HandlerStep(d) PROVE Whole'
<1>0. d \in Client
  BY DEF Client
<1>1. CASE Forward(d)
  <2>1. /\ UNCHANGED <<batch, decoded, rows, responseQ, down, actor, sent, turn, result>>
        /\ up[d] # <<>> /\ up[d] \in Seq(Message) /\ PutRequest("server", Head(up[d]))
        /\ \A c \in SocketClients : up'[c] = IF c = d THEN Tail(up[c]) ELSE up[c]
    BY <1>1 DEF Forward, loop, work, actors, TypeOK
  <2>2. /\ up[d][1] \in Message /\ 1 \in DOMAIN up[d] /\ Head(up[d]) = up[d][1]
        /\ \A i \in DOMAIN up'[d] : i # 0 /\ i + 1 \in DOMAIN up[d] /\ up'[d][i] = up[d][i + 1]
    <3>1. Shrunk(up[d], Tail(up[d])) /\ Head(up[d]) \in Message
      BY <2>1, ShrunkBy
    <3>2. QED
      BY <2>1, <3>1 DEF Shrunk
  <2>3. up[d][1].client = d /\ up[d][1].type = "infer" /\ Asks(up[d][1], d) /\ up[d][1] \in Queued
        /\ Writer(d) = "server" /\ "server" \in Producer
    BY <2>2, MessageParts DEF Whole, Mine, MineAsked, MineTaken, MineTold, Queued, Writer, Producer
  <2>4. PICK n \in Nat : \A q \in Producer : \A i \in DOMAIN outbox'[q] :
          \/ i \in DOMAIN outbox[q] /\ outbox'[q][i] = outbox[q][i]
          \/ q = "server" /\ i = n /\ outbox'[q][i] = up[d][1]
    BY <2>1, <2>2, <2>3, OutboxGrows
  <2>9. requestQ' = requestQ
    BY <2>1 DEF PutRequest
  <2>5. Mine'
    <3>1. \A c \in SocketClients : \A i \in DOMAIN up'[c] :
            (up[c][i].client = c /\ Asks(up[c][i], c))'
      BY <2>1, <2>2 DEF Whole, Mine, MineAsked, MineTaken, MineTold, Asks, Id
    <3>2. \A q \in Producer : \A i \in DOMAIN outbox'[q] :
            (outbox[q][i].type = "infer" =>
               Writer(outbox[q][i].client) = q /\ Asks(outbox[q][i], outbox[q][i].client))'
      BY <2>1, <2>3, <2>4 DEF Whole, Mine, MineAsked, MineTaken, MineTold, Asks, Id
    <3>3. QED
      BY <2>1, <2>9, <3>1, <3>2 DEF Whole, Mine, MineAsked, MineTaken, MineTold, Asks, Tells, Id
  <2>6. ASSUME NEW c \in Client, c # d PROVE Single(c)' /\ (Empty(c) => Empty(c)')
    <3>1. \A k \in Kinds : \A i \in Nat : At(c, k, i)' => At(c, k, i)
      BY <2>1, <2>3, <2>4, <2>6, <2>9, Writers DEF At
    <3>2. QED
      BY <2>6, <3>1, Stays DEF Whole, OnePlace
  <2>7. Single(d)' /\ (Empty(d) => Empty(d)')
    <3>1. \A i \in Nat : At(d, "up", i)' => At(d, "up", i + 1) /\ i # 0
      BY <2>2 DEF At
    <3>2. \A i \in Nat : At(d, "outbox", i)' =>
            At(d, "outbox", i) \/ (i = n /\ At(d, "up", 1))
      BY <2>2, <2>3, <2>4 DEF At
    <3>3. \A k \in Kinds \ {"up", "outbox"} : \A i \in Nat : At(d, k, i)' => At(d, k, i)
      BY <2>1, <2>9 DEF At
    <3>4. Single(d) /\ "up" \in Kinds /\ "outbox" \in Kinds \ {"up"}
      BY <1>0 DEF Whole, OnePlace, Kinds
    <3>5. Moved(d, "up", "outbox", n)
      BY <3>1, <3>2, <3>3 DEF Moved
    <3>6. QED
      BY <3>4, <3>5, Moves
  <2>8. QED
    BY <2>1, <2>5, <2>6, <2>7, WholeMoves
<1>2. CASE TakeReply(d)
  <2> DEFINE r == responseQ[d][1]
  <2>1. /\ UNCHANGED <<batch, decoded, rows, outbox, requestQ, up, actor, sent, turn, result>>
        /\ responseQ[d] # <<>> /\ responseQ[d] \in Seq(Response)
        /\ \A c \in Client : responseQ'[c] = IF c = d THEN Tail(responseQ[c]) ELSE responseQ[c]
    BY <1>0, <1>2 DEF TakeReply, loop, work, actors, TypeOK
  <2>2. /\ r \in Response /\ 1 \in DOMAIN responseQ[d] /\ Head(responseQ[d]) = r
        /\ \A i \in DOMAIN responseQ'[d] :
             i # 0 /\ i + 1 \in DOMAIN responseQ[d] /\ responseQ'[d][i] = responseQ[d][i + 1]
    <3>1. Shrunk(responseQ[d], Tail(responseQ[d])) /\ Head(responseQ[d]) \in Response
      BY <2>1, ShrunkBy
    <3>2. QED
      BY <1>0, <2>1, <3>1 DEF Shrunk
  <2>3. r.rid = turn[d] /\ Tells(r, d)
    BY <1>0, <2>2 DEF Whole, Mine, MineAsked, MineTaken, MineTold, Tells, Id
  <2>4. \A c \in SocketClients : down'[c] = IF c = d THEN Append(down[c], r) ELSE down[c]
    BY <1>2, <2>2, <2>3, SMTT(30) DEF TakeReply, TypeOK
  <2>5. PICK n \in Nat : \A i \in DOMAIN down'[d] :
          (i \in DOMAIN down[d] /\ down'[d][i] = down[d][i]) \/ (i = n /\ down'[d][i] = r)
    <3>1. down[d] \in Seq(Response)
      BY DEF TypeOK
    <3>2. Grown(down[d], Append(down[d], r), r)
      BY <2>2, <3>1, GrownBy
    <3>3. Grown(down[d], down'[d], r)
      BY <2>4, <3>2
    <3> HIDE DEF r
    <3>4. QED
      BY <3>3 DEF Grown
  <2>6. Mine'
    <3> HIDE DEF r
    <3>1. \A c \in Client : \A i \in DOMAIN responseQ'[c] : Tells(responseQ[c][i], c)'
      BY <1>0, <2>1, <2>2 DEF Whole, Mine, MineAsked, MineTaken, MineTold, Tells, Id
    <3>2. \A i \in DOMAIN down'[d] : (down[d][i].status # "stopping" => Tells(down[d][i], d))'
      BY <2>1, <2>3, <2>5 DEF Whole, Mine, MineAsked, MineTaken, MineTold, Tells, Id
    <3>3. \A c \in SocketClients : \A i \in DOMAIN down'[c] :
            (down[c][i].status # "stopping" => Tells(down[c][i], c))'
      BY <2>1, <2>4, <3>2 DEF Whole, Mine, MineAsked, MineTaken, MineTold, Tells, Id
    <3>4. QED
      BY <2>1, <3>1, <3>3 DEF Whole, Mine, MineAsked, MineTaken, MineTold, Asks, Tells, Id
  <2>7. ASSUME NEW c \in Client, c # d PROVE Single(c)' /\ (Empty(c) => Empty(c)')
    <3>1. \A k \in Kinds : \A i \in Nat : At(c, k, i)' => At(c, k, i)
      BY <2>1, <2>4, <2>7 DEF At
    <3>2. QED
      BY <2>7, <3>1, Stays DEF Whole, OnePlace
  <2>8. Single(d)' /\ (Empty(d) => Empty(d)')
    <3>1. \A i \in Nat : At(d, "responseQ", i)' => At(d, "responseQ", i + 1) /\ i # 0
      BY <2>2 DEF At
    <3>2. \A i \in Nat : At(d, "down", i)' =>
            At(d, "down", i) \/ (i = n /\ At(d, "responseQ", 1))
      BY <2>2, <2>5 DEF At
    <3>3. \A k \in Kinds \ {"responseQ", "down"} : \A i \in Nat : At(d, k, i)' => At(d, k, i)
      BY <2>1 DEF At
    <3>4. Single(d) /\ "responseQ" \in Kinds /\ "down" \in Kinds \ {"responseQ"}
      BY <1>0 DEF Whole, OnePlace, Kinds
    <3>5. Moved(d, "responseQ", "down", n)
      BY <3>1, <3>2, <3>3 DEF Moved
    <3>6. QED
      BY <3>4, <3>5, Moves
  <2>9. QED
    BY <2>1, <2>6, <2>7, <2>8, WholeMoves
<1>3. CASE StopReply(d)
  <2> DEFINE r == Reply([rid |-> turn[d]], "stopping", NoRow)
  <2>1. UNCHANGED <<batch, decoded, rows, outbox, requestQ, responseQ, up, actor, sent, turn, result>>
    BY <1>3 DEF StopReply, loop, work, actors
  <2>2. r \in Response /\ r.status = "stopping"
    <3>1. [rid |-> turn[d]].rid \in 0 .. MaxRequests /\ NoRow \in Row
      BY <1>0 DEF TypeOK, Row
    <3>2. QED
      BY <3>1, Replies
  <2>3. \A c \in SocketClients : down'[c] = IF c = d THEN Append(down[c], r) ELSE down[c]
    BY <1>3 DEF StopReply, TypeOK
  <2> HIDE DEF r
  <2>4. PICK n \in Nat : \A i \in DOMAIN down'[d] :
          (i \in DOMAIN down[d] /\ down'[d][i] = down[d][i]) \/ (i = n /\ down'[d][i] = r)
    <3>1. down[d] \in Seq(Response)
      BY DEF TypeOK
    <3>2. Grown(down[d], Append(down[d], r), r)
      BY <2>2, <3>1, GrownBy
    <3>3. QED
      BY <2>3, <3>2, ZenonT(30) DEF Grown
  <2>5. \A c \in SocketClients : \A i \in DOMAIN down'[c] : down'[c][i].status # "stopping" =>
          i \in DOMAIN down[c] /\ down'[c][i] = down[c][i]
    BY <2>2, <2>3, <2>4
  <2>6. Mine'
    BY <2>1, <2>5 DEF Whole, Mine, MineAsked, MineTaken, MineTold, Asks, Tells, Id
  <2>7. ASSUME NEW c \in Client PROVE Single(c)' /\ (Empty(c) => Empty(c)')
    <3>1. \A k \in Kinds : \A i \in Nat : At(c, k, i)' => At(c, k, i)
      BY <2>1, <2>5 DEF At
    <3>2. QED
      BY <2>7, <3>1, Stays DEF Whole, OnePlace
  <2>8. QED
    BY <2>1, <2>6, <2>7, WholeMoves
<1>4. QED
  BY <1>1, <1>2, <1>3 DEF HandlerStep

\* Where there is nothing of a client, and whose the messages are.
NothingOf(d) ==
  /\ \A p \in Producer : \A i \in DOMAIN outbox[p] :
       outbox[p][i].type = "infer" => outbox[p][i].client # d
  /\ \A i \in DOMAIN requestQ : requestQ[i].type = "infer" => requestQ[i].client # d
  /\ \A i \in DOMAIN batch : batch[i].client # d
  /\ \A i \in DOMAIN decoded : decoded[i].msg.client # d
  /\ \A i \in DOMAIN rows : rows[i].client # d
  /\ DOMAIN responseQ[d] = {}
  /\ d \in SocketClients =>
       DOMAIN up[d] = {} /\ \A i \in DOMAIN down[d] : down[d][i].status = "stopping"

ClientsOf ==
  /\ \A p \in Producer : \A i \in DOMAIN outbox[p] :
       outbox[p][i].type = "infer" => outbox[p][i].client \in Client
  /\ \A i \in DOMAIN requestQ : requestQ[i].type = "infer" => requestQ[i].client \in Client
  /\ \A i \in DOMAIN batch : batch[i].client \in Client
  /\ \A i \in DOMAIN decoded : decoded[i].msg.client \in Client
  /\ \A i \in DOMAIN rows : rows[i].client \in Client

LEMMA Domains ==
  ASSUME TypeOK
  PROVE  /\ DOMAIN requestQ \subseteq Nat /\ DOMAIN batch \subseteq Nat
         /\ DOMAIN decoded \subseteq Nat /\ DOMAIN rows \subseteq Nat
         /\ \A p \in Producer : DOMAIN outbox[p] \subseteq Nat
         /\ \A c \in Client : DOMAIN responseQ[c] \subseteq Nat
         /\ \A c \in SocketClients : DOMAIN up[c] \subseteq Nat /\ DOMAIN down[c] \subseteq Nat
<1>1. \A S : \A s \in Seq(S) : DOMAIN s \subseteq Nat
  BY LenProperties
<1>2. QED
  BY <1>1 DEF TypeOK

LEMMA EmptyOf == ASSUME TypeOK, Mine, NEW d \in Client, Empty(d) PROVE NothingOf(d)
<1>1. ASSUME NEW p \in Producer, NEW i \in DOMAIN outbox[p],
             outbox[p][i].type = "infer", outbox[p][i].client = d
      PROVE  FALSE
  <2>1. Writer(d) = p /\ i \in Nat
    BY <1>1, Domains DEF Mine, MineAsked, MineTaken, MineTold
  <2>2. At(d, "outbox", i)
    BY <1>1, <2>1 DEF At
  <2>3. QED
    BY <2>1, <2>2 DEF Empty, Kinds
<1>2. QED
  BY <1>1, Domains DEF NothingOf, Empty, At, Kinds

LEMMA ClientsKnown == ASSUME TypeOK PROVE ClientsOf
<1>1. /\ \A i \in DOMAIN requestQ : requestQ[i] \in Queued
      /\ \A p \in Producer : \A i \in DOMAIN outbox[p] : outbox[p][i] \in Queued
  BY QueuedTypes DEF TypeOK
<1>2. \A i \in DOMAIN batch : batch[i] \in Message
  BY ElementOfSeq, LenProperties DEF TypeOK
<1>3. \A i \in DOMAIN decoded : decoded[i].msg \in Message
  BY OutcomeTypes
<1>4. \A i \in DOMAIN rows : rows[i].client \in Client
  <2> DEFINE S == [client : Client, reply : Response]
  <2>1. rows \in Seq(S)
    BY DEF TypeOK
  <2> HIDE DEF S
  <2>2. \A i \in DOMAIN rows : rows[i] \in S
    BY <2>1, ElementOfSeq, LenProperties
  <2>3. QED
    BY <2>2 DEF S
<1>5. QED
  BY <1>1, <1>2, <1>3, <1>4, Kinds3, MessageParts DEF ClientsOf

\* An answer that is received, or is not, ends the wait; only a row lets it play on.
LEMMA ActorWhole ==
  ASSUME TypeOK, Turns, Whole, NEW d \in Client,
         \/ Request(d) \/ NextEpisode(d) \/ Timeout(d)
         \/ d \in QueueClients /\ ReceiveQueue(d)
         \/ d \in SocketClients /\ (ReceiveSocket(d) \/ ConnectionLost(d))
  PROVE  Whole'
<1>1. CASE Request(d)
  <2>1. /\ actor[d] = "playing" /\ UNCHANGED <<batch, decoded, rows, responseQ, down>>
        /\ \A c \in Client : /\ sent'[c] = IF c = d THEN sent[c] + 1 ELSE sent[c]
                             /\ turn'[c] = IF c = d THEN turn[c] + 1 ELSE turn[c]
                             /\ actor'[c] = IF c = d THEN "waiting" ELSE actor[c]
                             /\ result'[c] = IF c = d THEN NoResult ELSE result[c]
    BY <1>1 DEF Request, loop, work, TypeOK
  <2>2. PICK m \in Message :
          /\ m.client = d /\ m.type = "infer" /\ m.obs = <<d, sent'[d]>>
          /\ m.rid = IF d \in SocketClients THEN turn'[d] ELSE sent'[d]
          /\ \/ d \in SocketClients /\ up' = [up EXCEPT ![d] = Append(@, m)] /\ UNCHANGED queues
             \/ d \notin SocketClients /\ PutRequest(d, m) /\ up' = up
    <3> DEFINE m == Infer(d, sent[d] + 1, turn[d] = 0,
                          IF d \in SocketClients THEN turn[d] + 1 ELSE sent[d] + 1)
    <3>1. sent[d] \in 0 .. MaxRequests /\ turn[d] \in 0 .. MaxRequests /\ turn[d] <= sent[d]
      BY DEF TypeOK, Turns
    <3>2. sent[d] + 1 \in 1 .. MaxRequests /\ turn[d] + 1 \in 1 .. MaxRequests
      BY <1>1, <3>1, RpcAssumption DEF Request
    <3>3. /\ m \in Message /\ m.client = d /\ m.type = "infer" /\ m.obs = <<d, sent'[d]>>
          /\ m.rid = IF d \in SocketClients THEN turn'[d] ELSE sent'[d]
      BY <2>1, <3>2 DEF Infer, Message, TypeOK
    <3>4. \/ d \in SocketClients /\ up' = [up EXCEPT ![d] = Append(@, m)] /\ UNCHANGED queues
          \/ d \notin SocketClients /\ PutRequest(d, m) /\ up' = up
      BY <1>1 DEF Request
    <3> HIDE DEF m
    <3>5. QED
      BY <3>3, <3>4
  <2>4. Empty(d)
    BY <2>1 DEF Whole, NoPlace
  <2>5. NothingOf(d)
    BY <2>4, EmptyOf DEF Whole
  <2>6. ClientsOf
    BY ClientsKnown
  <2>8. PICK n \in Nat : 
          \/ /\ d \in SocketClients /\ outbox' = outbox
             /\ \A c \in SocketClients : c # d => up'[c] = up[c]
             /\ \A i \in DOMAIN up'[d] : i = n /\ up'[d][i] = m
          \/ /\ d \notin SocketClients /\ up' = up
             /\ \A q \in Producer : \A i \in DOMAIN outbox'[q] :
                  \/ i \in DOMAIN outbox[q] /\ outbox'[q][i] = outbox[q][i]
                  \/ q = d /\ i = n /\ outbox'[q][i] = m
    <3>1. CASE d \in SocketClients /\ up' = [up EXCEPT ![d] = Append(@, m)] /\ UNCHANGED queues
      <4>1. up[d] \in Seq(Message) /\ up'[d] = Append(up[d], m) /\ DOMAIN up[d] = {}
        BY <2>5, <3>1 DEF TypeOK, NothingOf
      <4>2. Grown(up[d], Append(up[d], m), m)
        BY <4>1, GrownBy
      <4>3. \E n \in Nat : \A i \in DOMAIN up'[d] : i = n /\ up'[d][i] = m
        BY <4>1, <4>2 DEF Grown
      <4>4. \A c \in SocketClients : c # d => up'[c] = up[c]
        BY <3>1 DEF TypeOK
      <4>5. QED
        BY <3>1, <4>3, <4>4
    <3>2. CASE d \notin SocketClients /\ PutRequest(d, m) /\ up' = up
      <4>1. d \in Producer /\ m \in Queued
        BY <3>2 DEF Client, Producer, Queued
      <4>2. QED
        BY <3>2, <4>1, OutboxGrows
    <3>3. QED
      BY <2>2, <3>1, <3>2
  <2>14. requestQ' = requestQ /\ (d \notin SocketClients => Writer(d) = d)
    BY <2>2 DEF PutRequest, Writer
  <2>9. Mine'
    <3>1. \A c \in SocketClients : \A i \in DOMAIN up'[c] :
            up'[c][i].client = c /\ Asks(up[c][i], c)'
      BY <2>1, <2>2, <2>8 DEF Whole, Mine, MineAsked, MineTaken, MineTold, Client, Asks, Id
    <3>2. \A q \in Producer : \A i \in DOMAIN outbox'[q] : outbox'[q][i].type = "infer" =>
            Writer(outbox'[q][i].client) = q /\ Asks(outbox[q][i], outbox[q][i].client)'
      BY <2>1, <2>2, <2>5, <2>6, <2>8, <2>14 DEF Whole, Mine, MineAsked, MineTaken, MineTold, NothingOf, ClientsOf, Asks, Id
    <3>6. \A i \in DOMAIN requestQ' :
            requestQ'[i].type = "infer" => Asks(requestQ[i], requestQ[i].client)'
      BY <2>1, <2>5, <2>6, <2>14 DEF Whole, Mine, MineAsked, MineTaken, MineTold, NothingOf, ClientsOf, Asks, Id
    <3>3. /\ \A i \in DOMAIN batch : Asks(batch[i], batch[i].client)'
          /\ \A i \in DOMAIN decoded : Asks(decoded[i].msg, decoded[i].msg.client)'
      BY <2>1, <2>5, <2>6 DEF Whole, Mine, MineAsked, MineTaken, MineTold, NothingOf, ClientsOf, Asks, Id
    <3>4. /\ \A i \in DOMAIN rows : Tells(rows[i].reply, rows[i].client)'
          /\ \A c \in Client : \A i \in DOMAIN responseQ[c] : Tells(responseQ[c][i], c)'
          /\ \A c \in SocketClients : \A i \in DOMAIN down[c] :
               down[c][i].status # "stopping" => Tells(down[c][i], c)'
      BY <2>1, <2>5, <2>6 DEF Whole, Mine, MineAsked, MineTaken, MineTold, NothingOf, ClientsOf, Tells, Id, Client
    <3>5. QED
      BY <2>1, <2>14, <3>1, <3>2, <3>3, <3>4, <3>6 DEF Mine, MineAsked, MineTaken, MineTold
  <2>10. OnePlace'
    <3>1. ASSUME NEW c \in Client, c # d PROVE Single(c)'
      <4>1. \A k \in Kinds : \A i \in Nat : At(c, k, i)' => At(c, k, i)
        BY <2>1, <2>2, <2>8, <2>14, <3>1, Writers DEF At
      <4>2. QED
        BY <3>1, <4>1, Stays DEF Whole, OnePlace
    <3>2. CASE d \in SocketClients
      <4>1. \A k \in Kinds : \A i \in Nat : At(d, k, i)' => k = "up" /\ i = n
        BY <2>1, <2>5, <2>8, <2>14, <3>2, Writers DEF At, NothingOf
      <4>2. Single(d)'
        BY <4>1, Enters DEF Kinds
      <4>3. QED
        BY <3>1, <4>2 DEF OnePlace
    <3>3. CASE d \notin SocketClients
      <4>1. \A k \in Kinds : \A i \in Nat : At(d, k, i)' => k = "outbox" /\ i = n
        BY <2>1, <2>5, <2>8, <2>14, <3>3, Writers DEF At, NothingOf
      <4>2. Single(d)'
        BY <4>1, Enters DEF Kinds
      <4>3. QED
        BY <3>1, <4>2 DEF OnePlace
    <3>4. QED
      BY <3>2, <3>3
  <2>11. NoPlace'
    <3> SUFFICES ASSUME NEW c \in Client, actor'[c] = "playing" PROVE Empty(c)'
      BY DEF NoPlace
    <3>1. c # d /\ Empty(c)
      BY <2>1 DEF Whole, NoPlace
    <3>2. \A k \in Kinds : \A i \in Nat : At(c, k, i)' => At(c, k, i)
      BY <2>1, <2>2, <2>8, <2>14, <3>1, Writers DEF At
    <3>3. QED
      BY <3>1, <3>2 DEF Empty
  <2>12. OwnRow' /\ \A c \in Client : result'[c].status # "mismatch"
    BY <2>1 DEF Whole, OwnRow, NoStaleReply, NoResult
  <2>13. QED
    BY <2>9, <2>10, <2>11, <2>12 DEF Whole, NoStaleReply, Mine, MineAsked, MineTaken, MineTold, Tells, Id, Client
<1>2. CASE NextEpisode(d)
  <2>1. /\ actor[d] = "playing"
        /\ UNCHANGED <<up, outbox, requestQ, batch, decoded, rows, responseQ, down, actor, sent, result>>
        /\ \A c \in Client : c # d => turn'[c] = turn[c]
    BY <1>2 DEF NextEpisode, loop, work, sockets, TypeOK
  <2>2. NothingOf(d) /\ ClientsOf
    BY <2>1, EmptyOf, ClientsKnown DEF Whole, NoPlace
  <2>3. \A c \in Client : c # d => /\ \A x : Asks(x, c)' <=> Asks(x, c)
                                   /\ \A x : Tells(x, c)' <=> Tells(x, c)
    BY <2>1 DEF Asks, Tells, Id
  <2>4. Mine'
    BY <2>1, <2>2, <2>3 DEF Whole, Mine, MineAsked, MineTaken, MineTold, NothingOf, ClientsOf, Client
  <2>5. ASSUME NEW c \in Client PROVE Single(c)' /\ (Empty(c) => Empty(c)')
    <3>1. \A k \in Kinds : \A i \in Nat : At(c, k, i)' => At(c, k, i)
      BY <2>1, NothingMoves
    <3>2. QED
      BY <2>5, <3>1, Stays DEF Whole, OnePlace
  <2>6. OnePlace' /\ NoPlace' /\ OwnRow' /\ \A c \in Client : result'[c].status # "mismatch"
    BY <2>1, <2>5 DEF Whole, OnePlace, NoPlace, OwnRow, NoStaleReply
  <2>7. QED
    BY <2>4, <2>6 DEF Whole, NoStaleReply, Mine, MineAsked, MineTaken, MineTold, Tells, Id, Client
<1>3. CASE Timeout(d) \/ (d \in SocketClients /\ ConnectionLost(d))
  <2>1. UNCHANGED <<up, outbox, requestQ, batch, decoded, rows, responseQ, down, sent, turn>>
    BY <1>3 DEF Timeout, ConnectionLost, Return, loop, work, sockets
  <2>2. \A c \in Client : /\ actor'[c] = "playing" => actor[c] = "playing"
                          /\ result'[c] = result[c] \/ result'[c].status \in {"timeout", "lost"}
    BY <1>3 DEF Timeout, ConnectionLost, Return, TypeOK
  <2>3. QED
    BY <2>1, <2>2, WholeUnchanged
<1>4. CASE d \in QueueClients /\ ReceiveQueue(d)
  <2> DEFINE r == responseQ[d][1]
  <2>1. /\ UNCHANGED <<batch, decoded, rows, outbox, requestQ, up, down, sent, turn>>
        /\ responseQ[d] # <<>> /\ responseQ[d] \in Seq(Response)
        /\ \A c \in Client : responseQ'[c] = IF c = d THEN Tail(responseQ[c]) ELSE responseQ[c]
    BY <1>4 DEF ReceiveQueue, Return, loop, work, sockets, TypeOK
  <2>2. /\ r \in Response /\ 1 \in DOMAIN responseQ[d] /\ Head(responseQ[d]) = r
        /\ \A i \in DOMAIN responseQ'[d] :
             i # 0 /\ i + 1 \in DOMAIN responseQ[d] /\ responseQ'[d][i] = responseQ[d][i + 1]
    <3>1. Shrunk(responseQ[d], Tail(responseQ[d])) /\ Head(responseQ[d]) \in Response
      BY <2>1, ShrunkBy
    <3>2. QED
      BY <2>1, <3>1 DEF Shrunk
  <2>3. Tells(r, d) /\ r.rid = sent[d]
    BY <1>4, <2>2, RpcAssumption DEF Whole, Mine, MineAsked, MineTaken, MineTold, Tells, Id
  <2>4. \A c \in Client : /\ result'[c] = IF c = d THEN r ELSE result[c]
                          /\ c # d => actor'[c] = actor[c]
    BY <1>4, <2>2, <2>3 DEF ReceiveQueue, Return, TypeOK
  <2>5. Mine'
    BY <2>1, <2>2 DEF Whole, Mine, MineAsked, MineTaken, MineTold, Asks, Tells, Id
  <2>6. Single(d)' /\ Empty(d)'
    <3>1. /\ \A i \in Nat : At(d, "responseQ", i)' => At(d, "responseQ", i + 1) /\ i # 0
          /\ At(d, "responseQ", 1) /\ "responseQ" \in Kinds
      BY <2>2 DEF At, Kinds
    <3>2. \A k \in Kinds \ {"responseQ"} : \A i \in Nat : At(d, k, i)' => At(d, k, i)
      BY <2>1 DEF At
    <3>3. QED
      BY <3>1, <3>2, Goes DEF Whole, OnePlace
  <2>7. ASSUME NEW c \in Client, c # d PROVE Single(c)' /\ (Empty(c) => Empty(c)')
    <3>1. \A k \in Kinds : \A i \in Nat : At(c, k, i)' => At(c, k, i)
      BY <2>1, <2>7 DEF At
    <3>2. QED
      BY <2>7, <3>1, Stays DEF Whole, OnePlace
  <2>8. OnePlace' /\ NoPlace'
    BY <2>4, <2>6, <2>7 DEF Whole, OnePlace, NoPlace
  <2>9. OwnRow' /\ \A c \in Client : result'[c].status # "mismatch"
    BY <2>1, <2>3, <2>4 DEF Whole, OwnRow, NoStaleReply, Tells
  <2>10. QED
    BY <2>5, <2>8, <2>9 DEF Whole, NoStaleReply, Mine, MineAsked, MineTaken, MineTold, Tells, Id, Client
<1>5. CASE d \in SocketClients /\ ReceiveSocket(d)
  <2> DEFINE r == down[d][1]
  <2>1. /\ UNCHANGED <<batch, decoded, rows, outbox, requestQ, responseQ, up, sent, turn>>
        /\ down[d] # <<>> /\ down[d] \in Seq(Response)
        /\ \A c \in SocketClients : down'[c] = IF c = d THEN Tail(down[c]) ELSE down[c]
    BY <1>5 DEF ReceiveSocket, Return, loop, work, TypeOK
  <2>2. /\ r \in Response /\ 1 \in DOMAIN down[d] /\ Head(down[d]) = r
        /\ \A i \in DOMAIN down'[d] : i # 0 /\ i + 1 \in DOMAIN down[d]
               /\ down'[d][i] = down[d][i + 1]
    <3>1. Shrunk(down[d], Tail(down[d])) /\ Head(down[d]) \in Response
      BY <2>1, ShrunkBy
    <3>2. QED
      BY <1>5, <2>1, <3>1 DEF Shrunk
  <2>3. r.status # "stopping" => Tells(r, d)
    BY <1>5, <2>2 DEF Whole, Mine, MineAsked, MineTaken, MineTold
  <2>4. \A c \in Client : /\ result'[c] = IF c = d THEN r ELSE result[c]
                          /\ c # d => actor'[c] = actor[c]
                          /\ r.status = "stopping" => actor'[d] # "playing"
    BY <1>5, <2>2 DEF ReceiveSocket, Return, TypeOK
  <2>5. Mine'
    BY <2>1, <2>2 DEF Whole, Mine, MineAsked, MineTaken, MineTold, Asks, Tells, Id
  <2>6. Single(d)' /\ (r.status # "stopping" => Empty(d)')
    <3>1. /\ \A i \in Nat : At(d, "down", i)' => At(d, "down", i + 1) /\ i # 0
          /\ r.status # "stopping" => At(d, "down", 1)
          /\ "down" \in Kinds /\ Single(d)
      BY <1>5, <2>2 DEF At, Kinds, Whole, OnePlace
    <3>2. \A k \in Kinds \ {"down"} : \A i \in Nat : At(d, k, i)' => At(d, k, i)
      BY <2>1 DEF At
    <3>3. CASE r.status = "stopping"
      BY <3>1, <3>2, <3>3, Leaves
    <3>4. CASE r.status # "stopping"
      BY <3>1, <3>2, <3>4, Goes
    <3>5. QED
      BY <3>3, <3>4
  <2>7. ASSUME NEW c \in Client, c # d PROVE Single(c)' /\ (Empty(c) => Empty(c)')
    <3>1. \A k \in Kinds : \A i \in Nat : At(c, k, i)' => At(c, k, i)
      BY <2>1, <2>7 DEF At
    <3>2. QED
      BY <2>7, <3>1, Stays DEF Whole, OnePlace
  <2>8. OnePlace' /\ NoPlace'
    BY <2>4, <2>6, <2>7 DEF Whole, OnePlace, NoPlace
  <2>9. OwnRow' /\ \A c \in Client : result'[c].status # "mismatch"
    BY <2>1, <2>3, <2>4 DEF Whole, OwnRow, NoStaleReply, Tells
  <2>10. QED
    BY <2>5, <2>8, <2>9 DEF Whole, NoStaleReply, Mine, MineAsked, MineTaken, MineTold, Tells, Id, Client
<1>6. QED
  BY <1>1, <1>2, <1>3, <1>4, <1>5

LEMMA NextWhole == Fresh /\ Whole /\ [Next]_vars => Whole'
<1> SUFFICES ASSUME Fresh, Whole, [Next]_vars PROVE Whole'
  OBVIOUS
<1>0. TypeOK /\ Turns
  BY DEF Fresh
<1>1. CASE Started \/ UpdateNetwork \/ StopServer \/ Reap
  BY <1>0, <1>1, OwnerWhole, QuietWhole
<1>2. CASE ServerStep
  BY <1>0, <1>2, QuietWhole, QueueWhole, DecodeWhole, ForwardWhole, DispatchWhole DEF ServerStep
<1>3. ASSUME NEW p \in Producer, Feed(p) PROVE Whole'
  BY <1>0, <1>3, FeedWhole
<1>4. ASSUME NEW c \in SocketClients, HandlerStep(c) PROVE Whole'
  BY <1>0, <1>4, HandlerWhole
<1>5. ASSUME NEW c \in SocketClients, ReceiveSocket(c) \/ ConnectionLost(c) PROVE Whole'
  BY <1>0, <1>5, ActorWhole DEF Client
<1>6. ASSUME NEW c \in QueueClients, ReceiveQueue(c) PROVE Whole'
  BY <1>0, <1>6, ActorWhole DEF Client
<1>7. ASSUME NEW c \in Client, Request(c) \/ NextEpisode(c) \/ Timeout(c) PROVE Whole'
  BY <1>0, <1>7, ActorWhole
<1>8. CASE UNCHANGED vars
  BY <1>8, WholeUnchanged DEF vars, owner, loop, weights, work, actors, sockets
<1>9. QED
  BY <1>1, <1>2, <1>3, <1>4, <1>5, <1>6, <1>7, <1>8 DEF Next

(***************************************************************************)
(* Theorems                                                                *)
(***************************************************************************)
LEMMA Inductive == Spec => []IInv
<1>1. Init => IInv
  BY InitFresh, InitWhole DEF IInv
<1>2. IInv /\ [Next]_vars => IInv'
  BY NextFresh, NextWhole DEF IInv
<1>3. QED
  BY <1>1, <1>2, PTL DEF Spec

\* The types of the queues, of the messages and replies in them, and of the actors.
THEOREM TypeCorrect == Spec => []TypeOK
<1>1. IInv => TypeOK
  BY DEF IInv, Fresh, Whole
<1>2. QED
  BY <1>1, Inductive, PTL

\* Whatever the batches, failures, timeouts and stops, an actor gets the row of its own
\* observation.
THEOREM RowsOwn == Spec => []OwnRow
<1>1. IInv => OwnRow
  BY DEF IInv, Fresh, Whole
<1>2. QED
  BY <1>1, Inductive, PTL

\* No reply to an earlier request of a client is ever met.
THEOREM NoneStale == Spec => []NoStaleReply
<1>1. IInv => NoStaleReply
  BY DEF IInv, Fresh, Whole
<1>2. QED
  BY <1>1, Inductive, PTL

\* The embedding of a row was computed by the weights of its forward.
THEOREM EmbeddingsCurrent == Spec => []EmbeddingCurrent
<1>1. IInv => EmbeddingCurrent
  BY DEF IInv, Fresh, Whole, Rows, Current, EmbeddingCurrent
<1>2. QED
  BY <1>1, Inductive, PTL

(***************************************************************************)
(* The service the actors see                                              *)
(***************************************************************************)
\* Between batches nothing is left of one, and only the handler of a connection
\* says that the server is stopping.
Clean ==
  /\ batch # <<>> => server \in {"fill", "decode"}
  /\ rows # <<>> => server = "dispatch"
  /\ \A x \in Items(rows) : x.reply.status # "stopping"
  /\ \A c \in Client : \A r \in Items(responseQ[c]) : r.status # "stopping"

\* An actor has one call.
OneCall == \A c \in Client : \A x, y \in Calls(c) : x = y

LEMMA ItemsAppended ==
  ASSUME NEW S, NEW s \in Seq(S), NEW e \in S PROVE Items(Append(s, e)) = Items(s) \cup {e}
<1>1. /\ DOMAIN s = 1 .. Len(s) /\ DOMAIN Append(s, e) = 1 .. (Len(s) + 1) /\ Len(s) \in Nat
      /\ \A i \in DOMAIN s : Append(s, e)[i] = s[i]
      /\ Append(s, e)[Len(s) + 1] = e
  BY Appended
<1>2. \A i \in DOMAIN Append(s, e) : i \in DOMAIN s \/ i = Len(s) + 1
  BY <1>1
<1>3. DOMAIN s \subseteq DOMAIN Append(s, e) /\ Len(s) + 1 \in DOMAIN Append(s, e)
  BY <1>1
<1>4. Items(Append(s, e)) \subseteq Items(s) \cup {e}
  BY <1>1, <1>2 DEF Items
<1>5. QED
  BY <1>1, <1>3, <1>4 DEF Items

LEMMA ItemsRemoved ==
  ASSUME NEW S, NEW s \in Seq(S), s # <<>> PROVE Items(s) = {Head(s)} \cup Items(Tail(s))
<1>1. /\ Head(s) = s[1] /\ DOMAIN s = 1 .. Len(s) /\ DOMAIN Tail(s) = 1 .. (Len(s) - 1)
      /\ Len(s) \in Nat \ {0} /\ \A i \in DOMAIN Tail(s) : Tail(s)[i] = s[i + 1]
  BY Removed
<1>2. \A i \in DOMAIN s : i = 1 \/ (i - 1 \in DOMAIN Tail(s) /\ Tail(s)[i - 1] = s[i])
  BY <1>1
<1>3. 1 \in DOMAIN s /\ \A i \in DOMAIN Tail(s) : i + 1 \in DOMAIN s
  BY <1>1
<1>4. Items(s) \subseteq {Head(s)} \cup Items(Tail(s))
  BY <1>1, <1>2 DEF Items
<1>5. Items(Tail(s)) \subseteq Items(s)
  BY <1>1, <1>3 DEF Items
<1>6. QED
  BY <1>1, <1>3, <1>4, <1>5 DEF Items

LEMMA ItemsOne == Items(<<>>) = {} /\ \A e : Items(<<e>>) = {e}
<1>1. DOMAIN <<>> = {}
  OBVIOUS
<1>2. \A e : DOMAIN <<e>> = {1} /\ <<e>>[1] = e
  OBVIOUS
<1>3. QED
  BY <1>1, <1>2 DEF Items

LEMMA ItemsTyped ==
  ASSUME NEW S, NEW s \in Seq(S) PROVE Items(s) \subseteq S
BY ElementOfSeq, LenProperties DEF Items

(***************************************************************************)
(* An actor has one call                                                   *)
(***************************************************************************)
\* What is known of the call at a place.
There(c, k, i) ==
  CASE k = "up"        -> Pending(up[c][i])
    [] k = "outbox"    -> Pending(outbox[Writer(c)][i])
    [] k = "requestQ"  -> Pending(requestQ[i])
    [] k = "batch"     -> Pending(batch[i])
    [] k = "decoded"   -> Pending(decoded[i].msg)
    [] k = "rows"      -> Settled(rows[i].reply)
    [] k = "responseQ" -> Settled(responseQ[c][i])
    [] k = "down"      -> Settled(down[c][i])
    [] OTHER           -> NoRow

LEMMA SomePlace ==
  ASSUME TypeOK, Mine, NEW c \in Client, NEW x \in Calls(c)
  PROVE  \E k \in Kinds : \E i \in Nat : At(c, k, i) /\ x = There(c, k, i)
<1>1. /\ DOMAIN requestQ \subseteq Nat /\ DOMAIN batch \subseteq Nat /\ DOMAIN decoded \subseteq Nat
      /\ DOMAIN rows \subseteq Nat /\ DOMAIN responseQ[c] \subseteq Nat
      /\ \A d \in SocketClients : DOMAIN up[d] \subseteq Nat /\ DOMAIN down[d] \subseteq Nat
      /\ \A p \in Producer : DOMAIN outbox[p] \subseteq Nat
  BY Domains
<1>2. ASSUME NEW m \in Requests, m.client = c, x = Pending(m)
      PROVE  \E k \in Kinds : \E i \in Nat : At(c, k, i) /\ x = There(c, k, i)
  <2>1. CASE \E d \in SocketClients : m \in Items(up[d])
    <3>1. PICK d \in SocketClients : \E i \in DOMAIN up[d] : m = up[d][i]
      BY <2>1 DEF Items
    <3>2. PICK i \in DOMAIN up[d] : m = up[d][i]
      BY <3>1
    <3>3. d = c
      BY <1>2, <3>2 DEF Mine, MineAsked, MineTaken, MineTold
    <3>4. i \in Nat /\ At(c, "up", i) /\ x = There(c, "up", i) /\ "up" \in Kinds
      BY <1>1, <1>2, <3>2, <3>3 DEF At, There, Kinds
    <3>5. QED
      BY <3>4
  <2>2. CASE m \in Items(requestQ) /\ m.type = "infer"
    <3>1. PICK i \in DOMAIN requestQ : m = requestQ[i]
      BY <2>2 DEF Items
    <3>2. i \in Nat /\ At(c, "requestQ", i) /\ x = There(c, "requestQ", i) /\ "requestQ" \in Kinds
      BY <1>1, <1>2, <2>2, <3>1 DEF At, There, Kinds
    <3>3. QED
      BY <3>2
  <2>3. CASE m \in Items(batch)
    <3>1. PICK i \in DOMAIN batch : m = batch[i]
      BY <2>3 DEF Items
    <3>2. i \in Nat /\ At(c, "batch", i) /\ x = There(c, "batch", i) /\ "batch" \in Kinds
      BY <1>1, <1>2, <3>1 DEF At, There, Kinds
    <3>3. QED
      BY <3>2
  <2>4. CASE \E d \in Items(decoded) : m = d.msg
    <3>1. PICK d \in Items(decoded) : m = d.msg
      BY <2>4
    <3>4. PICK i \in DOMAIN decoded : d = decoded[i]
      BY DEF Items
    <3>2. i \in Nat /\ At(c, "decoded", i) /\ x = There(c, "decoded", i) /\ "decoded" \in Kinds
      BY <1>1, <1>2, <3>1, <3>4 DEF At, There, Kinds
    <3>3. QED
      BY <3>2
  <2>5. CASE (\E p \in Producer : m \in Items(outbox[p])) /\ m.type = "infer"
    <3>1. PICK p \in Producer : m \in Items(outbox[p])
      BY <2>5
    <3>2. PICK i \in DOMAIN outbox[p] : m = outbox[p][i]
      BY <3>1 DEF Items
    <3>3. Writer(c) = p
      BY <1>2, <2>5, <3>2 DEF Mine, MineAsked, MineTaken, MineTold
    <3>4. i \in Nat /\ At(c, "outbox", i) /\ x = There(c, "outbox", i) /\ "outbox" \in Kinds
      BY <1>1, <1>2, <2>5, <3>2, <3>3 DEF At, There, Kinds
    <3>5. QED
      BY <3>4
  <2>6. QED
    BY <1>2, <2>1, <2>2, <2>3, <2>4, <2>5 DEF Requests
<1>3. ASSUME NEW r \in RepliesTo(c), x = Settled(r)
      PROVE  \E k \in Kinds : \E i \in Nat : At(c, k, i) /\ x = There(c, k, i)
  <2>1. CASE \E y \in Items(rows) : y.client = c /\ r = y.reply
    <3>1. PICK i \in DOMAIN rows : rows[i].client = c /\ r = rows[i].reply
      BY <2>1 DEF Items
    <3>2. i \in Nat /\ At(c, "rows", i) /\ x = There(c, "rows", i) /\ "rows" \in Kinds
      BY <1>1, <1>3, <3>1 DEF At, There, Kinds
    <3>3. QED
      BY <3>2
  <2>2. CASE r \in Items(responseQ[c])
    <3>1. PICK i \in DOMAIN responseQ[c] : r = responseQ[c][i]
      BY <2>2 DEF Items
    <3>2. i \in Nat /\ At(c, "responseQ", i) /\ x = There(c, "responseQ", i)
          /\ "responseQ" \in Kinds
      BY <1>1, <1>3, <3>1 DEF At, There, Kinds
    <3>3. QED
      BY <3>2
  <2>3. CASE c \in SocketClients /\ r \in Items(down[c]) /\ r.status # "stopping"
    <3>1. PICK i \in DOMAIN down[c] : r = down[c][i]
      BY <2>3 DEF Items
    <3>2. i \in Nat /\ At(c, "down", i) /\ x = There(c, "down", i) /\ "down" \in Kinds
      BY <1>1, <1>3, <2>3, <3>1 DEF At, There, Kinds
    <3>3. QED
      BY <3>2
  <2>4. QED
    BY <1>3, <2>1, <2>2, <2>3 DEF RepliesTo
<1>4. QED
  BY <1>2, <1>3 DEF Calls

LEMMA OneCallHolds == TypeOK /\ Whole => OneCall
<1> SUFFICES ASSUME TypeOK, Whole, NEW c \in Client, NEW x \in Calls(c), NEW y \in Calls(c)
             PROVE  x = y
  BY DEF OneCall
<1>1. PICK k \in Kinds, i \in Nat : At(c, k, i) /\ x = There(c, k, i)
  BY SomePlace DEF Whole
<1>2. PICK l \in Kinds, j \in Nat : At(c, l, j) /\ y = There(c, l, j)
  BY SomePlace DEF Whole
<1>3. k = l /\ i = j
  BY <1>1, <1>2 DEF Whole, OnePlace, Single
<1>4. QED
  BY <1>1, <1>2, <1>3

\* So what is seen of its call is that one.
SeenIs ==
  /\ SeenCall = [c \in Client |-> SeenCall[c]]
  /\ \A c \in Client :
       /\ actor[c] # "waiting" \/ Calls(c) = {} => SeenCall[c] = Service!NoCall
       /\ actor[c] = "waiting" => \A x \in Calls(c) : SeenCall[c] = x

LEMMA SeenIsHolds == IInv => SeenIs
<1> SUFFICES ASSUME IInv PROVE SeenIs
  OBVIOUS
<1>1. OneCall
  BY OneCallHolds DEF IInv, Fresh
<1>2. SeenCall = [c \in Client |-> SeenCall[c]]
  BY DEF SeenCall
<1>3. ASSUME NEW c \in Client, actor[c] # "waiting" \/ Calls(c) = {}
      PROVE  SeenCall[c] = Service!NoCall
  BY <1>3 DEF SeenCall, Service!NoCall, Service!NoRow, NoRow, NoVer
<1>4. ASSUME NEW c \in Client, actor[c] = "waiting", NEW x \in Calls(c)
      PROVE  SeenCall[c] = x
  <2>1. SeenCall[c] = CHOOSE y \in Calls(c) : TRUE
    BY <1>4 DEF SeenCall
  <2>2. SeenCall[c] \in Calls(c)
    BY <2>1
  <2> QED
    BY <1>1, <2>2 DEF OneCall
<1> QED
  BY <1>2, <1>3, <1>4 DEF SeenIs

(***************************************************************************)
(* Nothing is left between batches                                         *)
(***************************************************************************)
LEMMA PutItems ==
  ASSUME TypeOK, NEW d \in Client, NEW r \in Response, Put(d, r)
  PROVE  \A c \in Client :
           Items(responseQ'[c]) = IF c = d THEN Items(responseQ[c]) \cup {r} ELSE Items(responseQ[c])
<1>1. \A c \in Client : responseQ'[c] = IF c = d THEN Append(responseQ[c], r) ELSE responseQ[c]
  BY DEF Put, TypeOK
<1>2. responseQ[d] \in Seq(Response)
  BY DEF TypeOK
<1>3. Items(Append(responseQ[d], r)) = Items(responseQ[d]) \cup {r}
  BY <1>2, ItemsAppended
<1> QED
  BY <1>1, <1>3

LEMMA TakeItems ==
  ASSUME TypeOK, NEW d \in Client, responseQ[d] # <<>>,
         responseQ' = [responseQ EXCEPT ![d] = Tail(@)]
  PROVE  /\ Head(responseQ[d]) \in Response /\ Head(responseQ[d]) \in Items(responseQ[d])
         /\ Items(responseQ[d]) = {Head(responseQ[d])} \cup Items(responseQ'[d])
         /\ \A c \in Client \ {d} : responseQ'[c] = responseQ[c]
<1>1. responseQ[d] \in Seq(Response)
  BY DEF TypeOK
<1>2. /\ responseQ'[d] = Tail(responseQ[d])
      /\ \A c \in Client \ {d} : responseQ'[c] = responseQ[c]
  BY DEF TypeOK
<1>3. Items(responseQ[d]) = {Head(responseQ[d])} \cup Items(Tail(responseQ[d]))
  BY <1>1, ItemsRemoved
<1>4. Head(responseQ[d]) \in Response
  BY <1>1, Removed
<1> QED
  BY <1>2, <1>3, <1>4

\* The first row of a batch and the others.
LEMMA RowItems ==
  ASSUME TypeOK, rows # <<>>, rows' = Tail(rows)
  PROVE  /\ Head(rows).client \in Client /\ Head(rows).reply \in Response
         /\ Head(rows) \in Items(rows) /\ Items(rows) = {Head(rows)} \cup Items(rows')
<1> DEFINE S == [client : Client, reply : Response]
<1>1. rows \in Seq(S)
  BY DEF TypeOK
<1> HIDE DEF S
<1>2. Head(rows) \in S
  BY <1>1, Removed
<1>3. Items(rows) = {Head(rows)} \cup Items(Tail(rows))
  BY <1>1, ItemsRemoved
<1> QED
  BY <1>2, <1>3 DEF S

\* The first request of a batch and the others.
LEMMA BatchItems ==
  ASSUME TypeOK, batch # <<>>
  PROVE  /\ Head(batch) \in Message /\ Reply(Head(batch), "miss", NoRow) \in Response
         /\ Items(batch) = {Head(batch)} \cup Items(Tail(batch)) /\ Head(batch) = batch[1]
         /\ 1 \in DOMAIN batch
<1>1. batch \in Seq(Message)
  BY DEF TypeOK
<1>2. Head(batch) \in Message /\ Head(batch) = batch[1] /\ 1 \in DOMAIN batch
  BY <1>1, Removed
<1>3. Items(batch) = {Head(batch)} \cup Items(Tail(batch))
  BY <1>1, ItemsRemoved
<1>4. Reply(Head(batch), "miss", NoRow) \in Response
  BY <1>2, MessageParts, Replies DEF Row
<1> QED
  BY <1>2, <1>3, <1>4

LEMMA ForwardItems ==
  ASSUME TypeOK, NEW ok \in BOOLEAN, rows' = [k \in 1 .. Len(decoded) |-> Outcome(k, ok)]
  PROVE  /\ DOMAIN decoded = 1 .. Len(decoded)
         /\ Items(rows') = {Outcome(k, ok) : k \in DOMAIN decoded}
         /\ rows' # <<>> => decoded # <<>>
<1>1. DOMAIN decoded = 1 .. Len(decoded) /\ Len(decoded) \in Nat
  BY LenProperties DEF TypeOK
<1>2. Items(rows') = {Outcome(k, ok) : k \in DOMAIN decoded}
  BY <1>1 DEF Items
<1>3. decoded = <<>> => rows' = <<>>
  BY <1>1
<1> QED
  BY <1>1, <1>2, <1>3

LEMMA CleanStep == TypeOK /\ Clean /\ [Next]_vars => Clean'
<1> SUFFICES ASSUME TypeOK, Clean, [Next]_vars PROVE Clean'
  OBVIOUS
<1>1. ASSUME UNCHANGED <<batch, rows, responseQ>>,
             batch # <<>> => server' \in {"fill", "decode"}, rows # <<>> => server' = "dispatch"
      PROVE  Clean'
  BY <1>1 DEF Clean
<1>2. CASE \/ Started \/ UpdateNetwork \/ StopServer \/ UNCHANGED vars
           \/ \E c \in SocketClients : Forward(c) \/ StopReply(c) \/ ReceiveSocket(c)
                                       \/ ConnectionLost(c)
           \/ \E c \in Client : Request(c) \/ NextEpisode(c) \/ Timeout(c)
           \/ \E p \in Producer : Feed(p)
  <2>1. UNCHANGED <<batch, rows, responseQ, server>>
    BY <1>2 DEF Feed, Started, UpdateNetwork, StopServer, Forward, StopReply, ReceiveSocket,
                ConnectionLost, Request, NextEpisode, Timeout, vars, loop, work
  <2> QED
    BY <1>1, <2>1 DEF Clean
<1>3. CASE Reap \/ ServerReady \/ ServerFails \/ Poll \/ GetEmpty \/ BatchClosed \/ ServerExit
  <2>1. /\ UNCHANGED <<batch, rows, responseQ>>
        /\ \/ server \notin {"fill", "decode", "dispatch"}
           \/ server = "fill" /\ server' = "decode"
    BY <1>3 DEF Reap, ServerReady, ServerFails, Poll, GetEmpty, BatchClosed, ServerExit, work
  <2> QED
    BY <1>1, <2>1 DEF Clean
<1>4. CASE Get \/ Fill
  <2>1. UNCHANGED <<rows, responseQ>> /\ rows = <<>>
    BY <1>4 DEF Get, Fill, Clean
  <2>2. batch' # <<>> => server' \in {"fill", "decode"}
    <3>1. CASE Get
      BY <3>1 DEF Get, Clean
    <3>2. CASE Fill
      BY <3>2 DEF Fill
    <3> QED
      BY <1>4, <3>1, <3>2
  <2> QED
    BY <2>1, <2>2 DEF Clean
<1>5. CASE Decode
  <2>1. /\ server = "decode" /\ UNCHANGED <<server, rows>>
        /\ UNCHANGED responseQ \/ Put(Head(batch).client, Reply(Head(batch), "miss", NoRow))
    BY <1>5 DEF Decode
  <2>2. \A c \in Client : \A r \in Items(responseQ'[c]) : r.status # "stopping"
    <3>1. CASE UNCHANGED responseQ
      BY <3>1 DEF Clean
    <3>2. CASE Put(Head(batch).client, Reply(Head(batch), "miss", NoRow))
      <4> DEFINE d == Head(batch).client
                 miss == Reply(Head(batch), "miss", NoRow)
      <4>1. d \in Client /\ miss \in Response /\ Put(d, miss) /\ miss.status = "miss"
        BY <1>5, <3>2, BatchItems, MessageParts DEF Decode, Reply
      <4> HIDE DEF d, miss
      <4>2. \A c \in Client : \A r \in Items(responseQ'[c]) : r \in Items(responseQ[c]) \/ r = miss
        BY <4>1, PutItems
      <4> QED
        BY <4>1, <4>2 DEF Clean
    <3> QED
      BY <2>1, <3>1, <3>2
  <2> QED
    BY <2>1, <2>2 DEF Clean
<1>6. CASE ForwardBatch
  <2>1. PICK ok \in BOOLEAN : rows' = [k \in 1 .. Len(decoded) |-> Outcome(k, ok)]
    BY <1>6 DEF ForwardBatch
  <2>2. \A x \in Items(rows') : x.reply.status # "stopping"
    BY <2>1, ForwardItems DEF Outcome, Reply
  <2>3. batch' = <<>> /\ server' = "dispatch" /\ UNCHANGED responseQ
    BY <1>6 DEF ForwardBatch
  <2> QED
    BY <2>2, <2>3 DEF Clean
<1>7. CASE Dispatch
  <2>1. server = "dispatch" /\ UNCHANGED batch /\ batch = <<>>
    BY <1>7 DEF Dispatch, Clean
  <2>2. CASE rows = <<>>
    BY <1>7, <2>1, <2>2 DEF Dispatch, Clean
  <2>3. CASE rows # <<>>
    <3>1. /\ Put(Head(rows).client, Head(rows).reply) /\ rows' = Tail(rows) /\ UNCHANGED server
      BY <1>7, <2>3 DEF Dispatch
    <3>2. \A c \in Client : \A r \in Items(responseQ'[c]) :
            r \in Items(responseQ[c]) \/ r = Head(rows).reply
      BY <2>3, <3>1, RowItems, PutItems
    <3>3. \A x \in Items(rows') : x \in Items(rows)
      BY <2>3, <3>1, RowItems
    <3>4. Head(rows).reply.status # "stopping"
      BY <2>3, <3>1, RowItems DEF Clean
    <3> QED
      BY <2>1, <3>1, <3>2, <3>3, <3>4 DEF Clean
  <2> QED
    BY <2>2, <2>3
<1>8. ASSUME NEW c \in Client, responseQ[c] # <<>>,
             responseQ' = [responseQ EXCEPT ![c] = Tail(@)], UNCHANGED <<batch, rows, server>>
      PROVE  Clean'
  <2>1. \A d \in Client : Items(responseQ'[d]) \subseteq Items(responseQ[d])
    BY <1>8, TakeItems
  <2> QED
    BY <1>8, <2>1 DEF Clean
<1>9. CASE \E c \in SocketClients : TakeReply(c)
  BY <1>8, <1>9 DEF TakeReply, loop, work, Client
<1>10. CASE \E c \in QueueClients : ReceiveQueue(c)
  BY <1>8, <1>10 DEF ReceiveQueue, loop, work, Client
<1> QED
  BY <1>2, <1>3, <1>4, <1>5, <1>6, <1>7, <1>9, <1>10 DEF Next, ServerStep, HandlerStep

LEMMA CleanHolds == Spec => []Clean
<1>1. Init => Clean
  BY ItemsOne DEF Init, Clean
<1>2. IInv => TypeOK
  BY DEF IInv, Fresh
<1> QED
  BY <1>1, <1>2, CleanStep, Inductive, PTL DEF Spec

(***************************************************************************)
(* The steps that are not seen                                             *)
(***************************************************************************)
\* All but the actors of D have the call they had.
CallsKept(D) == \A c \in Client \ D : Calls(c)' = Calls(c)
Refined ==
  [Service!Next]_<<pushed, netVer, actor, sent, SeenCall, SeenResult>>

LEMMA CallsIn ==
  ASSUME NEW c
  PROVE  /\ \A m \in Requests : m.client = c => Pending(m) \in Calls(c)
         /\ \A r \in RepliesTo(c) : Settled(r) \in Calls(c)
BY DEF Calls

LEMMA SameCalls ==
  ASSUME NEW D, \A m : m.client \notin D => (m \in Requests' <=> m \in Requests),
         \A c \in Client \ D : RepliesTo(c)' = RepliesTo(c)
  PROVE  CallsKept(D)
<1> SUFFICES ASSUME NEW c \in Client \ D PROVE Calls(c)' = Calls(c)
  BY DEF CallsKept
<1>1. {n \in Requests' : n.client = c} = {n \in Requests : n.client = c}
  OBVIOUS
<1> QED
  BY <1>1 DEF Calls, Pending, Settled, RowOf

LEMMA Unseen ==
  ASSUME SeenIs, SeenIs', CallsKept({}), UNCHANGED <<pushed, netVer, actor, sent, result>>
  PROVE  Refined
<1>1. SeenResult' = SeenResult
  BY DEF SeenResult, RowOf
<1>2. \A c \in Client : SeenCall'[c] = SeenCall[c]
  <2> SUFFICES ASSUME NEW c \in Client PROVE SeenCall'[c] = SeenCall[c]
    OBVIOUS
  <2>1. Calls(c)' = Calls(c)
    BY DEF CallsKept
  <2>2. CASE actor[c] # "waiting" \/ Calls(c) = {}
    BY <2>1, <2>2 DEF SeenIs
  <2>3. CASE actor[c] = "waiting" /\ Calls(c) # {}
    <3>1. PICK x : x \in Calls(c)
      BY <2>3
    <3>2. SeenCall[c] = x /\ SeenCall'[c] = x
      BY <2>1, <2>3, <3>1 DEF SeenIs
    <3> QED
      BY <3>2
  <2> QED
    BY <2>2, <2>3
<1>3. SeenCall' = SeenCall
  BY <1>2 DEF SeenIs
<1> QED
  BY <1>1, <1>3 DEF Refined

\* What is in the request queue besides requests is not a call.
LEMMA QueueItems ==
  ASSUME TypeOK, requestQ # <<>>
  PROVE  /\ Head(requestQ) \in Queued /\ Head(requestQ) = requestQ[1] /\ 1 \in DOMAIN requestQ
         /\ Items(requestQ) = {Head(requestQ)} \cup Items(Tail(requestQ))
<1>1. requestQ \in Seq(Queued)
  BY DEF TypeOK
<1> QED
  BY <1>1, ItemsRemoved, Removed

\* What waits in an outbox.
Boxed(m) == \E p \in Producer : m \in Items(outbox[p])

LEMMA PutBoxed ==
  ASSUME TypeOK, NEW p \in Producer, NEW m \in Queued, PutRequest(p, m)
  PROVE  requestQ' = requestQ /\ \A n : Boxed(n)' <=> Boxed(n) \/ n = m
<1>1. /\ outbox[p] \in Seq(Queued) /\ requestQ' = requestQ
      /\ outbox'[p] = Append(outbox[p], m) /\ \A q \in Producer \ {p} : outbox'[q] = outbox[q]
  BY PutTypes2
<1>2. Items(outbox'[p]) = Items(outbox[p]) \cup {m}
  BY <1>1, ItemsAppended
<1>3. \A q \in Producer \ {p} : Items(outbox'[q]) = Items(outbox[q])
  BY <1>1
<1> QED
  BY <1>1, <1>2, <1>3 DEF Boxed

LEMMA OtherQueued ==
  ASSUME TypeOK, NEW p \in Producer, NEW m \in Queued, m.type # "infer", PutRequest(p, m),
         UNCHANGED <<up, batch, decoded, rows, responseQ, down>>
  PROVE  CallsKept({})
<1>1. requestQ' = requestQ /\ \A n : Boxed(n)' <=> Boxed(n) \/ n = m
  BY PutBoxed
<1>2. \A n : n \in Requests' <=> n \in Requests
  BY <1>1 DEF Requests, Boxed
<1>3. \A c \in Client : RepliesTo(c)' = RepliesTo(c)
  BY DEF RepliesTo
<1> QED
  BY <1>2, <1>3, SameCalls

\* A request is the same call in the outbox and in the pipe.
LEMMA FeedSeen == ASSUME IInv, SeenIs, SeenIs', NEW p \in Producer, Feed(p) PROVE Refined
<1>1. TypeOK
  BY DEF IInv, Fresh
<1>2. UNCHANGED <<pushed, netVer, actor, sent, result, up, batch, decoded, rows, responseQ, down>>
  BY DEF Feed, owner, weights, loop, work, actors, sockets
<1>3. PICK h : h = Head(outbox[p])
  OBVIOUS
<1>4. /\ outbox[p] \in Seq(Queued) /\ outbox[p] # <<>> /\ h \in Queued /\ requestQ \in Seq(Queued)
      /\ requestQ' = Append(requestQ, h) /\ outbox'[p] = Tail(outbox[p])
      /\ \A q \in Producer \ {p} : outbox'[q] = outbox[q]
  BY <1>1, <1>3, FeedTypes DEF TypeOK
<1>5. Items(requestQ') = Items(requestQ) \cup {h}
  BY <1>4, ItemsAppended
<1>6. Items(outbox[p]) = {h} \cup Items(outbox'[p])
  BY <1>3, <1>4, ItemsRemoved
<1>7. \A n : Boxed(n) <=> n = h \/ Boxed(n)'
  BY <1>4, <1>6 DEF Boxed
<1>8. \A n : n \in Requests' <=> n \in Requests
  BY <1>2, <1>5, <1>7 DEF Requests, Boxed
<1>9. \A c \in Client : RepliesTo(c)' = RepliesTo(c)
  BY <1>2 DEF RepliesTo
<1>10. CallsKept({})
  BY <1>8, <1>9, SameCalls
<1> QED
  BY <1>2, <1>10, Unseen

LEMMA OtherTaken ==
  ASSUME TypeOK, requestQ # <<>>, requestQ' = Tail(requestQ), Head(requestQ).type # "infer",
         UNCHANGED <<up, outbox, batch, decoded, rows, responseQ, down>>
  PROVE  CallsKept({})
<1>1. Items(requestQ) = Items(requestQ') \cup {Head(requestQ)}
  BY QueueItems
<1>2. \A n : n \in Requests' <=> n \in Requests
  BY <1>1 DEF Requests
<1>3. \A c \in Client : RepliesTo(c)' = RepliesTo(c)
  BY DEF RepliesTo
<1> QED
  BY <1>2, <1>3, SameCalls

LEMMA NothingCalls ==
  ASSUME UNCHANGED <<up, outbox, requestQ, batch, decoded, rows, responseQ, down>>
  PROVE  CallsKept({})
<1>1. \A n : n \in Requests' <=> n \in Requests
  BY DEF Requests
<1>2. \A c \in Client : RepliesTo(c)' = RepliesTo(c)
  BY DEF RepliesTo
<1> QED
  BY <1>1, <1>2, SameCalls

\* Threads that only go on, and the stop message, touch no call.
LEMMA QuietSeen ==
  ASSUME IInv, SeenIs, SeenIs',
         \/ Started \/ StopServer \/ Reap \/ ServerReady \/ ServerFails \/ Poll \/ GetEmpty
         \/ BatchClosed \/ ServerExit \/ UNCHANGED vars \/ \E c \in Client : NextEpisode(c)
  PROVE  Refined
<1>1. /\ UNCHANGED <<pushed, netVer, actor, sent, result, up, batch, decoded, rows, responseQ, down>>
      /\ UNCHANGED <<outbox, requestQ>> \/ PutRequest("owner", Stop)
  BY DEF Started, StopServer, Reap, ServerReady, ServerFails, Poll, GetEmpty, BatchClosed,
         ServerExit, NextEpisode, vars, owner, weights, work, loop, actors, sockets
<1>2. CallsKept({})
  <2>1. CASE UNCHANGED <<outbox, requestQ>>
    BY <1>1, <2>1, NothingCalls
  <2>2. CASE PutRequest("owner", Stop)
    <3>1. Stop \in Queued /\ Stop.type # "infer" /\ "owner" \in Producer
      BY DEF Queued, Stop, Producer
    <3> QED
      BY <1>1, <2>2, <3>1, OtherQueued DEF IInv, Fresh
  <2> QED
    BY <1>1, <2>1, <2>2
<1> QED
  BY <1>1, <1>2, Unseen

\* A request moves from the queue into the batch.
LEMMA CollectSeen ==
  ASSUME IInv, Clean, SeenIs, SeenIs', Get \/ Fill, Head(requestQ).type # "weights"
  PROVE  Refined
<1>1. /\ UNCHANGED <<pushed, actor, sent, result, up, outbox, decoded, rows, responseQ, down>>
      /\ requestQ # <<>> /\ requestQ' = Tail(requestQ) /\ UNCHANGED netVer
      /\ \/ Head(requestQ).type = "stop" /\ UNCHANGED batch
         \/ /\ Head(requestQ).type = "infer"
            /\ \/ server = "get" /\ batch' = <<Head(requestQ)>>
               \/ batch' = Append(batch, Head(requestQ))
  BY DEF Get, Fill, owner, weights, actors, sockets
<1>2. TypeOK
  BY DEF IInv, Fresh
<1>3. CASE Head(requestQ).type = "stop" /\ UNCHANGED batch
  BY <1>1, <1>2, <1>3, OtherTaken, Unseen
<1>4. CASE Head(requestQ).type = "infer"
  <2>1. Head(requestQ) \in Message
    BY <1>1, <1>2, <1>4, QueueItems, Kinds3
  <2>2. Items(batch') = Items(batch) \cup {Head(requestQ)}
    <3>1. CASE server = "get" /\ batch' = <<Head(requestQ)>>
      BY <3>1, ItemsOne DEF Clean
    <3>2. CASE batch' = Append(batch, Head(requestQ))
      <4>1. batch \in Seq(Message)
        BY <1>2 DEF TypeOK
      <4> QED
        BY <2>1, <3>2, <4>1, ItemsAppended
    <3> QED
      BY <1>1, <1>4, <3>1, <3>2
  <2>3. Items(requestQ) = Items(requestQ') \cup {Head(requestQ)}
    BY <1>1, <1>2, QueueItems
  <2>4. \A n : n \in Requests' <=> n \in Requests
    BY <1>1, <1>4, <2>2, <2>3 DEF Requests
  <2>5. \A c \in Client : RepliesTo(c)' = RepliesTo(c)
    BY <1>1 DEF RepliesTo
  <2>6. CallsKept({})
    BY <2>4, <2>5, SameCalls
  <2> QED
    BY <1>1, <2>6, Unseen
<1> QED
  BY <1>1, <1>3, <1>4

\* A row is put into the queue of the client that asked.
LEMMA DispatchSeen == ASSUME IInv, Clean, SeenIs, SeenIs', Dispatch PROVE Refined
<1>1. UNCHANGED <<pushed, netVer, actor, sent, result, up, outbox, requestQ, batch, decoded, down>>
  BY DEF Dispatch, owner, weights, actors, sockets
<1>2. TypeOK
  BY DEF IInv, Fresh
<1>3. \A n : n \in Requests' <=> n \in Requests
  BY <1>1 DEF Requests
<1>4. \A c \in Client : RepliesTo(c)' = RepliesTo(c)
  <2>1. CASE rows = <<>>
    BY <1>1, <2>1 DEF Dispatch, RepliesTo
  <2>2. CASE rows # <<>>
    <3>1. Put(Head(rows).client, Head(rows).reply) /\ rows' = Tail(rows)
      BY <2>2 DEF Dispatch
    <3>2. PICK h : h = Head(rows)
      OBVIOUS
    <3>3. /\ h.client \in Client /\ h.reply \in Response /\ Items(rows) = {h} \cup Items(rows')
          /\ Put(h.client, h.reply)
      BY <1>2, <2>2, <3>1, <3>2, RowItems
    <3>4. \A c \in Client : Items(responseQ'[c]) =
            IF c = h.client THEN Items(responseQ[c]) \cup {h.reply} ELSE Items(responseQ[c])
      BY <1>2, <3>3, PutItems
    <3>5. ASSUME NEW c \in Client PROVE RepliesTo(c)' = RepliesTo(c)
      <4>1. \A r : r \in RepliesTo(c)' <=> r \in RepliesTo(c)
        BY <1>1, <3>3, <3>4 DEF RepliesTo
      <4> QED
        BY <4>1 DEF RepliesTo
    <3> QED
      BY <3>5
  <2> QED
    BY <2>1, <2>2
<1>5. CallsKept({})
  BY <1>3, <1>4, SameCalls
<1> QED
  BY <1>1, <1>5, Unseen

\* A handler passes a request on, passes the reply back, or says that the server stops.
LEMMA HandlerSeen ==
  ASSUME IInv, Clean, SeenIs, SeenIs', NEW d \in SocketClients, HandlerStep(d) PROVE Refined
<1>1. TypeOK /\ d \in Client
  BY DEF IInv, Fresh, Client
<1>2. CASE Forward(d)
  <2>1. /\ UNCHANGED <<pushed, netVer, actor, sent, result, batch, decoded, rows, responseQ, down>>
        /\ up[d] # <<>> /\ PutRequest("server", Head(up[d]))
        /\ \A c \in SocketClients : up'[c] = IF c = d THEN Tail(up[d]) ELSE up[c]
    BY <1>1, <1>2 DEF Forward, TypeOK, owner, weights, loop, work, actors
  <2>2. up[d] \in Seq(Message)
    BY <1>1 DEF TypeOK
  <2>3. PICK m : m = Head(up[d])
    OBVIOUS
  <2>4. m \in Message /\ Items(up[d]) = {m} \cup Items(up'[d])
    BY <2>1, <2>2, <2>3, Removed, ItemsRemoved
  <2>5. m \in Queued /\ m.type = "infer"
    BY <2>4, MessageParts DEF Queued
  <2>6. requestQ' = requestQ /\ \A n : Boxed(n)' <=> Boxed(n) \/ n = m
    BY <1>1, <2>1, <2>3, <2>5, PutBoxed DEF Producer
  <2>7. \A n : (\E c \in SocketClients : n \in Items(up[c]))
                 <=> n = m \/ \E c \in SocketClients : n \in Items(up'[c])
    BY <2>1, <2>4
  <2>8. \A n : n \in Requests' <=> n \in Requests
    <3> SUFFICES ASSUME NEW n PROVE n \in Requests' <=> n \in Requests
      OBVIOUS
    <3>1. n \in Requests <=> \/ \E c \in SocketClients : n \in Items(up[c])
                             \/ (Boxed(n) \/ n \in Items(requestQ)) /\ n.type = "infer"
                             \/ n \in Items(batch) \/ \E x \in Items(decoded) : n = x.msg
      BY DEF Requests, Boxed
    <3>2. n \in Requests' <=> \/ \E c \in SocketClients : n \in Items(up'[c])
                              \/ (Boxed(n)' \/ n \in Items(requestQ')) /\ n.type = "infer"
                              \/ n \in Items(batch) \/ \E x \in Items(decoded) : n = x.msg
      BY <2>1 DEF Requests, Boxed
    <3> QED
      BY <2>5, <2>6, <2>7, <3>1, <3>2
  <2>9. \A c \in Client : RepliesTo(c)' = RepliesTo(c)
    BY <2>1 DEF RepliesTo
  <2>10. CallsKept({})
    BY <2>8, <2>9, SameCalls
  <2> QED
    BY <2>1, <2>10, Unseen
<1>3. ASSUME NEW r, UNCHANGED <<pushed, netVer, actor, sent, result, up, outbox, requestQ, batch, decoded, rows>>,
             \A c \in SocketClients : Items(down'[c]) =
               IF c = d THEN Items(down[c]) \cup {r} ELSE Items(down[c]),
             \A c \in Client : Items(responseQ[c]) =
               IF c = d /\ r.status # "stopping" THEN Items(responseQ'[c]) \cup {r}
               ELSE Items(responseQ'[c])
      PROVE  Refined
  <2>1. \A n : n \in Requests' <=> n \in Requests
    BY <1>3 DEF Requests
  <2>2. ASSUME NEW c \in Client PROVE RepliesTo(c)' = RepliesTo(c)
    <3>1. \A x : x \in RepliesTo(c)' <=> x \in RepliesTo(c)
      BY <1>3 DEF RepliesTo
    <3> QED
      BY <3>1 DEF RepliesTo
  <2>3. CallsKept({})
    BY <2>1, <2>2, SameCalls
  <2> QED
    BY <1>3, <2>3, Unseen
<1>4. ASSUME NEW r \in Response, down' = [down EXCEPT ![d] = Append(@, r)]
      PROVE  \A c \in SocketClients : Items(down'[c]) =
               IF c = d THEN Items(down[c]) \cup {r} ELSE Items(down[c])
  <2>1. \A c \in SocketClients : down'[c] = IF c = d THEN Append(down[c], r) ELSE down[c]
    BY <1>1, <1>4 DEF TypeOK
  <2>2. down[d] \in Seq(Response)
    BY <1>1 DEF TypeOK
  <2>3. Items(Append(down[d], r)) = Items(down[d]) \cup {r}
    BY <2>2, ItemsAppended
  <2> QED
    BY <2>1, <2>3
<1>5. CASE TakeReply(d)
  <2>1. /\ UNCHANGED <<pushed, netVer, actor, sent, result, up, outbox, requestQ, batch, decoded, rows>>
        /\ handler[d] = "waiting" /\ responseQ[d] # <<>>
        /\ responseQ' = [responseQ EXCEPT ![d] = Tail(@)]
    BY <1>5 DEF TakeReply, owner, weights, loop, work, actors
  <2>2. PICK r : r = Head(responseQ[d])
    OBVIOUS
  <2>3. /\ r \in Response /\ r \in Items(responseQ[d])
        /\ Items(responseQ[d]) = {r} \cup Items(responseQ'[d])
        /\ \A c \in Client \ {d} : responseQ'[c] = responseQ[c]
    BY <1>1, <2>1, <2>2, TakeItems
  <2>4. r.status # "stopping" /\ r.rid = turn[d]
    <3>1. PICK i \in DOMAIN responseQ[d] : r = responseQ[d][i]
      BY <2>3 DEF Items
    <3> QED
      BY <1>1, <2>1, <2>3, <3>1 DEF Clean, IInv, Whole, NoStaleReply
  <2>5. down' = [down EXCEPT ![d] = Append(@, r)]
    BY <1>5, <2>2, <2>4 DEF TakeReply
  <2> QED
    BY <1>3, <1>4, <2>1, <2>3, <2>4, <2>5
<1>6. CASE StopReply(d)
  <2> DEFINE r == Reply([rid |-> turn[d]], "stopping", NoRow)
  <2>1. /\ UNCHANGED <<pushed, netVer, actor, sent, result, up, outbox, requestQ, batch, decoded, rows>>
        /\ UNCHANGED responseQ /\ down' = [down EXCEPT ![d] = Append(@, r)]
    BY <1>6 DEF StopReply, owner, weights, loop, work, actors
  <2>2. r \in Response /\ r.status = "stopping"
    <3>1. turn[d] \in 0 .. MaxRequests /\ NoRow \in Row
      BY <1>1 DEF TypeOK, Row
    <3> QED
      BY <3>1 DEF Reply, Response
  <2> HIDE DEF r
  <2> QED
    BY <1>3, <1>4, <2>1, <2>2
<1> QED
  BY <1>2, <1>5, <1>6 DEF HandlerStep

(***************************************************************************)
(* The steps that are seen                                                 *)
(***************************************************************************)
LEMMA KeptCall ==
  ASSUME SeenIs, SeenIs', NEW D, CallsKept(D), NEW c \in Client \ D, actor'[c] = actor[c]
  PROVE  SeenCall'[c] = SeenCall[c]
<1>1. Calls(c)' = Calls(c)
  BY DEF CallsKept
<1>2. CASE actor[c] # "waiting" \/ Calls(c) = {}
  BY <1>1, <1>2 DEF SeenIs
<1>3. CASE actor[c] = "waiting" /\ Calls(c) # {}
  <2>1. PICK x : x \in Calls(c)
    BY <1>3
  <2>2. SeenCall[c] = x /\ SeenCall'[c] = x
    BY <1>1, <1>3, <2>1 DEF SeenIs
  <2> QED
    BY <2>2
<1> QED
  BY <1>2, <1>3

LEMMA SameResults ==
  ASSUME SeenIs, SeenIs', CallsKept({}), UNCHANGED <<actor, result>>
  PROVE  SeenCall' = SeenCall /\ SeenResult' = SeenResult
<1>1. \A c \in Client : SeenCall'[c] = SeenCall[c]
  BY KeptCall
<1>2. SeenCall' = SeenCall
  BY <1>1 DEF SeenIs
<1>3. SeenResult' = SeenResult
  BY DEF SeenResult, RowOf
<1> QED
  BY <1>2, <1>3

LEMMA PublishSeen == ASSUME IInv, SeenIs, SeenIs', UpdateNetwork PROVE Refined
<1>1. /\ UNCHANGED <<netVer, actor, sent, result, up, batch, decoded, rows, responseQ, down>>
      /\ pushed' = pushed + 1 /\ PutRequest("owner", Weights(pushed + 1)) /\ "owner" \in Producer
  BY DEF UpdateNetwork, Producer, weights, work, loop, actors, sockets
<1>2. Weights(pushed + 1) \in Queued /\ Weights(pushed + 1).type # "infer"
  BY RpcAssumption DEF IInv, Fresh, UpdateNetwork, Weights, Queued, TypeOK, Version
<1>3. CallsKept({})
  BY <1>1, <1>2, OtherQueued DEF IInv, Fresh
<1>4. SeenCall' = SeenCall /\ SeenResult' = SeenResult
  BY <1>1, <1>3, SameResults
<1> QED
  BY <1>1, <1>4 DEF Refined, Service!Next, Service!Publish

\* What is loaded is newer, and was published.
LEMMA LoadSeen ==
  ASSUME IInv, SeenIs, SeenIs', Get \/ Fill, Head(requestQ).type = "weights" PROVE Refined
<1>1. /\ UNCHANGED <<pushed, actor, sent, result, up, outbox, batch, decoded, rows, responseQ, down>>
      /\ requestQ # <<>> /\ requestQ' = Tail(requestQ) /\ LoadWeights(Head(requestQ).ver)
  BY DEF Get, Fill, owner, actors, sockets
<1>2. TypeOK /\ Updates
  BY DEF IInv, Fresh
<1>3. CallsKept({})
  BY <1>1, <1>2, OtherTaken
<1>4. SeenCall' = SeenCall /\ SeenResult' = SeenResult
  BY <1>1, <1>3, SameResults
<1>5. CASE UNCHANGED netVer
  BY <1>1, <1>4, <1>5 DEF Refined
<1>6. CASE netVer' = Head(requestQ).ver
  <2>1. /\ requestQ \in Seq(Queued) /\ IsWeights(Head(requestQ))
        /\ Within(requestQ, netVer, pushed) /\ pushed \in Int /\ netVer \in Int
    BY <1>2, Versions DEF TypeOK, Updates, IsWeights
  <2>2. 1 \in DOMAIN requestQ /\ Head(requestQ) = requestQ[1]
    BY <1>1, <2>1, FirstLeaves
  <2>3. netVer < Head(requestQ).ver /\ Head(requestQ).ver <= pushed /\ Head(requestQ).ver \in Int
    BY <2>1, <2>2, QueuedTypes DEF Within
  <2>4. netVer' \in (netVer + 1) .. pushed
    BY <1>6, <2>1, <2>3
  <2> QED
    BY <1>1, <1>4, <2>4 DEF Refined, Service!Next, Service!Load
<1> QED
  BY <1>1, <1>5, <1>6 DEF LoadWeights, weights

\* The calls of D are answered, those of the actors that have not given up.
LEMMA ServeSeen ==
  ASSUME SeenIs, SeenIs', NEW D \in SUBSET Client, NEW status \in {"ok", "miss", "failed"},
         CallsKept(D), UNCHANGED <<pushed, netVer, actor, sent, result>>,
         \A c \in D : /\ \E x \in Calls(c) : x.status = "asked"
                      /\ Service!Answer(c, status) \in Calls(c)'
  PROVE  Refined
<1> DEFINE S == {c \in D : actor[c] = "waiting"}
<1>1. ASSUME NEW c \in S
      PROVE  /\ SeenCall[c].status = "asked"
             /\ SeenCall'[c] = Service!Answer(c, status)
  <2>1. PICK x \in Calls(c) : x.status = "asked"
    BY <1>1
  <2>2. SeenCall[c] = x /\ SeenCall'[c] = Service!Answer(c, status)
    BY <1>1, <2>1 DEF SeenIs
  <2> QED
    BY <2>1, <2>2
<1>2. ASSUME NEW c \in Client, c \notin S PROVE SeenCall'[c] = SeenCall[c]
  <2>1. CASE c \in D
    BY <1>2, <2>1 DEF SeenIs
  <2>2. CASE c \notin D
    BY <1>2, <2>2, KeptCall
  <2> QED
    BY <2>1, <2>2
<1>3. S \in SUBSET Client
  OBVIOUS
<1> HIDE DEF S
<1>4. SeenCall' = [c \in Client |-> IF c \in S THEN Service!Answer(c, status) ELSE SeenCall[c]]
  BY <1>1, <1>2, <1>3 DEF SeenIs
<1>5. SeenResult' = SeenResult
  BY DEF SeenResult, RowOf
<1>6. Service!Serve(S, status)
  BY <1>1, <1>4, <1>5 DEF Service!Serve
<1> QED
  BY <1>3, <1>6 DEF Refined, Service!Next

LEMMA AnswerOf ==
  ASSUME NEW m, m.client \in Client
  PROVE  /\ Settled(Reply(m, "miss", NoRow)) = Service!Answer(m.client, "miss")
         /\ Settled(Reply(m, "failed", NoRow)) = Service!Answer(m.client, "failed")
BY DEF Settled, Reply, RowOf, NoRow, NoVer, Service!Answer, Service!NoRow

LEMMA DecodeSeen == ASSUME IInv, Clean, SeenIs, SeenIs', Decode PROVE Refined
<1>1. /\ UNCHANGED <<pushed, netVer, actor, sent, result, up, outbox, requestQ, rows, down>>
      /\ batch # <<>> /\ batch' = Tail(batch)
  BY DEF Decode, owner, weights, actors, sockets
<1>2. TypeOK
  BY DEF IInv, Fresh
<1>3. PICK m : m = Head(batch)
  OBVIOUS
<1>4. /\ m \in Message /\ Reply(m, "miss", NoRow) \in Response
      /\ Items(batch) = {m} \cup Items(batch')
  BY <1>1, <1>2, <1>3, BatchItems
<1>5. m.client \in Client
  BY <1>4, MessageParts
<1>6. ASSUME UNCHANGED responseQ, NEW e, decoded' = Append(decoded, e), e.msg = m,
             e \in [msg : Message, emb : Version]
      PROVE  Refined
  <2> DEFINE T == [msg : Message, emb : Version]
  <2>1. decoded \in Seq(T) /\ e \in T
    BY <1>2, <1>6 DEF TypeOK
  <2> HIDE DEF T
  <2>2. Items(decoded') = Items(decoded) \cup {e}
    BY <1>6, <2>1, ItemsAppended
  <2>3. \A n : n \in Requests' <=> n \in Requests
    BY <1>1, <1>4, <1>6, <2>2 DEF Requests
  <2>4. \A c \in Client : RepliesTo(c)' = RepliesTo(c)
    BY <1>1, <1>6 DEF RepliesTo
  <2>5. CallsKept({})
    BY <2>3, <2>4, SameCalls
  <2> QED
    BY <1>1, <2>5, Unseen
<1>7. ASSUME UNCHANGED decoded, Put(m.client, Reply(m, "miss", NoRow)) PROVE Refined
  <2> DEFINE r == Reply(m, "miss", NoRow)
             D == {m.client}
  <2>1. \A c \in Client : Items(responseQ'[c]) =
          IF c = m.client THEN Items(responseQ[c]) \cup {r} ELSE Items(responseQ[c])
    BY <1>2, <1>4, <1>5, <1>7, PutItems
  <2> HIDE DEF r
  <2>2. \A n : n.client \notin D => (n \in Requests' <=> n \in Requests)
    BY <1>1, <1>4, <1>7 DEF Requests
  <2>3. \A c \in Client \ D : RepliesTo(c)' = RepliesTo(c)
    BY <1>1, <2>1 DEF RepliesTo
  <2>4. CallsKept(D)
    BY <2>2, <2>3, SameCalls
  <2>5. m \in Requests /\ r \in RepliesTo(m.client)'
    BY <1>4, <1>5, <2>1 DEF Requests, RepliesTo
  <2>6. Pending(m) \in Calls(m.client) /\ Settled(r) \in Calls(m.client)'
    BY <2>5 DEF Calls, Settled, RowOf
  <2>7. Settled(r) = Service!Answer(m.client, "miss") /\ Pending(m).status = "asked"
    BY <1>5, AnswerOf DEF r, Pending
  <2> QED
    BY <1>1, <1>5, <2>4, <2>6, <2>7, ServeSeen
<1>8. CASE cache # NoVer \/ m.static
  <2>1. Embedding \in Version
    BY <1>2 DEF Embedding, TypeOK
  <2>2. /\ decoded' = Append(decoded, [msg |-> m, emb |-> Embedding]) /\ UNCHANGED responseQ
    BY <1>3, <1>8 DEF Decode
  <2> QED
    BY <1>4, <1>6, <2>1, <2>2
<1>9. CASE ~ (cache # NoVer \/ m.static)
  BY <1>3, <1>7, <1>9 DEF Decode
<1> QED
  BY <1>8, <1>9

\* A forward answers all calls of its batch by one version.
LEMMA ForwardSeen == ASSUME IInv, Clean, SeenIs, SeenIs', ForwardBatch PROVE Refined
<1>1. /\ UNCHANGED <<pushed, netVer, actor, sent, result, up, outbox, requestQ, batch, responseQ, down>>
      /\ decoded' = <<>> /\ server = "decode"
  BY DEF ForwardBatch, owner, weights, actors, sockets
<1>2. PICK ok \in BOOLEAN : rows' = [k \in 1 .. Len(decoded) |-> Outcome(k, ok)]
  BY DEF ForwardBatch
<1>3. TypeOK /\ Forwarded /\ Mine
  BY DEF IInv, Fresh, Whole
<1>4. rows = <<>> /\ Items(rows) = {} /\ Items(decoded') = {}
  BY <1>1, ItemsOne DEF Clean
<1>5. Items(rows') = {Outcome(k, ok) : k \in DOMAIN decoded}
  BY <1>2, <1>3, ForwardItems
<1> DEFINE status == IF ok THEN "ok" ELSE "failed"
           D == {decoded[k].msg.client : k \in DOMAIN decoded}
<1>6. ASSUME NEW k \in DOMAIN decoded
      PROVE  /\ decoded[k].msg.client \in Client /\ decoded[k].msg \in Requests
             /\ Outcome(k, ok).client = decoded[k].msg.client
             /\ Pending(decoded[k].msg).status = "asked"
             /\ Settled(Outcome(k, ok).reply) = Service!Answer(decoded[k].msg.client, status)
  <2>1. decoded[k] \in [msg : Message, emb : Version]
    BY <1>3, OutcomeTypes
  <2>2. PICK m, e : m = decoded[k].msg /\ e = decoded[k].emb
    OBVIOUS
  <2>3. m \in Message /\ m.client \in Client
    BY <2>1, <2>2, MessageParts
  <2>4. e = netVer /\ m.obs = <<m.client, sent[m.client]>>
    BY <1>3, <2>2 DEF Forwarded, Mine, MineAsked, MineTaken, MineTold, Asks
  <2>5. m \in Requests
    BY <2>2 DEF Requests, Items
  <2>6. Outcome(k, ok).client = m.client
    BY <2>2 DEF Outcome
  <2>7. Settled(Outcome(k, ok).reply) = Service!Answer(m.client, status)
    <3>1. CASE ok
      <4>1. Outcome(k, ok).reply =
              Reply(m, "ok", [obs |-> <<m.client, sent[m.client]>>, ver |-> netVer, emb |-> netVer])
        BY <2>2, <2>4, <3>1 DEF Outcome, OutputRow
      <4>2. /\ Outcome(k, ok).reply.status = "ok"
            /\ Outcome(k, ok).reply.row =
                 [obs |-> <<m.client, sent[m.client]>>, ver |-> netVer, emb |-> netVer]
        BY <4>1 DEF Reply
      <4> QED
        BY <3>1, <4>2 DEF Settled, RowOf, Service!Answer
    <3>2. CASE ~ok
      <4>1. Outcome(k, ok).reply = Reply(m, "failed", NoRow) /\ status = "failed"
        BY <2>2, <3>2 DEF Outcome
      <4> QED
        BY <2>3, <4>1, AnswerOf
    <3> QED
      BY <3>1, <3>2
  <2> QED
    BY <2>2, <2>3, <2>4, <2>5, <2>6, <2>7 DEF Pending
<1>7. \A n : n.client \notin D => (n \in Requests' <=> n \in Requests)
  <2> SUFFICES ASSUME NEW n, n.client \notin D PROVE n \in Requests' <=> n \in Requests
    OBVIOUS
  <2>1. ~ \E x \in Items(decoded) : n = x.msg
    BY DEF Items
  <2> QED
    BY <1>1, <1>4, <2>1 DEF Requests
<1>8. \A c \in Client \ D : RepliesTo(c)' = RepliesTo(c)
  <2> SUFFICES ASSUME NEW c \in Client \ D PROVE RepliesTo(c)' = RepliesTo(c)
    OBVIOUS
  <2>1. \A x \in Items(rows') : x.client # c
    BY <1>5, <1>6
  <2> QED
    BY <1>1, <1>4, <2>1 DEF RepliesTo
<1>9. CallsKept(D)
  BY <1>7, <1>8, SameCalls
<1>10. ASSUME NEW c \in D
       PROVE  /\ \E x \in Calls(c) : x.status = "asked"
              /\ Service!Answer(c, status) \in Calls(c)'
  <2>1. PICK k \in DOMAIN decoded : c = decoded[k].msg.client
    OBVIOUS
  <2>2. Pending(decoded[k].msg) \in Calls(c)
    BY <1>6, <2>1, CallsIn
  <2>3. Outcome(k, ok).reply \in RepliesTo(c)'
    BY <1>5, <1>6, <2>1 DEF RepliesTo
  <2>4. Settled(Outcome(k, ok).reply) \in Calls(c)'
    BY <2>3 DEF Calls, Settled, RowOf
  <2> QED
    BY <1>6, <2>1, <2>2, <2>4
<1>11. D \in SUBSET Client /\ status \in {"ok", "miss", "failed"}
  BY <1>6
<1> HIDE DEF D, status
<1> QED
  BY <1>1, <1>9, <1>10, <1>11, ServeSeen

LEMMA ResultSeen ==
  ASSUME TypeOK, NEW d \in Client, NEW r, result' = [result EXCEPT ![d] = r]
  PROVE  SeenResult' = [SeenResult EXCEPT ![d] = [status |-> r.status, row |-> RowOf(r)]]
<1>1. \A c \in Client : result'[c] = IF c = d THEN r ELSE result[c]
  BY DEF TypeOK
<1>2. ASSUME NEW c \in Client
      PROVE  SeenResult'[c] = IF c = d THEN [status |-> r.status, row |-> RowOf(r)]
                              ELSE SeenResult[c]
  BY <1>1 DEF SeenResult, RowOf
<1>3. SeenResult = [c \in Client |-> SeenResult[c]] /\ SeenResult' = [c \in Client |-> SeenResult'[c]]
  BY DEF SeenResult
<1> HIDE DEF SeenResult
<1> QED
  BY <1>2, <1>3

LEMMA AskSeen == ASSUME IInv, SeenIs, SeenIs', NEW d \in Client, Request(d) PROVE Refined
<1> DEFINE m == Infer(d, sent[d] + 1, turn[d] = 0,
                      IF d \in SocketClients THEN turn[d] + 1 ELSE sent[d] + 1)
<1>1. /\ UNCHANGED <<pushed, netVer, batch, decoded, rows, responseQ, down>>
      /\ actor[d] = "playing" /\ actor' = [actor EXCEPT ![d] = "waiting"]
      /\ sent' = [sent EXCEPT ![d] = @ + 1] /\ result' = [result EXCEPT ![d] = NoResult]
      /\ \/ d \in SocketClients /\ up' = [up EXCEPT ![d] = Append(@, m)] /\ UNCHANGED queues
         \/ d \notin SocketClients /\ PutRequest(d, m) /\ UNCHANGED up
  BY DEF Request, owner, weights, loop, work
<1>2. TypeOK
  BY DEF IInv, Fresh
<1>3. TypeOK'
  <2>1. Turns
    BY DEF IInv, Fresh
  <2> QED
    BY <1>2, <2>1, ActorTypes
<1>4. m.client = d /\ m.type = "infer"
  BY DEF Infer
<1>5. m \in Message
  <2>1. sent[d] \in 0 .. MaxRequests /\ turn[d] \in 0 .. MaxRequests /\ turn[d] <= sent[d]
    BY DEF IInv, Fresh, TypeOK, Turns
  <2>2. sent[d] + 1 \in 1 .. MaxRequests /\ turn[d] + 1 \in 1 .. MaxRequests
    BY <2>1, RpcAssumption DEF Request
  <2> QED
    BY <2>2 DEF Infer, Message
<1> HIDE DEF m
<1>6. \A n : n \in Requests' <=> n \in Requests \/ n = m
  <2> SUFFICES ASSUME NEW n PROVE n \in Requests' <=> n \in Requests \/ n = m
    OBVIOUS
  <2>1. n \in Requests <=> \/ \E c \in SocketClients : n \in Items(up[c])
                           \/ (Boxed(n) \/ n \in Items(requestQ)) /\ n.type = "infer"
                           \/ n \in Items(batch) \/ \E x \in Items(decoded) : n = x.msg
    BY DEF Requests, Boxed
  <2>2. n \in Requests' <=> \/ \E c \in SocketClients : n \in Items(up'[c])
                            \/ (Boxed(n)' \/ n \in Items(requestQ')) /\ n.type = "infer"
                            \/ n \in Items(batch) \/ \E x \in Items(decoded) : n = x.msg
    BY <1>1 DEF Requests, Boxed
  <2>3. CASE d \in SocketClients /\ up' = [up EXCEPT ![d] = Append(@, m)] /\ UNCHANGED queues
    <3>1. up[d] \in Seq(Message)
      BY <1>2, <2>3 DEF TypeOK
    <3>2. \A c \in SocketClients : up'[c] = IF c = d THEN Append(up[d], m) ELSE up[c]
      BY <1>2, <2>3 DEF TypeOK
    <3>3. Items(Append(up[d], m)) = Items(up[d]) \cup {m}
      BY <1>5, <3>1, ItemsAppended
    <3>4. (\E c \in SocketClients : n \in Items(up'[c]))
             <=> n = m \/ \E c \in SocketClients : n \in Items(up[c])
      BY <2>3, <3>2, <3>3
    <3>5. Boxed(n)' <=> Boxed(n)
      BY <2>3 DEF Boxed
    <3> QED
      BY <2>1, <2>2, <2>3, <3>4, <3>5
  <2>4. CASE d \notin SocketClients /\ PutRequest(d, m) /\ UNCHANGED up
    <3>1. m \in Queued /\ d \in Producer
      BY <1>5, <2>4 DEF Queued, Client, Producer
    <3>2. requestQ' = requestQ /\ (Boxed(n)' <=> Boxed(n) \/ n = m)
      BY <1>2, <2>4, <3>1, PutBoxed
    <3> QED
      BY <1>4, <2>1, <2>2, <2>4, <3>2
  <2> QED
    BY <1>1, <2>3, <2>4
<1>7. CallsKept({d})
  <2>1. \A n : n.client \notin {d} => (n \in Requests' <=> n \in Requests)
    BY <1>4, <1>6
  <2>2. \A c \in Client \ {d} : RepliesTo(c)' = RepliesTo(c)
    BY <1>1 DEF RepliesTo
  <2> QED
    BY <2>1, <2>2, SameCalls
<1>8. Pending(m) \in Calls(d)'
  BY <1>4, <1>6 DEF Calls, Pending
<1>9. SeenCall'[d] = [status |-> "asked", row |-> Service!NoRow]
  <2>1. actor'[d] = "waiting"
    BY <1>1, <1>2 DEF TypeOK
  <2>2. SeenCall'[d] = Pending(m)
    BY <1>8, <2>1 DEF SeenIs
  <2> QED
    BY <1>4, <2>2 DEF Pending, NoRow, NoVer, Service!NoRow
<1>10. \A c \in Client \ {d} : SeenCall'[c] = SeenCall[c]
  <2>1. \A c \in Client \ {d} : actor'[c] = actor[c]
    BY <1>1, <1>2 DEF TypeOK
  <2> QED
    BY <1>7, <2>1, KeptCall
<1>11. SeenCall' = [SeenCall EXCEPT ![d] =
                      [status |-> "asked", row |-> Service!NoRow]]
  BY <1>9, <1>10 DEF SeenIs
<1>12. SeenResult' = [SeenResult EXCEPT ![d] = [status |-> "none", row |-> Service!NoRow]]
  <2>1. NoResult.status = "none" /\ RowOf(NoResult) = Service!NoRow
    BY DEF RowOf, NoResult, NoRow, NoVer, Service!NoRow
  <2> QED
    BY <1>1, <1>2, <2>1, ResultSeen
<1>13. Service!Ask(d)
  BY <1>1, <1>11, <1>12 DEF Service!Ask
<1> QED
  BY <1>13 DEF Refined, Service!Next

\* What ends a call: the answer to it, or the actor giving up.
LEMMA EndSeen ==
  ASSUME IInv, SeenIs, SeenIs', NEW d \in Client, NEW r, actor[d] = "waiting", Return(d, r),
         UNCHANGED <<pushed, netVer>>, CallsKept({d}),
         \/ r.status \in {"timeout", "lost", "stopping"}
         \/ r.status \in {"ok", "miss", "failed"} /\ Settled(r) \in Calls(d)
  PROVE  Refined
<1>1. TypeOK
  BY DEF IInv, Fresh
<1>2. /\ actor' = [actor EXCEPT ![d] = IF r.status = "ok" THEN "playing" ELSE "ended"]
      /\ result' = [result EXCEPT ![d] = r] /\ UNCHANGED sent
  BY DEF Return
<1>3. SeenResult' = [SeenResult EXCEPT ![d] = [status |-> r.status, row |-> RowOf(r)]]
  BY <1>1, <1>2, ResultSeen
<1>4. SeenCall'[d] = Service!NoCall
  <2>1. actor'[d] # "waiting"
    BY <1>1, <1>2 DEF TypeOK
  <2> QED
    BY <2>1 DEF SeenIs
<1>5. \A c \in Client \ {d} : SeenCall'[c] = SeenCall[c]
  <2>1. \A c \in Client \ {d} : actor'[c] = actor[c]
    BY <1>1, <1>2 DEF TypeOK
  <2> QED
    BY <2>1, KeptCall
<1>6. SeenCall' = [SeenCall EXCEPT ![d] = Service!NoCall]
  BY <1>4, <1>5 DEF SeenIs
<1>7. Service!Ends(d, r.status, RowOf(r))
  BY <1>2, <1>3, <1>6 DEF Service!Ends
<1>8. CASE r.status \in {"timeout", "lost", "stopping"}
  <2>1. RowOf(r) = Service!NoRow
    BY <1>8 DEF RowOf, NoRow, NoVer, Service!NoRow
  <2>2. Service!GiveUp(d)
    BY <1>7, <1>8, <2>1 DEF Service!GiveUp
  <2> QED
    BY <2>2 DEF Refined, Service!Next
<1>9. CASE r.status \in {"ok", "miss", "failed"} /\ Settled(r) \in Calls(d)
  <2>1. SeenCall[d] = Settled(r)
    BY <1>9 DEF SeenIs
  <2>2. SeenCall[d].status = r.status /\ SeenCall[d].row = RowOf(r)
    BY <2>1 DEF Settled
  <2>3. Service!Return(d)
    BY <1>7, <1>9, <2>2 DEF Service!Return
  <2> QED
    BY <2>3 DEF Refined, Service!Next
<1> QED
  BY <1>8, <1>9

LEMMA ReceiveSeen ==
  ASSUME IInv, Clean, SeenIs, SeenIs', NEW d \in Client,
         \/ d \in QueueClients /\ ReceiveQueue(d)
         \/ d \in SocketClients /\ ReceiveSocket(d)
  PROVE  Refined
<1>1. TypeOK /\ Mine
  BY DEF IInv, Fresh, Whole
<1>2. UNCHANGED <<up, outbox, requestQ, batch, decoded, rows>>
  BY DEF ReceiveQueue, ReceiveSocket, loop, work, sockets
<1>3. \A n : n \in Requests' <=> n \in Requests
  BY <1>2 DEF Requests
<1>4. CASE d \in QueueClients /\ ReceiveQueue(d)
  <2>1. /\ UNCHANGED <<pushed, netVer, down>> /\ actor[d] = "waiting" /\ responseQ[d] # <<>>
        /\ responseQ' = [responseQ EXCEPT ![d] = Tail(@)]
    BY <1>4 DEF ReceiveQueue, owner, loop, weights, sockets
  <2>2. PICK r : r = Head(responseQ[d])
    OBVIOUS
  <2>3. /\ r \in Response /\ r \in Items(responseQ[d])
        /\ \A c \in Client \ {d} : responseQ'[c] = responseQ[c]
    BY <1>1, <2>1, <2>2, TakeItems
  <2>4. Tells(r, d) /\ r.status # "stopping"
    BY <1>1, <2>3 DEF Mine, MineAsked, MineTaken, MineTold, Items, Clean
  <2>5. d \notin SocketClients
    BY <1>4, RpcAssumption
  <2>6. r.rid = sent[d]
    BY <2>4, <2>5 DEF Tells, Id
  <2>7. Return(d, r)
    BY <1>4, <2>2, <2>6 DEF ReceiveQueue
  <2>8. \A c \in Client \ {d} : RepliesTo(c)' = RepliesTo(c)
    BY <1>2, <2>1, <2>3 DEF RepliesTo
  <2>9. CallsKept({d})
    BY <1>3, <2>8, SameCalls
  <2>10. Settled(r) \in Calls(d)
    BY <2>3, CallsIn DEF RepliesTo
  <2>11. r.status \in {"ok", "miss", "failed"}
    BY <2>3, <2>4 DEF Response, Tells
  <2> QED
    BY <2>1, <2>7, <2>9, <2>10, <2>11, EndSeen
<1>5. CASE d \in SocketClients /\ ReceiveSocket(d)
  <2>1. /\ UNCHANGED <<pushed, netVer, responseQ>> /\ actor[d] = "waiting" /\ down[d] # <<>>
        /\ down' = [down EXCEPT ![d] = Tail(@)] /\ Return(d, Head(down[d]))
    BY <1>5 DEF ReceiveSocket, owner, loop, weights
  <2>2. PICK r : r = Head(down[d])
    OBVIOUS
  <2>3. r \in Response /\ r \in Items(down[d])
    <3>1. down[d] \in Seq(Response)
      BY <1>1, <1>5 DEF TypeOK
    <3> QED
      BY <2>1, <2>2, <3>1, Removed, ItemsRemoved
  <2>4. \A c \in SocketClients \ {d} : down'[c] = down[c]
    BY <1>1, <2>1 DEF TypeOK
  <2>5. r.status = "stopping" \/ Tells(r, d)
    BY <1>1, <1>5, <2>3 DEF Mine, MineAsked, MineTaken, MineTold, Items
  <2>6. \A c \in Client \ {d} : RepliesTo(c)' = RepliesTo(c)
    BY <1>2, <2>1, <2>4 DEF RepliesTo
  <2>7. CallsKept({d})
    BY <1>3, <2>6, SameCalls
  <2>8. CASE r.status = "stopping"
    BY <2>1, <2>2, <2>7, <2>8, EndSeen
  <2>9. CASE r.status # "stopping"
    <3>1. Settled(r) \in Calls(d)
      BY <1>5, <2>3, <2>9, CallsIn DEF RepliesTo
    <3>2. r.status \in {"ok", "miss", "failed"}
      BY <2>3, <2>5, <2>9 DEF Response, Tells
    <3> QED
      BY <2>1, <2>2, <2>7, <3>1, <3>2, EndSeen
  <2> QED
    BY <2>8, <2>9
<1> QED
  BY <1>4, <1>5

LEMMA GiveUpSeen ==
  ASSUME IInv, SeenIs, SeenIs', NEW d \in Client,
         Timeout(d) \/ (d \in SocketClients /\ ConnectionLost(d))
  PROVE  Refined
<1>1. /\ UNCHANGED <<pushed, netVer, up, outbox, requestQ, batch, decoded, rows, responseQ, down>>
      /\ actor[d] = "waiting"
      /\ Return(d, [status |-> "timeout"]) \/ Return(d, [status |-> "lost"])
  BY DEF Timeout, ConnectionLost, owner, loop, weights, work, sockets
<1>2. CallsKept({d})
  <2>1. CallsKept({})
    BY <1>1, NothingCalls
  <2> QED
    BY <2>1 DEF CallsKept
<1> QED
  BY <1>1, <1>2, EndSeen

LEMMA InitSeen == Init => Service!Init
<1> SUFFICES ASSUME Init PROVE Service!Init
  OBVIOUS
<1>1. \A c \in Client : actor[c] = "playing" /\ result[c] = [status |-> "none"]
  BY DEF Init, NoResult
<1>2. SeenCall = [c \in Client |-> Service!NoCall]
  BY <1>1 DEF SeenCall, NoRow, NoVer, Service!NoCall, Service!NoRow
<1>3. SeenResult = [c \in Client |-> [status |-> "none", row |-> Service!NoRow]]
  BY <1>1 DEF SeenResult, RowOf, NoRow, NoVer, Service!NoRow
<1> QED
  BY <1>2, <1>3 DEF Init, Service!Init

LEMMA StepSeen == IInv /\ Clean /\ SeenIs /\ SeenIs' /\ [Next]_vars => Refined
<1> SUFFICES ASSUME IInv, Clean, SeenIs, SeenIs', [Next]_vars PROVE Refined
  OBVIOUS
<1>1. CASE Started \/ UpdateNetwork \/ StopServer \/ Reap \/ UNCHANGED vars
  BY <1>1, QuietSeen, PublishSeen
<1>2. CASE ServerStep
  BY <1>2, QuietSeen, CollectSeen, LoadSeen, DecodeSeen, ForwardSeen, DispatchSeen DEF ServerStep
<1>3. ASSUME NEW c \in SocketClients, HandlerStep(c) PROVE Refined
  BY <1>3, HandlerSeen
<1>4. ASSUME NEW c \in SocketClients, ReceiveSocket(c) \/ ConnectionLost(c) PROVE Refined
  BY <1>4, ReceiveSeen, GiveUpSeen DEF Client
<1>5. ASSUME NEW c \in QueueClients, ReceiveQueue(c) PROVE Refined
  BY <1>5, ReceiveSeen DEF Client
<1>6. ASSUME NEW c \in Client, Request(c) \/ NextEpisode(c) \/ Timeout(c) PROVE Refined
  BY <1>6, QuietSeen, AskSeen, GiveUpSeen
<1>7. ASSUME NEW p \in Producer, Feed(p) PROVE Refined
  BY <1>7, FeedSeen
<1> QED
  BY <1>1, <1>2, <1>3, <1>4, <1>5, <1>6, <1>7 DEF Next

\* The server, its listener, the feeders of its queue and its clients do what the service
\* promises: every call is answered at one moment, by the row of the actor that asked, with
\* one version of the weights, which is of its moment and never goes back, or with an
\* error, and at most once.
THEOREM ServiceKept == Spec => ImplementsService
<1> USE DEF Refined
<1> QED
  BY InitSeen, StepSeen, SeenIsHolds, CleanHolds, Inductive, PTL
     DEF Spec, ImplementsService, Service!Spec
=============================================================================
