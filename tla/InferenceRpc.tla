---------------------------- MODULE InferenceRpc ----------------------------
(***************************************************************************)
(* The inference server and its two kinds of client (training/core/actor): *)
(* SocketClients are Go actors, each on a TCP connection served by a       *)
(* handler thread of the listener; QueueClients are Python actors that put *)
(* into the request queue themselves.  The server loop collects a batch,   *)
(* loads weights it finds in the same queue, decodes, runs one forward and *)
(* puts every row into the response queue of the client that asked.        *)
(*                                                                         *)
(* The request queue is a multiprocessing.Queue: put leaves the item in a  *)
(* buffer of the process, which a feeder thread pickles and writes into    *)
(* the pipe later, so the queue is in order for each process only.  The    *)
(* owner, the server process (for all handler threads) and each Python     *)
(* actor have such an outbox.  A response queue has one producer, the      *)
(* server, and its feeder only delays the client, as its wait does here.   *)
(*                                                                         *)
(* All actors play one scenario: its static observation travels only with  *)
(* the first request of an episode, and the server keeps the embedding it  *)
(* computed from it (shared_cache, one entry).  An actor whose request     *)
(* fails ends, in Go (paradigm.go, runActor) as in Python (actor_main has  *)
(* no handler around runner.run).  Client ids are in range by              *)
(* construction of the pool; observations are the pair client, number.     *)
(***************************************************************************)
EXTENDS Integers, Sequences, FiniteSets

CONSTANTS SocketClients,  \* ids of the Go actors, registered by __init__
          QueueClients,   \* ids given by register_client
          MaxBatch,       \* max_batch
          MaxRequests,    \* bound: requests of one actor
          MaxUpdates      \* bound: calls of update_network

ASSUME RpcAssumption ==
  /\ SocketClients \cap QueueClients = {} /\ QueueClients \cap {"owner", "server"} = {}
  /\ MaxBatch \in Nat \ {0} /\ MaxRequests \in Nat /\ MaxUpdates \in Nat

Client == SocketClients \cup QueueClients
Producer == {"owner", "server"} \cup QueueClients
NoVer  == -1

VARIABLES
  parent,     \* where the owner is: starting, serving, stopping
  stopEvent,  \* _stop_event
  ready,      \* _ready_event
  pushed,     \* number of state dicts given to update_network
  server,     \* where the server process is
  netVer,     \* which of them the network holds, 0 for the initial one
  cache,      \* version the cached static embedding was computed with
  batch,      \* requests of the batch not decoded yet
  decoded,    \* those decoded, with the embedding they use
  rows,       \* replies of the batch not put yet, each with its client
  outbox,     \* what each process has put into request_queue, not written yet
  requestQ,   \* request_queue, its pipe
  responseQ,  \* response_qs
  actor,      \* what each actor does: playing, waiting for a reply, ended
  sent,       \* number of requests it has made
  turn,       \* and how many of them in this episode
  result,     \* what its last Request returned
  handler,    \* handler thread of a connection: reading, waiting, dead
  up, down    \* frames on the connection

owner   == <<parent, pushed>>
weights == <<netVer, cache>>
work    == <<batch, decoded, rows>>
queues  == <<outbox, requestQ>>
loop    == <<server, weights, work>>
actors  == <<actor, sent, turn, result>>
sockets == <<handler, up, down>>
vars    == <<owner, stopEvent, ready, loop, queues, responseQ, actors, sockets>>

Infer(c, n, s, rid) ==
  [type |-> "infer", client |-> c, rid |-> rid, obs |-> <<c, n>>, static |-> s]
Weights(v) == [type |-> "weights", ver |-> v]
Stop       == [type |-> "stop"]
NoResult   == [status |-> "none"]

\* The reply to message m, and the status of one that carries no row.
Reply(m, status, row) == [status |-> status, rid |-> m.rid, row |-> row]
NoRow == [obs |-> <<>>, ver |-> NoVer, emb |-> NoVer]

Init ==
  /\ parent = "starting" /\ pushed = 0
  /\ stopEvent = FALSE /\ ready = FALSE
  /\ server = "starting" /\ netVer = 0 /\ cache = NoVer /\ batch = <<>>
  /\ decoded = <<>> /\ rows = <<>>
  /\ outbox = [p \in Producer |-> <<>>]
  /\ requestQ = <<>> /\ responseQ = [c \in Client |-> <<>>]
  /\ actor = [c \in Client |-> "playing"]
  /\ sent = [c \in Client |-> 0] /\ turn = [c \in Client |-> 0]
  /\ result = [c \in Client |-> NoResult]
  /\ handler = [c \in SocketClients |-> "reading"]
  /\ up = [c \in SocketClients |-> <<>>] /\ down = [c \in SocketClients |-> <<>>]

\* request_queue.put of a process.
PutRequest(p, m) == outbox' = [outbox EXCEPT ![p] = Append(@, m)] /\ UNCHANGED requestQ

\* Its feeder thread writes an item into the pipe; those of a process die with it.
Feed(p) ==
  /\ outbox[p] # <<>> /\ (p = "server" => server # "gone")
  /\ requestQ' = Append(requestQ, Head(outbox[p]))
  /\ outbox' = [outbox EXCEPT ![p] = Tail(@)]
  /\ UNCHANGED <<owner, stopEvent, ready, loop, responseQ, actors, sockets>>

(***************************************************************************)
(* The owner: InferenceServer.start, update_network, stop                  *)
(***************************************************************************)
Started ==
  /\ parent = "starting" /\ ready
  /\ parent' = "serving"
  /\ UNCHANGED <<pushed, stopEvent, ready, loop, queues, responseQ, actors, sockets>>

UpdateNetwork ==
  /\ parent = "serving" /\ pushed < MaxUpdates
  /\ pushed' = pushed + 1
  /\ PutRequest("owner", Weights(pushed + 1))
  /\ UNCHANGED <<parent, stopEvent, ready, loop, responseQ, actors, sockets>>

\* Called by the owner at any time; start calls it when the ready wait ends first.
StopServer ==
  /\ parent \in {"starting", "serving"}
  /\ parent' = "stopping" /\ stopEvent' = TRUE
  /\ PutRequest("owner", Stop)
  /\ UNCHANGED <<pushed, ready, loop, responseQ, actors, sockets>>

\* The rest of stop: join, then SIGTERM, which a running server has turned into
\* its stop event, so it may outlive both waits; one that starts is killed by it.
\* A signal that meets the server inside is_set (GoPipeline!ServerJams) is left out.
Reap ==
  /\ parent = "stopping" /\ server = "starting"
  /\ server' = "gone" /\ handler' = [c \in SocketClients |-> "dead"]
  /\ UNCHANGED <<owner, stopEvent, ready, weights, work, queues, responseQ,
                 actors, up, down>>

(***************************************************************************)
(* The server process                                                      *)
(***************************************************************************)
ServerReady ==
  /\ server = "starting"
  /\ server' = "head" /\ ready' = TRUE
  /\ UNCHANGED <<owner, stopEvent, weights, work, queues, responseQ, actors, sockets>>

\* A network that does not load or a bad configuration reports itself as ready
\* before it raises; a port that cannot be bound does not.
ServerFails ==
  /\ server = "starting"
  /\ server' = "gone" /\ stopEvent' = TRUE
  /\ ready' \in BOOLEAN
  /\ handler' = [c \in SocketClients |-> "dead"]
  /\ UNCHANGED <<owner, weights, work, queues, responseQ, actors, up, down>>

\* The loop's condition is read before each wait of the queue.
Poll ==
  /\ server = "head"
  /\ server' = IF stopEvent THEN "done" ELSE "get"
  /\ UNCHANGED <<owner, stopEvent, ready, weights, work, queues, responseQ,
                 actors, sockets>>

GetEmpty ==
  /\ server = "get" /\ requestQ = <<>>
  /\ server' = "head"
  /\ UNCHANGED <<owner, stopEvent, ready, weights, work, queues, responseQ,
                 actors, sockets>>

LoadWeights_KeepCache(v) == (netVer' = v /\ UNCHANGED cache) \/ UNCHANGED weights
\* load_state_dict, and what was computed with the old weights is dropped; when it
\* raises, before it copied anything, the loop goes on with the old ones.
LoadWeights(v) == (netVer' = v /\ cache' = NoVer) \/ UNCHANGED weights

Get ==
  /\ server = "get" /\ requestQ # <<>>
  /\ requestQ' = Tail(requestQ) /\ UNCHANGED outbox
  /\ LET m == Head(requestQ) IN
     \/ /\ m.type = "stop"
        /\ server' = "done" /\ UNCHANGED <<weights, batch>>
     \/ /\ m.type = "weights"
        /\ LoadWeights(m.ver) /\ server' = "head" /\ UNCHANGED batch
     \/ /\ m.type = "infer"
        /\ batch' = <<m>> /\ server' = "fill" /\ UNCHANGED weights
  /\ UNCHANGED <<owner, stopEvent, ready, decoded, rows, responseQ, actors, sockets>>

\* The batch grows until it is full, time is up or a stop arrives.
Fill ==
  /\ server = "fill" /\ Len(batch) < MaxBatch /\ requestQ # <<>>
  /\ requestQ' = Tail(requestQ) /\ UNCHANGED outbox
  /\ LET m == Head(requestQ) IN
     \/ /\ m.type = "stop"
        /\ server' = "decode" /\ stopEvent' = TRUE /\ UNCHANGED <<weights, batch>>
     \/ /\ m.type = "weights"
        /\ LoadWeights(m.ver) /\ UNCHANGED <<server, stopEvent, batch>>
     \/ /\ m.type = "infer"
        /\ batch' = Append(batch, m) /\ UNCHANGED <<server, stopEvent, weights>>
  /\ UNCHANGED <<owner, ready, decoded, rows, responseQ, actors, sockets>>

BatchClosed ==
  /\ server = "fill"
  /\ server' = "decode"
  /\ UNCHANGED <<owner, stopEvent, ready, weights, work, queues, responseQ, actors, sockets>>

Put(c, r) == responseQ' = [responseQ EXCEPT ![c] = Append(@, r)]

\* The decoder: the embedding comes from the cache, or from the static
\* observation of the message and the present weights; without either the
\* client is told, and the message is not in the forward.
Embedding == IF cache # NoVer THEN cache ELSE netVer

Decode ==
  /\ server = "decode" /\ batch # <<>>
  /\ batch' = Tail(batch)
  /\ LET m == Head(batch) IN
     IF cache # NoVer \/ m.static
       THEN /\ cache' = Embedding
            /\ decoded' = Append(decoded, [msg |-> m, emb |-> Embedding])
            /\ UNCHANGED responseQ
       ELSE Put(m.client, Reply(m, "miss", NoRow)) /\ UNCHANGED <<cache, decoded>>
  /\ UNCHANGED <<owner, stopEvent, ready, server, netVer, rows, queues, actors, sockets>>

\* Row k of the output of batched_forward: from the k-th decoded observation.
OutputRow_Reversed(k) ==
  LET d == decoded[Len(decoded) + 1 - k]
  IN  [obs |-> d.msg.obs, ver |-> netVer, emb |-> d.emb]
OutputRow(k) == [obs |-> decoded[k].msg.obs, ver |-> netVer, emb |-> decoded[k].emb]

\* A forward that raises is reported to every client of the batch.
Outcome(k, ok) ==
  [client |-> decoded[k].msg.client,
   reply  |-> IF ok THEN Reply(decoded[k].msg, "ok", OutputRow(k))
                    ELSE Reply(decoded[k].msg, "failed", NoRow)]

ForwardBatch_Silent ==
  /\ server = "decode" /\ batch = <<>>
  /\ \E ok \in BOOLEAN : rows' = [k \in 1 .. IF ok THEN Len(decoded) ELSE 0 |-> Outcome(k, ok)]
  /\ decoded' = <<>> /\ server' = "dispatch"
  /\ UNCHANGED <<owner, stopEvent, ready, weights, batch, queues, responseQ, actors, sockets>>
ForwardBatch ==
  /\ server = "decode" /\ batch = <<>>
  /\ \E ok \in BOOLEAN : rows' = [k \in 1 .. Len(decoded) |-> Outcome(k, ok)]
  /\ decoded' = <<>> /\ server' = "dispatch"
  /\ UNCHANGED <<owner, stopEvent, ready, weights, batch, queues, responseQ, actors, sockets>>

Dispatch ==
  /\ server = "dispatch"
  /\ IF rows = <<>>
       THEN server' = "head" /\ UNCHANGED <<rows, responseQ>>
       ELSE /\ Put(Head(rows).client, Head(rows).reply)
            /\ rows' = Tail(rows) /\ UNCHANGED server
  /\ UNCHANGED <<owner, stopEvent, ready, weights, batch, decoded, queues, actors, sockets>>

\* The process ends and takes the daemon threads with it.
ServerExit ==
  /\ server = "done"
  /\ server' = "gone" /\ handler' = [c \in SocketClients |-> "dead"]
  /\ UNCHANGED <<owner, stopEvent, ready, weights, work, queues, responseQ,
                 actors, up, down>>

(***************************************************************************)
(* A handler thread of the listener, with the server's forward_cb          *)
(***************************************************************************)
Forward(c) ==
  /\ handler[c] = "reading" /\ up[c] # <<>>
  /\ PutRequest("server", Head(up[c]))
  /\ up' = [up EXCEPT ![c] = Tail(@)]
  /\ handler' = [handler EXCEPT ![c] = "waiting"]
  /\ UNCHANGED <<owner, stopEvent, ready, loop, responseQ, actors, down>>

\* A reply with another id is dropped; the id wanted is that of the request.
TakeReply(c) ==
  /\ handler[c] = "waiting" /\ responseQ[c] # <<>>
  /\ responseQ' = [responseQ EXCEPT ![c] = Tail(@)]
  /\ IF Head(responseQ[c]).rid = turn[c]
       THEN /\ down' = [down EXCEPT ![c] = Append(@, Head(responseQ[c]))]
            /\ handler' = [handler EXCEPT ![c] = "reading"]
       ELSE UNCHANGED <<down, handler>>
  /\ UNCHANGED <<owner, stopEvent, ready, loop, queues, actors, up>>

StopReply(c) ==
  /\ handler[c] = "waiting" /\ stopEvent
  /\ down' = [down EXCEPT ![c] =
        Append(@, Reply([rid |-> turn[c]], "stopping", NoRow))]
  /\ handler' = [handler EXCEPT ![c] = "reading"]
  /\ UNCHANGED <<owner, stopEvent, ready, loop, queues, responseQ, actors, up>>

(***************************************************************************)
(* The actors                                                              *)
(***************************************************************************)
\* A request of an actor: the first of an episode brings the static observation.
Request(c) ==
  /\ parent # "starting" /\ actor[c] = "playing" /\ sent[c] < MaxRequests
  /\ sent' = [sent EXCEPT ![c] = @ + 1] /\ turn' = [turn EXCEPT ![c] = @ + 1]
  /\ actor' = [actor EXCEPT ![c] = "waiting"]
  /\ result' = [result EXCEPT ![c] = NoResult]
  /\ LET m == Infer(c, sent[c] + 1, turn[c] = 0,
                    IF c \in SocketClients THEN turn[c] + 1 ELSE sent[c] + 1)
     IN  IF c \in SocketClients
           THEN up' = [up EXCEPT ![c] = Append(@, m)] /\ UNCHANGED queues
           ELSE PutRequest(c, m) /\ UNCHANGED up
  /\ UNCHANGED <<owner, stopEvent, ready, loop, responseQ, handler, down>>

NextEpisode(c) ==
  /\ actor[c] = "playing" /\ turn[c] > 0
  /\ turn' = [turn EXCEPT ![c] = 0]
  /\ UNCHANGED <<owner, stopEvent, ready, loop, queues, responseQ, actor, sent, result,
                 sockets>>

Return_Retry(c, r) ==
  /\ result' = [result EXCEPT ![c] = r]
  /\ actor'  = [actor EXCEPT ![c] = IF r.status \in {"ok", "timeout"} THEN "playing" ELSE "ended"]
  /\ UNCHANGED <<sent, turn>>

\* What Request returns; anything but a row ends the actor.
Return(c, r) ==
  /\ result' = [result EXCEPT ![c] = r]
  /\ actor'  = [actor EXCEPT ![c] = IF r.status = "ok" THEN "playing" ELSE "ended"]
  /\ UNCHANGED <<sent, turn>>

ReceiveSocket(c) ==
  /\ actor[c] = "waiting" /\ down[c] # <<>>
  /\ down' = [down EXCEPT ![c] = Tail(@)]
  /\ Return(c, Head(down[c]))
  /\ UNCHANGED <<owner, stopEvent, ready, loop, queues, responseQ, handler, up>>

\* The Python client takes what comes and compares the id afterwards.
ReceiveQueue(c) ==
  /\ actor[c] = "waiting" /\ responseQ[c] # <<>>
  /\ responseQ' = [responseQ EXCEPT ![c] = Tail(@)]
  /\ LET r == Head(responseQ[c]) IN
     Return(c, IF r.rid = sent[c] THEN r ELSE [r EXCEPT !.status = "mismatch"])
  /\ UNCHANGED <<owner, stopEvent, ready, loop, queues, sockets>>

\* The deadline of a request passes.
Timeout(c) ==
  /\ actor[c] = "waiting"
  /\ Return(c, [status |-> "timeout"])
  /\ UNCHANGED <<owner, stopEvent, ready, loop, queues, responseQ, sockets>>

\* Reading from a connection, or dialling, after the server process is gone.
ConnectionLost(c) ==
  /\ actor[c] = "waiting" /\ handler[c] = "dead"
  /\ Return(c, [status |-> "lost"])
  /\ UNCHANGED <<owner, stopEvent, ready, loop, queues, responseQ, sockets>>

(***************************************************************************)
(* Specification                                                           *)
(***************************************************************************)
ServerStep == ServerReady \/ ServerFails \/ Poll \/ GetEmpty \/ Get \/ Fill
              \/ BatchClosed \/ Decode \/ ForwardBatch \/ Dispatch \/ ServerExit
HandlerStep(c) == Forward(c) \/ TakeReply(c) \/ StopReply(c)
Next ==
  \/ Started \/ UpdateNetwork \/ StopServer \/ Reap
  \/ ServerStep
  \/ \E p \in Producer : Feed(p)
  \/ \E c \in SocketClients : HandlerStep(c) \/ ReceiveSocket(c) \/ ConnectionLost(c)
  \/ \E c \in QueueClients : ReceiveQueue(c)
  \/ \E c \in Client : Request(c) \/ NextEpisode(c) \/ Timeout(c)

Spec == Init /\ [][Next]_vars
\* Threads of the server process run; nothing obliges an actor to ask, the owner to
\* stop or a deadline to pass.
FairSpec == Spec /\ WF_vars(ServerStep) /\ WF_vars(Feed("server"))
  /\ \A c \in SocketClients :
       WF_vars(HandlerStep(c)) /\ WF_vars(ReceiveSocket(c) \/ ConnectionLost(c))

(***************************************************************************)
(* Properties                                                              *)
(***************************************************************************)
Version == 0 .. MaxUpdates
Row == [obs : Client \X (1 .. MaxRequests), ver : Version, emb : Version] \cup {NoRow}
Message == [type : {"infer"}, client : Client, rid : 1 .. MaxRequests,
            obs : Client \X (1 .. MaxRequests), static : BOOLEAN]
Response == [status : {"ok", "miss", "failed", "stopping", "mismatch"},
             rid : 0 .. MaxRequests, row : Row]

Queued == Message \cup [type : {"weights"}, ver : Version] \cup {Stop}
Returned == Response \cup {NoResult, [status |-> "timeout"], [status |-> "lost"]}

TypeOK ==
  /\ parent \in {"starting", "serving", "stopping"}
  /\ stopEvent \in BOOLEAN /\ ready \in BOOLEAN
  /\ pushed \in Version /\ netVer \in Version /\ cache \in Version \cup {NoVer}
  /\ server \in {"starting", "head", "get", "fill", "decode", "dispatch", "done", "gone"}
  /\ batch \in Seq(Message) /\ decoded \in Seq([msg : Message, emb : Version])
  /\ rows \in Seq([client : Client, reply : Response])
  /\ outbox \in [Producer -> Seq(Queued)] /\ requestQ \in Seq(Queued)
  /\ responseQ \in [Client -> Seq(Response)]
  /\ up \in [SocketClients -> Seq(Message)] /\ down \in [SocketClients -> Seq(Response)]
  /\ actor \in [Client -> {"playing", "waiting", "ended"}]
  /\ sent \in [Client -> 0 .. MaxRequests] /\ turn \in [Client -> 0 .. MaxRequests]
  /\ result \in [Client -> Returned]
  /\ handler \in [SocketClients -> {"reading", "waiting", "dead"}]

\* The row an actor plays by was computed from the observation it asked about:
\* scattering the rows of a batch, of which some failed to decode, and the
\* queues between never hand it the row of another client or of an earlier turn.
OwnRow ==
  \A c \in Client : result[c].status = "ok" => result[c].row.obs = <<c, sent[c]>>

\* With one request in flight per client a reply always carries the id that is
\* waited for: the dropping of stale replies in forward_cb and the mismatch of
\* the Python client never come to bear, even after timeouts.
NoStaleReply ==
  /\ \A c \in SocketClients :
       handler[c] = "waiting" => \A i \in DOMAIN responseQ[c] : responseQ[c][i].rid = turn[c]
  /\ \A c \in Client : result[c].status # "mismatch"

\* No row mixes weights: the static embedding it used is of the version that
\* ran the forward.
EmbeddingCurrent ==
  \A c \in Client : \A i \in DOMAIN responseQ[c] :
    responseQ[c][i].status = "ok" => responseQ[c][i].row.emb = responseQ[c][i].row.ver

\* The converse of a cache: the actor resends the static observation after a
\* weight update, so no request fails for want of it.
StaticAtHand ==
  \A c \in Client : \A i \in DOMAIN responseQ[c] : responseQ[c][i].status # "miss"

\* Where the call of an actor is: in a request, or in a reply to it.
Items(s) == {s[i] : i \in DOMAIN s}
Requests ==
  (UNION {Items(up[c]) : c \in SocketClients})
  \cup {m \in (UNION {Items(outbox[p]) : p \in Producer}) \cup Items(requestQ) : m.type = "infer"}
  \cup Items(batch) \cup {d.msg : d \in Items(decoded)}
RepliesTo(c) ==
  {x.reply : x \in {y \in Items(rows) : y.client = c}} \cup Items(responseQ[c])
  \cup IF c \in SocketClients THEN {r \in Items(down[c]) : r.status # "stopping"} ELSE {}

RowOf(r)   == IF r.status = "ok" THEN r.row ELSE NoRow
Pending(m) == [status |-> "asked", row |-> NoRow]
Settled(r) == [status |-> r.status, row |-> RowOf(r)]
Calls(c)   == {Pending(m) : m \in {n \in Requests : n.client = c}}
              \cup {Settled(r) : r \in RepliesTo(c)}

\* An actor that has ended has no call, whatever is still on its way.
SeenCall == [c \in Client |->
  IF actor[c] = "waiting" /\ Calls(c) # {} THEN CHOOSE x \in Calls(c) : TRUE
  ELSE [status |-> "none", row |-> NoRow]]
SeenResult == [c \in Client |-> [status |-> result[c].status, row |-> RowOf(result[c])]]

Service == INSTANCE RpcService WITH net <- netVer, call <- SeenCall, result <- SeenResult

\* The queues and their feeders, batches, caches, threads and failures between an
\* actor and the network are not seen: every call is answered at one moment, by its
\* own row, with the weights of that moment, which are never older than those of an
\* earlier one, or fails; none is lost in the server, and none is answered twice.
ImplementsService == Service!Spec

\* A Go actor that waits for a reply gets one, or an error, without its
\* deadline: batches that fail to decode or to run, stops with requests still
\* queued, and the end of the process all answer it.
Answered == \A c \in SocketClients : actor[c] = "waiting" ~> actor[c] # "waiting"
=============================================================================
