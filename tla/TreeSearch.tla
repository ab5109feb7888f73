----------------------------- MODULE TreeSearch -----------------------------
(***************************************************************************)
(* The tree search of gicg_mcts: workers run rollouts over one tree, whose *)
(* counters are atomics and whose children are guarded by a lock per node, *)
(* and two dispatchers carry their requests to the evaluator of Python and *)
(* bring back its replies, which have no identifier.                       *)
(*                                                                         *)
(* Each rollout plays with its own copy of the game and its own sample of  *)
(* the hidden state: below the root, where it is known, the legal actions  *)
(* of two rollouts in one node may differ.  The choice among them by       *)
(* scores is left open, and so are values and priors.                      *)
(*                                                                         *)
(* Legal actions are a list, in which an action occurs once for each copy  *)
(* of its card in the hand: entry <<a, i>> is the i-th occurrence of a.    *)
(***************************************************************************)
EXTENDS Integers, FiniteSets, SequencesExt

CONSTANTS Workers,      \* rollout goroutines
          NRollouts,
          MaxDepth,     \* MaxRolloutDepth
          Actions,
          Lists,        \* the lists of legal actions there are, as sets of entries
          RootActions   \* the list of the root

ASSUME TreeSearchAssumption ==
  /\ IsFiniteSet(Workers) /\ Workers # {}
  /\ NRollouts \in Nat \ {0} /\ Cardinality(Workers) <= NRollouts
  /\ MaxDepth \in Nat
  /\ IsFiniteSet(Actions) /\ RootActions \in Lists
  /\ \A as \in Lists :
       /\ as # {} /\ IsFiniteSet(as) /\ as \subseteq Actions \X (Nat \ {0})
       /\ \A e \in as : \A i \in 1 .. e[2] : <<e[1], i>> \in as

Par  == Cardinality(Workers)
Root == 1
Entries == UNION Lists

VARIABLES
  tree,      \* the nodes: expanded, children as (entry, node) pairs, N and
             \* NVirtual; history: rollouts that ended there
  fed,       \* rollouts put into workCh
  taken,     \* and taken from it
  wpc,       \* where each worker is
  roll,      \* the rollout of each worker
  path,      \* its nodes from the root
  legal,     \* the list of legal actions where it is
  resp,      \* the rollout whose reply is in its response, or 0
  done,      \* its job's done channel is closed
  sendq,     \* sendCh
  spc, sjob, \* the sender, and its job
  pending,   \* the channel from the sender to the receiver
  rpc, rjob, \* the receiver, and its job
  asked,     \* rollouts whose requests wait in Python
  failed,    \* dispatchErr is set
  mpc        \* Search itself: "feed", "wait", "returned"

work     == <<fed, taken>>
rollout  == <<wpc, roll, path, legal>>
dispatch == <<sendq, spc, sjob, pending, rpc, rjob, asked>>
answers  == <<resp, done>>
vars     == <<tree, work, rollout, dispatch, answers, failed, mpc>>

Node  == [open |-> FALSE, kids |-> {}, n |-> 0, vl |-> 0, ends |-> 0]
NoJob == "none"

Acts(as) == {e[1] : e \in as}
Known(m) == {k[1][1] : k \in tree[m].kids}
At(w)    == path[w][Len(path[w])]
\* The entries of worker w's list whose action has no child: of these all.
Missing(w) == {e \in legal[w] : e[1] \notin Known(At(w))}

\* Node m is given a child for every entry of as, in nodes it allocates.
Grown(t, m, as) ==
  LET s == SetToSeq(as)
  IN  [t EXCEPT ![m].open = TRUE, ![m].kids = @ \cup {<<s[i], Len(t) + i>> : i \in DOMAIN s}]
      \o [i \in DOMAIN s |-> Node]

Init ==
  /\ tree = Grown(<<Node>>, Root, RootActions)
  /\ fed = 0 /\ taken = 0
  /\ wpc = [w \in Workers |-> "pull"] /\ roll = [w \in Workers |-> 0]
  /\ path = [w \in Workers |-> <<>>] /\ legal = [w \in Workers |-> {}]
  /\ resp = [w \in Workers |-> 0] /\ done = [w \in Workers |-> FALSE]
  /\ sendq = <<>> /\ spc = "idle" /\ sjob = NoJob
  /\ pending = <<>> /\ rpc = "idle" /\ rjob = NoJob /\ asked = <<>>
  /\ failed = FALSE /\ mpc = "feed"

(***************************************************************************)
(* Search: the rollouts are fed to the workers, and all is waited for      *)
(***************************************************************************)
Feed ==
  /\ mpc = "feed"
  /\ IF fed < NRollouts
       THEN fed - taken < 2 * Par /\ fed' = fed + 1 /\ mpc' = mpc
       ELSE fed' = fed /\ mpc' = "wait"
  /\ UNCHANGED <<tree, taken, rollout, dispatch, answers, failed>>

Return ==
  /\ mpc = "wait" /\ spc = "closed" /\ rpc = "closed"
  /\ mpc' = "returned"
  /\ UNCHANGED <<tree, work, rollout, dispatch, answers, failed>>

(***************************************************************************)
(* A worker: one rollout down the tree                                     *)
(***************************************************************************)
\* The rollout of worker w is over, or has failed.
Leaves(w) ==
  /\ wpc' = [wpc EXCEPT ![w] = "pull"] /\ roll' = [roll EXCEPT ![w] = 0]
  /\ path' = [path EXCEPT ![w] = <<>>] /\ legal' = [legal EXCEPT ![w] = {}]
  /\ resp' = [resp EXCEPT ![w] = 0] /\ done' = [done EXCEPT ![w] = FALSE]

\* Once the search has failed what is left of the work is thrown away.
Pull(w) ==
  /\ wpc[w] = "pull" /\ taken < fed
  /\ taken' = taken + 1
  /\ IF failed
       THEN UNCHANGED <<tree, rollout>>
       ELSE /\ wpc' = [wpc EXCEPT ![w] = "query"] /\ roll' = [roll EXCEPT ![w] = taken']
            /\ path' = [path EXCEPT ![w] = <<Root>>] /\ legal' = legal
            /\ tree' = [tree EXCEPT ![Root].vl = @ + 1]
  /\ UNCHANGED <<fed, dispatch, answers, failed, mpc>>

Exit(w) ==
  /\ wpc[w] = "pull" /\ mpc = "wait" /\ taken = fed
  /\ wpc' = [wpc EXCEPT ![w] = "gone"]
  /\ UNCHANGED <<tree, work, roll, path, legal, dispatch, answers, failed, mpc>>

\* The legal actions, and whether the node is expanded.
Query(w) ==
  /\ wpc[w] = "query"
  /\ \E as \in IF At(w) = Root THEN {RootActions} ELSE Lists :
       legal' = [legal EXCEPT ![w] = as]
  /\ wpc' = [wpc EXCEPT ![w] = IF tree[At(w)].open THEN "check" ELSE "send"]
  /\ UNCHANGED <<tree, work, roll, path, dispatch, answers, failed, mpc>>

\* Mutant: the node is taken to be complete if it has any of the legal actions.
Check_Any(w) ==
  /\ wpc[w] = "check"
  /\ wpc' = [wpc EXCEPT ![w] = IF Acts(legal[w]) \cap Known(At(w)) # {} THEN "select" ELSE "add"]
  /\ UNCHANGED <<tree, work, roll, path, legal, dispatch, answers, failed, mpc>>
Check(w) ==
  /\ wpc[w] = "check"
  /\ wpc' = [wpc EXCEPT ![w] = IF Acts(legal[w]) \subseteq Known(At(w)) THEN "select" ELSE "add"]
  /\ UNCHANGED <<tree, work, roll, path, legal, dispatch, answers, failed, mpc>>

\* Mutant: all legal actions are added, without a second look under the lock.
Add_All(w) ==
  /\ wpc[w] = "add"
  /\ tree' = Grown(tree, At(w), legal[w])
  /\ wpc' = [wpc EXCEPT ![w] = "select"]
  /\ UNCHANGED <<work, roll, path, legal, dispatch, answers, failed, mpc>>
Add(w) ==
  /\ wpc[w] = "add"
  /\ tree' = Grown(tree, At(w), Missing(w))
  /\ wpc' = [wpc EXCEPT ![w] = "select"]
  /\ UNCHANGED <<work, roll, path, legal, dispatch, answers, failed, mpc>>

\* One step of the game into the first child of an action, which may end it, or be
\* one too deep.
Descend(w) ==
  /\ wpc[w] = "select"
  /\ \E k \in tree[At(w)].kids :
       /\ k[1][1] \in Acts(legal[w])
       /\ \A l \in tree[At(w)].kids : l[1][1] = k[1][1] => k[2] <= l[2]
       /\ path' = [path EXCEPT ![w] = Append(@, k[2])]
       /\ tree' = [tree EXCEPT ![k[2]].vl = @ + 1]
  /\ legal' = [legal EXCEPT ![w] = {}]
  /\ \E to \in {"over", IF Len(path[w]) > MaxDepth THEN "deep" ELSE "query"} :
       wpc' = [wpc EXCEPT ![w] = to]
  /\ UNCHANGED <<work, roll, dispatch, answers, failed, mpc>>

\* The rules fail, or leave nothing to do, or the rollout is too deep: its virtual
\* losses stay.
Breaks(w) ==
  /\ wpc[w] \in {"query", "select", "deep", "send"}
  /\ failed' = TRUE
  /\ Leaves(w)
  /\ UNCHANGED <<tree, work, dispatch, mpc>>

SendJob(w) ==
  /\ wpc[w] = "send" /\ Len(sendq) < Par
  /\ sendq' = Append(sendq, w)
  /\ wpc' = [wpc EXCEPT ![w] = "wait"]
  /\ UNCHANGED <<tree, work, roll, path, legal, spc, sjob, pending, rpc, rjob, asked, answers,
                 failed, mpc>>

\* Mutant: the worker does not look at the failure again.
Await_Blind(w) ==
  /\ wpc[w] = "wait" /\ done[w]
  /\ wpc' = [wpc EXCEPT ![w] = "commit"]
  /\ UNCHANGED <<tree, work, roll, path, legal, dispatch, answers, failed, mpc>>
\* A rollout whose search has failed meanwhile is given up.
Await(w) ==
  /\ wpc[w] = "wait" /\ done[w]
  /\ IF failed
       THEN Leaves(w)
       ELSE wpc' = [wpc EXCEPT ![w] = "commit"] /\ UNCHANGED <<roll, path, legal, answers>>
  /\ UNCHANGED <<tree, work, dispatch, failed, mpc>>

\* Mutant: children another rollout has installed are replaced.
Expanded_Again(w) ==
  [Grown(tree, At(w), legal[w]) EXCEPT ![At(w)].kids = @ \ tree[At(w)].kids]
\* The leaf is expanded, unless another rollout has done so.
Expanded(w) ==
  IF tree[At(w)].open THEN tree ELSE Grown(tree, At(w), legal[w])

Commit(w) ==
  /\ wpc[w] \in {"over", "commit"}
  /\ LET t == IF wpc[w] = "over" THEN tree ELSE Expanded(w)
     IN  tree' = [t EXCEPT ![At(w)].ends = @ + 1]
  /\ wpc' = [wpc EXCEPT ![w] = "backup"] /\ legal' = [legal EXCEPT ![w] = {}]
  /\ UNCHANGED <<work, roll, path, dispatch, answers, failed, mpc>>

\* Backup, node by node from the root.
Backup(w) ==
  /\ wpc[w] = "backup"
  /\ tree' = [tree EXCEPT ![Head(path[w])].n = @ + 1, ![Head(path[w])].vl = @ - 1]
  /\ IF Len(path[w]) = 1
       THEN Leaves(w)
       ELSE path' = [path EXCEPT ![w] = Tail(@)] /\ UNCHANGED <<wpc, roll, legal, answers>>
  /\ UNCHANGED <<work, dispatch, failed, mpc>>

(***************************************************************************)
(* The sender and the receiver                                             *)
(***************************************************************************)
sender   == <<spc, sjob>>
receiver == <<rpc, rjob>>

\* Mutant: a job met after a failure is dropped.
SenderTake_Dropped ==
  /\ spc = "idle" /\ sendq # <<>>
  /\ sendq' = Tail(sendq)
  /\ IF failed
       THEN UNCHANGED sender
       ELSE spc' = "send" /\ sjob' = Head(sendq)
  /\ UNCHANGED <<tree, work, rollout, pending, receiver, asked, answers, failed, mpc>>
SenderTake ==
  /\ spc = "idle" /\ sendq # <<>>
  /\ sendq' = Tail(sendq)
  /\ IF failed
       THEN done' = [done EXCEPT ![Head(sendq)] = TRUE] /\ UNCHANGED sender
       ELSE spc' = "send" /\ sjob' = Head(sendq) /\ UNCHANGED done
  /\ UNCHANGED <<tree, work, rollout, pending, receiver, asked, resp, failed, mpc>>

Asks ==
  /\ spc = "send"
  /\ asked' = Append(asked, roll[sjob]) /\ spc' = "publish"
  /\ UNCHANGED <<tree, work, rollout, sendq, sjob, pending, receiver, answers, failed, mpc>>

SendFails ==
  /\ spc = "send"
  /\ failed' = TRUE /\ done' = [done EXCEPT ![sjob] = TRUE]
  /\ spc' = "idle" /\ sjob' = NoJob
  /\ UNCHANGED <<tree, work, rollout, sendq, pending, receiver, asked, resp, mpc>>

Publish ==
  /\ spc = "publish" /\ Len(pending) < Par
  /\ pending' = Append(pending, sjob)
  /\ spc' = "idle" /\ sjob' = NoJob
  /\ UNCHANGED <<tree, work, rollout, sendq, receiver, asked, answers, failed, mpc>>

\* The workers are gone, sendCh is closed and empty, and pending is closed.
SenderEnds ==
  /\ spc = "idle" /\ sendq = <<>> /\ \A w \in Workers : wpc[w] = "gone"
  /\ spc' = "closed"
  /\ UNCHANGED <<tree, work, rollout, sendq, sjob, pending, receiver, asked, answers, failed, mpc>>

ReceiverTake ==
  /\ rpc = "idle" /\ pending # <<>>
  /\ pending' = Tail(pending)
  /\ IF failed
       THEN done' = [done EXCEPT ![Head(pending)] = TRUE] /\ UNCHANGED receiver
       ELSE rpc' = "recv" /\ rjob' = Head(pending) /\ UNCHANGED done
  /\ UNCHANGED <<tree, work, rollout, sendq, sender, asked, resp, failed, mpc>>

\* The evaluator answers the oldest request.
Receives ==
  /\ rpc = "recv" /\ asked # <<>>
  /\ asked' = Tail(asked)
  /\ resp' = [resp EXCEPT ![rjob] = Head(asked)] /\ done' = [done EXCEPT ![rjob] = TRUE]
  /\ rpc' = "idle" /\ rjob' = NoJob
  /\ UNCHANGED <<tree, work, rollout, sendq, sender, pending, failed, mpc>>

ReceiveFails ==
  /\ rpc = "recv"
  /\ failed' = TRUE /\ done' = [done EXCEPT ![rjob] = TRUE]
  /\ rpc' = "idle" /\ rjob' = NoJob
  /\ UNCHANGED <<tree, work, rollout, sendq, sender, pending, asked, resp, mpc>>

ReceiverEnds ==
  /\ rpc = "idle" /\ pending = <<>> /\ spc = "closed"
  /\ rpc' = "closed"
  /\ UNCHANGED <<tree, work, rollout, sendq, sender, pending, rjob, asked, answers, failed, mpc>>

(***************************************************************************)
(* Specification                                                           *)
(***************************************************************************)
Working(w) == Pull(w) \/ Exit(w) \/ Query(w) \/ Check(w) \/ Add(w) \/ Descend(w) \/ Breaks(w)
              \/ SendJob(w) \/ Await(w) \/ Commit(w) \/ Backup(w)
Sending    == SenderTake \/ Asks \/ SendFails \/ Publish \/ SenderEnds
Receiving  == ReceiverTake \/ Receives \/ ReceiveFails \/ ReceiverEnds
Next == Feed \/ Return \/ Sending \/ Receiving \/ \E w \in Workers : Working(w)
Spec == Init /\ [][Next]_vars
\* Goroutines are scheduled fairly, and Python's callbacks return.
FairSpec ==
  /\ Spec /\ WF_vars(Feed \/ Return) /\ WF_vars(Sending) /\ WF_vars(Receiving)
  /\ \A w \in Workers : WF_vars(Working(w))

(***************************************************************************)
(* Properties                                                              *)
(***************************************************************************)
TypeOK ==
  /\ \A m \in DOMAIN tree :
       /\ tree[m].open \in BOOLEAN /\ tree[m].kids \subseteq Entries \X (DOMAIN tree \ {Root})
       /\ {tree[m].n, tree[m].vl, tree[m].ends} \subseteq 0 .. NRollouts
  /\ taken \in 0 .. fed /\ fed \in 0 .. NRollouts /\ fed - taken <= 2 * Par
  /\ \A w \in Workers :
       /\ wpc[w] \in {"pull", "query", "check", "add", "select", "over", "deep", "send", "wait",
                      "commit", "backup", "gone"}
       /\ roll[w] \in 0 .. NRollouts /\ resp[w] \in 0 .. NRollouts /\ done[w] \in BOOLEAN
       /\ path[w] \in Seq(DOMAIN tree) /\ Len(path[w]) <= MaxDepth + 2
       /\ legal[w] \in Lists \cup {{}}
  /\ sendq \in Seq(Workers) /\ Len(sendq) <= Par
  /\ pending \in Seq(Workers) /\ Len(pending) <= Par /\ asked \in Seq(1 .. NRollouts)
  /\ spc \in {"idle", "send", "publish", "closed"} /\ sjob \in Workers \cup {NoJob}
  /\ rpc \in {"idle", "recv", "closed"} /\ rjob \in Workers \cup {NoJob}
  /\ failed \in BOOLEAN /\ mpc \in {"feed", "wait", "returned"}

\* However rollouts that see different legal actions race to expand a node and to add
\* to it, an action has no more children there than occurrences in the list of one of
\* them, and a child has one parent.
OneEach ==
  \A m, o \in DOMAIN tree : \A k \in tree[m].kids : \A l \in tree[o].kids :
    (m = o /\ k[1] = l[1]) \/ k[2] = l[2] => m = o /\ k = l

\* The later children of a repeated action are dead: rollouts come to the first of them
\* only, whose counters hold all visits of the action.
Unvisited ==
  \A m \in DOMAIN tree : \A k, l \in tree[m].kids :
    k[1][1] = l[1][1] /\ k[2] < l[2] => tree[l[2]].n = 0 /\ tree[l[2]].vl = 0

OneChild == OneEach /\ Unvisited

\* Every legal action has a child when one is chosen: otherwise the choice panics, which
\* nothing recovers.
NeverPanics == \A w \in Workers : wpc[w] = "select" => Acts(legal[w]) \subseteq Known(At(w))

\* A leaf is expanded with the reply to its own request, although replies have no
\* identifier, and the receiver asks for one when there is one to come.
OwnReply ==
  /\ \A w \in Workers : wpc[w] = "commit" => resp[w] = roll[w]
  /\ rpc = "recv" => asked # <<>>

\* The visits of the children of node m, as pairs of a child and a number.
ChildVisits(m) == {v \in tree[m].kids \X (1 .. NRollouts) : v[2] <= tree[v[1][2]].n}

\* A search that reports no failure has counted every rollout once in every node of its
\* path, and taken back every virtual loss.
VisitsAdd ==
  mpc = "returned" /\ ~failed =>
    /\ tree[Root].n = NRollouts /\ tree[Root].ends = 0
    /\ \A m \in DOMAIN tree :
         tree[m].vl = 0 /\ tree[m].n = tree[m].ends + Cardinality(ChildVisits(m))

\* The search returns, whatever fails: no worker waits for a reply that never comes, and
\* neither workers nor dispatchers wait for one another at full or closing channels.
SearchReturns == <>(mpc = "returned")
=============================================================================
