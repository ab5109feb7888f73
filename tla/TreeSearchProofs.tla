-------------------------- MODULE TreeSearchProofs --------------------------
(***************************************************************************)
(* Safety of the tree search, for any number of workers and rollouts, any  *)
(* depth and any actions.                                                  *)
(***************************************************************************)
EXTENDS TreeSearch, FiniteSetTheorems, SequenceTheorems, TLAPS

(***************************************************************************)
(* The inductive invariant.                                                *)
(***************************************************************************)
Walking == {"query", "check", "add", "select"}       \* may still go deeper
Leaf    == {"over", "deep", "send", "wait", "commit"} \* has reached its last node
Idle    == {"pull", "gone"}
Early   == Idle \cup Walking \cup {"over", "deep", "send"}

NodeType == [open : BOOLEAN, kids : SUBSET (Entries \X Nat), n : Nat, vl : Int, ends : Nat]
TreeType == tree \in Seq(NodeType) /\ Len(tree) \in Nat \ {0}

\* A child is younger than its parent, so the nodes form a tree; the root is open.
KidsLater == \A m \in DOMAIN tree : \A k \in tree[m].kids : m < k[2] /\ k[2] <= Len(tree)
Shape     ==
  /\ KidsLater /\ OneEach
  /\ tree[Root].open /\ \A m \in DOMAIN tree : tree[m].kids # {} => tree[m].open

StateType ==
  /\ fed \in 0 .. NRollouts /\ taken \in 0 .. fed /\ fed - taken <= 2 * Par
  /\ wpc \in [Workers -> Idle \cup Walking \cup Leaf \cup {"backup"}]
  /\ roll \in [Workers -> 0 .. NRollouts] /\ resp \in [Workers -> 0 .. NRollouts]
  /\ done \in [Workers -> BOOLEAN] /\ legal \in [Workers -> Lists \cup {{}}]
  /\ path \in [Workers -> Seq(Nat)] /\ failed \in BOOLEAN
DispatchType ==
  /\ sendq \in Seq(Workers) /\ Len(sendq) <= Par
  /\ pending \in Seq(Workers) /\ Len(pending) <= Par /\ asked \in Seq(1 .. NRollouts)
  /\ spc \in {"idle", "send", "publish", "closed"} /\ sjob \in Workers \cup {NoJob}
  /\ rpc \in {"idle", "recv", "closed"} /\ rjob \in Workers \cup {NoJob}

\* The search returns when the workers are gone, which they are when all work is taken.
Phases ==
  /\ mpc \in {"feed", "wait", "returned"} /\ (mpc # "feed" => fed = NRollouts)
  /\ mpc = "returned" => spc = "closed"
  /\ spc = "closed" => \A w \in Workers : wpc[w] = "gone"
  /\ \A w \in Workers : wpc[w] = "gone" => mpc # "feed" /\ taken = fed

\* A rollout goes down the tree, and the root is not its last node.
PathInv ==
  \A w \in Workers :
    /\ wpc[w] \in Idle <=> path[w] = <<>>
    /\ wpc[w] \notin Idle => roll[w] # 0
    /\ \A i \in DOMAIN path[w] : path[w][i] \in DOMAIN tree
    /\ \A i, j \in DOMAIN path[w] : i < j => path[w][i] < path[w][j]
    /\ Len(path[w]) <= MaxDepth + 2
    /\ wpc[w] \in Walking => Len(path[w]) <= MaxDepth + 1
    /\ wpc[w] \in Leaf => At(w) # Root

\* The jobs on their way between workers and dispatchers: each worker has one at most.
Elements(s) == {s[i] : i \in DOMAIN s}
Distinct(s) == \A i, j \in DOMAIN s : s[i] = s[j] => i = j
AtSender   == IF spc \in {"send", "publish"} THEN {sjob} ELSE {}
AtReceiver == IF rpc = "recv" THEN {rjob} ELSE {}
Sent       == Elements(sendq)
Unanswered == Elements(pending)
Waits(w)   == w \in Workers /\ wpc[w] = "wait" /\ ~done[w]
Jobs ==
  /\ \A w \in Sent \cup AtSender \cup Unanswered \cup AtReceiver : Waits(w)
  /\ Distinct(sendq) /\ Distinct(pending)
  /\ Sent \cap AtSender = {} /\ Sent \cap Unanswered = {} /\ Sent \cap AtReceiver = {}
  /\ AtSender \cap Unanswered = {} /\ AtSender \cap AtReceiver = {}
  /\ Unanswered \cap AtReceiver = {}
  /\ \A w \in Workers : wpc[w] \in Early => ~done[w]

\* While nothing has failed, Python holds the requests of the jobs at the receiver,
\* in pending and at the sender, in this order.
Taken    == IF rpc = "recv" THEN 1 ELSE 0
Unposted == IF spc = "publish" THEN 1 ELSE 0
Aligned ==
  /\ Len(asked) = Taken + Len(pending) + Unposted
  /\ \A i \in DOMAIN pending : asked[Taken + i] = roll[pending[i]]
  /\ spc = "publish" => asked[Len(asked)] = roll[sjob]
Replies ==
  /\ ~failed => Aligned
  /\ rpc = "recv" => asked # <<>> /\ asked[1] = roll[rjob]
  /\ \A w \in Workers : wpc[w] = "wait" /\ done[w] /\ ~failed => resp[w] = roll[w]
  /\ \A w \in Workers : wpc[w] = "commit" => resp[w] = roll[w]

\* The rollouts under way, and those that have not ended in a node.
Active  == {w \in Workers : wpc[w] \notin Idle}
Unended == {w \in Workers : wpc[w] \in Walking \cup Leaf}
Started ==
  /\ Cardinality(Active) <= taken
  /\ \A m \in DOMAIN tree : tree[m].ends + Cardinality(Unended) <= taken

\* A virtual loss for every rollout on its way through a node.
On(m) == {w \in Workers : \E i \in DOMAIN path[w] : path[w][i] = m}
Losses ==
  \A m \in DOMAIN tree :
    tree[m].vl >= Cardinality(On(m)) /\ (~failed => tree[m].vl = Cardinality(On(m)))

\* A rollout passes a node once at most.
Seen(m)   == tree[m].n + tree[m].vl
Coming(m) == {w \in Workers : wpc[w] \in Walking /\ At(w) < m}
Bounded   == \A m \in DOMAIN tree : Seen(m) + Cardinality(Coming(m)) <= taken

\* While nothing has failed, who comes to a node ends there, is there or went on.
Into(m) == {v \in tree[m].kids \X (1 .. NRollouts) : v[2] <= Seen(v[1][2])}
Here(m) == {w \in Unended : At(w) = m}
Flow ==
  /\ tree[Root].ends = 0
  /\ ~failed =>
       /\ Seen(Root) = taken
       /\ \A m \in DOMAIN tree :
            Seen(m) = tree[m].ends + Cardinality(Into(m)) + Cardinality(Here(m))

IInv ==
  /\ TreeType /\ Shape /\ StateType /\ DispatchType /\ Phases /\ PathInv /\ NeverPanics
  /\ Jobs /\ Replies /\ Started /\ Losses /\ Bounded /\ Flow

(***************************************************************************)
(* The nodes that are added for a set of actions.                          *)
(***************************************************************************)
LEMMA SeqOfSet ==
  ASSUME NEW as, IsFiniteSet(as)
  PROVE  /\ Cardinality(as) \in Nat /\ SetToSeq(as) \in [1 .. Cardinality(as) -> as]
         /\ \A i, j \in 1 .. Cardinality(as) : SetToSeq(as)[i] = SetToSeq(as)[j] => i = j
         /\ \A a \in as : \E i \in 1 .. Cardinality(as) : SetToSeq(as)[i] = a
<1> DEFINE c == Cardinality(as)
           s == SetToSeq(as)
<1>1. c \in Nat /\ ExistsBijection(1 .. c, as)
  BY FS_CardinalityType
<1>2. PICK f \in [1 .. c -> as] : IsInjective(f)
  BY <1>1 DEF ExistsBijection, Bijection, Injection, IsInjective
<1>3. s \in [1 .. c -> as] /\ IsInjective(s)
  BY <1>2 DEF SetToSeq
<1> HIDE DEF c, s
<1>4. \A i, j \in 1 .. c : s[i] = s[j] => i = j
  BY <1>3 DEF IsInjective
<1>5. s \in Injection(1 .. c, as)
  BY <1>3 DEF Injection
<1>6. IsFiniteSet(1 .. c) /\ Cardinality(1 .. c) = c
  BY <1>1, FS_Interval
<1>7. s \in Surjection(1 .. c, as)
  BY <1>5, <1>6, FS_Injection DEF c
<1> QED
  BY <1>1, <1>3, <1>4, <1>7 DEF Surjection, c, s

Fresh(t, as) == {<<SetToSeq(as)[i], Len(t) + i>> : i \in DOMAIN SetToSeq(as)}

LEMMA FreshNodes ==
  ASSUME NEW t \in Seq(NodeType), NEW as, IsFiniteSet(as)
  PROVE  /\ \A k \in Fresh(t, as) : k = <<k[1], k[2]>> /\ k[1] \in as /\ k[2] \in Nat
         /\ \A k \in Fresh(t, as) : Len(t) < k[2] /\ k[2] <= Len(t) + Cardinality(as)
         /\ \A k, l \in Fresh(t, as) : k[1] = l[1] \/ k[2] = l[2] => k = l
         /\ \A a \in as : \E k \in Fresh(t, as) : k[1] = a
<1> DEFINE c == Cardinality(as)
           s == SetToSeq(as)
<1>0. c \in Nat /\ s \in [1 .. c -> as]
  BY SeqOfSet
<1>2. \A i, j \in 1 .. c : s[i] = s[j] => i = j
  BY SeqOfSet
<1>3. \A a \in as : \E i \in 1 .. c : s[i] = a
  BY SeqOfSet
<1> HIDE DEF c, s
<1>1. c \in Nat /\ DOMAIN s = 1 .. c /\ (\A i \in 1 .. c : s[i] \in as) /\ Len(t) \in Nat
  <2>1. Len(t) \in Nat
    OBVIOUS
  <2> QED
    BY <1>0, <2>1
<1>4. Fresh(t, as) = {<<s[i], Len(t) + i>> : i \in 1 .. c}
  BY <1>1 DEF Fresh, s
<1>5. \A k, l \in Fresh(t, as) : k[1] = l[1] \/ k[2] = l[2] => k = l
  <2> SUFFICES ASSUME NEW i \in 1 .. c, NEW j \in 1 .. c,
                      s[i] = s[j] \/ Len(t) + i = Len(t) + j
               PROVE  i = j
    BY <1>4
  <2> QED
    BY <1>1, <1>2
<1>6. \A a \in as : \E k \in Fresh(t, as) : k[1] = a
  <2> SUFFICES ASSUME NEW a \in as PROVE \E k \in Fresh(t, as) : k[1] = a
    OBVIOUS
  <2>1. PICK i \in 1 .. c : s[i] = a
    BY <1>3
  <2>2. <<s[i], Len(t) + i>> \in Fresh(t, as)
    BY <1>4
  <2> QED
    BY <2>1, <2>2
<1>7. \A k \in Fresh(t, as) : /\ k = <<k[1], k[2]>> /\ k[1] \in as /\ k[2] \in Nat
                              /\ Len(t) < k[2] /\ k[2] <= Len(t) + c
  <2> SUFFICES ASSUME NEW k \in Fresh(t, as)
               PROVE  /\ k = <<k[1], k[2]>> /\ k[1] \in as /\ k[2] \in Nat
                      /\ Len(t) < k[2] /\ k[2] <= Len(t) + c
    OBVIOUS
  <2>1. PICK i \in 1 .. c : k = <<s[i], Len(t) + i>>
    BY <1>4
  <2>2. k[1] = s[i] /\ k[2] = Len(t) + i
    BY <2>1
  <2>3. k = <<k[1], k[2]>>
    BY <2>1
  <2>4. k[1] \in as
    BY <1>1, <2>2
  <2>5. i \in Nat /\ 1 <= i /\ i <= c
    BY <1>1
  <2>6. k[2] \in Nat /\ Len(t) < k[2] /\ k[2] <= Len(t) + c
    BY <1>1, <2>2, <2>5
  <2> QED
    BY <2>3, <2>4, <2>6
<1> QED
  BY <1>5, <1>6, <1>7 DEF c

LEMMA SeqUpdate ==
  ASSUME NEW S, NEW t \in Seq(S), NEW m \in DOMAIN t, NEW x \in S
  PROVE  /\ [t EXCEPT ![m] = x] \in Seq(S) /\ Len([t EXCEPT ![m] = x]) = Len(t)
         /\ [t EXCEPT ![m] = x][m] = x
         /\ \A o \in DOMAIN t : o # m => [t EXCEPT ![m] = x][o] = t[o]
  OBVIOUS

Opened(x, new) == [x EXCEPT !.open = TRUE, !.kids = @ \cup new]

\* Nodes only come at the end of the tree, and only one node's children change.
LEMMA Growth ==
  ASSUME NEW t \in Seq(NodeType), NEW m \in DOMAIN t, NEW as \in SUBSET Entries,
         IsFiniteSet(as)
  PROVE  /\ Grown(t, m, as) \in Seq(NodeType)
         /\ Len(Grown(t, m, as)) = Len(t) + Cardinality(as)
         /\ \A o \in DOMAIN t : o # m => Grown(t, m, as)[o] = t[o]
         /\ Grown(t, m, as)[m] = Opened(t[m], Fresh(t, as))
         /\ \A o \in Len(t) + 1 .. Len(t) + Cardinality(as) : Grown(t, m, as)[o] = Node
<1> DEFINE c == Cardinality(as)
           s == SetToSeq(as)
           x == Opened(t[m], Fresh(t, as))
           u == [t EXCEPT ![m] = x]
           v == [i \in DOMAIN s |-> Node]
<1>0. c \in Nat /\ s \in [1 .. c -> as]
  BY SeqOfSet
<1> HIDE DEF c, s
<1>1. c \in Nat /\ DOMAIN s = 1 .. c /\ Len(t) \in Nat /\ DOMAIN t = 1 .. Len(t)
  <2>1. Len(t) \in Nat /\ DOMAIN t = 1 .. Len(t)
    OBVIOUS
  <2> QED
    BY <1>0, <2>1
<1>2. \A k \in Fresh(t, as) : k = <<k[1], k[2]>> /\ k[1] \in as /\ k[2] \in Nat
  BY FreshNodes
<1>21. Fresh(t, as) \in SUBSET (Entries \X Nat)
  <2> SUFFICES ASSUME NEW k \in Fresh(t, as) PROVE k \in Entries \X Nat
    OBVIOUS
  <2>1. k[1] \in Entries /\ k[2] \in Nat /\ k = <<k[1], k[2]>>
    BY <1>2
  <2> QED
    BY <2>1
<1>3. t[m] \in NodeType
  OBVIOUS
<1>4. x \in NodeType
  BY <1>21, <1>3 DEF NodeType, Opened
<1> HIDE DEF x
<1>5. u \in Seq(NodeType) /\ Len(u) = Len(t)
  BY <1>4, SeqUpdate
<1>6. Node \in NodeType
  BY DEF Node, NodeType
<1>7. v \in Seq(NodeType) /\ Len(v) = c
  <2>1. v \in [1 .. c -> NodeType]
    BY <1>1, <1>6
  <2> HIDE DEF v
  <2>2. v \in Seq(NodeType) /\ DOMAIN v = 1 .. c
    BY <1>1, <2>1, SeqDef
  <2>3. Len(v) \in Nat /\ DOMAIN v = 1 .. Len(v)
    BY <2>2
  <2> QED
    BY <1>1, <2>2, <2>3
<1>8. Grown(t, m, as) = u \o v
  BY DEF Grown, Fresh, Opened, s, x
<1> HIDE DEF u, v
<1>9. u \o v \in Seq(NodeType) /\ Len(u \o v) = Len(t) + c
  BY <1>5, <1>7
<1>10. \A o \in DOMAIN t : (u \o v)[o] = u[o]
  BY <1>1, <1>5, <1>7, SMTT(30)
<1>11. \A o \in Len(t) + 1 .. Len(t) + c : (u \o v)[o] = v[o - Len(t)]
  BY <1>1, <1>5, <1>7, SMTT(30)
<1>12. u[m] = x /\ \A o \in DOMAIN t : o # m => u[o] = t[o]
  BY DEF u
<1>13. \A o \in Len(t) + 1 .. Len(t) + c : v[o - Len(t)] = Node
  BY <1>1 DEF v
<1> QED
  BY <1>8, <1>9, <1>10, <1>11, <1>12, <1>13 DEF c, x

(***************************************************************************)
(* What a step does to the tree: node m gets new children and its counters *)
(* change by dn, dv and de; all other nodes keep theirs.                   *)
(***************************************************************************)
NewKids(t, u, m, new) ==
  /\ \A k \in new : k = <<k[1], k[2]>> /\ k[2] \in Nat
  /\ \A k \in new : Len(t) < k[2] /\ k[2] <= Len(u)
  /\ \A k \in new : \A l \in t[m].kids : k[1] # l[1]
  /\ \A k, l \in new : k[1] = l[1] \/ k[2] = l[2] => k = l
Counts(x, y, dn, dv, de) == y.n = x.n + dn /\ y.vl = x.vl + dv /\ y.ends = x.ends + de
Moved(t, u, m, new, dn, dv, de) ==
  /\ u \in Seq(NodeType) /\ Len(t) <= Len(u) /\ NewKids(t, u, m, new)
  /\ u[m].kids = t[m].kids \cup new /\ (t[m].open \/ new # {} => u[m].open)
  /\ Counts(t[m], u[m], dn, dv, de)
  /\ \A o \in DOMAIN t : o # m => u[o] = t[o]
  /\ \A o \in Len(t) + 1 .. Len(u) : u[o] = Node

LEMMA NodeFields ==
  ASSUME NEW x \in NodeType
  PROVE  /\ x.n \in Nat /\ x.vl \in Int /\ x.ends \in Nat /\ x.open \in BOOLEAN
         /\ x.kids \in SUBSET (Entries \X Nat)
  BY DEF NodeType

\* The ways a node's counters change.
LEMMA NodeSteps ==
  ASSUME NEW x \in NodeType
  PROVE  /\ LET y == [x EXCEPT !.vl = @ + 1]
            IN  y \in NodeType /\ Counts(x, y, 0, 1, 0) /\ y.kids = x.kids /\ y.open = x.open
         /\ LET y == [x EXCEPT !.n = @ + 1, !.vl = @ - 1]
            IN  y \in NodeType /\ Counts(x, y, 1, -1, 0) /\ y.kids = x.kids /\ y.open = x.open
         /\ LET y == [x EXCEPT !.ends = @ + 1]
            IN  y \in NodeType /\ Counts(x, y, 0, 0, 1) /\ y.kids = x.kids /\ y.open = x.open
<1>1. /\ x.n \in Nat /\ x.vl \in Int /\ x.ends \in Nat /\ x.open \in BOOLEAN
      /\ x.kids \in SUBSET (Entries \X Nat)
  BY NodeFields
<1>2. x = [open |-> x.open, kids |-> x.kids, n |-> x.n, vl |-> x.vl, ends |-> x.ends]
  BY DEF NodeType
<1>3. LET y == [x EXCEPT !.vl = @ + 1]
      IN  y \in NodeType /\ Counts(x, y, 0, 1, 0) /\ y.kids = x.kids /\ y.open = x.open
  <2> DEFINE y == [open |-> x.open, kids |-> x.kids, n |-> x.n, vl |-> x.vl + 1, ends |-> x.ends]
  <2>1. [x EXCEPT !.vl = @ + 1] = y
    BY <1>2
  <2>2. y \in NodeType
    BY <1>1 DEF NodeType
  <2> QED
    BY <1>1, <2>1, <2>2 DEF Counts
<1>4. LET y == [x EXCEPT !.n = @ + 1, !.vl = @ - 1]
      IN  y \in NodeType /\ Counts(x, y, 1, -1, 0) /\ y.kids = x.kids /\ y.open = x.open
  <2> DEFINE y == [open |-> x.open, kids |-> x.kids, n |-> x.n + 1, vl |-> x.vl - 1,
                   ends |-> x.ends]
  <2> DEFINE z == [x EXCEPT !.n = @ + 1]
  <2>0. z = [open |-> x.open, kids |-> x.kids, n |-> x.n + 1, vl |-> x.vl, ends |-> x.ends]
    BY <1>2
  <2> HIDE DEF z
  <2>3. [z EXCEPT !.vl = x.vl - 1] = y
    BY <2>0
  <2>1. [x EXCEPT !.n = @ + 1, !.vl = @ - 1] = y
    BY <2>3 DEF z
  <2>2. y \in NodeType
    BY <1>1 DEF NodeType
  <2> QED
    BY <1>1, <2>1, <2>2 DEF Counts
<1>5. LET y == [x EXCEPT !.ends = @ + 1]
      IN  y \in NodeType /\ Counts(x, y, 0, 0, 1) /\ y.kids = x.kids /\ y.open = x.open
  <2> DEFINE y == [open |-> x.open, kids |-> x.kids, n |-> x.n, vl |-> x.vl, ends |-> x.ends + 1]
  <2>1. [x EXCEPT !.ends = @ + 1] = y
    BY <1>2
  <2>2. y \in NodeType
    BY <1>1 DEF NodeType
  <2> QED
    BY <1>1, <2>1, <2>2 DEF Counts
<1> QED
  BY <1>3, <1>4, <1>5

\* A node changes its counters only.
LEMMA CounterMoves ==
  ASSUME NEW t \in Seq(NodeType), NEW m \in DOMAIN t, NEW x \in NodeType,
         NEW dn, NEW dv, NEW de, Counts(t[m], x, dn, dv, de),
         x.kids = t[m].kids, x.open = t[m].open
  PROVE  Moved(t, [t EXCEPT ![m] = x], m, {}, dn, dv, de)
<1> DEFINE u == [t EXCEPT ![m] = x]
<1>1. /\ u \in Seq(NodeType) /\ Len(u) = Len(t) /\ u[m] = x
      /\ \A o \in DOMAIN t : o # m => u[o] = t[o]
  BY SeqUpdate
<1> HIDE DEF u
<1>2. Len(t) \in Nat /\ Len(t) + 1 .. Len(t) = {}
  OBVIOUS
<1>3. NewKids(t, u, m, {})
  BY DEF NewKids
<1>4. Moved(t, u, m, {}, dn, dv, de)
  BY <1>1, <1>2, <1>3 DEF Moved
<1> QED
  BY <1>4 DEF u

\* A node is given children for entries it has none for.
LEMMA GrowthMoves ==
  ASSUME NEW t \in Seq(NodeType), NEW m \in DOMAIN t, NEW as \in SUBSET Entries,
         IsFiniteSet(as), \A l \in t[m].kids : l[1] \notin as
  PROVE  /\ Moved(t, Grown(t, m, as), m, Fresh(t, as), 0, 0, 0)
         /\ \A a \in as : \E k \in Fresh(t, as) : k[1] = a
         /\ Grown(t, m, as)[m].open
<1> DEFINE g == Grown(t, m, as)
           c == Cardinality(as)
           new == Fresh(t, as)
<1>1. IsFiniteSet(as)
  OBVIOUS
<1>2. c \in Nat
  BY <1>1, FS_CardinalityType
<1>3. /\ g \in Seq(NodeType) /\ Len(g) = Len(t) + c
      /\ \A o \in DOMAIN t : o # m => g[o] = t[o]
      /\ g[m] = Opened(t[m], new)
      /\ \A o \in Len(t) + 1 .. Len(t) + c : g[o] = Node
  BY <1>1, Growth
<1>4. /\ \A k \in new : k = <<k[1], k[2]>> /\ k[1] \in as /\ k[2] \in Nat
      /\ \A k \in new : Len(t) < k[2] /\ k[2] <= Len(t) + c
      /\ \A k, l \in new : k[1] = l[1] \/ k[2] = l[2] => k = l
      /\ \A a \in as : \E k \in new : k[1] = a
  BY <1>1, FreshNodes
<1> HIDE DEF g, c, new
<1>5. t[m] \in NodeType
  OBVIOUS
<1>6. /\ g[m].n = t[m].n /\ g[m].vl = t[m].vl /\ g[m].ends = t[m].ends
      /\ g[m].open = TRUE /\ g[m].kids = t[m].kids \cup new
  BY <1>3, <1>5 DEF NodeType, Opened
<1>7. t[m].n \in Nat /\ t[m].vl \in Int /\ t[m].ends \in Nat
  BY <1>5, NodeFields
<1>8. Counts(t[m], g[m], 0, 0, 0)
  BY <1>6, <1>7 DEF Counts
<1>9. NewKids(t, g, m, new)
  BY <1>3, <1>4 DEF NewKids
<1>10. Len(t) \in Nat
  OBVIOUS
<1>11. Len(t) <= Len(g) /\ \A o \in Len(t) + 1 .. Len(g) : g[o] = Node
  BY <1>2, <1>3, <1>10
<1>12. Moved(t, g, m, new, 0, 0, 0)
  BY <1>3, <1>6, <1>8, <1>9, <1>11 DEF Moved
<1> QED
  BY <1>4, <1>6, <1>12 DEF g, new

\* A node's children are added, and then a rollout is counted to have ended there.
LEMMA ThenEnds ==
  ASSUME NEW t \in Seq(NodeType), NEW m \in DOMAIN t, NEW u, NEW new,
         Moved(t, u, m, new, 0, 0, 0)
  PROVE  Moved(t, [u EXCEPT ![m].ends = @ + 1], m, new, 0, 0, 1)
<1> DEFINE x == [u[m] EXCEPT !.ends = @ + 1]
           v == [u EXCEPT ![m] = x]
<1>1. u \in Seq(NodeType) /\ Len(t) <= Len(u) /\ Len(t) \in Nat /\ DOMAIN t = 1 .. Len(t)
  BY DEF Moved
<1>2. m \in DOMAIN u /\ u[m] \in NodeType /\ t[m] \in NodeType /\ DOMAIN t \subseteq DOMAIN u
      /\ Len(t) + 1 .. Len(u) \subseteq DOMAIN u /\ m \notin Len(t) + 1 .. Len(u)
  BY <1>1
<1>3. x \in NodeType /\ Counts(u[m], x, 0, 0, 1) /\ x.kids = u[m].kids /\ x.open = u[m].open
  BY <1>2, NodeSteps
<1>4. /\ t[m].n \in Nat /\ t[m].vl \in Int /\ t[m].ends \in Nat
      /\ u[m].n \in Nat /\ u[m].vl \in Int /\ u[m].ends \in Nat
  BY <1>2, NodeFields
<1> HIDE DEF x
<1>5. /\ v \in Seq(NodeType) /\ Len(v) = Len(u) /\ v[m] = x
      /\ \A o \in DOMAIN u : o # m => v[o] = u[o]
  BY <1>1, <1>2, <1>3, SeqUpdate
<1> HIDE DEF v
<1>6. NewKids(t, v, m, new)
  BY <1>5 DEF Moved, NewKids
<1>7. Counts(t[m], v[m], 0, 0, 1)
  BY <1>3, <1>4, <1>5 DEF Moved, Counts
<1>8. \A o \in DOMAIN t : o # m => v[o] = t[o]
  BY <1>2, <1>5 DEF Moved
<1>9. \A o \in Len(t) + 1 .. Len(v) : v[o] = Node
  BY <1>2, <1>5 DEF Moved
<1>10. Moved(t, v, m, new, 0, 0, 1)
  BY <1>1, <1>3, <1>5, <1>6, <1>7, <1>8, <1>9 DEF Moved
<1> QED
  BY <1>10 DEF v, x

(***************************************************************************)
(* The nodes a step changes.                                               *)
(***************************************************************************)
LEMMA AtNode ==
  ASSUME TreeType, StateType, PathInv, NEW w \in Workers, wpc[w] \notin Idle
  PROVE  /\ path[w] \in Seq(Nat) /\ path[w] # <<>> /\ Len(path[w]) \in Nat \ {0}
         /\ DOMAIN path[w] = 1 .. Len(path[w])
         /\ At(w) = path[w][Len(path[w])] /\ At(w) \in DOMAIN tree /\ At(w) \in Nat
         /\ Head(path[w]) = path[w][1] /\ Head(path[w]) \in DOMAIN tree
         /\ \A i \in DOMAIN path[w] : path[w][i] \in Nat /\ path[w][i] <= At(w)
<1>1. path[w] \in Seq(Nat) /\ path[w] # <<>>
  BY DEF StateType, PathInv
<1>2. Len(path[w]) \in Nat \ {0} /\ DOMAIN path[w] = 1 .. Len(path[w])
  BY <1>1
<1>3. /\ \A i \in DOMAIN path[w] : path[w][i] \in DOMAIN tree
      /\ \A i, j \in DOMAIN path[w] : i < j => path[w][i] < path[w][j]
  BY DEF PathInv
<1>4. At(w) = path[w][Len(path[w])]
  BY DEF At
<1>5. Head(path[w]) = path[w][1]
  BY <1>1
<1>6. DOMAIN tree = 1 .. Len(tree) /\ Len(tree) \in Nat
  BY DEF TreeType
<1> HIDE DEF At
<1>7. \A i \in DOMAIN path[w] : path[w][i] \in Nat /\ path[w][i] <= At(w)
  <2> SUFFICES ASSUME NEW i \in DOMAIN path[w] PROVE path[w][i] \in Nat /\ path[w][i] <= At(w)
    OBVIOUS
  <2>1. path[w][i] \in Nat /\ Len(path[w]) \in DOMAIN path[w]
    BY <1>2, <1>3, <1>6
  <2>2. CASE i = Len(path[w])
    BY <2>1, <2>2, <1>4
  <2>3. CASE i # Len(path[w])
    <3>1. i < Len(path[w])
      BY <2>3, <1>2
    <3> QED
      BY <3>1, <2>1, <1>2, <1>3, <1>4, <1>6
  <2> QED
    BY <2>2, <2>3
<1>8. At(w) \in DOMAIN tree /\ At(w) \in Nat
  BY <1>2, <1>3, <1>4, <1>6
<1>9. Head(path[w]) \in DOMAIN tree
  BY <1>2, <1>3, <1>5
<1> QED
  BY <1>1, <1>2, <1>4, <1>5, <1>7, <1>8, <1>9

LEMMA TreeDomain ==
  ASSUME TreeType
  PROVE  /\ tree \in Seq(NodeType) /\ DOMAIN tree = 1 .. Len(tree) /\ Len(tree) \in Nat \ {0}
         /\ Root \in DOMAIN tree /\ \A m \in DOMAIN tree : tree[m] \in NodeType /\ m \in Nat
  BY DEF TreeType, Root

LEMMA PullMoves ==
  ASSUME TreeType, NEW w \in Workers, Pull(w), ~failed
  PROVE  Moved(tree, tree', Root, {}, 0, 1, 0)
<1> DEFINE x == [tree[Root] EXCEPT !.vl = @ + 1]
<1>1. tree' = [tree EXCEPT ![Root] = x]
  BY DEF Pull
<1>2. x \in NodeType /\ Counts(tree[Root], x, 0, 1, 0) /\ x.kids = tree[Root].kids
      /\ x.open = tree[Root].open
  BY TreeDomain, NodeSteps
<1> HIDE DEF x
<1>3. Moved(tree, [tree EXCEPT ![Root] = x], Root, {}, 0, 1, 0)
  BY <1>2, TreeDomain, CounterMoves
<1> QED
  BY <1>1, <1>3

LEMMA BackupMoves ==
  ASSUME TreeType, StateType, PathInv, NEW w \in Workers, Backup(w)
  PROVE  Moved(tree, tree', Head(path[w]), {}, 1, -1, 0)
<1> DEFINE m == Head(path[w])
           x == [tree[m] EXCEPT !.n = @ + 1, !.vl = @ - 1]
<1>0. m \in DOMAIN tree
  <2>1. wpc[w] \notin Idle
    BY DEF Backup, Idle
  <2> QED
    BY <2>1, AtNode
<1>1. tree' = [tree EXCEPT ![m] = x]
  BY <1>0, TreeDomain DEF Backup
<1> HIDE DEF m
<1>2. x \in NodeType /\ Counts(tree[m], x, 1, -1, 0) /\ x.kids = tree[m].kids
      /\ x.open = tree[m].open
  BY <1>0, TreeDomain, NodeSteps
<1> HIDE DEF x
<1>3. Moved(tree, [tree EXCEPT ![m] = x], m, {}, 1, -1, 0)
  BY <1>0, <1>2, TreeDomain, CounterMoves
<1> QED
  BY <1>1, <1>3 DEF m

LEMMA DescendMoves ==
  ASSUME TreeType, StateType, PathInv, Shape, NEW w \in Workers, Descend(w)
  PROVE  \E k \in tree[At(w)].kids :
           /\ \A l \in tree[At(w)].kids : l[1][1] = k[1][1] => k[2] <= l[2]
           /\ k[2] \in DOMAIN tree /\ At(w) < k[2]
           /\ path' = [path EXCEPT ![w] = Append(@, k[2])]
           /\ Moved(tree, tree', k[2], {}, 0, 1, 0)
<1>1. PICK k \in tree[At(w)].kids :
        /\ \A l \in tree[At(w)].kids : l[1][1] = k[1][1] => k[2] <= l[2]
        /\ path' = [path EXCEPT ![w] = Append(@, k[2])]
        /\ tree' = [tree EXCEPT ![k[2]].vl = @ + 1]
  BY DEF Descend
<1>2. At(w) \in DOMAIN tree
  <2>1. wpc[w] \notin Idle
    BY DEF Descend, Idle
  <2> QED
    BY <2>1, AtNode
<1>3. tree[At(w)].kids \in SUBSET (Entries \X Nat)
  BY <1>2, TreeDomain, NodeFields
<1>4. k[2] \in Nat
  BY <1>3
<1>5. At(w) < k[2] /\ k[2] <= Len(tree)
  BY <1>2 DEF Shape, KidsLater
<1>6. k[2] \in DOMAIN tree
  BY <1>2, <1>4, <1>5, TreeDomain
<1> DEFINE m == k[2]
           x == [tree[m] EXCEPT !.vl = @ + 1]
<1>7. tree' = [tree EXCEPT ![m] = x]
  BY <1>1
<1> HIDE DEF m
<1>8. m \in DOMAIN tree
  BY <1>6 DEF m
<1>9. x \in NodeType /\ Counts(tree[m], x, 0, 1, 0) /\ x.kids = tree[m].kids
      /\ x.open = tree[m].open
  BY <1>8, TreeDomain, NodeSteps
<1> HIDE DEF x
<1>10. Moved(tree, [tree EXCEPT ![m] = x], m, {}, 0, 1, 0)
  BY <1>8, <1>9, TreeDomain, CounterMoves
<1>11. Moved(tree, tree', k[2], {}, 0, 1, 0)
  BY <1>7, <1>10 DEF m
<1> QED
  BY <1>1, <1>5, <1>6, <1>11

\* The lists of legal actions are finite.
LEMMA LegalLists ==
  ASSUME StateType, NEW w \in Workers
  PROVE  legal[w] \in SUBSET Entries /\ IsFiniteSet(legal[w])
<1>1. legal[w] \in Lists \cup {{}}
  BY DEF StateType
<1>2. CASE legal[w] \in Lists
  BY <1>2, TreeSearchAssumption DEF Entries
<1>3. CASE legal[w] = {}
  BY <1>3, FS_EmptySet
<1> QED
  BY <1>1, <1>2, <1>3

LEMMA AddMoves ==
  ASSUME TreeType, StateType, PathInv, NEW w \in Workers, Add(w)
  PROVE  /\ Moved(tree, tree', At(w), Fresh(tree, Missing(w)), 0, 0, 0)
         /\ \A e \in Missing(w) : \E k \in Fresh(tree, Missing(w)) : k[1] = e
<1>1. At(w) \in DOMAIN tree
  <2>1. wpc[w] \notin Idle
    BY DEF Add, Idle
  <2> QED
    BY <2>1, AtNode
<1>2. Missing(w) \in SUBSET Entries /\ IsFiniteSet(Missing(w))
  <2>1. Missing(w) \subseteq legal[w]
    BY DEF Missing
  <2> QED
    BY <2>1, LegalLists, FS_Subset
<1>3. \A l \in tree[At(w)].kids : l[1] \notin Missing(w)
  BY DEF Known, Missing
<1>4. tree' = Grown(tree, At(w), Missing(w))
  BY DEF Add
<1> QED
  BY <1>1, <1>2, <1>3, <1>4, TreeDomain, GrowthMoves

LEMMA CommitMoves ==
  ASSUME TreeType, Shape, StateType, PathInv, NEW w \in Workers, Commit(w)
  PROVE  \E new : Moved(tree, tree', At(w), new, 0, 0, 1)
<1> DEFINE m == At(w)
           x == [tree[m] EXCEPT !.ends = @ + 1]
<1>1. m \in DOMAIN tree
  <2>1. wpc[w] \notin Idle
    BY DEF Commit, Idle
  <2> QED
    BY <2>1, AtNode
<1>2. CASE wpc[w] = "over" \/ tree[m].open
  <2>1. tree' = [tree EXCEPT ![m] = x]
    BY <1>2 DEF Commit, Expanded
  <2> HIDE DEF m
  <2>2. x \in NodeType /\ Counts(tree[m], x, 0, 0, 1) /\ x.kids = tree[m].kids
        /\ x.open = tree[m].open
    BY <1>1, TreeDomain, NodeSteps
  <2> HIDE DEF x
  <2>3. Moved(tree, [tree EXCEPT ![m] = x], m, {}, 0, 0, 1)
    BY <1>1, <2>2, TreeDomain, CounterMoves
  <2> QED
    BY <2>1, <2>3 DEF m
<1>3. CASE wpc[w] # "over" /\ ~tree[m].open
  <2> DEFINE u == Grown(tree, m, legal[w])
  <2>1. tree' = [u EXCEPT ![m].ends = @ + 1]
    BY <1>3 DEF Commit, Expanded
  <2>2. \A l \in tree[m].kids : l[1] \notin legal[w]
    BY <1>1, <1>3 DEF Shape
  <2>3. legal[w] \in SUBSET Entries /\ IsFiniteSet(legal[w])
    BY LegalLists
  <2>4. Moved(tree, u, m, Fresh(tree, legal[w]), 0, 0, 0)
    BY <1>1, <2>2, <2>3, TreeDomain, GrowthMoves
  <2> HIDE DEF u, m
  <2>5. Moved(tree, [u EXCEPT ![m].ends = @ + 1], m, Fresh(tree, legal[w]), 0, 0, 1)
    BY <1>1, <2>4, TreeDomain, ThenEnds
  <2> QED
    BY <2>1, <2>5 DEF m
<1> QED
  BY <1>2, <1>3

(***************************************************************************)
(* The nodes stay a tree.                                                  *)
(***************************************************************************)
\* What remains of a node when the tree changes.
LEMMA MovedKeeps ==
  ASSUME TreeType, NEW m \in DOMAIN tree, NEW new, NEW dn, NEW dv, NEW de,
         Moved(tree, tree', m, new, dn, dv, de)
  PROVE  /\ TreeType' /\ DOMAIN tree \subseteq DOMAIN tree' /\ DOMAIN tree' = 1 .. Len(tree')
         /\ Len(tree) <= Len(tree') /\ Len(tree') \in Nat
         /\ \A o \in DOMAIN tree :
              /\ tree[o].kids \subseteq tree'[o].kids /\ (tree[o].open => tree'[o].open)
              /\ tree'[o].kids = tree[o].kids \cup (IF o = m THEN new ELSE {})
         /\ \A o \in DOMAIN tree' \ DOMAIN tree : tree'[o] = Node
<1>1. tree' \in Seq(NodeType) /\ Len(tree) <= Len(tree')
  BY DEF Moved
<1>2. DOMAIN tree = 1 .. Len(tree) /\ Len(tree) \in Nat \ {0}
  BY TreeDomain
<1>3. DOMAIN tree' = 1 .. Len(tree') /\ Len(tree') \in Nat
  BY <1>1
<1>4. TreeType' /\ DOMAIN tree \subseteq DOMAIN tree'
  BY <1>1, <1>2, <1>3 DEF TreeType
<1>5. \A o \in DOMAIN tree :
        /\ tree[o].kids \subseteq tree'[o].kids /\ (tree[o].open => tree'[o].open)
        /\ tree'[o].kids = tree[o].kids \cup (IF o = m THEN new ELSE {})
  BY DEF Moved
<1>6. \A o \in DOMAIN tree' \ DOMAIN tree : tree'[o] = Node
  <2>1. \A o \in DOMAIN tree' \ DOMAIN tree : o \in Len(tree) + 1 .. Len(tree')
    BY <1>2, <1>3
  <2> QED
    BY <2>1 DEF Moved
<1> QED
  BY <1>1, <1>3, <1>4, <1>5, <1>6

LEMMA MovedShape ==
  ASSUME TreeType, Shape, NEW m \in DOMAIN tree, NEW new, NEW dn, NEW dv, NEW de,
         Moved(tree, tree', m, new, dn, dv, de)
  PROVE  Shape'
<1>1. /\ DOMAIN tree \subseteq DOMAIN tree' /\ DOMAIN tree' = 1 .. Len(tree')
      /\ Len(tree) <= Len(tree') /\ Len(tree') \in Nat
  BY MovedKeeps
<1>2. \A o \in DOMAIN tree :
        /\ tree[o].open => tree'[o].open
        /\ tree'[o].kids = tree[o].kids \cup (IF o = m THEN new ELSE {})
  BY MovedKeeps
<1>3. \A o \in DOMAIN tree' \ DOMAIN tree : tree'[o].kids = {}
  BY MovedKeeps DEF Node
<1>4. /\ \A k \in new : Len(tree) < k[2] /\ k[2] <= Len(tree') /\ k[2] \in Nat
      /\ \A k \in new : \A l \in tree[m].kids : k[1] # l[1]
      /\ \A k, l \in new : k[1] = l[1] \/ k[2] = l[2] => k = l
      /\ new # {} => tree'[m].open
  BY DEF Moved, NewKids
<1>5. /\ DOMAIN tree = 1 .. Len(tree) /\ Len(tree) \in Nat /\ Root \in DOMAIN tree
      /\ \A o \in DOMAIN tree : tree[o].kids \in SUBSET (Entries \X Nat)
  BY TreeDomain, NodeFields
<1>6. \A o \in DOMAIN tree : \A k \in tree[o].kids : o < k[2] /\ k[2] <= Len(tree) /\ k[2] \in Nat
  BY <1>5 DEF Shape, KidsLater
<1>7. KidsLater'
  <2> SUFFICES ASSUME NEW o \in DOMAIN tree', NEW k \in tree'[o].kids
               PROVE  o < k[2] /\ k[2] <= Len(tree')
    BY DEF KidsLater
  <2>1. o \in DOMAIN tree
    BY <1>3
  <2>2. CASE k \in tree[o].kids
    BY <2>1, <2>2, <1>1, <1>5, <1>6
  <2>3. CASE k \notin tree[o].kids
    <3>1. o = m /\ k \in new
      BY <2>1, <2>3, <1>2
    <3> QED
      BY <3>1, <2>1, <1>4, <1>5
  <2> QED
    BY <2>2, <2>3
<1>8. OneEach'
  <2> SUFFICES ASSUME NEW o \in DOMAIN tree', NEW q \in DOMAIN tree',
                      NEW k \in tree'[o].kids, NEW l \in tree'[q].kids,
                      (o = q /\ k[1] = l[1]) \/ k[2] = l[2]
               PROVE  o = q /\ k = l
    BY DEF OneEach
  <2>1. o \in DOMAIN tree /\ q \in DOMAIN tree
    BY <1>3
  <2>2. k \in tree[o].kids \/ (o = m /\ k \in new)
    BY <2>1, <1>2
  <2>3. l \in tree[q].kids \/ (q = m /\ l \in new)
    BY <2>1, <1>2
  <2>4. CASE k \in tree[o].kids /\ l \in tree[q].kids
    BY <2>1, <2>4 DEF Shape, OneEach
  <2>5. CASE o = m /\ k \in new /\ l \in tree[q].kids
    <3>1. l[2] <= Len(tree) /\ l[2] \in Nat /\ Len(tree) < k[2] /\ k[2] \in Nat
      BY <2>1, <2>5, <1>4, <1>6
    <3>2. k[2] # l[2]
      BY <3>1, <1>5
    <3> QED
      BY <3>2, <2>5, <1>4
  <2>6. CASE q = m /\ l \in new /\ k \in tree[o].kids
    <3>1. k[2] <= Len(tree) /\ k[2] \in Nat /\ Len(tree) < l[2] /\ l[2] \in Nat
      BY <2>1, <2>6, <1>4, <1>6
    <3>2. k[2] # l[2]
      BY <3>1, <1>5
    <3> QED
      BY <3>2, <2>6, <1>4
  <2>7. CASE o = m /\ k \in new /\ q = m /\ l \in new
    BY <2>7, <1>4
  <2> QED
    BY <2>2, <2>3, <2>4, <2>5, <2>6, <2>7
<1>9. tree'[Root].open /\ \A o \in DOMAIN tree' : tree'[o].kids # {} => tree'[o].open
  BY <1>2, <1>3, <1>4, <1>5 DEF Shape
<1> QED
  BY <1>7, <1>8, <1>9 DEF Shape

\* A step leaves the tree alone or moves one of its nodes.
LEMMA TreeStep ==
  ASSUME TreeType, Shape, StateType, PathInv, [Next]_vars
  PROVE  \/ tree' = tree
         \/ \E m \in DOMAIN tree : \E new : \E dn, dv, de : Moved(tree, tree', m, new, dn, dv, de)
<1> DEFINE Goal == \/ tree' = tree
                   \/ \E m \in DOMAIN tree : \E new : \E dn, dv, de :
                        Moved(tree, tree', m, new, dn, dv, de)
<1>1. ASSUME NEW w \in Workers, Working(w) PROVE Goal
  <2>1. CASE Pull(w)
    <3>1. CASE failed
      BY <2>1, <3>1 DEF Pull
    <3>2. CASE ~failed
      BY <2>1, <3>2, PullMoves, TreeDomain
    <3> QED
      BY <3>1, <3>2
  <2>2. CASE Add(w)
    <3>1. wpc[w] \notin Idle
      BY <2>2 DEF Add, Idle
    <3>2. At(w) \in DOMAIN tree
      BY <3>1, AtNode
    <3> QED
      BY <2>2, <3>2, AddMoves
  <2>3. CASE Descend(w)
    BY <2>3, DescendMoves
  <2>4. CASE Commit(w)
    <3>1. wpc[w] \notin Idle
      BY <2>4 DEF Commit, Idle
    <3>2. At(w) \in DOMAIN tree
      BY <3>1, AtNode
    <3> QED
      BY <2>4, <3>2, CommitMoves
  <2>5. CASE Backup(w)
    <3>1. wpc[w] \notin Idle
      BY <2>5 DEF Backup, Idle
    <3>2. Head(path[w]) \in DOMAIN tree
      BY <3>1, AtNode
    <3> QED
      BY <2>5, <3>2, BackupMoves
  <2>6. CASE Exit(w) \/ Query(w) \/ Check(w) \/ Breaks(w) \/ SendJob(w) \/ Await(w)
    BY <2>6 DEF Exit, Query, Check, Breaks, SendJob, Await
  <2> QED
    BY <1>1, <2>1, <2>2, <2>3, <2>4, <2>5, <2>6 DEF Working
<1>2. CASE Feed \/ Return \/ Sending \/ Receiving
  BY <1>2 DEF Feed, Return, Sending, Receiving, SenderTake, Asks, SendFails, Publish, SenderEnds,
              ReceiverTake, Receives, ReceiveFails, ReceiverEnds
<1>3. CASE UNCHANGED vars
  BY <1>3 DEF vars
<1> QED
  BY <1>1, <1>2, <1>3 DEF Next

LEMMA ShapeStep ==
  ASSUME TreeType, Shape, StateType, PathInv, [Next]_vars
  PROVE  TreeType' /\ Shape'
<1>1. CASE tree' = tree
  BY <1>1 DEF TreeType, Shape, KidsLater, OneEach
<1>2. CASE tree' # tree
  <2>1. PICK m \in DOMAIN tree : \E new : \E dn, dv, de : Moved(tree, tree', m, new, dn, dv, de)
    BY <1>2, TreeStep
  <2>2. PICK new : \E dn, dv, de : Moved(tree, tree', m, new, dn, dv, de)
    BY <2>1
  <2>3. PICK dn, dv, de : Moved(tree, tree', m, new, dn, dv, de)
    BY <2>2
  <2> QED
    BY <2>3, MovedKeeps, MovedShape
<1> QED
  BY <1>1, <1>2

(***************************************************************************)
(* The workers.                                                            *)
(***************************************************************************)
\* A worker's step leaves the other workers alone, and every step of the others leaves
\* the workers where they are.
LEMMA Alone ==
  ASSUME StateType, NEW w \in Workers, Working(w)
  PROVE  /\ \A v \in Workers : v # w =>
              /\ wpc'[v] = wpc[v] /\ roll'[v] = roll[v] /\ path'[v] = path[v]
              /\ legal'[v] = legal[v] /\ resp'[v] = resp[v] /\ done'[v] = done[v]
         /\ UNCHANGED <<fed, mpc, spc, sjob, pending, rpc, rjob, asked>>
         /\ failed => failed'
<1> USE DEF rollout, work, dispatch, answers, Leaves
<1>1. CASE Pull(w)
  BY <1>1 DEF Pull, StateType
<1>2. CASE Exit(w)
  BY <1>2 DEF Exit, StateType
<1>3. CASE Query(w)
  BY <1>3 DEF Query, StateType
<1>4. CASE Check(w)
  BY <1>4 DEF Check, StateType
<1>5. CASE Add(w)
  BY <1>5 DEF Add, StateType
<1>6. CASE Descend(w)
  BY <1>6 DEF Descend, StateType
<1>7. CASE Breaks(w)
  BY <1>7 DEF Breaks, StateType
<1>8. CASE SendJob(w)
  BY <1>8 DEF SendJob, StateType
<1>9. CASE Await(w)
  BY <1>9 DEF Await, StateType
<1>10. CASE Commit(w)
  BY <1>10 DEF Commit, StateType
<1>11. CASE Backup(w)
  BY <1>11 DEF Backup, StateType
<1> QED
  BY <1>1, <1>2, <1>3, <1>4, <1>5, <1>6, <1>7, <1>8, <1>9, <1>10, <1>11 DEF Working

LEMMA Elsewhere ==
  ASSUME Feed \/ Return \/ Sending \/ Receiving \/ UNCHANGED vars
  PROVE  UNCHANGED <<tree, taken, wpc, roll, path, legal>> /\ (failed => failed')
  BY DEF Feed, Return, Sending, Receiving, SenderTake, Asks, SendFails, Publish, SenderEnds,
         ReceiverTake, Receives, ReceiveFails, ReceiverEnds, vars, rollout, work

LEMMA ParNat == Par \in Nat \ {0}
  BY TreeSearchAssumption, FS_CardinalityType, FS_EmptySet DEF Par

LEMMA StateWorking ==
  ASSUME TreeType, StateType, Shape, PathInv, NEW w \in Workers, Working(w)
  PROVE  StateType'
<1> USE DEF rollout, work, dispatch, answers, Leaves, Idle, Walking, Leaf
<1>0. Par \in Nat \ {0} /\ NRollouts \in Nat \ {0} /\ RootActions \in Lists
  BY ParNat, TreeSearchAssumption
<1>1. CASE Pull(w)
  <2>1. taken' = taken + 1 /\ taken' \in 0 .. fed /\ fed' = fed
    BY <1>1 DEF Pull, StateType
  <2>2. taken' \in 0 .. NRollouts /\ fed - taken' <= 2 * Par
    BY <1>0, <2>1 DEF StateType
  <2>3. <<Root>> \in Seq(Nat)
    BY DEF Root
  <2>4. UNCHANGED <<resp, done, failed, legal>>
    BY <1>1 DEF Pull
  <2>5. CASE failed
    <3>1. UNCHANGED <<wpc, roll, path>>
      BY <1>1, <2>5 DEF Pull
    <3> QED
      BY <2>1, <2>2, <2>4, <3>1 DEF StateType
  <2>6. CASE ~failed
    <3>1. /\ wpc' = [wpc EXCEPT ![w] = "query"] /\ roll' = [roll EXCEPT ![w] = taken']
          /\ path' = [path EXCEPT ![w] = <<Root>>]
      BY <1>1, <2>6 DEF Pull
    <3>2. wpc' \in [Workers -> Idle \cup Walking \cup Leaf \cup {"backup"}]
      BY <3>1 DEF StateType
    <3>3. roll' \in [Workers -> 0 .. NRollouts] /\ path' \in [Workers -> Seq(Nat)]
      BY <2>2, <2>3, <3>1 DEF StateType
    <3> QED
      BY <2>1, <2>2, <2>4, <3>2, <3>3 DEF StateType
  <2> QED
    BY <2>5, <2>6
<1>2. CASE Exit(w)
  BY <1>2 DEF Exit, StateType
<1>3. CASE Query(w)
  <2>1. PICK as \in Lists : legal' = [legal EXCEPT ![w] = as]
    BY <1>0, <1>3 DEF Query
  <2>2. wpc' \in [Workers -> Idle \cup Walking \cup Leaf \cup {"backup"}]
    BY <1>3 DEF Query, StateType
  <2> QED
    BY <1>3, <2>1, <2>2 DEF Query, StateType
<1>4. CASE Check(w)
  BY <1>4 DEF Check, StateType
<1>5. CASE Add(w)
  BY <1>5 DEF Add, StateType
<1>6. CASE Descend(w)
  <2>1. PICK k \in tree[At(w)].kids : path' = [path EXCEPT ![w] = Append(@, k[2])]
                                      /\ k[2] \in DOMAIN tree
    BY <1>6, DescendMoves
  <2>2. k[2] \in Nat
    BY <2>1, TreeDomain
  <2>3. path' \in [Workers -> Seq(Nat)]
    BY <2>1, <2>2 DEF StateType
  <2>4. wpc' \in [Workers -> Idle \cup Walking \cup Leaf \cup {"backup"}]
    BY <1>6 DEF Descend, StateType
  <2> QED
    BY <1>6, <2>3, <2>4 DEF Descend, StateType
<1>7. CASE Breaks(w)
  BY <1>0, <1>7 DEF Breaks, StateType
<1>8. CASE SendJob(w)
  BY <1>8 DEF SendJob, StateType
<1>9. CASE Await(w)
  <2>1. CASE failed
    <3>1. Leaves(w) /\ UNCHANGED <<fed, taken, failed>>
      BY <1>9, <2>1 DEF Await
    <3> QED
      BY <1>0, <3>1 DEF StateType
  <2>2. CASE ~failed
    BY <1>9, <2>2 DEF Await, StateType
  <2> QED
    BY <2>1, <2>2
<1>10. CASE Commit(w)
  <2>1. /\ wpc' = [wpc EXCEPT ![w] = "backup"] /\ legal' = [legal EXCEPT ![w] = {}]
        /\ UNCHANGED <<fed, taken, roll, path, resp, done, failed>>
    BY <1>10 DEF Commit
  <2> QED
    BY <2>1 DEF StateType
<1>11. CASE Backup(w)
  <2>1. path[w] # <<>> /\ path[w] \in Seq(Nat)
    BY <1>11, AtNode DEF Backup
  <2>2. Tail(path[w]) \in Seq(Nat)
    BY <2>1
  <2>3. CASE Len(path[w]) = 1
    <3>1. Leaves(w) /\ UNCHANGED <<fed, taken, failed>>
      BY <1>11, <2>3 DEF Backup
    <3> QED
      BY <1>0, <3>1 DEF StateType
  <2>4. CASE Len(path[w]) # 1
    <3>1. path' = [path EXCEPT ![w] = Tail(@)]
          /\ UNCHANGED <<wpc, roll, legal, resp, done, fed, taken, failed>>
      BY <1>11, <2>4 DEF Backup
    <3> QED
      BY <2>2, <3>1 DEF StateType
  <2> QED
    BY <2>3, <2>4
<1> QED
  BY <1>1, <1>2, <1>3, <1>4, <1>5, <1>6, <1>7, <1>8, <1>9, <1>10, <1>11 DEF Working

LEMMA StateOthers ==
  ASSUME StateType, DispatchType, Replies, Feed \/ Return \/ Sending \/ Receiving
  PROVE  StateType'
<1> USE DEF rollout, work, dispatch, answers, sender, receiver
<1>1. CASE Feed
  <2>1. fed' \in 0 .. NRollouts /\ taken \in 0 .. fed' /\ fed' - taken <= 2 * Par
    BY <1>1, ParNat, TreeSearchAssumption, SMTT(30) DEF Feed, StateType
  <2> QED
    BY <1>1, <2>1 DEF Feed, StateType
<1>2. CASE Return
  BY <1>2 DEF Return, StateType
<1>3. CASE SenderTake \/ Asks \/ SendFails \/ Publish \/ SenderEnds
  BY <1>3 DEF SenderTake, Asks, SendFails, Publish, SenderEnds, StateType
<1>4. CASE ReceiverTake \/ ReceiveFails \/ ReceiverEnds
  BY <1>4 DEF ReceiverTake, ReceiveFails, ReceiverEnds, StateType
<1>5. CASE Receives
  <2>1. Head(asked) \in 0 .. NRollouts
    <3>1. asked \in Seq(1 .. NRollouts) /\ asked # <<>>
      BY <1>5 DEF Receives, DispatchType
    <3>2. Head(asked) \in 1 .. NRollouts
      BY <3>1, HeadTailProperties
    <3> QED
      BY <3>2, TreeSearchAssumption
  <2> QED
    BY <1>5, <2>1 DEF Receives, StateType
<1> QED
  BY <1>1, <1>2, <1>3, <1>4, <1>5 DEF Sending, Receiving

LEMMA StateStep == IInv /\ [Next]_vars => StateType'
<1> SUFFICES ASSUME IInv, [Next]_vars PROVE StateType'
  OBVIOUS
<1>1. CASE UNCHANGED vars
  BY <1>1 DEF vars, work, rollout, answers, IInv, StateType
<1> QED
  BY <1>1, StateWorking, StateOthers DEF Next, IInv

\* Phases: the search is over when the workers are gone, and they are when all the work
\* has been taken.
LEMMA PhasesStep == IInv /\ [Next]_vars => Phases'
<1> SUFFICES ASSUME IInv, [Next]_vars PROVE Phases'
  OBVIOUS
<1>0. Phases /\ StateType
  BY DEF IInv
<1>1. ASSUME NEW w \in Workers, Working(w) PROVE Phases'
  <2>1. UNCHANGED <<fed, mpc, spc>> /\ \A v \in Workers : v # w => wpc'[v] = wpc[v]
    BY <1>0, <1>1, Alone
  <2>2. wpc[w] # "gone" /\ spc # "closed"
    BY <1>0, <1>1 DEF Working, Pull, Exit, Query, Check, Add, Descend, Breaks, SendJob, Await,
                      Commit, Backup, Phases
  <2>3. CASE Pull(w)
    <3>1. taken < fed /\ taken \in Int /\ fed \in Int
      BY <1>0, <2>3 DEF Pull, StateType
    <3>2. \A v \in Workers : wpc[v] # "gone"
      BY <1>0, <3>1 DEF Phases
    <3>3. wpc'[w] # "gone"
      BY <1>0, <2>2, <2>3 DEF Pull, StateType, rollout
    <3> QED
      BY <1>0, <2>1, <2>2, <3>2, <3>3 DEF Phases
  <2>4. CASE Exit(w)
    BY <1>0, <2>1, <2>2, <2>4 DEF Exit, Phases, work, StateType
  <2>5. CASE ~(Pull(w) \/ Exit(w))
    <3>1. wpc'[w] # "gone" /\ UNCHANGED taken
      BY <1>0, <1>1, <2>5, <2>2 DEF Working, Query, Check, Add, Descend, Breaks, SendJob, Await,
                          Commit, Backup, Leaves, StateType, rollout, work
    <3> QED
      BY <1>0, <2>1, <2>2, <3>1 DEF Phases
  <2> QED
    BY <2>3, <2>4, <2>5
<1>2. CASE Feed
  <2>1. fed \in Int /\ NRollouts \in Int /\ fed <= NRollouts
    BY <1>0, TreeSearchAssumption DEF StateType
  <2> QED
    BY <1>0, <1>2, <2>1 DEF Feed, Phases, dispatch, rollout
<1>3. CASE Return
  BY <1>0, <1>3 DEF Return, Phases, rollout, work, dispatch
<1>4. CASE Sending
  BY <1>0, <1>4 DEF Sending, SenderTake, Asks, SendFails, Publish, SenderEnds, Phases, rollout,
                    work, sender
<1>5. CASE Receiving
  BY <1>0, <1>5 DEF Receiving, ReceiverTake, Receives, ReceiveFails, ReceiverEnds, Phases,
                    rollout, work, sender
<1>6. CASE UNCHANGED vars
  BY <1>0, <1>6 DEF vars, Phases, rollout, work, dispatch
<1> QED
  BY <1>1, <1>2, <1>3, <1>4, <1>5, <1>6 DEF Next

\* A rollout's path: what it takes to keep it when only worker w goes on.
PathOf(w) ==
  /\ wpc[w] \in Idle <=> path[w] = <<>>
  /\ wpc[w] \notin Idle => roll[w] # 0
  /\ \A i \in DOMAIN path[w] : path[w][i] \in DOMAIN tree
  /\ \A i, j \in DOMAIN path[w] : i < j => path[w][i] < path[w][j]
  /\ Len(path[w]) <= MaxDepth + 2
  /\ wpc[w] \in Walking => Len(path[w]) <= MaxDepth + 1
  /\ wpc[w] \in Leaf => At(w) # Root

LEMMA PathOfAll == PathInv <=> \A w \in Workers : PathOf(w)
  BY DEF PathInv, PathOf

LEMMA MoreNodes ==
  ASSUME TreeType, Shape, StateType, PathInv, [Next]_vars
  PROVE  /\ DOMAIN tree \subseteq DOMAIN tree'
         /\ \A m \in DOMAIN tree : tree[m].kids \subseteq tree'[m].kids
<1>1. CASE tree' = tree
  BY <1>1
<1>2. CASE tree' # tree
  <2>1. PICK m \in DOMAIN tree : \E new : \E dn, dv, de : Moved(tree, tree', m, new, dn, dv, de)
    BY <1>2, TreeStep
  <2>2. PICK new : \E dn, dv, de : Moved(tree, tree', m, new, dn, dv, de)
    BY <2>1
  <2>3. PICK dn, dv, de : Moved(tree, tree', m, new, dn, dv, de)
    BY <2>2
  <2> QED
    BY <2>3, MovedKeeps
<1> QED
  BY <1>1, <1>2

\* The path of a worker that stays in its place.
LEMMA PathRests ==
  ASSUME NEW v \in Workers, PathOf(v), path'[v] = path[v], roll'[v] = roll[v],
         DOMAIN tree \subseteq DOMAIN tree',
         wpc'[v] \in Idle <=> wpc[v] \in Idle,
         wpc'[v] \in Walking => wpc[v] \in Walking,
         wpc'[v] \in Leaf => wpc[v] \in Leaf \/ At(v) # Root
  PROVE  PathOf(v)'
  BY DEF PathOf, At

LEMMA PathLeaves ==
  ASSUME StateType, NEW w \in Workers, Leaves(w)
  PROVE  PathOf(w)'
<1>1. wpc'[w] = "pull" /\ path'[w] = <<>>
  BY DEF Leaves, StateType
<1> QED
  BY <1>1, TreeSearchAssumption DEF PathOf, Idle, Walking, Leaf

LEMMA PathPull ==
  ASSUME TreeType, StateType, PathInv, NEW w \in Workers, Pull(w),
         DOMAIN tree \subseteq DOMAIN tree'
  PROVE  PathOf(w)'
<1>1. CASE failed
  <2>1. UNCHANGED <<wpc, path, roll, tree>>
    BY <1>1 DEF Pull, rollout
  <2> QED
    BY <2>1, PathOfAll DEF PathOf, At
<1>2. CASE ~failed
  <2>1. wpc'[w] = "query" /\ path'[w] = <<Root>> /\ roll'[w] = taken'
    BY <1>2 DEF Pull, StateType
  <2>2. taken' # 0
    BY DEF Pull, StateType
  <2>3. Root \in DOMAIN tree'
    BY TreeDomain
  <2>4. DOMAIN path'[w] = 1 .. 1 /\ Len(path'[w]) = 1 /\ path'[w][1] = Root
    BY <2>1
  <2> QED
    BY <2>1, <2>2, <2>3, <2>4, TreeSearchAssumption DEF PathOf, Idle, Walking, Leaf
<1> QED
  BY <1>1, <1>2

LEMMA PathDescend ==
  ASSUME TreeType, Shape, StateType, PathInv, NEW w \in Workers, Descend(w),
         DOMAIN tree \subseteq DOMAIN tree'
  PROVE  PathOf(w)'
<1>1. PICK k \in tree[At(w)].kids :
        k[2] \in DOMAIN tree /\ At(w) < k[2] /\ path' = [path EXCEPT ![w] = Append(@, k[2])]
  BY DescendMoves
<1> DEFINE n == Len(path[w])
           p == path[w]
<1>2. wpc[w] = "select" /\ PathOf(w)
  BY PathOfAll DEF Descend
<1>3. /\ p \in Seq(Nat) /\ n \in Nat \ {0} /\ DOMAIN p = 1 .. n /\ At(w) \in Nat
      /\ \A i \in DOMAIN p : p[i] \in Nat /\ p[i] <= At(w)
  BY <1>2, AtNode DEF Idle
<1>4. path'[w] = Append(p, k[2]) /\ k[2] \in Nat
  BY <1>1, TreeDomain DEF StateType
<1>5. /\ Len(path'[w]) = n + 1 /\ DOMAIN path'[w] = 1 .. n + 1 /\ path'[w][n + 1] = k[2]
      /\ \A i \in 1 .. n : path'[w][i] = p[i]
  BY <1>3, <1>4
<1>6. n <= MaxDepth + 1 /\ MaxDepth \in Nat
  BY <1>2, TreeSearchAssumption DEF PathOf, Walking
<1>7. wpc'[w] \in {"over", "deep", "query"} /\ (wpc'[w] = "query" => n <= MaxDepth)
      /\ roll'[w] = roll[w]
  BY <1>3, <1>6 DEF Descend, StateType
<1>8. At(w)' = k[2] /\ k[2] # Root
  <2>1. At(w)' = path'[w][Len(path'[w])]
    BY DEF At
  <2>2. At(w) >= 1
    BY <1>2, AtNode, TreeDomain DEF Idle
  <2> QED
    BY <2>1, <2>2, <1>1, <1>3, <1>4, <1>5 DEF Root
<1> HIDE DEF n, p
<1>9. \A i \in DOMAIN path'[w] : path'[w][i] \in DOMAIN tree'
  <2>1. \A i \in 1 .. n : path'[w][i] \in DOMAIN tree'
    BY <1>2, <1>3, <1>5 DEF PathOf, p
  <2> QED
    BY <2>1, <1>1, <1>3, <1>5
<1>10. \A i, j \in DOMAIN path'[w] : i < j => path'[w][i] < path'[w][j]
  <2> SUFFICES ASSUME NEW i \in 1 .. n + 1, NEW j \in 1 .. n + 1, i < j
               PROVE  path'[w][i] < path'[w][j]
    BY <1>5
  <2>1. CASE j = n + 1
    <3>1. i \in 1 .. n
      BY <2>1, <1>3
    <3>2. path'[w][i] \in Nat /\ path'[w][i] <= At(w)
      BY <3>1, <1>3, <1>5
    <3>3. path'[w][j] = k[2]
      BY <2>1, <1>5
    <3> QED
      BY <3>2, <3>3, <1>1, <1>3, <1>4, SMTT(30)
  <2>2. CASE j # n + 1
    <3>1. i \in 1 .. n /\ j \in 1 .. n
      BY <2>2, <1>3
    <3>2. path'[w][i] = p[i] /\ path'[w][j] = p[j]
      BY <3>1, <1>5
    <3>3. \A o, q \in DOMAIN p : o < q => p[o] < p[q]
      BY <1>2 DEF PathOf, p
    <3>4. p[i] < p[j]
      BY <3>1, <3>3, <1>3
    <3> QED
      BY <3>2, <3>4
  <2> QED
    BY <2>1, <2>2
<1>11. path'[w] # <<>>
  BY <1>3, <1>5
<1>12. Len(path'[w]) <= MaxDepth + 2 /\ (wpc'[w] \in Walking => Len(path'[w]) <= MaxDepth + 1)
  BY <1>3, <1>5, <1>6, <1>7 DEF Walking
<1>13. wpc'[w] \notin Idle /\ roll'[w] # 0
  BY <1>2, <1>7 DEF Idle, PathOf
<1> QED
  BY <1>8, <1>9, <1>10, <1>11, <1>12, <1>13 DEF PathOf

LEMMA PathBackup ==
  ASSUME TreeType, Shape, StateType, PathInv, NEW w \in Workers, Backup(w),
         DOMAIN tree \subseteq DOMAIN tree'
  PROVE  PathOf(w)'
<1>1. CASE Len(path[w]) = 1
  <2>1. Leaves(w)
    BY <1>1 DEF Backup
  <2> QED
    BY <2>1, PathLeaves
<1>2. CASE Len(path[w]) # 1
  <2> DEFINE n == Len(path[w])
             p == path[w]
  <2>1. wpc[w] = "backup" /\ PathOf(w)
    BY PathOfAll DEF Backup
  <2>2. p \in Seq(Nat) /\ p # <<>> /\ n \in Nat \ {0} /\ DOMAIN p = 1 .. n
    BY <2>1, AtNode DEF Idle
  <2>3. path'[w] = Tail(p) /\ wpc'[w] = "backup" /\ roll'[w] = roll[w]
    BY <2>1, <1>2 DEF Backup, StateType
  <2>4. /\ Len(path'[w]) = n - 1 /\ DOMAIN path'[w] = 1 .. n - 1
        /\ \A i \in 1 .. n - 1 : path'[w][i] = p[i + 1]
    BY <2>2, <2>3
  <2>13. n # 1 /\ MaxDepth \in Nat
    BY <1>2, TreeSearchAssumption
  <2> HIDE DEF n, p
  <2>5. n >= 2 /\ MaxDepth \in Nat
    BY <2>2, <2>13
  <2>6. \A i \in 1 .. n - 1 : i + 1 \in 1 .. n
    BY <2>2
  <2>7. \A i \in 1 .. n : p[i] \in DOMAIN tree
    BY <2>1, <2>2 DEF PathOf, p
  <2>8. \A i, j \in 1 .. n : i < j => p[i] < p[j]
    BY <2>1, <2>2 DEF PathOf, p
  <2>9. \A i, j \in 1 .. n - 1 : i < j => path'[w][i] < path'[w][j]
    <3> SUFFICES ASSUME NEW i \in 1 .. n - 1, NEW j \in 1 .. n - 1, i < j
                 PROVE  path'[w][i] < path'[w][j]
      OBVIOUS
    <3>1. i + 1 \in 1 .. n /\ j + 1 \in 1 .. n /\ i + 1 < j + 1
      BY <2>2
    <3>2. p[i + 1] < p[j + 1]
      BY <3>1, <2>8
    <3> QED
      BY <3>2, <2>4
  <2>10. n <= MaxDepth + 2
    BY <2>1 DEF PathOf, n, p
  <2>11. path'[w] # <<>> /\ Len(path'[w]) <= MaxDepth + 2
    BY <2>2, <2>4, <2>5, <2>10
  <2>12. roll'[w] # 0
    BY <2>1, <2>3 DEF PathOf, Idle
  <2> QED
    BY <2>3, <2>4, <2>6, <2>7, <2>9, <2>11, <2>12 DEF PathOf, Idle, Walking, Leaf
<1> QED
  BY <1>1, <1>2

LEMMA PathStep == IInv /\ [Next]_vars => PathInv'
<1> SUFFICES ASSUME IInv, [Next]_vars PROVE PathInv'
  OBVIOUS
<1>0. TreeType /\ Shape /\ StateType /\ PathInv
  BY DEF IInv
<1>1. DOMAIN tree \subseteq DOMAIN tree' /\ \A v \in Workers : PathOf(v)
  BY <1>0, MoreNodes, PathOfAll
<1>2. ASSUME NEW w \in Workers, Working(w) PROVE PathInv'
  <2>1. ASSUME NEW v \in Workers, v # w PROVE PathOf(v)'
    <3>1. wpc'[v] = wpc[v] /\ path'[v] = path[v] /\ roll'[v] = roll[v]
      BY <1>0, <1>2, <2>1, Alone
    <3> QED
      BY <3>1, <1>1, PathRests
  <2>2. ASSUME Pull(w) PROVE PathOf(w)'
    BY <2>2, <1>0, <1>1, PathPull
  <2>3. ASSUME Descend(w) PROVE PathOf(w)'
    BY <2>3, <1>0, <1>1, PathDescend
  <2>4. ASSUME Backup(w) PROVE PathOf(w)'
    BY <2>4, <1>0, <1>1, PathBackup
  <2>5. ASSUME Breaks(w) \/ (Await(w) /\ failed) PROVE PathOf(w)'
    <3>1. Leaves(w)
      BY <2>5 DEF Breaks, Await
    <3> QED
      BY <3>1, <1>0, PathLeaves
  <2>6. ASSUME Query(w) PROVE PathOf(w)'
    <3>1. At(w) = Root => tree[At(w)].open
      BY <1>0 DEF Shape
    <3>2. wpc[w] = "query" /\ wpc'[w] = (IF tree[At(w)].open THEN "check" ELSE "send")
          /\ path'[w] = path[w] /\ roll'[w] = roll[w]
      BY <2>6, <1>0 DEF Query, StateType
    <3> QED
      BY <3>1, <3>2, <1>1, PathRests DEF Idle, Walking, Leaf
  <2>7. ASSUME Exit(w) \/ Check(w) \/ Add(w) \/ SendJob(w) \/ (Await(w) /\ ~failed) \/ Commit(w)
         PROVE  PathOf(w)'
    <3>1. path'[w] = path[w] /\ roll'[w] = roll[w]
      BY <2>7, <1>0 DEF Exit, Check, Add, SendJob, Await, Commit
    <3>2. /\ wpc'[w] \in Idle <=> wpc[w] \in Idle
          /\ wpc'[w] \in Walking => wpc[w] \in Walking
          /\ wpc'[w] \in Leaf => wpc[w] \in Leaf
      BY <2>7, <1>0 DEF Exit, Check, Add, SendJob, Await, Commit, Idle, Walking, Leaf, StateType
    <3> QED
      BY <3>1, <3>2, <1>1, PathRests
  <2>8. PathOf(w)'
    BY <1>2, <2>2, <2>3, <2>4, <2>5, <2>6, <2>7 DEF Working
  <2> QED
    BY <2>1, <2>8 DEF PathInv, PathOf
<1>3. CASE Feed \/ Return \/ Sending \/ Receiving \/ UNCHANGED vars
  <2>1. UNCHANGED <<tree, wpc, roll, path>>
    BY <1>3, Elsewhere
  <2> QED
    BY <2>1, <1>0 DEF PathInv, At
<1> QED
  BY <1>2, <1>3 DEF Next

\* Children are only added while a worker chooses among them.
LEMMA PanicsStep == IInv /\ [Next]_vars => NeverPanics'
<1> SUFFICES ASSUME IInv, [Next]_vars, NEW v \in Workers, wpc'[v] = "select"
             PROVE  (Acts(legal[v]) \subseteq Known(At(v)))'
  BY DEF NeverPanics
<1>0. TreeType /\ Shape /\ StateType /\ PathInv /\ NeverPanics
  BY DEF IInv
<1>1. ASSUME wpc[v] = "select", legal'[v] = legal[v], path'[v] = path[v]
      PROVE  (Acts(legal[v]) \subseteq Known(At(v)))'
  <2>1. At(v) \in DOMAIN tree /\ At(v)' = At(v)
    BY <1>0, <1>1, AtNode DEF Idle, At
  <2>2. tree[At(v)].kids \subseteq tree'[At(v)].kids
    BY <1>0, <2>1, MoreNodes
  <2>3. Known(At(v)) \subseteq Known(At(v))'
    BY <2>1, <2>2 DEF Known
  <2> QED
    BY <1>0, <1>1, <2>3 DEF NeverPanics
<1>2. ASSUME NEW w \in Workers, Working(w) PROVE (Acts(legal[v]) \subseteq Known(At(v)))'
  <2>1. CASE v # w
    BY <1>0, <1>1, <1>2, <2>1, Alone
  <2>2. CASE v = w /\ Check(w)
    <3>1. legal'[w] = legal[w] /\ path'[w] = path[w] /\ tree' = tree
          /\ Acts(legal[w]) \subseteq Known(At(w))
      BY <1>0, <2>2 DEF Check, StateType
    <3> QED
      BY <3>1, <2>2 DEF Known, At
  <2>3. CASE v = w /\ Add(w)
    <3> DEFINE as == Missing(w)
               m == At(w)
    <3>1. Moved(tree, tree', m, Fresh(tree, as), 0, 0, 0)
          /\ \A e \in as : \E k \in Fresh(tree, as) : k[1] = e
      BY <1>0, <2>3, AddMoves
    <3>2. legal'[w] = legal[w] /\ path'[w] = path[w]
      BY <2>3 DEF Add
    <3>3. At(w)' = m
      BY <3>2 DEF At
    <3>4. tree'[m].kids = tree[m].kids \cup Fresh(tree, as)
      BY <3>1 DEF Moved
    <3> SUFFICES ASSUME NEW e \in legal[w] PROVE \E k \in tree'[m].kids : k[1][1] = e[1]
      BY <3>2, <3>3, <2>3 DEF Known, Acts
    <3>5. CASE e \in as
      BY <3>1, <3>4, <3>5
    <3>6. CASE e \notin as
      BY <3>4, <3>6 DEF Known, Missing
    <3> QED
      BY <3>5, <3>6
  <2>4. CASE v = w /\ ~Check(w) /\ ~Add(w)
    <3>1. FALSE
      BY <1>0, <1>2, <2>4 DEF Working, Pull, Exit, Query, Descend, Breaks, SendJob, Await, Commit,
                              Backup, Leaves, StateType, rollout
    <3> QED
      BY <3>1
  <2> QED
    BY <2>1, <2>2, <2>3, <2>4
<1>3. CASE Feed \/ Return \/ Sending \/ Receiving \/ UNCHANGED vars
  BY <1>1, <1>3, Elsewhere
<1> QED
  BY <1>2, <1>3 DEF Next

(***************************************************************************)
(* The jobs.                                                               *)
(***************************************************************************)
\* A job is put at the end of a queue, or taken from its head.
LEMMA PutLast ==
  ASSUME NEW S, NEW s \in Seq(S), NEW x \in S
  PROVE  /\ Append(s, x) \in Seq(S) /\ Len(Append(s, x)) = Len(s) + 1 /\ Len(s) \in Nat
         /\ Append(s, x)[Len(s) + 1] = x /\ \A i \in 1 .. Len(s) : Append(s, x)[i] = s[i]
         /\ Elements(Append(s, x)) = Elements(s) \cup {x}
         /\ Distinct(s) /\ x \notin Elements(s) => Distinct(Append(s, x))
<1> DEFINE n == Len(s)
           t == Append(s, x)
<1>1. /\ t \in Seq(S) /\ Len(t) = n + 1 /\ n \in Nat /\ DOMAIN t = 1 .. n + 1 /\ DOMAIN s = 1 .. n
      /\ t[n + 1] = x /\ \A i \in 1 .. n : t[i] = s[i]
  OBVIOUS
<1> HIDE DEF n, t
<1>2. 1 .. n + 1 = 1 .. n \cup {n + 1}
  BY <1>1
<1>3. Elements(t) = Elements(s) \cup {x}
  BY <1>1, <1>2 DEF Elements
<1>4. Distinct(s) /\ x \notin Elements(s) => Distinct(t)
  <2> SUFFICES ASSUME Distinct(s), x \notin Elements(s), NEW i \in DOMAIN t, NEW j \in DOMAIN t,
                      t[i] = t[j]
               PROVE  i = j
    BY DEF Distinct
  <2>1. i \in 1 .. n \/ i = n + 1
    BY <1>1
  <2>2. j \in 1 .. n \/ j = n + 1
    BY <1>1
  <2>3. \A l \in 1 .. n : s[l] # x
    BY <1>1 DEF Elements
  <2> QED
    BY <1>1, <2>1, <2>2, <2>3 DEF Distinct
<1> QED
  BY <1>1, <1>3, <1>4 DEF n, t

LEMMA TakeFirst ==
  ASSUME NEW S, NEW s \in Seq(S), s # <<>>
  PROVE  /\ Tail(s) \in Seq(S) /\ Len(Tail(s)) = Len(s) - 1 /\ Len(s) \in Nat \ {0}
         /\ Head(s) \in S /\ Head(s) = s[1] /\ \A i \in 1 .. Len(s) - 1 : Tail(s)[i] = s[i + 1]
         /\ Elements(Tail(s)) \subseteq Elements(s) /\ Head(s) \in Elements(s)
         /\ Distinct(s) => Distinct(Tail(s)) /\ Head(s) \notin Elements(Tail(s))
<1> DEFINE n == Len(s)
           t == Tail(s)
<1>1. /\ t \in Seq(S) /\ Len(t) = n - 1 /\ n \in Nat \ {0} /\ DOMAIN t = 1 .. n - 1
      /\ Head(s) = s[1] /\ s[1] \in S /\ DOMAIN s = 1 .. n
      /\ \A i \in 1 .. n - 1 : t[i] = s[i + 1]
  OBVIOUS
<1> HIDE DEF n, t
<1>2. \A i \in 1 .. n - 1 : i + 1 \in 1 .. n /\ i + 1 # 1
  BY <1>1
<1>3. Elements(t) \subseteq Elements(s) /\ Head(s) \in Elements(s)
  <2>1. \A i \in 1 .. n - 1 : t[i] \in Elements(s)
    BY <1>1, <1>2 DEF Elements
  <2>2. 1 \in 1 .. n
    BY <1>1
  <2>3. s[1] \in Elements(s)
    BY <1>1, <2>2 DEF Elements
  <2> QED
    BY <1>1, <2>1, <2>3 DEF Elements
<1>4. Distinct(s) => Distinct(t)
  <2> SUFFICES ASSUME Distinct(s), NEW i \in 1 .. n - 1, NEW j \in 1 .. n - 1, t[i] = t[j]
               PROVE  i = j
    BY <1>1 DEF Distinct
  <2>2. s[i + 1] = s[j + 1] /\ i + 1 \in DOMAIN s /\ j + 1 \in DOMAIN s
    BY <1>1, <1>2
  <2>1. i + 1 = j + 1
    BY <2>2 DEF Distinct
  <2> QED
    BY <1>1, <2>1
<1>5. Distinct(s) => Head(s) \notin Elements(t)
  <2> SUFFICES ASSUME Distinct(s), NEW i \in 1 .. n - 1, t[i] = s[1] PROVE FALSE
    BY <1>1 DEF Elements
  <2>1. s[i + 1] = s[1] /\ i + 1 \in 1 .. n /\ 1 \in 1 .. n
    BY <1>1, <1>2
  <2> QED
    BY <1>1, <1>2, <2>1 DEF Distinct
<1> QED
  BY <1>1, <1>3, <1>4, <1>5 DEF n, t

\* A job's worker waits on, with its job not done, while others act.
LEMMA JobsWorking ==
  ASSUME IInv, NEW w \in Workers, Working(w)
  PROVE  Jobs'
<1>0. StateType /\ DispatchType /\ Jobs
  BY DEF IInv
<1>1. /\ \A v \in Workers : v # w =>
           wpc'[v] = wpc[v] /\ roll'[v] = roll[v] /\ resp'[v] = resp[v] /\ done'[v] = done[v]
      /\ UNCHANGED <<spc, sjob, pending, rpc, rjob, asked>>
  BY <1>0, Alone
<1>2. UNCHANGED <<AtSender, Unanswered, AtReceiver>>
  BY <1>1 DEF AtSender, Unanswered, AtReceiver
<1>3. \A v : Waits(v) => Waits(v)'
  <2> SUFFICES ASSUME NEW v, Waits(v) PROVE Waits(v)'
    OBVIOUS
  <2>1. CASE v # w
    BY <1>1, <2>1 DEF Waits
  <2>2. CASE v = w
    BY <2>2 DEF Waits, Working, Pull, Exit, Query, Check, Add, Descend, Breaks, SendJob, Await,
                Commit, Backup
  <2> QED
    BY <2>1, <2>2
<1>4. wpc'[w] \in Early => ~done'[w]
  <2> USE DEF Leaves, Early, Idle, Walking, StateType, rollout, dispatch, answers, Jobs
  <2>1. CASE Pull(w) \/ Exit(w) \/ Query(w) \/ Check(w) \/ Add(w) \/ Descend(w)
    BY <1>0, <2>1 DEF Pull, Exit, Query, Check, Add, Descend
  <2>2. CASE Breaks(w) \/ SendJob(w) \/ Await(w) \/ Commit(w) \/ Backup(w)
    BY <1>0, <2>2 DEF Breaks, SendJob, Await, Commit, Backup
  <2> QED
    BY <2>1, <2>2 DEF Working
<1>5. \A v \in Workers : wpc'[v] \in Early => ~done'[v]
  BY <1>0, <1>1, <1>4 DEF Jobs
<1>6. CASE sendq' = sendq
  BY <1>0, <1>2, <1>3, <1>5, <1>6, <1>1 DEF Jobs, Sent
<1>7. CASE SendJob(w)
  <2>1. /\ wpc[w] = "send" /\ wpc'[w] = "wait" /\ done' = done /\ sendq' = Append(sendq, w)
        /\ pending' = pending
    BY <1>0, <1>7 DEF SendJob, StateType, answers
  <2>2. Waits(w)'
    BY <1>0, <2>1 DEF Waits, Jobs, Early
  <2>3. w \notin Sent \cup AtSender \cup Unanswered \cup AtReceiver
    BY <1>0, <2>1 DEF Waits, Jobs
  <2>4. Sent' = Sent \cup {w} /\ Distinct(sendq')
    BY <1>0, <2>1, <2>3, PutLast DEF DispatchType, Sent, Jobs
  <2> QED
    BY <1>0, <1>2, <1>3, <1>5, <2>1, <2>2, <2>3, <2>4 DEF Jobs
<1>8. sendq' = sendq \/ SendJob(w)
  BY DEF Working, Pull, Exit, Query, Check, Add, Descend, Breaks, Await, Commit, Backup, dispatch
<1> QED
  BY <1>6, <1>7, <1>8

\* A dispatcher passes a job on, or is done with it.
LEMMA JobsDispatch ==
  ASSUME IInv, Sending \/ Receiving
  PROVE  Jobs'
<1> USE DEF rollout, sender, receiver, answers
<1>0. StateType /\ DispatchType /\ Jobs
  BY DEF IInv
<1>1. wpc' = wpc
  BY Elsewhere
<1>2. ASSUME done' = done
      PROVE  /\ \A v : Waits(v) => Waits(v)'
             /\ \A v \in Workers : wpc'[v] \in Early => ~done'[v]
  BY <1>0, <1>1, <1>2 DEF Waits, Jobs
<1>3. ASSUME NEW j, Waits(j), done' = [done EXCEPT ![j] = TRUE]
      PROVE  /\ \A v : Waits(v) /\ v # j => Waits(v)'
             /\ \A v \in Workers : wpc'[v] \in Early => ~done'[v]
  BY <1>0, <1>1, <1>3 DEF Waits, Jobs, Early, Idle, Walking, StateType
<1>4. CASE SenderTake
  <2>1. sendq' = Tail(sendq) /\ sendq # <<>> /\ spc = "idle"
    BY <1>4 DEF SenderTake
  <2>2. /\ Head(sendq) \in Sent /\ Sent' \subseteq Sent /\ Head(sendq) \notin Sent'
        /\ Distinct(sendq')
    BY <1>0, <2>1, TakeFirst DEF DispatchType, Jobs, Sent
  <2>3. Waits(Head(sendq)) /\ AtSender = {}
    BY <1>0, <2>1, <2>2 DEF Jobs, AtSender
  <2>4. UNCHANGED <<pending, Unanswered, AtReceiver>>
    BY <1>4 DEF SenderTake, Unanswered, AtReceiver
  <2>5. CASE failed
    <3>1. done' = [done EXCEPT ![Head(sendq)] = TRUE] /\ AtSender' = {}
      BY <1>4, <2>1, <2>5 DEF SenderTake, AtSender
    <3> QED
      BY <1>0, <1>3, <2>2, <2>3, <2>4, <3>1 DEF Jobs
  <2>6. CASE ~failed
    <3>1. done' = done /\ AtSender' = {Head(sendq)}
      BY <1>4, <2>6 DEF SenderTake, AtSender
    <3> QED
      BY <1>0, <1>2, <2>2, <2>3, <2>4, <3>1 DEF Jobs
  <2> QED
    BY <2>5, <2>6
<1>5. CASE Asks
  <2>1. UNCHANGED <<done, pending, sendq, Sent, AtSender, Unanswered, AtReceiver>>
    BY <1>5 DEF Asks, Sent, AtSender, Unanswered, AtReceiver
  <2> QED
    BY <1>0, <1>2, <2>1 DEF Jobs
<1>6. CASE SendFails
  <2>1. /\ UNCHANGED <<pending, sendq, Sent, Unanswered, AtReceiver>>
        /\ AtSender = {sjob} /\ AtSender' = {} /\ done' = [done EXCEPT ![sjob] = TRUE]
    BY <1>6 DEF SendFails, Sent, AtSender, Unanswered, AtReceiver
  <2> QED
    BY <1>0, <1>3, <2>1 DEF Jobs
<1>7. CASE Publish
  <2>1. /\ UNCHANGED <<done, sendq, Sent, AtReceiver>> /\ pending' = Append(pending, sjob)
        /\ AtSender = {sjob} /\ AtSender' = {}
    BY <1>7 DEF Publish, Sent, AtSender, AtReceiver
  <2>2. Waits(sjob) /\ sjob \notin Unanswered /\ sjob \notin Sent /\ sjob \notin AtReceiver
    BY <1>0, <2>1 DEF Jobs
  <2>3. Unanswered' = Unanswered \cup {sjob} /\ Distinct(pending')
    BY <1>0, <2>1, <2>2, PutLast DEF DispatchType, Unanswered, Jobs, Waits
  <2> QED
    BY <1>0, <1>2, <2>1, <2>2, <2>3 DEF Jobs
<1>8. CASE SenderEnds \/ ReceiverEnds
  <2>1. UNCHANGED <<done, pending, sendq, Sent, AtSender, Unanswered, AtReceiver>>
    BY <1>8 DEF SenderEnds, ReceiverEnds, Sent, AtSender, Unanswered, AtReceiver
  <2> QED
    BY <1>0, <1>2, <2>1 DEF Jobs
<1>9. CASE ReceiverTake
  <2>1. pending' = Tail(pending) /\ pending # <<>> /\ rpc = "idle"
    BY <1>9 DEF ReceiverTake
  <2>2. /\ Head(pending) \in Unanswered /\ Unanswered' \subseteq Unanswered
        /\ Head(pending) \notin Unanswered' /\ Distinct(pending')
    BY <1>0, <2>1, TakeFirst DEF DispatchType, Jobs, Unanswered
  <2>3. Waits(Head(pending)) /\ AtReceiver = {}
    BY <1>0, <2>1, <2>2 DEF Jobs, AtReceiver
  <2>4. UNCHANGED <<sendq, Sent, AtSender>>
    BY <1>9 DEF ReceiverTake, Sent, AtSender
  <2>5. CASE failed
    <3>1. done' = [done EXCEPT ![Head(pending)] = TRUE] /\ AtReceiver' = {}
      BY <1>9, <2>1, <2>5 DEF ReceiverTake, AtReceiver
    <3>2. /\ \A v : Waits(v) /\ v # Head(pending) => Waits(v)'
          /\ \A v \in Workers : wpc'[v] \in Early => ~done'[v]
      BY <1>3, <2>3, <3>1
    <3>3. \A v \in (Sent \cup AtSender \cup Unanswered \cup AtReceiver)' : Waits(v)'
      <4>1. \A v \in (Sent \cup AtSender \cup Unanswered \cup AtReceiver)' :
              v \in Sent \cup AtSender \cup Unanswered /\ v # Head(pending)
        BY <1>0, <2>2, <2>4, <3>1 DEF Jobs
      <4> QED
        BY <1>0, <3>2, <4>1 DEF Jobs
    <3> QED
      BY <1>0, <2>2, <2>4, <3>1, <3>2, <3>3 DEF Jobs
  <2>6. CASE ~failed
    <3>1. done' = done /\ AtReceiver' = {Head(pending)}
      BY <1>9, <2>6 DEF ReceiverTake, AtReceiver
    <3> QED
      BY <1>0, <1>2, <2>2, <2>3, <2>4, <3>1 DEF Jobs
  <2> QED
    BY <2>5, <2>6
<1>10. CASE Receives \/ ReceiveFails
  <2>1. /\ UNCHANGED <<pending, sendq, Sent, AtSender, Unanswered>>
        /\ AtReceiver = {rjob} /\ AtReceiver' = {} /\ done' = [done EXCEPT ![rjob] = TRUE]
    BY <1>10 DEF Receives, ReceiveFails, Sent, AtSender, Unanswered, AtReceiver
  <2>2. Waits(rjob)
    BY <1>0, <2>1 DEF Jobs
  <2>3. /\ \A v : Waits(v) /\ v # rjob => Waits(v)'
        /\ \A v \in Workers : wpc'[v] \in Early => ~done'[v]
    BY <1>3, <2>1, <2>2
  <2>4. \A v \in (Sent \cup AtSender \cup Unanswered \cup AtReceiver)' : Waits(v)'
    <3>1. \A v \in (Sent \cup AtSender \cup Unanswered \cup AtReceiver)' :
            v \in Sent \cup AtSender \cup Unanswered /\ v # rjob
      BY <1>0, <2>1 DEF Jobs
    <3> QED
      BY <1>0, <2>3, <3>1 DEF Jobs
  <2> QED
    BY <1>0, <2>1, <2>3, <2>4 DEF Jobs
<1> QED
  BY <1>4, <1>5, <1>6, <1>7, <1>8, <1>9, <1>10 DEF Sending, Receiving

LEMMA JobsStep == IInv /\ [Next]_vars => Jobs'
<1> SUFFICES ASSUME IInv, [Next]_vars PROVE Jobs'
  OBVIOUS
<1>1. CASE Feed \/ Return \/ UNCHANGED vars
  <2>1. UNCHANGED <<wpc, done, dispatch>>
    BY <1>1 DEF Feed, Return, vars, rollout, answers
  <2> QED
    BY <2>1 DEF IInv, Jobs, Sent, AtSender, Unanswered, AtReceiver, Waits, dispatch
<1> QED
  BY <1>1, JobsWorking, JobsDispatch DEF Next

\* A worker that waits has a rollout.
LEMMA HasRollout ==
  ASSUME StateType, PathInv, NEW w \in Workers, wpc[w] = "wait"
  PROVE  roll[w] \in 1 .. NRollouts
<1>1. wpc[w] \notin Idle /\ roll[w] \in 0 .. NRollouts /\ NRollouts \in Nat
  BY TreeSearchAssumption DEF StateType, Idle
<1>2. roll[w] # 0
  BY <1>1 DEF PathInv
<1> QED
  BY <1>1, <1>2

LEMMA DispatchStep == IInv /\ [Next]_vars => DispatchType'
<1> SUFFICES ASSUME IInv, [Next]_vars PROVE DispatchType'
  OBVIOUS
<1> USE DEF sender, receiver
<1>0. StateType /\ DispatchType /\ Jobs /\ PathInv
  BY DEF IInv
<1>1. ASSUME NEW w \in Workers, Working(w) PROVE DispatchType'
  <2>1. UNCHANGED <<spc, sjob, pending, rpc, rjob, asked>>
    BY <1>0, <1>1, Alone
  <2>2. CASE SendJob(w)
    <3>1. sendq' = Append(sendq, w) /\ Len(sendq) < Par
      BY <2>2 DEF SendJob
    <3>2. sendq' \in Seq(Workers) /\ Len(sendq') = Len(sendq) + 1 /\ Len(sendq) \in Nat
      BY <1>0, <3>1, PutLast DEF DispatchType
    <3> QED
      BY <1>0, <2>1, <3>1, <3>2, ParNat DEF DispatchType
  <2>3. CASE ~SendJob(w)
    <3>1. sendq' = sendq
      BY <1>1, <2>3 DEF Working, Pull, Exit, Query, Check, Add, Descend, Breaks, Await, Commit,
                        Backup, dispatch
    <3> QED
      BY <1>0, <2>1, <3>1 DEF DispatchType
  <2> QED
    BY <2>2, <2>3
<1>2. CASE SenderTake
  <2>1. sendq # <<>> /\ sendq' = Tail(sendq) /\ UNCHANGED <<pending, asked, rpc, rjob>>
        /\ (UNCHANGED <<spc, sjob>> \/ (spc' = "send" /\ sjob' = Head(sendq)))
    BY <1>2 DEF SenderTake
  <2>2. sendq' \in Seq(Workers) /\ Len(sendq') = Len(sendq) - 1 /\ Len(sendq) \in Nat \ {0}
        /\ Head(sendq) \in Workers
    BY <1>0, <2>1, TakeFirst DEF DispatchType
  <2> QED
    BY <1>0, <2>1, <2>2, ParNat DEF DispatchType
<1>3. CASE Asks
  <2>1. sjob \in AtSender
    BY <1>3 DEF Asks, AtSender
  <2>2. sjob \in Workers /\ wpc[sjob] = "wait"
    BY <1>0, <2>1 DEF Jobs, Waits
  <2>3. roll[sjob] \in 1 .. NRollouts
    BY <1>0, <2>2, HasRollout
  <2>4. asked' = Append(asked, roll[sjob]) /\ spc' = "publish"
        /\ UNCHANGED <<sendq, pending, rpc, rjob, sjob>>
    BY <1>3 DEF Asks
  <2>5. asked' \in Seq(1 .. NRollouts)
    BY <1>0, <2>3, <2>4, PutLast DEF DispatchType
  <2> QED
    BY <1>0, <2>4, <2>5 DEF DispatchType
<1>4. CASE SendFails
  BY <1>0, <1>4 DEF SendFails, DispatchType
<1>5. CASE Publish
  <2>1. sjob \in AtSender
    BY <1>5 DEF Publish, AtSender
  <2>2. sjob \in Workers
    BY <1>0, <2>1 DEF Jobs, Waits
  <2>3. pending' = Append(pending, sjob) /\ Len(pending) < Par /\ spc' = "idle" /\ sjob' = NoJob
        /\ UNCHANGED <<sendq, asked, rpc, rjob>>
    BY <1>5 DEF Publish
  <2>4. pending' \in Seq(Workers) /\ Len(pending') = Len(pending) + 1 /\ Len(pending) \in Nat
    BY <1>0, <2>2, <2>3, PutLast DEF DispatchType
  <2> QED
    BY <1>0, <2>3, <2>4, ParNat DEF DispatchType
<1>6. CASE SenderEnds \/ ReceiverEnds
  BY <1>0, <1>6 DEF SenderEnds, ReceiverEnds, DispatchType
<1>7. CASE ReceiverTake
  <2>1. pending # <<>> /\ pending' = Tail(pending) /\ UNCHANGED <<sendq, asked, spc, sjob>>
        /\ (UNCHANGED <<rpc, rjob>> \/ (rpc' = "recv" /\ rjob' = Head(pending)))
    BY <1>7 DEF ReceiverTake
  <2>2. pending' \in Seq(Workers) /\ Len(pending') = Len(pending) - 1 /\ Len(pending) \in Nat \ {0}
        /\ Head(pending) \in Workers
    BY <1>0, <2>1, TakeFirst DEF DispatchType
  <2> QED
    BY <1>0, <2>1, <2>2, ParNat DEF DispatchType
<1>8. CASE Receives
  <2>1. asked # <<>> /\ asked' = Tail(asked) /\ rpc' = "idle" /\ rjob' = NoJob
        /\ UNCHANGED <<sendq, pending, spc, sjob>>
    BY <1>8 DEF Receives
  <2>2. asked' \in Seq(1 .. NRollouts)
    BY <1>0, <2>1, TakeFirst DEF DispatchType
  <2> QED
    BY <1>0, <2>1, <2>2 DEF DispatchType
<1>9. CASE ReceiveFails
  BY <1>0, <1>9 DEF ReceiveFails, DispatchType
<1>10. CASE Feed \/ Return \/ UNCHANGED vars
  BY <1>0, <1>10 DEF Feed, Return, vars, dispatch, DispatchType
<1> QED
  BY <1>1, <1>2, <1>3, <1>4, <1>5, <1>6, <1>7, <1>8, <1>9, <1>10 DEF Next, Sending, Receiving

\* The workers that have a job keep their rollout.
LEMMA JobsKeep ==
  ASSUME IInv, NEW w \in Workers, Working(w)
  PROVE  \A v \in Sent \cup AtSender \cup Unanswered \cup AtReceiver : roll'[v] = roll[v]
<1> SUFFICES ASSUME NEW v \in Sent \cup AtSender \cup Unanswered \cup AtReceiver
             PROVE  roll'[v] = roll[v]
  OBVIOUS
<1>1. Waits(v) /\ StateType
  BY DEF IInv, Jobs
<1>2. v # w
  BY <1>1 DEF Waits, Working, Pull, Exit, Query, Check, Add, Descend, Breaks, SendJob, Await,
              Commit, Backup
<1>3. CASE v \in Workers
  BY <1>1, <1>2, <1>3, Alone
<1> QED
  BY <1>1, <1>3 DEF Waits

\* Replies stay in order, and come to those that asked.
LEMMA RepliesWorking ==
  ASSUME IInv, NEW w \in Workers, Working(w)
  PROVE  Replies'
<1>0. StateType /\ DispatchType /\ Jobs /\ Replies
  BY DEF IInv
<1>1. /\ \A v \in Workers : v # w =>
           wpc'[v] = wpc[v] /\ roll'[v] = roll[v] /\ resp'[v] = resp[v] /\ done'[v] = done[v]
      /\ UNCHANGED <<spc, sjob, pending, rpc, rjob, asked>> /\ (failed => failed')
  BY <1>0, Alone
<1>2. \A v \in AtSender \cup Unanswered \cup AtReceiver : roll'[v] = roll[v]
  BY JobsKeep
<1>3. \A i \in DOMAIN pending : roll'[pending[i]] = roll[pending[i]]
  BY <1>2 DEF Unanswered, Elements
<1>4. (spc = "publish" => roll'[sjob] = roll[sjob]) /\ (rpc = "recv" => roll'[rjob] = roll[rjob])
  BY <1>2 DEF AtSender, AtReceiver
<1>5. ~failed' => Aligned'
  <2>1. ~failed' => Aligned
    BY <1>0, <1>1 DEF Replies
  <2>2. Taken' = Taken /\ Unposted' = Unposted
    BY <1>1 DEF Taken, Unposted
  <2>3. Aligned => Aligned'
    <3>1. Aligned => /\ Len(asked') = Taken' + Len(pending') + Unposted'
                     /\ \A i \in DOMAIN pending' : asked'[Taken' + i] = roll[pending'[i]]
                     /\ spc' = "publish" => asked'[Len(asked')] = roll[sjob']
      BY <1>1, <2>2 DEF Aligned
    <3> QED
      BY <1>1, <1>3, <1>4, <3>1 DEF Aligned
  <2> QED
    BY <2>1, <2>3
<1>6. (rpc = "recv" => asked # <<>> /\ asked[1] = roll[rjob])'
  BY <1>0, <1>1, <1>4 DEF Replies
<1>7. /\ wpc'[w] = "wait" => ~done'[w]
      /\ wpc'[w] = "commit" => resp'[w] = roll'[w]
  <2> USE DEF Leaves, Early, Idle, Walking, StateType, rollout, dispatch, answers, Jobs, Replies
  <2>1. CASE Pull(w) \/ Exit(w) \/ Query(w) \/ Check(w) \/ Add(w) \/ Descend(w)
    BY <1>0, <2>1 DEF Pull, Exit, Query, Check, Add, Descend
  <2>2. CASE Breaks(w) \/ SendJob(w) \/ Commit(w) \/ Backup(w)
    BY <1>0, <2>2 DEF Breaks, SendJob, Commit, Backup
  <2>3. CASE Await(w)
    BY <1>0, <2>3 DEF Await
  <2> QED
    BY <2>1, <2>2, <2>3 DEF Working
<1>8. \A v \in Workers : wpc'[v] = "wait" /\ done'[v] /\ ~failed' => resp'[v] = roll'[v]
  BY <1>0, <1>1, <1>7 DEF Replies
<1>9. \A v \in Workers : wpc'[v] = "commit" => resp'[v] = roll'[v]
  BY <1>0, <1>1, <1>7 DEF Replies
<1> QED
  BY <1>5, <1>6, <1>8, <1>9 DEF Replies

\* A reply that nobody got concerns nobody.
LEMMA RepliesKept ==
  ASSUME StateType, Jobs, Replies, UNCHANGED <<wpc, roll, resp>>, failed => failed',
         NEW j, done' = done \/ (Waits(j) /\ failed' /\ done' = [done EXCEPT ![j] = TRUE])
  PROVE  /\ \A v \in Workers : wpc'[v] = "wait" /\ done'[v] /\ ~failed' => resp'[v] = roll'[v]
         /\ \A v \in Workers : wpc'[v] = "commit" => resp'[v] = roll'[v]
  BY DEF Replies

LEMMA RepliesDispatch ==
  ASSUME IInv, Sending \/ Receiving
  PROVE  Replies'
<1> USE DEF sender, receiver, answers
<1>0. StateType /\ DispatchType /\ Jobs /\ Replies
  BY DEF IInv
<1>1. UNCHANGED <<wpc, roll>> /\ (failed => failed')
  BY Elsewhere
<1>2. Len(asked) \in Nat /\ Len(pending) \in Nat /\ DOMAIN pending = 1 .. Len(pending)
      /\ asked \in Seq(1 .. NRollouts) /\ pending \in Seq(Workers)
  BY <1>0 DEF DispatchType
<1>3. CASE SenderTake
  <2>1. UNCHANGED <<asked, pending, rpc, rjob, failed, resp>> /\ spc # "publish" /\ spc' # "publish"
    BY <1>3 DEF SenderTake
  <2>2. (~failed' => Aligned') /\ (rpc = "recv" => asked # <<>> /\ asked[1] = roll[rjob])'
    BY <1>0, <1>1, <2>1 DEF Replies, Aligned, Taken, Unposted
  <2>3. sendq # <<>> /\ (done' = done \/ (failed /\ done' = [done EXCEPT ![Head(sendq)] = TRUE]))
    BY <1>3 DEF SenderTake
  <2>4. Waits(Head(sendq))
    BY <1>0, <2>3, TakeFirst DEF DispatchType, Jobs, Sent
  <2> QED
    BY <1>0, <1>1, <2>1, <2>2, <2>3, <2>4, RepliesKept DEF Replies
<1>4. CASE Asks
  <2> DEFINE x == roll[sjob]
  <2>1. /\ UNCHANGED <<pending, rpc, rjob, failed, resp, done, sjob>> /\ spc = "send"
        /\ spc' = "publish" /\ asked' = Append(asked, x)
    BY <1>4 DEF Asks
  <2>2. x \in 1 .. NRollouts
    <3>1. sjob \in AtSender
      BY <2>1 DEF AtSender
    <3>2. sjob \in Workers /\ wpc[sjob] = "wait"
      BY <1>0, <3>1 DEF Jobs, Waits
    <3> QED
      BY <1>0, <3>2, HasRollout DEF IInv
  <2> HIDE DEF x
  <2>3. /\ Len(asked') = Len(asked) + 1 /\ asked'[Len(asked) + 1] = x
        /\ \A i \in 1 .. Len(asked) : asked'[i] = asked[i]
    BY <1>2, <2>1, <2>2, PutLast
  <2>4. ~failed' => Aligned'
    <3> SUFFICES ASSUME ~failed PROVE Aligned'
      BY <2>1
    <3>1. Len(asked) = Taken + Len(pending) /\ Taken \in {0, 1} /\ Taken' = Taken
      BY <1>0, <1>2, <2>1 DEF Replies, Aligned, Unposted, Taken
    <3> HIDE DEF Taken
    <3>2. \A i \in DOMAIN pending : Taken + i \in 1 .. Len(asked)
      BY <1>2, <3>1
    <3>3. Len(asked') = Taken' + Len(pending') + Unposted'
      BY <1>2, <2>1, <2>3, <3>1 DEF Unposted
    <3>4. \A i \in DOMAIN pending' : asked'[Taken' + i] = roll'[pending'[i]]
      BY <1>0, <1>1, <2>1, <2>3, <3>1, <3>2 DEF Replies, Aligned
    <3>5. asked'[Len(asked')] = roll'[sjob']
      BY <1>1, <2>1, <2>3 DEF x
    <3> QED
      BY <3>3, <3>4, <3>5 DEF Aligned
  <2>5. (rpc = "recv" => asked # <<>> /\ asked[1] = roll[rjob])'
    <3> SUFFICES ASSUME rpc = "recv" PROVE asked' # <<>> /\ asked'[1] = roll[rjob]
      BY <1>1, <2>1
    <3>1. asked # <<>> /\ asked[1] = roll[rjob]
      BY <1>0 DEF Replies
    <3>2. 1 \in 1 .. Len(asked)
      BY <1>2, <3>1
    <3>3. asked' # <<>>
      BY <1>2, <2>1, <2>2
    <3> QED
      BY <2>3, <3>1, <3>2, <3>3
  <2> QED
    BY <1>0, <1>1, <2>1, <2>4, <2>5, RepliesKept DEF Replies
<1>5. CASE SendFails
  <2>1. UNCHANGED <<asked, rpc, rjob, resp>> /\ failed' /\ spc = "send"
        /\ done' = [done EXCEPT ![sjob] = TRUE]
    BY <1>5 DEF SendFails
  <2>2. Waits(sjob)
    BY <1>0, <2>1 DEF Jobs, AtSender
  <2> QED
    BY <1>0, <1>1, <2>1, <2>2, RepliesKept DEF Replies
<1>6. CASE Publish
  <2>1. /\ UNCHANGED <<asked, rpc, rjob, failed, resp, done>> /\ spc = "publish"
        /\ spc' = "idle" /\ pending' = Append(pending, sjob)
    BY <1>6 DEF Publish
  <2>2. sjob \in Workers
    BY <1>0, <2>1 DEF Jobs, Waits, AtSender
  <2>3. /\ Len(pending') = Len(pending) + 1 /\ pending'[Len(pending) + 1] = sjob
        /\ \A i \in 1 .. Len(pending) : pending'[i] = pending[i]
        /\ DOMAIN pending' = 1 .. Len(pending) + 1
    <3>1. pending' \in Seq(Workers) /\ Len(pending') = Len(pending) + 1
      BY <1>2, <2>1, <2>2, PutLast
    <3> QED
      BY <1>2, <2>1, <2>2, <3>1, PutLast
  <2>4. ~failed' => Aligned'
    <3> SUFFICES ASSUME ~failed PROVE Aligned'
      BY <2>1
    <3>1. /\ Len(asked) = Taken + Len(pending) + 1 /\ Taken \in {0, 1} /\ Taken' = Taken
          /\ asked[Len(asked)] = roll[sjob]
          /\ \A i \in DOMAIN pending : asked[Taken + i] = roll[pending[i]]
      BY <1>0, <2>1 DEF Replies, Aligned, Unposted, Taken
    <3> HIDE DEF Taken
    <3>2. Len(asked') = Taken' + Len(pending') + Unposted'
      BY <1>2, <2>1, <2>3, <3>1 DEF Unposted
    <3>3. Taken + (Len(pending) + 1) = Len(asked)
      BY <1>2, <3>1
    <3>4. ASSUME NEW i \in DOMAIN pending' PROVE asked'[Taken' + i] = roll'[pending'[i]]
      <4>1. CASE i = Len(pending) + 1
        BY <4>1, <1>1, <2>1, <2>3, <3>1, <3>3
      <4>2. CASE i # Len(pending) + 1
        <5>1. i \in 1 .. Len(pending)
          BY <4>2, <1>2, <2>3
        <5> QED
          BY <5>1, <1>1, <1>2, <2>1, <2>3, <3>1
      <4> QED
        BY <4>1, <4>2
    <3> QED
      BY <2>1, <3>2, <3>4 DEF Aligned
  <2>5. (rpc = "recv" => asked # <<>> /\ asked[1] = roll[rjob])'
    BY <1>0, <1>1, <2>1 DEF Replies
  <2> QED
    BY <1>0, <1>1, <2>1, <2>4, <2>5, RepliesKept DEF Replies
<1>7. CASE SenderEnds \/ ReceiverEnds
  <2>1. /\ UNCHANGED <<asked, pending, failed, resp, done, sjob, rjob>>
        /\ (spc' = spc \/ (spc # "publish" /\ spc' # "publish"))
        /\ (rpc' = rpc \/ (rpc # "recv" /\ rpc' # "recv"))
    BY <1>7 DEF SenderEnds, ReceiverEnds
  <2>2. (~failed' => Aligned') /\ (rpc = "recv" => asked # <<>> /\ asked[1] = roll[rjob])'
    BY <1>0, <1>1, <2>1 DEF Replies, Aligned, Taken, Unposted
  <2> QED
    BY <1>0, <1>1, <2>1, <2>2, RepliesKept DEF Replies
<1>8. CASE ReceiverTake
  <2>1. UNCHANGED <<asked, spc, sjob, failed, resp>> /\ rpc = "idle" /\ pending # <<>>
        /\ pending' = Tail(pending)
    BY <1>8 DEF ReceiverTake
  <2>2. /\ Waits(Head(pending)) /\ Head(pending) = pending[1] /\ Len(pending) \in Nat \ {0}
        /\ Len(pending') = Len(pending) - 1 /\ DOMAIN pending' = 1 .. Len(pending) - 1
        /\ \A i \in 1 .. Len(pending) - 1 : pending'[i] = pending[i + 1]
    <3>1. pending' \in Seq(Workers) /\ Len(pending') = Len(pending) - 1
      BY <1>2, <2>1, TakeFirst
    <3>2. DOMAIN pending' = 1 .. Len(pending')
      BY <3>1
    <3> QED
      BY <1>0, <1>2, <2>1, <3>1, <3>2, TakeFirst DEF Jobs, Unanswered
  <2>3. CASE failed
    <3>1. rpc' # "recv" /\ done' = [done EXCEPT ![Head(pending)] = TRUE]
      BY <1>8, <2>1, <2>3 DEF ReceiverTake
    <3> QED
      BY <1>0, <1>1, <2>1, <2>2, <2>3, <3>1, RepliesKept DEF Replies
  <2>4. CASE ~failed
    <3>1. rpc' = "recv" /\ rjob' = Head(pending) /\ done' = done
      BY <1>8, <2>4 DEF ReceiverTake
    <3>2. /\ Taken = 0 /\ Taken' = 1 /\ Unposted' = Unposted /\ Unposted \in {0, 1}
          /\ Len(asked) = Len(pending) + Unposted
          /\ \A i \in DOMAIN pending : asked[0 + i] = roll[pending[i]]
          /\ spc = "publish" => asked[Len(asked)] = roll[sjob]
      BY <1>0, <1>2, <2>1, <2>4, <3>1 DEF Replies, Aligned, Taken, Unposted
    <3> HIDE DEF Unposted
    <3>3. \A i \in 1 .. Len(pending) : asked[i] = roll[pending[i]]
      BY <1>2, <3>2
    <3>4. asked # <<>> /\ asked[1] = roll[Head(pending)]
      BY <1>2, <2>2, <3>2, <3>3
    <3>5. \A i \in 1 .. Len(pending) - 1 : asked[1 + i] = roll[pending'[i]]
      <4> SUFFICES ASSUME NEW i \in 1 .. Len(pending) - 1 PROVE asked[1 + i] = roll[pending'[i]]
        OBVIOUS
      <4>1. i + 1 \in 1 .. Len(pending) /\ 1 + i = i + 1
        BY <2>2
      <4> QED
        BY <4>1, <2>2, <3>3
    <3>6. Len(asked) = 1 + Len(pending') + Unposted
      BY <1>2, <2>2, <3>2
    <3>7. Aligned'
      BY <1>1, <2>1, <2>2, <3>2, <3>5, <3>6 DEF Aligned
    <3> QED
      BY <1>0, <1>1, <2>1, <3>1, <3>4, <3>7, RepliesKept DEF Replies
  <2> QED
    BY <2>3, <2>4
<1>9. CASE Receives
  <2>1. /\ UNCHANGED <<pending, spc, sjob, failed>> /\ rpc = "recv" /\ rpc' = "idle"
        /\ asked # <<>> /\ asked' = Tail(asked)
        /\ resp' = [resp EXCEPT ![rjob] = Head(asked)] /\ done' = [done EXCEPT ![rjob] = TRUE]
    BY <1>9 DEF Receives
  <2>2. Waits(rjob) /\ asked[1] = roll[rjob]
    BY <1>0, <2>1 DEF Jobs, AtReceiver, Replies
  <2>3. /\ Len(asked') = Len(asked) - 1 /\ Len(asked) \in Nat \ {0} /\ Head(asked) = asked[1]
        /\ \A i \in 1 .. Len(asked) - 1 : asked'[i] = asked[i + 1]
    BY <1>2, <2>1, TakeFirst
  <2>4. ~failed' => Aligned'
    <3> SUFFICES ASSUME ~failed PROVE Aligned'
      BY <2>1
    <3>1. /\ Taken = 1 /\ Taken' = 0 /\ Unposted' = Unposted /\ Unposted \in {0, 1}
          /\ spc = "publish" => Unposted = 1
          /\ Len(asked) = 1 + Len(pending) + Unposted
          /\ \A i \in DOMAIN pending : asked[1 + i] = roll[pending[i]]
          /\ spc = "publish" => asked[Len(asked)] = roll[sjob]
      BY <1>0, <2>1 DEF Replies, Aligned, Taken, Unposted
    <3> HIDE DEF Unposted
    <3>2. Len(asked') = 0 + Len(pending') + Unposted'
      BY <1>2, <2>1, <2>3, <3>1
    <3>3. ASSUME NEW i \in DOMAIN pending PROVE asked'[0 + i] = roll[pending[i]]
      <4>1. i \in 1 .. Len(asked) - 1 /\ 0 + i = i /\ i + 1 = 1 + i
        BY <1>2, <3>1
      <4> QED
        BY <4>1, <2>3, <3>1
    <3>4. ASSUME spc = "publish" PROVE asked'[Len(asked')] = roll[sjob]
      <4>1. Len(asked') \in 1 .. Len(asked) - 1 /\ Len(asked') + 1 = Len(asked)
        BY <1>2, <2>3, <3>1, <3>4
      <4> QED
        BY <4>1, <2>3, <3>1, <3>4
    <3> QED
      BY <1>1, <2>1, <3>1, <3>2, <3>3, <3>4 DEF Aligned
  <2>5. \A v \in Workers : wpc'[v] = "wait" /\ done'[v] /\ ~failed' => resp'[v] = roll'[v]
    BY <1>0, <1>1, <2>1, <2>2, <2>3 DEF Replies, StateType
  <2>6. \A v \in Workers : wpc'[v] = "commit" => resp'[v] = roll'[v]
    BY <1>0, <1>1, <2>1, <2>2 DEF Replies, StateType, Waits
  <2> QED
    BY <2>1, <2>4, <2>5, <2>6 DEF Replies
<1>10. CASE ReceiveFails
  <2>1. UNCHANGED resp /\ failed' /\ rpc = "recv" /\ rpc' = "idle"
        /\ done' = [done EXCEPT ![rjob] = TRUE]
    BY <1>10 DEF ReceiveFails
  <2>2. Waits(rjob)
    BY <1>0, <2>1 DEF Jobs, AtReceiver
  <2> QED
    BY <1>0, <1>1, <2>1, <2>2, RepliesKept DEF Replies
<1> QED
  BY <1>3, <1>4, <1>5, <1>6, <1>7, <1>8, <1>9, <1>10 DEF Sending, Receiving

LEMMA RepliesStep == IInv /\ [Next]_vars => Replies'
<1> SUFFICES ASSUME IInv, [Next]_vars PROVE Replies'
  OBVIOUS
<1>1. CASE Feed \/ Return \/ UNCHANGED vars
  <2>1. UNCHANGED <<wpc, roll, answers, dispatch, failed>>
    BY <1>1 DEF Feed, Return, vars, rollout
  <2> QED
    BY <2>1 DEF IInv, Replies, Aligned, Taken, Unposted, dispatch, answers
<1> QED
  BY <1>1, RepliesWorking, RepliesDispatch DEF Next

(***************************************************************************)
(* Counting the workers: who is under way, on a node, at it or to come.    *)
(***************************************************************************)
LEMMA Counting ==
  ASSUME NEW S \in SUBSET Workers, NEW T \in SUBSET Workers
  PROVE  /\ Cardinality(S) \in Nat /\ Cardinality(T) \in Nat
         /\ T \subseteq S => Cardinality(T) <= Cardinality(S)
         /\ \A w \in Workers :
              /\ T \subseteq S \cup {w} => Cardinality(T) <= Cardinality(S) + 1
              /\ w \in S /\ T \subseteq S \ {w} => Cardinality(T) + 1 <= Cardinality(S)
              /\ w \notin S /\ T = S \cup {w} => Cardinality(T) = Cardinality(S) + 1
              /\ w \in S /\ T = S \ {w} => Cardinality(T) = Cardinality(S) - 1
<1>1. IsFiniteSet(S) /\ IsFiniteSet(T)
  BY FS_Subset, TreeSearchAssumption
<1>2. Cardinality(S) \in Nat /\ Cardinality(T) \in Nat
  BY <1>1, FS_CardinalityType
<1>3. T \subseteq S => Cardinality(T) <= Cardinality(S)
  BY <1>1, FS_Subset
<1>4. ASSUME NEW w \in Workers
      PROVE  /\ T \subseteq S \cup {w} => Cardinality(T) <= Cardinality(S) + 1
             /\ w \in S /\ T \subseteq S \ {w} => Cardinality(T) + 1 <= Cardinality(S)
             /\ w \notin S /\ T = S \cup {w} => Cardinality(T) = Cardinality(S) + 1
             /\ w \in S /\ T = S \ {w} => Cardinality(T) = Cardinality(S) - 1
  <2> DEFINE more == S \cup {w}
             less == S \ {w}
  <2>1. IsFiniteSet(more) /\ (w \notin S => Cardinality(more) = Cardinality(S) + 1)
    BY <1>1, FS_AddElement
  <2>2. w \in S => more = S
    OBVIOUS
  <2>3. Cardinality(more) \in Nat /\ Cardinality(more) <= Cardinality(S) + 1
    <3>1. Cardinality(more) \in Nat
      BY <2>1, FS_CardinalityType
    <3>2. Cardinality(more) = Cardinality(S) \/ Cardinality(more) = Cardinality(S) + 1
      BY <2>1, <2>2
    <3> HIDE DEF more
    <3> QED
      BY <1>2, <3>1, <3>2
  <2>4. T \subseteq more => Cardinality(T) <= Cardinality(more)
    BY <2>1, FS_Subset
  <2>5. IsFiniteSet(less) /\ (w \in S => Cardinality(less) = Cardinality(S) - 1)
    BY <1>1, FS_RemoveElement
  <2>6. T \subseteq less => Cardinality(T) <= Cardinality(less)
    BY <2>5, FS_Subset
  <2>7. T = more => T \subseteq more
    OBVIOUS
  <2> HIDE DEF more, less
  <2>8. T \subseteq more => Cardinality(T) <= Cardinality(S) + 1
    BY <1>2, <2>3, <2>4
  <2>9. w \in S /\ T \subseteq less => Cardinality(T) + 1 <= Cardinality(S)
    BY <1>2, <2>5, <2>6
  <2>10. /\ w \notin S /\ T = more => Cardinality(T) = Cardinality(S) + 1
         /\ w \in S /\ T = less => Cardinality(T) = Cardinality(S) - 1
    BY <2>1, <2>5
  <2> QED
    BY <2>8, <2>9, <2>10 DEF more, less
<1> QED
  BY <1>2, <1>3, <1>4

LEMMA Counted ==
  /\ Active \in SUBSET Workers /\ Unended \in SUBSET Workers
  /\ \A m : /\ On(m) \in SUBSET Workers /\ Coming(m) \in SUBSET Workers
            /\ Here(m) \in SUBSET Workers
  BY DEF Active, Unended, On, Coming, Here

\* A step of worker w leaves the others where they are.
LEMMA OthersStay ==
  ASSUME StateType, NEW w \in Workers, Working(w), NEW v \in Workers, v # w
  PROVE  /\ v \in Active' <=> v \in Active
         /\ v \in Unended' <=> v \in Unended
         /\ \A m : /\ v \in On(m)' <=> v \in On(m)
                   /\ v \in Here(m)' <=> v \in Here(m)
                   /\ v \in Coming(m)' <=> v \in Coming(m)
<1>1. wpc'[v] = wpc[v] /\ path'[v] = path[v]
  BY Alone
<1>2. At(v)' = At(v)
  BY <1>1 DEF At
<1>3. (v \in Active' <=> v \in Active) /\ (v \in Unended' <=> v \in Unended)
  BY <1>1 DEF Active, Unended
<1>4. ASSUME NEW m PROVE /\ v \in On(m)' <=> v \in On(m)
                         /\ v \in Here(m)' <=> v \in Here(m)
                         /\ v \in Coming(m)' <=> v \in Coming(m)
  BY <1>1, <1>2, <1>3 DEF On, Here, Coming
<1> QED
  BY <1>3, <1>4

\* What becomes of a set when only w may enter or leave it.
Follows(w, X, Y) ==
  /\ (w \in X <=> w \in Y) => Y = X
  /\ w \notin X /\ w \in Y => Y = X \cup {w}
  /\ w \in X /\ w \notin Y => Y = X \ {w}
  /\ Y \subseteq X \cup {w} /\ ((w \in Y => w \in X) => Y \subseteq X)

LEMMA FollowsOf ==
  ASSUME NEW X \in SUBSET Workers, NEW Y \in SUBSET Workers, NEW w,
         \A v \in Workers : v # w => (v \in Y <=> v \in X)
  PROVE  Follows(w, X, Y)
  BY DEF Follows

LEMMA SetsOf ==
  ASSUME StateType, NEW w \in Workers, Working(w)
  PROVE  /\ Follows(w, Active, Active') /\ Follows(w, Unended, Unended')
         /\ \A m : /\ Follows(w, On(m), On(m)') /\ Follows(w, Here(m), Here(m)')
                   /\ Follows(w, Coming(m), Coming(m)')
<1>1. /\ Active \in SUBSET Workers /\ Unended \in SUBSET Workers
      /\ Active' \in SUBSET Workers /\ Unended' \in SUBSET Workers
  BY DEF Active, Unended
<1>2. \A m : /\ On(m) \in SUBSET Workers /\ On(m)' \in SUBSET Workers
             /\ Here(m) \in SUBSET Workers /\ Here(m)' \in SUBSET Workers
             /\ Coming(m) \in SUBSET Workers /\ Coming(m)' \in SUBSET Workers
  BY DEF On, Here, Coming, Unended
<1>3. Follows(w, Active, Active') /\ Follows(w, Unended, Unended')
  BY <1>1, OthersStay, FollowsOf
<1>4. ASSUME NEW m
      PROVE  /\ Follows(w, On(m), On(m)') /\ Follows(w, Here(m), Here(m)')
             /\ Follows(w, Coming(m), Coming(m)')
  BY <1>2, OthersStay, FollowsOf
<1> QED
  BY <1>3, <1>4

LEMMA PullSets ==
  ASSUME TreeType, StateType, PathInv, NEW w \in Workers, Pull(w), ~failed
  PROVE  /\ w \notin Active /\ Active' = Active \cup {w}
         /\ w \notin Unended /\ Unended' = Unended \cup {w}
         /\ w \notin On(Root) /\ On(Root)' = On(Root) \cup {w}
         /\ w \notin Here(Root) /\ Here(Root)' = Here(Root) \cup {w}
         /\ \A m : m # Root => On(m)' = On(m) /\ Here(m)' = Here(m)
         /\ Coming(Root)' = Coming(Root) /\ \A m : Coming(m)' \subseteq Coming(m) \cup {w}
<1>0. Working(w)
  BY DEF Working
<1>1. wpc[w] = "pull" /\ wpc'[w] = "query" /\ path'[w] = <<Root>> /\ path[w] = <<>>
  BY DEF Pull, StateType, PathInv, Idle
<1>2. At(w)' = Root /\ DOMAIN path'[w] = {1} /\ path'[w][1] = Root /\ DOMAIN path[w] = {}
  BY <1>1 DEF At
<1>3. w \notin Active /\ w \in Active' /\ w \notin Unended /\ w \in Unended'
  BY <1>1 DEF Active, Unended, Idle, Walking, Leaf
<1>4. \A m : w \notin On(m) /\ w \notin Here(m) /\ w \notin Coming(m)
  BY <1>1, <1>2, <1>3 DEF On, Here, Coming, Walking
<1>5. \A m : (w \in On(m)' <=> m = Root) /\ (w \in Here(m)' <=> m = Root)
  BY <1>2, <1>3 DEF On, Here
<1>6. w \notin Coming(Root)'
  BY <1>2 DEF Coming, Root
<1>7. Active' = Active \cup {w} /\ Unended' = Unended \cup {w}
  BY <1>0, <1>3, SetsOf DEF Follows
<1>8. On(Root)' = On(Root) \cup {w} /\ Here(Root)' = Here(Root) \cup {w}
  BY <1>0, <1>4, <1>5, SetsOf DEF Follows
<1>9. \A m : m # Root => On(m)' = On(m) /\ Here(m)' = Here(m)
  BY <1>0, <1>4, <1>5, SetsOf DEF Follows
<1>10. Coming(Root)' = Coming(Root) /\ \A m : Coming(m)' \subseteq Coming(m) \cup {w}
  BY <1>0, <1>4, <1>6, SetsOf DEF Follows
<1> QED
  BY <1>3, <1>4, <1>7, <1>8, <1>9, <1>10

LEMMA DescendSets ==
  ASSUME TreeType, Shape, StateType, PathInv, NEW w \in Workers, Descend(w), NEW m \in DOMAIN tree,
         At(w) < m, path' = [path EXCEPT ![w] = Append(@, m)]
  PROVE  /\ Active' = Active /\ Unended' = Unended
         /\ w \notin On(m) /\ On(m)' = On(m) \cup {w}
         /\ w \notin Here(m) /\ Here(m)' = Here(m) \cup {w}
         /\ \A o : o = At(w) => w \in Here(o) /\ Here(o)' = Here(o) \ {w}
         /\ \A o : o # m => On(o)' = On(o) /\ (o # At(w) => Here(o)' = Here(o))
         /\ w \in Coming(m) /\ Coming(m)' = Coming(m) \ {w}
         /\ \A o \in DOMAIN tree : Coming(o)' \subseteq Coming(o)
<1> DEFINE n == Len(path[w])
           p == path[w]
<1>0. Working(w)
  BY DEF Working
<1>1. wpc[w] = "select" /\ wpc'[w] \in {"over", "deep", "query"}
  BY DEF Descend, StateType
<1>2. /\ p \in Seq(Nat) /\ n \in Nat \ {0} /\ DOMAIN p = 1 .. n
      /\ At(w) = p[n] /\ At(w) \in Nat /\ \A i \in DOMAIN p : p[i] \in Nat /\ p[i] <= At(w)
  BY <1>1, AtNode DEF Idle
<1>3. path'[w] = Append(p, m) /\ m \in Nat
  BY TreeDomain DEF StateType
<1>4. /\ Len(path'[w]) = n + 1 /\ DOMAIN path'[w] = 1 .. n + 1 /\ path'[w][n + 1] = m
      /\ \A i \in 1 .. n : path'[w][i] = p[i]
  BY <1>2, <1>3
<1> HIDE DEF n, p
<1>5. At(w)' = m
  <2>1. At(w)' = path'[w][Len(path'[w])]
    BY DEF At
  <2> QED
    BY <1>2, <1>4, <2>1
<1>6. w \in Active /\ w \in Active' /\ w \in Unended /\ w \in Unended'
  BY <1>1 DEF Active, Unended, Idle, Walking, Leaf
<1>7. w \notin On(m)
  BY <1>2, <1>3, SMTT(30) DEF On, p
<1>8. \A o : w \in On(o)' <=> w \in On(o) \/ o = m
  <2>1. 1 .. n + 1 = 1 .. n \cup {n + 1}
    BY <1>2
  <2>2. \A o : w \in On(o)' <=> \E i \in 1 .. n + 1 : path'[w][i] = o
    BY <1>4 DEF On
  <2>3. \A o : w \in On(o) <=> \E i \in 1 .. n : p[i] = o
    BY <1>2 DEF On, p
  <2> QED
    BY <1>4, <2>1, <2>2, <2>3
<1>9. \A o : (w \in Here(o) <=> o = At(w)) /\ (w \in Here(o)' <=> o = m)
  BY <1>5, <1>6 DEF Here
<1>10. At(w) # m /\ w \in Coming(m) /\ w \notin Coming(m)'
  BY <1>1, <1>2, <1>3, <1>5 DEF Coming, Walking
<1>11. \A o \in DOMAIN tree : w \in Coming(o)' => w \in Coming(o)
  <2> SUFFICES ASSUME NEW o \in DOMAIN tree, w \in Coming(o)' PROVE w \in Coming(o)
    OBVIOUS
  <2>1. m < o /\ o \in Nat
    BY <1>5, TreeDomain DEF Coming
  <2>2. At(w) < o
    BY <2>1, <1>2, <1>3
  <2> QED
    BY <2>2, <1>1 DEF Coming, Walking
<1>12. Active' = Active /\ Unended' = Unended
  BY <1>0, <1>6, SetsOf DEF Follows
<1>13. On(m)' = On(m) \cup {w} /\ \A o : o # m => On(o)' = On(o)
  BY <1>0, <1>7, <1>8, SetsOf DEF Follows
<1>14. w \notin Here(m) /\ Here(m)' = Here(m) \cup {w}
  BY <1>0, <1>9, <1>10, SetsOf DEF Follows
<1>15. /\ \A o : o = At(w) => w \in Here(o) /\ Here(o)' = Here(o) \ {w}
       /\ \A o : o # m /\ o # At(w) => Here(o)' = Here(o)
  BY <1>0, <1>9, <1>10, SetsOf DEF Follows
<1>16. Coming(m)' = Coming(m) \ {w} /\ \A o \in DOMAIN tree : Coming(o)' \subseteq Coming(o)
  BY <1>0, <1>10, <1>11, SetsOf DEF Follows
<1> QED
  BY <1>7, <1>10, <1>12, <1>13, <1>14, <1>15, <1>16

LEMMA BackupSets ==
  ASSUME TreeType, StateType, PathInv, NEW w \in Workers, Backup(w)
  PROVE  /\ w \in On(Head(path[w]))
         /\ \A m : /\ m = Head(path[w]) => On(m)' = On(m) \ {w}
                   /\ m # Head(path[w]) => On(m)' = On(m)
                   /\ Here(m)' = Here(m) /\ Coming(m)' = Coming(m)
         /\ Active' \subseteq Active /\ Unended' = Unended
<1> DEFINE n == Len(path[w])
           p == path[w]
<1> PICK h : h = Head(path[w])
  OBVIOUS
<1>0. Working(w)
  BY DEF Working
<1>1. wpc[w] = "backup" /\ wpc'[w] \in {"backup", "pull"}
  BY DEF Backup, Leaves, StateType
<1>2. /\ p \in Seq(Nat) /\ p # <<>> /\ n \in Nat \ {0} /\ DOMAIN p = 1 .. n /\ h = p[1]
      /\ \A i \in DOMAIN p : p[i] \in Nat
  BY <1>1, AtNode DEF Idle
<1>3. \A i, j \in DOMAIN p : i < j => p[i] < p[j]
  BY DEF PathInv
<1>4. path'[w] = Tail(p)
  <2>1. CASE n = 1
    <3>1. Tail(p) = <<>>
      <4>1. Tail(p) \in Seq(Nat) /\ Len(Tail(p)) = 0
        BY <1>2, <2>1, TakeFirst
      <4>2. \A q \in Seq(Nat) : Len(q) = 0 => q = <<>>
        OBVIOUS
      <4> QED
        BY <4>1, <4>2
    <3>2. path'[w] = <<>>
      BY <2>1 DEF Backup, Leaves, StateType
    <3> QED
      BY <3>1, <3>2
  <2>2. CASE n # 1
    BY <2>2 DEF Backup, StateType
  <2> QED
    BY <2>1, <2>2
<1> HIDE DEF n, p
<1>5. /\ DOMAIN path'[w] = 1 .. n - 1 /\ \A i \in 1 .. n - 1 : path'[w][i] = p[i + 1]
  <2>1. Tail(p) \in Seq(Nat) /\ Len(Tail(p)) = n - 1
    BY <1>2, TakeFirst DEF n, p
  <2>2. DOMAIN Tail(p) = 1 .. n - 1
    BY <2>1
  <2>3. \A i \in 1 .. n - 1 : Tail(p)[i] = p[i + 1]
    BY <1>2, TakeFirst DEF n, p
  <2> QED
    BY <1>4, <2>2, <2>3
<1>6. w \in On(h)
  <2>1. 1 \in DOMAIN path[w] /\ path[w][1] = h
    BY <1>2 DEF p
  <2> QED
    BY <2>1 DEF On
<1>7. w \notin On(h)'
  <2> SUFFICES ASSUME NEW i \in 1 .. n - 1, path'[w][i] = h PROVE FALSE
    BY <1>5 DEF On
  <2>1. i + 1 \in 1 .. n /\ 1 \in 1 .. n /\ 1 < i + 1
    BY <1>2
  <2>2. p[1] < p[i + 1] /\ p[1] \in Nat
    BY <1>2, <1>3, <2>1
  <2>3. p[i + 1] = p[1]
    BY <1>2, <1>5
  <2> QED
    BY <2>2, <2>3
<1>8. \A m : m # h => (w \in On(m)' <=> w \in On(m))
  <2> SUFFICES ASSUME NEW m, m # h PROVE w \in On(m)' <=> w \in On(m)
    OBVIOUS
  <2>1. ASSUME w \in On(m)' PROVE w \in On(m)
    <3>1. PICK i \in 1 .. n - 1 : path'[w][i] = m
      BY <1>5, <2>1 DEF On
    <3>2. i + 1 \in DOMAIN path[w] /\ path[w][i + 1] = m
      BY <1>2, <1>5, <3>1 DEF p
    <3> QED
      BY <3>2 DEF On
  <2>2. ASSUME w \in On(m) PROVE w \in On(m)'
    <3>1. PICK i \in 1 .. n : p[i] = m
      BY <1>2, <2>2 DEF On, p
    <3>2. i # 1
      BY <1>2, <3>1
    <3>3. i - 1 \in 1 .. n - 1 /\ (i - 1) + 1 = i
      BY <1>2, <3>2
    <3>4. path'[w][i - 1] = m
      BY <1>5, <3>1, <3>3
    <3> QED
      BY <1>5, <3>3, <3>4 DEF On
  <2> QED
    BY <2>1, <2>2
<1>9. w \notin Unended /\ w \notin Unended' /\ w \in Active
  BY <1>1 DEF Unended, Active, Idle, Walking, Leaf
<1>10. \A m : w \notin Here(m) /\ w \notin Here(m)' /\ w \notin Coming(m) /\ w \notin Coming(m)'
  BY <1>1, <1>9 DEF Here, Coming, Walking
<1>11. \A m : m = h => On(m)' = On(m) \ {w}
  BY <1>0, <1>6, <1>7, SetsOf DEF Follows
<1>12. \A m : m # h => On(m)' = On(m)
  BY <1>0, <1>8, SetsOf DEF Follows
<1>13. \A m : Here(m)' = Here(m) /\ Coming(m)' = Coming(m)
  BY <1>0, <1>10, SetsOf DEF Follows
<1>14. Active' \subseteq Active /\ Unended' = Unended
  BY <1>0, <1>9, SetsOf DEF Follows
<1> QED
  BY <1>6, <1>11, <1>12, <1>13, <1>14

LEMMA CommitSets ==
  ASSUME TreeType, StateType, PathInv, NEW w \in Workers, Commit(w)
  PROVE  /\ Active' \subseteq Active /\ w \in Unended /\ Unended' = Unended \ {w}
         /\ At(w) # Root /\ At(w) \in DOMAIN tree
         /\ \A m : /\ m = At(w) => w \in Here(m) /\ Here(m)' = Here(m) \ {w}
                   /\ m # At(w) => Here(m)' = Here(m)
                   /\ On(m)' = On(m) /\ Coming(m)' = Coming(m)
<1>0. Working(w)
  BY DEF Working
<1>1. wpc[w] \in {"over", "commit"} /\ wpc'[w] = "backup" /\ path' = path
  BY DEF Commit, StateType
<1>2. At(w) # Root /\ At(w) \in DOMAIN tree
  BY <1>1, AtNode DEF PathInv, Leaf, Idle
<1>3. w \in Unended /\ w \notin Unended' /\ w \in Active
  BY <1>1 DEF Unended, Active, Idle, Walking, Leaf
<1>4. \A m : (w \in Here(m) <=> m = At(w)) /\ w \notin Here(m)'
  BY <1>3 DEF Here
<1>5. \A m : On(m)' = On(m)
  BY <1>1 DEF On
<1>6. \A m : w \notin Coming(m) /\ w \notin Coming(m)'
  BY <1>1 DEF Coming, Walking
<1>7. Active' \subseteq Active /\ Unended' = Unended \ {w}
  BY <1>0, <1>3, SetsOf DEF Follows
<1>8. \A m : /\ m = At(w) => w \in Here(m) /\ Here(m)' = Here(m) \ {w}
             /\ m # At(w) => Here(m)' = Here(m)
  BY <1>0, <1>4, SetsOf DEF Follows
<1>9. \A m : Coming(m)' = Coming(m)
  BY <1>0, <1>6, SetsOf DEF Follows
<1> QED
  BY <1>2, <1>3, <1>5, <1>7, <1>8, <1>9

\* The steps of a worker that stays in its node, and those that give its rollout up.
Stays(w) == Exit(w) \/ Query(w) \/ Check(w) \/ Add(w) \/ SendJob(w) \/ (Await(w) /\ ~failed)
Fails(w) == Breaks(w) \/ (Await(w) /\ failed)

LEMMA StaySets ==
  ASSUME TreeType, StateType, PathInv, NEW w \in Workers, Stays(w)
  PROVE  /\ Active' \subseteq Active /\ Unended' = Unended /\ taken' = taken /\ failed' = failed
         /\ \A m : On(m)' = On(m) /\ Here(m)' = Here(m) /\ Coming(m)' \subseteq Coming(m)
<1>0. Working(w)
  BY DEF Working, Stays
<1>1. path' = path /\ taken' = taken /\ failed' = failed
  BY DEF Stays, Exit, Query, Check, Add, SendJob, Await, work
<1>2. /\ wpc'[w] \notin Idle => wpc[w] \notin Idle
      /\ wpc'[w] \in Walking => wpc[w] \in Walking
      /\ wpc'[w] \in Walking \cup Leaf <=> wpc[w] \in Walking \cup Leaf
  BY DEF Stays, Exit, Query, Check, Add, SendJob, Await, Idle, Walking, Leaf, StateType
<1>3. (w \in Unended' <=> w \in Unended) /\ (w \in Active' => w \in Active)
  BY <1>2 DEF Unended, Active
<1>4. At(w)' = At(w) /\ \A m : On(m)' = On(m)
  BY <1>1 DEF At, On
<1>5. \A m : (w \in Here(m)' <=> w \in Here(m)) /\ (w \in Coming(m)' => w \in Coming(m))
  BY <1>2, <1>3, <1>4 DEF Here, Coming
<1>6. Active' \subseteq Active /\ Unended' = Unended
  BY <1>0, <1>3, SetsOf DEF Follows
<1>7. \A m : Here(m)' = Here(m) /\ Coming(m)' \subseteq Coming(m)
  BY <1>0, <1>5, SetsOf DEF Follows
<1> QED
  BY <1>1, <1>4, <1>6, <1>7

LEMMA FailSets ==
  ASSUME StateType, NEW w \in Workers, Fails(w)
  PROVE  /\ Active' \subseteq Active /\ Unended' \subseteq Unended /\ taken' = taken /\ failed'
         /\ \A m : On(m)' \subseteq On(m) /\ Coming(m)' \subseteq Coming(m)
         /\ tree' = tree
<1>0. Working(w)
  BY DEF Working, Fails
<1>1. Leaves(w) /\ tree' = tree /\ taken' = taken /\ failed'
  BY DEF Fails, Breaks, Await, work
<1>2. wpc'[w] = "pull" /\ path'[w] = <<>>
  BY <1>1 DEF Leaves, StateType
<1>3. w \notin Active' /\ w \notin Unended' /\ \A m : w \notin On(m)' /\ w \notin Coming(m)'
  BY <1>2 DEF Active, Unended, Idle, Walking, Leaf, On, Coming
<1>4. Active' \subseteq Active /\ Unended' \subseteq Unended
  BY <1>0, <1>3, SetsOf DEF Follows
<1>5. \A m : On(m)' \subseteq On(m) /\ Coming(m)' \subseteq Coming(m)
  BY <1>0, <1>3, SetsOf DEF Follows
<1> QED
  BY <1>1, <1>4, <1>5

\* What stays when nobody moves.
LEMMA SetsElsewhere ==
  ASSUME UNCHANGED <<wpc, path>>
  PROVE  /\ Active' = Active /\ Unended' = Unended
         /\ \A m : On(m)' = On(m) /\ Here(m)' = Here(m) /\ Coming(m)' = Coming(m)
<1>1. Active' = Active /\ Unended' = Unended
  BY DEF Active, Unended
<1>2. \A w \in Workers : At(w)' = At(w)
  BY DEF At
<1>3. ASSUME NEW m PROVE On(m)' = On(m) /\ Here(m)' = Here(m) /\ Coming(m)' = Coming(m)
  <2>1. On(m)' = On(m)
    BY DEF On
  <2>2. Here(m)' = Here(m)
    BY <1>1, <1>2 DEF Here, Unended
  <2>3. Coming(m)' = Coming(m)
    BY <1>2 DEF Coming
  <2> QED
    BY <2>1, <2>2, <2>3
<1> QED
  BY <1>1, <1>3

\* The steps of the search, by what they do to the tree.
LEMMA Steps ==
  ASSUME [Next]_vars
  PROVE  \/ \E w \in Workers : \/ (Pull(w) /\ ~failed) \/ Descend(w) \/ Backup(w) \/ Commit(w)
                               \/ Stays(w) \/ Fails(w) \/ (Pull(w) /\ failed)
         \/ Feed \/ Return \/ Sending \/ Receiving \/ UNCHANGED vars
  BY DEF Next, Working, Stays, Fails

(***************************************************************************)
(* The counters of the nodes against the workers.                          *)
(***************************************************************************)
By(o, m, d) == IF o = m THEN d ELSE 0
Counters(m, dn, dv, de) ==
  /\ m \in DOMAIN tree /\ DOMAIN tree \subseteq DOMAIN tree'
  /\ \A o \in DOMAIN tree : /\ tree'[o].n = tree[o].n + By(o, m, dn)
                            /\ tree'[o].vl = tree[o].vl + By(o, m, dv)
                            /\ tree'[o].ends = tree[o].ends + By(o, m, de)
                            /\ tree[o].n \in Nat /\ tree[o].vl \in Int /\ tree[o].ends \in Nat
  /\ \A o \in DOMAIN tree' \ DOMAIN tree : tree'[o] = Node

LEMMA CountersOf ==
  ASSUME TreeType, NEW m \in DOMAIN tree, NEW new, NEW dn, NEW dv, NEW de,
         Moved(tree, tree', m, new, dn, dv, de)
  PROVE  Counters(m, dn, dv, de)
<1>1. DOMAIN tree \subseteq DOMAIN tree' /\ \A o \in DOMAIN tree' \ DOMAIN tree : tree'[o] = Node
  BY MovedKeeps
<1>2. \A o \in DOMAIN tree : tree[o].n \in Nat /\ tree[o].vl \in Int /\ tree[o].ends \in Nat
  BY TreeDomain, NodeFields
<1>3. ASSUME NEW o \in DOMAIN tree
      PROVE  /\ tree'[o].n = tree[o].n + By(o, m, dn) /\ tree'[o].vl = tree[o].vl + By(o, m, dv)
             /\ tree'[o].ends = tree[o].ends + By(o, m, de)
  <2>1. CASE o = m
    BY <2>1 DEF Moved, Counts, By
  <2>2. CASE o # m
    <3>1. tree'[o] = tree[o]
      BY <2>2 DEF Moved
    <3> QED
      BY <2>2, <3>1, <1>2 DEF By
  <2> QED
    BY <2>1, <2>2
<1> QED
  BY <1>1, <1>2, <1>3 DEF Counters

LEMMA CountersStill ==
  ASSUME TreeType, tree' = tree
  PROVE  Counters(Root, 0, 0, 0)
<1>1. \A o \in DOMAIN tree : tree[o].n \in Nat /\ tree[o].vl \in Int /\ tree[o].ends \in Nat
  BY TreeDomain, NodeFields
<1> QED
  BY <1>1, TreeDomain DEF Counters, By

LEMMA StayCounters ==
  ASSUME TreeType, StateType, PathInv, NEW w \in Workers, Stays(w)
  PROVE  \E m \in DOMAIN tree : Counters(m, 0, 0, 0)
<1>1. CASE Add(w)
  <2>1. At(w) \in DOMAIN tree
    BY <1>1, AtNode DEF Add, Idle
  <2> QED
    BY <1>1, <2>1, AddMoves, CountersOf
<1>2. CASE ~Add(w)
  <2>1. tree' = tree
    BY <1>2 DEF Stays, Exit, Query, Check, SendJob, Await
  <2> QED
    BY <2>1, CountersStill, TreeDomain
<1> QED
  BY <1>1, <1>2

LEMMA Nowhere ==
  ASSUME TreeType, StateType, PathInv, NEW o, o \notin DOMAIN tree
  PROVE  On(o) = {} /\ Here(o) = {}
<1>1. On(o) = {}
  BY DEF On, PathInv
<1>2. \A w \in Unended : At(w) \in DOMAIN tree
  <2> SUFFICES ASSUME NEW w \in Unended PROVE At(w) \in DOMAIN tree
    OBVIOUS
  <2>1. w \in Workers /\ wpc[w] \notin Idle
    BY DEF Unended, Idle, Walking, Leaf
  <2> QED
    BY <2>1, AtNode
<1> QED
  BY <1>1, <1>2 DEF Here

\* Cardinalities are numbers.
LEMMA Numbers ==
  /\ Cardinality(Active) \in Nat /\ Cardinality(Unended) \in Nat
  /\ Cardinality(Active') \in Nat /\ Cardinality(Unended') \in Nat
  /\ \A m : /\ Cardinality(On(m)) \in Nat /\ Cardinality(On(m)') \in Nat
            /\ Cardinality(Here(m)) \in Nat /\ Cardinality(Here(m)') \in Nat
            /\ Cardinality(Coming(m)) \in Nat /\ Cardinality(Coming(m)') \in Nat
            /\ Cardinality(Coming(m)') <= Cardinality(Active')
  /\ Cardinality(Unended') <= Cardinality(Active')
<1>1. /\ Active \in SUBSET Workers /\ Unended \in SUBSET Workers
      /\ Active' \in SUBSET Workers /\ Unended' \in SUBSET Workers /\ Unended' \subseteq Active'
  BY DEF Active, Unended, Idle, Walking, Leaf
<1>2. ASSUME NEW m
      PROVE  /\ On(m) \in SUBSET Workers /\ On(m)' \in SUBSET Workers
             /\ Here(m) \in SUBSET Workers /\ Here(m)' \in SUBSET Workers
             /\ Coming(m) \in SUBSET Workers /\ Coming(m)' \in SUBSET Workers
             /\ Coming(m)' \subseteq Active'
  BY DEF On, Here, Coming, Unended, Active, Idle, Walking
<1>3. ASSUME NEW m
      PROVE  /\ Cardinality(On(m)) \in Nat /\ Cardinality(On(m)') \in Nat
             /\ Cardinality(Here(m)) \in Nat /\ Cardinality(Here(m)') \in Nat
             /\ Cardinality(Coming(m)) \in Nat /\ Cardinality(Coming(m)') \in Nat
             /\ Cardinality(Coming(m)') <= Cardinality(Active')
  <2>1. Cardinality(On(m)) \in Nat /\ Cardinality(On(m)') \in Nat
    BY <1>2, Counting
  <2>2. Cardinality(Here(m)) \in Nat /\ Cardinality(Here(m)') \in Nat
    BY <1>2, Counting
  <2>3. Cardinality(Coming(m)) \in Nat /\ Cardinality(Coming(m)') \in Nat
    BY <1>2, Counting
  <2>4. Cardinality(Coming(m)') <= Cardinality(Active')
    BY <1>1, <1>2, Counting
  <2> QED
    BY <2>1, <2>2, <2>3, <2>4
<1>4. Cardinality(Active) \in Nat /\ Cardinality(Unended) \in Nat
  BY <1>1, Counting
<1>5. Cardinality(Active') \in Nat /\ Cardinality(Unended') \in Nat
      /\ Cardinality(Unended') <= Cardinality(Active')
  BY <1>1, Counting
<1> QED
  BY <1>3, <1>4, <1>5

LEMMA StartedBy ==
  ASSUME Started, taken \in Nat, taken' \in Nat, NEW m, NEW dn, NEW dv, NEW de \in Int,
         Counters(m, dn, dv, de),
         Cardinality(Active') <= Cardinality(Active) + (taken' - taken),
         Cardinality(Unended') <= Cardinality(Unended) + (taken' - taken),
         Cardinality(Unended') + de <= Cardinality(Unended) + (taken' - taken)
  PROVE  Started'
<1>1. Cardinality(Active') <= taken' /\ Cardinality(Unended') <= taken'
  BY Numbers DEF Started
<1>2. ASSUME NEW o \in DOMAIN tree PROVE tree'[o].ends + Cardinality(Unended') <= taken'
  <2>1. tree[o].ends + Cardinality(Unended) <= taken
    BY DEF Started
  <2>2. tree'[o].ends = tree[o].ends + By(o, m, de) /\ tree[o].ends \in Nat
    BY DEF Counters
  <2>3. By(o, m, de) = de \/ By(o, m, de) = 0
    BY DEF By
  <2> QED
    BY <2>1, <2>2, <2>3, Numbers
<1>3. ASSUME NEW o \in DOMAIN tree' \ DOMAIN tree
      PROVE  tree'[o].ends + Cardinality(Unended') <= taken'
  <2>1. tree'[o].ends = 0
    BY DEF Counters, Node
  <2> QED
    BY <1>1, <2>1, Numbers
<1> QED
  BY <1>1, <1>2, <1>3 DEF Started

LEMMA LossesBy ==
  ASSUME Losses, failed => failed', NEW m, NEW dn, NEW dv \in Int, NEW de,
         Counters(m, dn, dv, de),
         \A o \in DOMAIN tree :
           /\ Cardinality(On(o)') <= Cardinality(On(o)) + By(o, m, dv)
           /\ ~failed' => Cardinality(On(o)') = Cardinality(On(o)) + By(o, m, dv),
         \A o : o \notin DOMAIN tree => On(o)' = {}
  PROVE  Losses'
<1>1. ASSUME NEW o \in DOMAIN tree
      PROVE  /\ tree'[o].vl >= Cardinality(On(o)')
             /\ ~failed' => tree'[o].vl = Cardinality(On(o)')
  <2>1. tree[o].vl >= Cardinality(On(o)) /\ (~failed => tree[o].vl = Cardinality(On(o)))
    BY DEF Losses
  <2>2. tree'[o].vl = tree[o].vl + By(o, m, dv) /\ tree[o].vl \in Int /\ By(o, m, dv) \in Int
    BY DEF Counters, By
  <2> QED
    BY <2>1, <2>2, Numbers
<1>2. ASSUME NEW o \in DOMAIN tree' \ DOMAIN tree
      PROVE  /\ tree'[o].vl >= Cardinality(On(o)')
             /\ ~failed' => tree'[o].vl = Cardinality(On(o)')
  <2>2. On(o)' = {}
    OBVIOUS
  <2>3. Cardinality(On(o)') = 0
    BY <2>2, FS_EmptySet
  <2>1. tree'[o].vl = 0 /\ Cardinality(On(o)') = 0
    BY <2>3 DEF Counters, Node
  <2> QED
    BY <2>1
<1> QED
  BY <1>1, <1>2 DEF Losses

LEMMA BoundedBy ==
  ASSUME Bounded, Started', taken \in Nat, taken' \in Nat,
         NEW m, NEW dn \in Int, NEW dv \in Int, NEW de, Counters(m, dn, dv, de),
         \A o \in DOMAIN tree :
           Cardinality(Coming(o)') + By(o, m, dn + dv) <= Cardinality(Coming(o)) + (taken' - taken)
  PROVE  Bounded'
<1>1. ASSUME NEW o \in DOMAIN tree PROVE Seen(o)' + Cardinality(Coming(o)') <= taken'
  <2>1. Seen(o) + Cardinality(Coming(o)) <= taken
    BY DEF Bounded
  <2>2. /\ Seen(o) = tree[o].n + tree[o].vl /\ tree[o].n \in Int /\ tree[o].vl \in Int
        /\ Seen(o)' = (tree[o].n + By(o, m, dn)) + (tree[o].vl + By(o, m, dv))
    BY DEF Counters, Seen
  <2>3. By(o, m, dn) + By(o, m, dv) = By(o, m, dn + dv)
        /\ By(o, m, dn) \in Int /\ By(o, m, dv) \in Int
    BY DEF By
  <2>4. Seen(o)' = Seen(o) + By(o, m, dn + dv) /\ Seen(o) \in Int /\ By(o, m, dn + dv) \in Int
    BY <2>2, <2>3
  <2> QED
    BY <2>1, <2>4, Numbers
<1>2. ASSUME NEW o \in DOMAIN tree' \ DOMAIN tree
      PROVE  Seen(o)' + Cardinality(Coming(o)') <= taken'
  <2>1. Seen(o)' = 0
    BY DEF Counters, Node, Seen
  <2>2. Cardinality(Coming(o)') <= Cardinality(Active') /\ Cardinality(Active') <= taken'
    BY Numbers DEF Started
  <2> QED
    BY <2>1, <2>2, Numbers
<1> QED
  BY <1>1, <1>2 DEF Bounded

\* Every step counts: a rollout is started by Pull, and ends by Commit.
LEMMA CountStep == IInv /\ [Next]_vars => Started' /\ Losses' /\ Bounded'
<1> SUFFICES ASSUME IInv, [Next]_vars PROVE Started' /\ Losses' /\ Bounded'
  OBVIOUS
<1>0. /\ TreeType /\ Shape /\ StateType /\ PathInv /\ Started /\ Losses /\ Bounded
      /\ taken \in Nat
  BY DEF IInv, StateType
<1>1. ASSUME NEW w \in Workers, Pull(w), ~failed PROVE Started' /\ Losses' /\ Bounded'
  <2>1. taken' = taken + 1 /\ taken' \in Nat /\ taken' - taken = 1 /\ failed' = failed
    BY <1>0, <1>1 DEF Pull
  <2>2. Counters(Root, 0, 1, 0)
    BY <1>0, <1>1, PullMoves, CountersOf, TreeDomain
  <2>3. /\ w \notin Active /\ Active' = Active \cup {w}
        /\ w \notin Unended /\ Unended' = Unended \cup {w}
        /\ w \notin On(Root) /\ On(Root)' = On(Root) \cup {w}
        /\ \A m : m # Root => On(m)' = On(m)
        /\ Coming(Root)' = Coming(Root) /\ \A m : Coming(m)' \subseteq Coming(m) \cup {w}
    BY <1>0, <1>1, PullSets
  <2>4. /\ Cardinality(Active') = Cardinality(Active) + 1
        /\ Cardinality(Unended') = Cardinality(Unended) + 1
    BY <2>3, Counted, Counting
  <2>5. Started'
    BY <1>0, <2>1, <2>2, <2>4, StartedBy, Numbers
  <2>6. ASSUME NEW o PROVE Cardinality(On(o)') = Cardinality(On(o)) + By(o, Root, 1)
    <3>1. CASE o = Root
      BY <3>1, <2>3, Counted, Counting DEF By
    <3>2. CASE o # Root
      BY <3>2, <2>3, Numbers DEF By
    <3> QED
      BY <3>1, <3>2
  <2>7. \A o : o \notin DOMAIN tree => On(o)' = {}
    BY <1>0, <2>3, Nowhere, TreeDomain
  <2>8. \A o \in DOMAIN tree :
          /\ Cardinality(On(o)') <= Cardinality(On(o)) + By(o, Root, 1)
          /\ ~failed' => Cardinality(On(o)') = Cardinality(On(o)) + By(o, Root, 1)
    BY <2>6, Numbers
  <2>9. Losses'
    BY <1>0, <2>1, <2>2, <2>7, <2>8, LossesBy
  <2>10. ASSUME NEW o \in DOMAIN tree
         PROVE  Cardinality(Coming(o)') + By(o, Root, 0 + 1)
                  <= Cardinality(Coming(o)) + (taken' - taken)
    <3>1. CASE o = Root
      BY <3>1, <2>1, <2>3, Numbers DEF By
    <3>2. CASE o # Root
      <4>1. Coming(o) \in SUBSET Workers /\ Coming(o)' \in SUBSET Workers
        BY Counted DEF Coming
      <4>2. Coming(o)' \subseteq Coming(o) \cup {w}
        BY <2>3
      <4>3. Cardinality(Coming(o)') <= Cardinality(Coming(o)) + 1
        BY <4>1, <4>2, Counting
      <4> QED
        BY <3>2, <4>3, <2>1, Numbers DEF By
    <3> QED
      BY <3>1, <3>2
  <2>11. Bounded'
    BY <1>0, <2>1, <2>2, <2>5, <2>10, BoundedBy
  <2> QED
    BY <2>5, <2>9, <2>11
<1>2. ASSUME NEW w \in Workers, Descend(w) PROVE Started' /\ Losses' /\ Bounded'
  <2>1. PICK k \in tree[At(w)].kids :
          /\ k[2] \in DOMAIN tree /\ At(w) < k[2]
          /\ path' = [path EXCEPT ![w] = Append(@, k[2])]
          /\ Moved(tree, tree', k[2], {}, 0, 1, 0)
    BY <1>0, <1>2, DescendMoves
  <2> PICK m : m = k[2]
    OBVIOUS
  <2>2. m \in DOMAIN tree /\ Counters(m, 0, 1, 0)
    BY <1>0, <2>1, CountersOf
  <2>3. /\ Active' = Active /\ Unended' = Unended
        /\ w \notin On(m) /\ On(m)' = On(m) \cup {w}
        /\ \A o : o # m => On(o)' = On(o)
        /\ w \in Coming(m) /\ Coming(m)' = Coming(m) \ {w}
        /\ \A o \in DOMAIN tree : Coming(o)' \subseteq Coming(o)
    BY <1>0, <1>2, <2>1, <2>2, DescendSets
  <2>4. taken' = taken /\ failed' = failed /\ taken' - taken = 0
    BY <1>0, <1>2 DEF Descend, work
  <2>5. Started'
    BY <1>0, <2>2, <2>3, <2>4, StartedBy, Numbers
  <2>6. ASSUME NEW o PROVE Cardinality(On(o)') = Cardinality(On(o)) + By(o, m, 1)
    <3>1. CASE o = m
      BY <3>1, <2>3, Counted, Counting DEF By
    <3>2. CASE o # m
      BY <3>2, <2>3, Numbers DEF By
    <3> QED
      BY <3>1, <3>2
  <2>7. \A o : o \notin DOMAIN tree => On(o)' = {}
    BY <1>0, <2>2, <2>3, Nowhere
  <2>8. \A o \in DOMAIN tree :
          /\ Cardinality(On(o)') <= Cardinality(On(o)) + By(o, m, 1)
          /\ ~failed' => Cardinality(On(o)') = Cardinality(On(o)) + By(o, m, 1)
    BY <2>6, Numbers
  <2>9. Losses'
    BY <1>0, <2>2, <2>4, <2>7, <2>8, LossesBy
  <2>10. ASSUME NEW o \in DOMAIN tree
         PROVE  Cardinality(Coming(o)') + By(o, m, 0 + 1)
                  <= Cardinality(Coming(o)) + (taken' - taken)
    <3>0. Coming(o) \in SUBSET Workers /\ Coming(o)' \in SUBSET Workers
      BY Counted DEF Coming
    <3>1. CASE o = m
      <4>1. Cardinality(Coming(o)') + 1 <= Cardinality(Coming(o))
        BY <3>0, <3>1, <2>3, Counting
      <4> QED
        BY <4>1, <3>1, <2>4, Numbers DEF By
    <3>2. CASE o # m
      <4>1. Cardinality(Coming(o)') <= Cardinality(Coming(o))
        BY <3>0, <2>3, Counting
      <4> QED
        BY <4>1, <3>2, <2>4, Numbers DEF By
    <3> QED
      BY <3>1, <3>2
  <2>11. Bounded'
    BY <1>0, <2>2, <2>4, <2>5, <2>10, BoundedBy
  <2> QED
    BY <2>5, <2>9, <2>11
<1>3. ASSUME NEW w \in Workers, Backup(w) PROVE Started' /\ Losses' /\ Bounded'
  <2> PICK m : m = Head(path[w])
    OBVIOUS
  <2>1. m \in DOMAIN tree
    <3>1. wpc[w] \notin Idle
      BY <1>3 DEF Backup, Idle
    <3> QED
      BY <1>0, <3>1, AtNode
  <2>2. Counters(m, 1, -1, 0)
    BY <1>0, <1>3, <2>1, BackupMoves, CountersOf
  <2>3. /\ Active' \subseteq Active /\ Unended' = Unended
        /\ w \in On(m) /\ On(m)' = On(m) \ {w}
        /\ \A o : (o # m => On(o)' = On(o)) /\ Coming(o)' = Coming(o)
    BY <1>0, <1>3, BackupSets
  <2>4. taken' = taken /\ failed' = failed /\ taken' - taken = 0
    BY <1>0, <1>3 DEF Backup, work
  <2>12. Cardinality(Active') <= Cardinality(Active)
    BY <2>3, Counted, Counting
  <2>5. Started'
    BY <1>0, <2>2, <2>3, <2>4, <2>12, StartedBy, Numbers
  <2>6. ASSUME NEW o PROVE Cardinality(On(o)') = Cardinality(On(o)) + By(o, m, -1)
    <3>1. CASE o = m
      <4>1. Cardinality(On(o)') = Cardinality(On(o)) - 1
        BY <3>1, <2>3, Counted, Counting
      <4> QED
        BY <4>1, <3>1, Numbers DEF By
    <3>2. CASE o # m
      BY <3>2, <2>3, Numbers DEF By
    <3> QED
      BY <3>1, <3>2
  <2>7. \A o : o \notin DOMAIN tree => On(o)' = {}
    BY <1>0, <2>1, <2>3, Nowhere
  <2>8. \A o \in DOMAIN tree :
          /\ Cardinality(On(o)') <= Cardinality(On(o)) + By(o, m, -1)
          /\ ~failed' => Cardinality(On(o)') = Cardinality(On(o)) + By(o, m, -1)
    BY <2>6, Numbers
  <2>9. Losses'
    BY <1>0, <2>2, <2>4, <2>7, <2>8, LossesBy
  <2>10. ASSUME NEW o \in DOMAIN tree
         PROVE  Cardinality(Coming(o)') + By(o, m, 1 + (-1))
                  <= Cardinality(Coming(o)) + (taken' - taken)
    BY <2>3, <2>4, Numbers DEF By
  <2>11. Bounded'
    BY <1>0, <2>2, <2>4, <2>5, <2>10, BoundedBy
  <2> QED
    BY <2>5, <2>9, <2>11
<1>4. ASSUME NEW w \in Workers, Commit(w) PROVE Started' /\ Losses' /\ Bounded'
  <2>1. /\ Active' \subseteq Active /\ w \in Unended /\ Unended' = Unended \ {w}
        /\ At(w) \in DOMAIN tree /\ \A o : On(o)' = On(o) /\ Coming(o)' = Coming(o)
    BY <1>0, <1>4, CommitSets
  <2> PICK m : m = At(w)
    OBVIOUS
  <2>2. Counters(m, 0, 0, 1)
    BY <1>0, <1>4, <2>1, CommitMoves, CountersOf
  <2>3. taken' = taken /\ failed' = failed /\ taken' - taken = 0
    BY <1>0, <1>4 DEF Commit, work
  <2>4. /\ Cardinality(Active') <= Cardinality(Active)
        /\ Cardinality(Unended') + 1 <= Cardinality(Unended)
    BY <2>1, Counted, Counting
  <2>5. Started'
    BY <1>0, <2>2, <2>3, <2>4, StartedBy, Numbers
  <2>6. \A o : o \notin DOMAIN tree => On(o)' = {}
    BY <1>0, <2>1, Nowhere
  <2>7. Losses'
    BY <1>0, <2>1, <2>2, <2>3, <2>6, LossesBy, Numbers DEF By
  <2>8. Bounded'
    BY <1>0, <2>1, <2>2, <2>3, <2>5, BoundedBy, Numbers DEF By
  <2> QED
    BY <2>5, <2>7, <2>8
<1>5. ASSUME NEW w \in Workers, Stays(w) PROVE Started' /\ Losses' /\ Bounded'
  <2>1. /\ Active' \subseteq Active /\ Unended' = Unended /\ taken' = taken /\ failed' = failed
        /\ \A o : On(o)' = On(o) /\ Coming(o)' \subseteq Coming(o)
    BY <1>0, <1>5, StaySets
  <2>2. PICK m \in DOMAIN tree : Counters(m, 0, 0, 0)
    BY <1>0, <1>5, StayCounters
  <2>3. taken' - taken = 0
    BY <1>0, <2>1
  <2>4. Cardinality(Active') <= Cardinality(Active)
    BY <2>1, Counted, Counting
  <2>5. Started'
    BY <1>0, <2>1, <2>2, <2>3, <2>4, StartedBy, Numbers
  <2>6. \A o : o \notin DOMAIN tree => On(o)' = {}
    BY <1>0, <2>1, Nowhere
  <2>7. Losses'
    BY <1>0, <2>1, <2>2, <2>6, LossesBy, Numbers DEF By
  <2>8. \A o : Cardinality(Coming(o)') <= Cardinality(Coming(o))
    <3> SUFFICES ASSUME NEW o PROVE Cardinality(Coming(o)') <= Cardinality(Coming(o))
      OBVIOUS
    <3>1. Coming(o) \in SUBSET Workers /\ Coming(o)' \in SUBSET Workers
      BY DEF Coming
    <3> QED
      BY <2>1, <3>1, Counting
  <2>9. Bounded'
    BY <1>0, <2>1, <2>2, <2>3, <2>5, <2>8, BoundedBy, Numbers DEF By
  <2> QED
    BY <2>5, <2>7, <2>9
<1>6. ASSUME NEW w \in Workers, Fails(w) PROVE Started' /\ Losses' /\ Bounded'
  <2>1. /\ Active' \subseteq Active /\ Unended' \subseteq Unended /\ taken' = taken /\ failed'
        /\ \A o : On(o)' \subseteq On(o) /\ Coming(o)' \subseteq Coming(o)
        /\ tree' = tree
    BY <1>0, <1>6, FailSets
  <2>2. Counters(Root, 0, 0, 0)
    BY <1>0, <2>1, CountersStill
  <2>3. taken' - taken = 0
    BY <1>0, <2>1
  <2>4. /\ Cardinality(Active') <= Cardinality(Active)
        /\ Cardinality(Unended') <= Cardinality(Unended)
    <3>1. Active' \in SUBSET Workers /\ Unended' \in SUBSET Workers
      BY DEF Active, Unended
    <3> QED
      BY <2>1, <3>1, Counted, Counting
  <2>5. Started'
    BY <1>0, <2>1, <2>2, <2>3, <2>4, StartedBy, Numbers
  <2>6. \A o : o \notin DOMAIN tree => On(o)' = {}
    BY <1>0, <2>1, Nowhere
  <2>7. \A o : /\ Cardinality(Coming(o)') <= Cardinality(Coming(o))
               /\ Cardinality(On(o)') <= Cardinality(On(o))
    <3> SUFFICES ASSUME NEW o PROVE /\ Cardinality(Coming(o)') <= Cardinality(Coming(o))
                                    /\ Cardinality(On(o)') <= Cardinality(On(o))
      OBVIOUS
    <3>1. /\ Coming(o) \in SUBSET Workers /\ Coming(o)' \in SUBSET Workers
          /\ On(o) \in SUBSET Workers /\ On(o)' \in SUBSET Workers
      BY DEF Coming, On
    <3> QED
      BY <2>1, <3>1, Counting
  <2>8. Losses'
    BY <1>0, <2>1, <2>2, <2>6, <2>7, LossesBy, Numbers DEF By
  <2>9. Bounded'
    BY <1>0, <2>1, <2>2, <2>3, <2>5, <2>7, BoundedBy, Numbers DEF By
  <2> QED
    BY <2>5, <2>8, <2>9
<1>7. CASE (\E w \in Workers : Pull(w) /\ failed) \/ Feed \/ Return \/ Sending \/ Receiving
           \/ UNCHANGED vars
  <2>1. UNCHANGED <<tree, wpc, path>> /\ (taken' = taken \/ taken' = taken + 1)
        /\ (failed => failed')
    <3>1. CASE \E w \in Workers : Pull(w) /\ failed
      BY <3>1 DEF Pull, rollout
    <3>2. CASE Feed \/ Return \/ Sending \/ Receiving \/ UNCHANGED vars
      BY <3>2, Elsewhere
    <3> QED
      BY <1>7, <3>1, <3>2
  <2>2. /\ Active' = Active /\ Unended' = Unended
        /\ \A o : On(o)' = On(o) /\ Coming(o)' = Coming(o)
    BY <2>1, SetsElsewhere
  <2>3. taken <= taken' /\ taken' \in Nat /\ tree' = tree
    BY <1>0, <2>1
  <2>4. \A o \in DOMAIN tree : Seen(o)' = Seen(o) /\ Seen(o) \in Int /\ tree[o].ends \in Nat
    BY <1>0, <2>3, TreeDomain, NodeFields DEF Seen
  <2>5. Started'
    BY <1>0, <2>2, <2>3, <2>4, Numbers DEF Started
  <2>6. Losses'
    BY <1>0, <2>1, <2>2, <2>3 DEF Losses
  <2>7. Bounded'
    BY <1>0, <2>2, <2>3, <2>4, Numbers DEF Bounded
  <2> QED
    BY <2>5, <2>6, <2>7
<1> QED
  BY <1>1, <1>2, <1>3, <1>4, <1>5, <1>6, <1>7, Steps

(***************************************************************************)
(* Who came to a node is there, ended there or went on.                    *)
(***************************************************************************)
LEMMA SeenNat ==
  ASSUME TreeType, Losses, NEW o \in DOMAIN tree
  PROVE  Seen(o) \in Nat
<1>1. tree[o].n \in Nat /\ tree[o].vl \in Int
  BY TreeDomain, NodeFields
<1>2. tree[o].vl >= Cardinality(On(o)) /\ Cardinality(On(o)) \in Nat
  BY Numbers DEF Losses
<1> QED
  BY <1>1, <1>2 DEF Seen

LEMMA KidNodes ==
  ASSUME TreeType, Shape, NEW o \in DOMAIN tree, NEW k \in tree[o].kids
  PROVE  k[2] \in DOMAIN tree /\ k[2] \in Nat /\ o < k[2]
<1>1. tree[o].kids \in SUBSET (Entries \X Nat)
  BY TreeDomain, NodeFields
<1>2. k[2] \in Nat
  BY <1>1
<1>3. o < k[2] /\ k[2] <= Len(tree) /\ o \in Nat /\ o >= 1
  BY TreeDomain DEF Shape, KidsLater
<1> QED
  BY <1>2, <1>3, TreeDomain

LEMMA IntoFinite ==
  ASSUME TreeType, Shape, NEW o \in DOMAIN tree
  PROVE  IsFiniteSet(Into(o)) /\ Cardinality(Into(o)) \in Nat
<1> DEFINE number == [k \in tree[o].kids |-> k[2]]
<1>1. \A k \in tree[o].kids : k[2] \in 1 .. Len(tree)
  BY KidNodes, TreeDomain
<1>2. \A k, l \in tree[o].kids : k[2] = l[2] => k = l
  BY DEF Shape, OneEach
<1>3. IsFiniteSet(1 .. Len(tree)) /\ IsFiniteSet(1 .. NRollouts)
  <2>1. Len(tree) \in Int /\ NRollouts \in Int
    BY TreeDomain, TreeSearchAssumption
  <2> QED
    BY <2>1, FS_Interval
<1>4. number \in Injection(tree[o].kids, 1 .. Len(tree))
  BY <1>1, <1>2 DEF Injection, IsInjective
<1>6. IsFiniteSet(tree[o].kids)
  BY <1>3, <1>4, FS_Injection
<1>7. IsFiniteSet(tree[o].kids \X (1 .. NRollouts))
  BY <1>3, <1>6, FS_Product
<1>8. Into(o) \subseteq tree[o].kids \X (1 .. NRollouts)
  BY DEF Into
<1> QED
  BY <1>7, <1>8, FS_Subset, FS_CardinalityType

LEMMA SeenMoves ==
  ASSUME TreeType, Shape, NEW m, NEW dn \in Int, NEW dv \in Int, NEW de, Counters(m, dn, dv, de)
  PROVE  /\ \A o \in DOMAIN tree : Seen(o)' = Seen(o) + By(o, m, dn + dv)
         /\ \A o \in DOMAIN tree : tree'[o].ends = tree[o].ends + By(o, m, de)
         /\ \A o \in DOMAIN tree' \ DOMAIN tree :
              Seen(o)' = 0 /\ tree'[o].ends = 0 /\ Cardinality(Into(o)') = 0
<1>1. ASSUME NEW o \in DOMAIN tree PROVE Seen(o)' = Seen(o) + By(o, m, dn + dv)
  <2>1. /\ Seen(o) = tree[o].n + tree[o].vl /\ tree[o].n \in Int /\ tree[o].vl \in Int
        /\ Seen(o)' = (tree[o].n + By(o, m, dn)) + (tree[o].vl + By(o, m, dv))
    BY DEF Counters, Seen
  <2>2. By(o, m, dn) + By(o, m, dv) = By(o, m, dn + dv)
        /\ By(o, m, dn) \in Int /\ By(o, m, dv) \in Int
    BY DEF By
  <2> QED
    BY <2>1, <2>2
<1>2. ASSUME NEW o \in DOMAIN tree' \ DOMAIN tree
      PROVE  Seen(o)' = 0 /\ tree'[o].ends = 0 /\ Cardinality(Into(o)') = 0
  <2>1. /\ tree'[o].kids = {} /\ tree'[o].ends = 0 /\ tree'[o].n = 0 /\ tree'[o].vl = 0
    BY DEF Counters, Node
  <2>2. Into(o)' = {}
    BY <2>1 DEF Into
  <2>3. Seen(o)' = 0
    BY <2>1 DEF Seen
  <2>4. Cardinality(Into(o)') = 0
    BY <2>2, FS_EmptySet
  <2> QED
    BY <2>1, <2>3, <2>4
<1>3. \A o \in DOMAIN tree : tree'[o].ends = tree[o].ends + By(o, m, de)
  BY DEF Counters
<1> QED
  BY <1>1, <1>2, <1>3

\* The new children have not been seen.
LEMMA IntoStays ==
  ASSUME TreeType, Shape, NEW m \in DOMAIN tree, NEW new, NEW dn \in Int, NEW dv \in Int, NEW de,
         Moved(tree, tree', m, new, dn, dv, de),
         NEW o \in DOMAIN tree, \A k \in tree[o].kids : Seen(k[2])' = Seen(k[2])
  PROVE  Into(o)' = Into(o)
<1>1. tree'[o].kids = tree[o].kids \cup (IF o = m THEN new ELSE {})
  BY MovedKeeps
<1>2. ASSUME NEW k \in new PROVE Seen(k[2])' = 0
  <2>1. Len(tree) < k[2] /\ k[2] <= Len(tree') /\ k[2] \in Nat
    BY DEF Moved, NewKids
  <2>2. k[2] \in DOMAIN tree' \ DOMAIN tree
    BY <2>1, MovedKeeps, TreeDomain
  <2> QED
    BY <2>2, CountersOf, SeenMoves
<1>3. ASSUME NEW v \in Into(o) PROVE v \in Into(o)'
  <2>1. v \in tree[o].kids \X (1 .. NRollouts) /\ v[2] <= Seen(v[1][2])
    BY DEF Into
  <2>2. v[1] \in tree[o].kids
    BY <2>1
  <2>3. v[2] <= Seen(v[1][2])'
    BY <2>1, <2>2
  <2>4. v \in tree'[o].kids \X (1 .. NRollouts)
    BY <2>1, <1>1
  <2> QED
    BY <2>3, <2>4 DEF Into
<1>4. ASSUME NEW v \in Into(o)' PROVE v \in Into(o)
  <2>1. v \in tree'[o].kids \X (1 .. NRollouts) /\ (v[2] <= Seen(v[1][2]))'
    BY DEF Into
  <2>2. v[1] \in tree'[o].kids /\ v[2] \in 1 .. NRollouts /\ v = <<v[1], v[2]>>
    BY <2>1
  <2>3. v[1] \notin new
    <3> SUFFICES ASSUME v[1] \in new PROVE FALSE
      OBVIOUS
    <3>1. Seen(v[1][2])' = 0
      BY <1>2
    <3>2. v[2] <= 0 /\ v[2] \in Nat /\ v[2] >= 1
      BY <2>1, <2>2, <3>1, TreeSearchAssumption
    <3> QED
      BY <3>2
  <2>4. v[1] \in tree[o].kids
    BY <2>2, <2>3, <1>1
  <2>5. v[2] <= Seen(v[1][2])
    BY <2>1, <2>4
  <2> QED
    BY <2>2, <2>4, <2>5 DEF Into
<1> QED
  BY <1>3, <1>4

\* A rollout more in a child is a visit more of the children.
LEMMA IntoGrows ==
  ASSUME TreeType, Shape, Losses, NEW a \in DOMAIN tree, NEW k \in tree[a].kids,
         Moved(tree, tree', k[2], {}, 0, 1, 0), Seen(k[2]) + 1 <= NRollouts
  PROVE  Cardinality(Into(a)') = Cardinality(Into(a)) + 1
<1>1. k[2] \in DOMAIN tree /\ a # k[2] /\ a \in Nat
  BY KidNodes, TreeDomain
<1>2. \A o \in DOMAIN tree : Seen(o)' = Seen(o) + By(o, k[2], 0 + 1)
  BY <1>1, CountersOf, SeenMoves
<1>3. tree'[a].kids = tree[a].kids
  BY <1>1 DEF Moved
<1> PICK s \in Nat : s = Seen(k[2])
  BY <1>1, SeenNat
<1>4. Seen(k[2])' = s + 1 /\ s + 1 \in 1 .. NRollouts
  BY <1>1, <1>2, TreeSearchAssumption DEF By
<1>5. ASSUME NEW l \in tree[a].kids, l # k PROVE Seen(l[2])' = Seen(l[2])
  <2>1. l[2] # k[2] /\ l[2] \in DOMAIN tree
    BY <1>5, KidNodes DEF Shape, OneEach
  <2>2. Seen(l[2]) \in Nat
    BY <2>1, SeenNat
  <2> QED
    BY <1>2, <2>1, <2>2 DEF By
<1> DEFINE x == <<k, s + 1>>
<1>6. x \notin Into(a)
  BY DEF Into
<1>7. \A v \in tree[a].kids \X (1 .. NRollouts) : v \in Into(a)' <=> v \in Into(a) \/ v = x
  <2> SUFFICES ASSUME NEW l \in tree[a].kids, NEW j \in 1 .. NRollouts
               PROVE  <<l, j>> \in Into(a)' <=> <<l, j>> \in Into(a) \/ <<l, j>> = x
    OBVIOUS
  <2>1. (<<l, j>> \in Into(a)' <=> j <= Seen(l[2])') /\ (<<l, j>> \in Into(a) <=> j <= Seen(l[2]))
    BY <1>3 DEF Into
  <2>2. CASE l = k
    <3>1. j <= s + 1 <=> j <= s \/ j = s + 1
      OBVIOUS
    <3> QED
      BY <2>1, <2>2, <3>1, <1>4
  <2>3. CASE l # k
    BY <2>1, <2>3, <1>5
  <2> QED
    BY <2>2, <2>3
<1>8. /\ x \in tree[a].kids \X (1 .. NRollouts)
      /\ Into(a) \subseteq tree[a].kids \X (1 .. NRollouts)
      /\ Into(a)' \subseteq tree[a].kids \X (1 .. NRollouts)
  BY <1>3, <1>4 DEF Into
<1>9. Into(a)' = Into(a) \cup {x}
  BY <1>7, <1>8
<1> QED
  BY <1>6, <1>9, IntoFinite, FS_AddElement

\* The balance of a node whose counts change alike on both sides.
Balance(o) == Seen(o) = tree[o].ends + Cardinality(Into(o)) + Cardinality(Here(o))

LEMMA FlowNew ==
  ASSUME TreeType, Shape, NEW m, NEW dn \in Int, NEW dv \in Int, NEW de,
         Counters(m, dn, dv, de), \A o : o \notin DOMAIN tree => Here(o)' = {},
         \A o \in DOMAIN tree : Balance(o)'
  PROVE  \A o \in DOMAIN tree' : Balance(o)'
<1> SUFFICES ASSUME NEW o \in DOMAIN tree' \ DOMAIN tree PROVE Balance(o)'
  OBVIOUS
<1>1. Seen(o)' = 0 /\ tree'[o].ends = 0 /\ Cardinality(Into(o)') = 0
  BY SeenMoves
<1>2. Here(o)' = {}
  OBVIOUS
<1>3. Cardinality(Here(o)') = 0
  BY <1>2, FS_EmptySet
<1> QED
  BY <1>1, <1>3 DEF Balance

LEMMA FlowStep == IInv /\ [Next]_vars => Flow'
<1> SUFFICES ASSUME IInv, [Next]_vars PROVE Flow'
  OBVIOUS
<1>0. /\ TreeType /\ Shape /\ StateType /\ PathInv /\ Losses /\ Bounded /\ Flow
      /\ taken \in Nat /\ Root \in DOMAIN tree
  BY TreeDomain DEF IInv, StateType
<1> DEFINE Numbered(o) == Seen(o) \in Nat /\ tree[o].ends \in Nat /\ Cardinality(Into(o)) \in Nat
                          /\ Cardinality(Here(o)) \in Nat /\ Cardinality(Here(o)') \in Nat
<1>20. \A o \in DOMAIN tree : Numbered(o)
  BY <1>0, SeenNat, IntoFinite, Numbers, TreeDomain, NodeFields
<1> HIDE DEF Numbered
<1>21. ~failed => Seen(Root) = taken /\ \A o \in DOMAIN tree : Balance(o)
  BY <1>0 DEF Flow, Balance
<1>22. ASSUME tree'[Root].ends = 0, Seen(Root)' = taken', \A o \in DOMAIN tree' : Balance(o)'
       PROVE  Flow'
  BY <1>22 DEF Flow, Balance
<1>1. ASSUME NEW w \in Workers, Pull(w), ~failed PROVE Flow'
  <2>1. taken' = taken + 1 /\ failed' = failed
    BY <1>1 DEF Pull
  <2>2. Moved(tree, tree', Root, {}, 0, 1, 0) /\ Counters(Root, 0, 1, 0)
    BY <1>0, <1>1, PullMoves, CountersOf
  <2>3. /\ w \notin Here(Root) /\ Here(Root)' = Here(Root) \cup {w}
        /\ \A m : m # Root => Here(m)' = Here(m)
    BY <1>0, <1>1, PullSets
  <2>4. /\ \A o \in DOMAIN tree : Seen(o)' = Seen(o) + By(o, Root, 0 + 1)
        /\ \A o \in DOMAIN tree : tree'[o].ends = tree[o].ends + By(o, Root, 0)
    BY <1>0, <2>2, SeenMoves
  <2>5. ASSUME NEW o \in DOMAIN tree PROVE Into(o)' = Into(o)
    <3>1. \A k \in tree[o].kids : k[2] \in DOMAIN tree /\ k[2] # Root
      BY <1>0, KidNodes, TreeDomain DEF Root
    <3>2. \A k \in tree[o].kids : Seen(k[2])' = Seen(k[2])
      BY <2>4, <3>1, <1>20 DEF By, Numbered
    <3> QED
      BY <1>0, <2>2, <3>2, IntoStays
  <2>6. Cardinality(Here(Root)') = Cardinality(Here(Root)) + 1
    BY <2>3, Counted, Counting
  <2>7. ASSUME NEW o \in DOMAIN tree PROVE Balance(o)'
    <3>1. Balance(o) /\ Numbered(o) /\ Into(o)' = Into(o)
      BY <1>1, <1>20, <1>21, <2>5
    <3>2. Cardinality(Here(o)') = Cardinality(Here(o)) + By(o, Root, 1)
      BY <2>3, <2>6, <3>1 DEF By, Numbered
    <3> QED
      BY <2>4, <3>1, <3>2 DEF Balance, Numbered, By
  <2>8. \A o : o \notin DOMAIN tree => Here(o)' = {}
    BY <1>0, <2>3, Nowhere
  <2>9. \A o \in DOMAIN tree' : Balance(o)'
    BY <1>0, <2>2, <2>7, <2>8, FlowNew
  <2>10. Seen(Root)' = taken' /\ tree'[Root].ends = 0
    BY <1>0, <1>1, <1>20, <1>21, <2>1, <2>4 DEF By, Flow, Numbered
  <2> QED
    BY <1>22, <2>9, <2>10
<1>2. ASSUME NEW w \in Workers, Descend(w) PROVE Flow'
  <2>1. PICK k \in tree[At(w)].kids :
          /\ k[2] \in DOMAIN tree /\ At(w) < k[2]
          /\ path' = [path EXCEPT ![w] = Append(@, k[2])]
          /\ Moved(tree, tree', k[2], {}, 0, 1, 0)
    BY <1>0, <1>2, DescendMoves
  <2> PICK m, a : m = k[2] /\ a = At(w)
    OBVIOUS
  <2>2. m \in DOMAIN tree /\ Counters(m, 0, 1, 0)
    BY <1>0, <2>1, CountersOf
  <2>3. /\ w \notin Here(m) /\ Here(m)' = Here(m) \cup {w}
        /\ w \in Here(a) /\ Here(a)' = Here(a) \ {w}
        /\ \A o : o # m /\ o # a => Here(o)' = Here(o)
    <3>1. At(w) < m /\ path' = [path EXCEPT ![w] = Append(@, m)] /\ m \in DOMAIN tree
      BY <2>1
    <3>2. TreeType /\ Shape /\ StateType /\ PathInv
      BY <1>0
    <3> HIDE DEF TreeType, Shape, StateType, PathInv, Here
    <3>3. /\ w \notin Here(m) /\ Here(m)' = Here(m) \cup {w}
          /\ \A o : o = At(w) => w \in Here(o) /\ Here(o)' = Here(o) \ {w}
          /\ \A o : o # m => On(o)' = On(o) /\ (o # At(w) => Here(o)' = Here(o))
      BY ONLY <1>2, <3>1, <3>2, DescendSets
    <3> QED
      BY <3>3
  <2>4. /\ \A o \in DOMAIN tree : Seen(o)' = Seen(o) + By(o, m, 0 + 1)
        /\ \A o \in DOMAIN tree : tree'[o].ends = tree[o].ends + By(o, m, 0)
    <3>1. TreeType /\ Shape /\ Counters(m, 0, 1, 0) /\ 0 \in Int /\ 1 \in Int
      BY <1>0, <2>2
    <3> QED
      BY ONLY <3>1, SeenMoves
  <2>5. a \in DOMAIN tree /\ a \in Nat /\ m \in Nat /\ a < m /\ m # Root
    <3>1. wpc[w] \notin Idle
      BY <1>2 DEF Descend, Idle
    <3>2. a \in DOMAIN tree /\ a \in Nat /\ a >= 1
      BY <1>0, <3>1, AtNode, TreeDomain
    <3>3. m \in Nat /\ a < m
      BY <1>0, <2>1, <2>2, TreeDomain
    <3> QED
      BY <3>2, <3>3 DEF Root
  <2>6. taken' = taken /\ failed' = failed
    BY <1>2 DEF Descend, work
  <2>7. tree'[Root].ends = 0
    BY <1>0, <2>4, <1>20 DEF Flow, By, Numbered
  <2>8. CASE failed
    BY <2>6, <2>7, <2>8 DEF Flow
  <2>9. CASE ~failed
    <3>1. Bounded' /\ StateType'
      BY CountStep, StateStep
    <3>2. Seen(m)' <= taken' /\ taken' <= NRollouts /\ Seen(m)' = Seen(m) + 1
      <4>1. (Seen(m) + Cardinality(Coming(m)))' <= taken'
        BY <2>2, <3>1 DEF Bounded, Counters
      <4>2. Seen(m)' = Seen(m) + 1 /\ Seen(m) \in Nat
        BY <2>2, <2>4, <1>20 DEF By, Numbered
      <4>3. Cardinality(Coming(m)') \in Nat
        BY Numbers
      <4>4. taken' <= NRollouts /\ taken' \in Nat
        BY <3>1, TreeSearchAssumption DEF StateType
      <4> QED
        BY <4>1, <4>2, <4>3, <4>4
    <3>3. Seen(m) + 1 <= NRollouts
      BY <3>2, <1>0, <2>2, <2>6, <1>20, TreeSearchAssumption DEF Numbered
    <3>4. Cardinality(Into(a)') = Cardinality(Into(a)) + 1
      BY <1>0, <2>1, <2>5, <3>3, IntoGrows
    <3>5. ASSUME NEW o \in DOMAIN tree, o # a PROVE Into(o)' = Into(o)
      <4>1. \A l \in tree[o].kids : l[2] \in DOMAIN tree /\ l[2] # m
        BY <1>0, <2>1, <2>5, <3>5, KidNodes DEF Shape, OneEach
      <4>2. \A l \in tree[o].kids : Seen(l[2])' = Seen(l[2])
        BY <2>4, <4>1, <1>20 DEF By, Numbered
      <4> QED
        BY <1>0, <2>1, <4>2, IntoStays
    <3>6. /\ Cardinality(Here(m)') = Cardinality(Here(m)) + 1
          /\ Cardinality(Here(a)') = Cardinality(Here(a)) - 1
      BY <2>3, Counted, Counting
    <3>7. ASSUME NEW o \in DOMAIN tree PROVE Balance(o)'
      <4>1. Balance(o) /\ Numbered(o) /\ tree'[o].ends = tree[o].ends
        BY <1>20, <1>21, <2>4, <2>9 DEF By, Numbered
      <4>2. CASE o = m
        <5>1. Seen(o)' = Seen(o) + 1 /\ Into(o)' = Into(o)
              /\ Cardinality(Here(o)') = Cardinality(Here(o)) + 1
          BY <4>2, <2>4, <2>5, <3>5, <3>6 DEF By
        <5> QED
          BY <4>1, <5>1 DEF Balance, Numbered
      <4>3. CASE o = a
        <5>1. Seen(o)' = Seen(o) /\ Cardinality(Into(o)') = Cardinality(Into(o)) + 1
              /\ Cardinality(Here(o)') = Cardinality(Here(o)) - 1
          BY <4>1, <4>3, <2>4, <2>5, <3>4, <3>6 DEF By, Numbered
        <5> QED
          BY <4>1, <5>1 DEF Balance, Numbered
      <4>4. CASE o # m /\ o # a
        <5>1. Seen(o)' = Seen(o) /\ Into(o)' = Into(o) /\ Here(o)' = Here(o)
          BY <4>1, <4>4, <2>3, <2>4, <3>5 DEF By, Numbered
        <5> QED
          BY <4>1, <5>1 DEF Balance
      <4> QED
        BY <4>2, <4>3, <4>4
    <3>8. \A o : o \notin DOMAIN tree => Here(o)' = {}
      BY <1>0, <2>2, <2>3, <2>5, Nowhere
    <3>9. \A o \in DOMAIN tree' : Balance(o)'
      BY <1>0, <2>2, <3>7, <3>8, FlowNew
    <3>10. Seen(Root)' = taken'
      BY <1>0, <1>20, <1>21, <2>4, <2>5, <2>6, <2>9 DEF By, Numbered
    <3> QED
      BY <1>22, <2>7, <3>9, <3>10
  <2> QED
    BY <2>8, <2>9
<1>3. ASSUME NEW w \in Workers, Commit(w) PROVE Flow'
  <2>1. /\ At(w) # Root /\ At(w) \in DOMAIN tree
        /\ \A o : /\ o = At(w) => w \in Here(o) /\ Here(o)' = Here(o) \ {w}
                  /\ o # At(w) => Here(o)' = Here(o)
    BY <1>0, <1>3, CommitSets
  <2> PICK m : m = At(w)
    OBVIOUS
  <2>2. PICK new : Moved(tree, tree', m, new, 0, 0, 1)
    BY <1>0, <1>3, CommitMoves
  <2>3. Counters(m, 0, 0, 1)
    BY <1>0, <2>1, <2>2, CountersOf
  <2>4. /\ \A o \in DOMAIN tree : Seen(o)' = Seen(o) + By(o, m, 0 + 0)
        /\ \A o \in DOMAIN tree : tree'[o].ends = tree[o].ends + By(o, m, 1)
    <3>1. TreeType /\ Shape /\ Counters(m, 0, 0, 1) /\ 0 \in Int /\ 1 \in Int
      BY <1>0, <2>3
    <3> QED
      BY ONLY <3>1, SeenMoves
  <2>5. \A o \in DOMAIN tree : Seen(o)' = Seen(o)
    BY <2>4, <1>20 DEF By, Numbered
  <2>6. \A o \in DOMAIN tree : Into(o)' = Into(o)
    BY <1>0, <2>1, <2>2, <2>5, KidNodes, IntoStays
  <2>7. Cardinality(Here(m)') = Cardinality(Here(m)) - 1
    BY <2>1, Counted, Counting
  <2>8. taken' = taken /\ failed' = failed
    BY <1>3 DEF Commit, work
  <2>9. tree'[Root].ends = 0
    BY <1>0, <2>1, <2>4, <1>20 DEF Flow, By, Numbered
  <2>10. ASSUME ~failed, NEW o \in DOMAIN tree PROVE Balance(o)'
    <3>1. Balance(o) /\ Numbered(o) /\ Into(o)' = Into(o) /\ Seen(o)' = Seen(o)
      BY <1>20, <1>21, <2>5, <2>6, <2>10
    <3>2. CASE o = m
      <4>1. tree'[o].ends = tree[o].ends + 1
        BY <2>4, <3>2 DEF By
      <4> QED
        BY <2>7, <3>1, <3>2, <4>1 DEF Balance, Numbered
    <3>3. CASE o # m
      BY <2>1, <2>4, <3>1, <3>3 DEF Balance, Numbered, By
    <3> QED
      BY <3>2, <3>3
  <2>11. \A o : o \notin DOMAIN tree => Here(o)' = {}
    BY <1>0, <2>1, Nowhere
  <2>12. CASE ~failed
    <3>1. \A o \in DOMAIN tree' : Balance(o)'
      BY <1>0, <2>3, <2>10, <2>11, <2>12, FlowNew
    <3> QED
      BY <1>0, <1>21, <1>22, <2>5, <2>8, <2>9, <2>12, <3>1
  <2> QED
    BY <2>8, <2>9, <2>12 DEF Flow
<1>4. ASSUME NEW w \in Workers, Backup(w) \/ Stays(w) PROVE Flow'
  <2>1. taken' = taken /\ failed' = failed /\ \A o : Here(o)' = Here(o)
    <3>1. CASE Backup(w)
      <4>1. taken' = taken /\ failed' = failed
        BY <3>1 DEF Backup, work
      <4> QED
        BY <1>0, <3>1, <4>1, BackupSets
    <3>2. CASE Stays(w)
      BY <1>0, <3>2, StaySets
    <3> QED
      BY <1>4, <3>1, <3>2
  <2>2. PICK m \in DOMAIN tree : \E new : \E dn, dv \in Int :
          /\ dn + dv = 0 /\ Counters(m, dn, dv, 0)
          /\ tree' = tree \/ Moved(tree, tree', m, new, dn, dv, 0)
    <3>1. CASE Backup(w)
      <4>1. wpc[w] \notin Idle
        BY <3>1 DEF Backup, Idle
      <4>2. Head(path[w]) \in DOMAIN tree
        BY <1>0, <4>1, AtNode
      <4>3. Moved(tree, tree', Head(path[w]), {}, 1, -1, 0)
        BY <1>0, <3>1, BackupMoves
      <4>4. Counters(Head(path[w]), 1, -1, 0)
        BY <1>0, <4>2, <4>3, CountersOf
      <4>5. 1 + (-1) = 0 /\ 1 \in Int /\ -1 \in Int
        OBVIOUS
      <4> QED
        BY <4>2, <4>3, <4>4, <4>5
    <3>2. CASE Add(w)
      <4>1. At(w) \in DOMAIN tree
        BY <1>0, <3>2, AtNode DEF Add, Idle
      <4>2. Moved(tree, tree', At(w), Fresh(tree, Missing(w)), 0, 0, 0)
        BY <1>0, <3>2, AddMoves
      <4>3. Counters(At(w), 0, 0, 0)
        BY <1>0, <4>1, <4>2, CountersOf
      <4>4. 0 + 0 = 0 /\ 0 \in Int
        OBVIOUS
      <4> QED
        BY <4>1, <4>2, <4>3, <4>4
    <3>3. CASE Stays(w) /\ ~Add(w)
      <4>1. tree' = tree
        BY <3>3 DEF Stays, Exit, Query, Check, SendJob, Await
      <4>2. Counters(Root, 0, 0, 0)
        BY <1>0, <4>1, CountersStill
      <4>3. 0 + 0 = 0 /\ 0 \in Int
        OBVIOUS
      <4> QED
        BY <1>0, <4>1, <4>2, <4>3
    <3> QED
      BY <1>4, <3>1, <3>2, <3>3
  <2>3. PICK new : \E dn, dv \in Int :
          /\ dn + dv = 0 /\ Counters(m, dn, dv, 0)
          /\ tree' = tree \/ Moved(tree, tree', m, new, dn, dv, 0)
    BY <2>2
  <2>4. PICK dn \in Int, dv \in Int :
          /\ dn + dv = 0 /\ Counters(m, dn, dv, 0)
          /\ tree' = tree \/ Moved(tree, tree', m, new, dn, dv, 0)
    BY <2>3
  <2>5. /\ \A o \in DOMAIN tree : Seen(o)' = Seen(o) + By(o, m, dn + dv)
        /\ \A o \in DOMAIN tree : tree'[o].ends = tree[o].ends + By(o, m, 0)
    BY <1>0, <2>4, SeenMoves
  <2>6. \A o \in DOMAIN tree : Seen(o)' = Seen(o) /\ tree'[o].ends = tree[o].ends
    BY <2>4, <2>5, <1>20 DEF By, Numbered
  <2>7. ASSUME NEW o \in DOMAIN tree PROVE Into(o)' = Into(o)
    <3>1. \A k \in tree[o].kids : Seen(k[2])' = Seen(k[2])
      BY <1>0, <2>6, KidNodes
    <3>2. CASE tree' = tree
      BY <3>1, <3>2 DEF Into, Seen
    <3>3. CASE Moved(tree, tree', m, new, dn, dv, 0)
      BY <1>0, <3>1, <3>3, IntoStays
    <3> QED
      BY <2>4, <3>2, <3>3
  <2>8. tree'[Root].ends = 0
    BY <1>0, <2>6 DEF Flow
  <2>9. CASE ~failed
    <3>1. \A o \in DOMAIN tree : Balance(o)'
      BY <1>21, <2>1, <2>6, <2>7, <2>9 DEF Balance
    <3>2. \A o : o \notin DOMAIN tree => Here(o)' = {}
      BY <1>0, <2>1, Nowhere
    <3>3. \A o \in DOMAIN tree' : Balance(o)'
      BY <1>0, <2>4, <3>1, <3>2, FlowNew
    <3> QED
      BY <1>0, <1>21, <1>22, <2>1, <2>6, <2>8, <2>9, <3>3
  <2> QED
    BY <2>1, <2>8, <2>9 DEF Flow
<1>5. ASSUME NEW w \in Workers, Fails(w) \/ (Pull(w) /\ failed) PROVE Flow'
  <2>1. failed' /\ tree' = tree
    <3>1. CASE Fails(w)
      BY <1>0, <3>1, FailSets
    <3>2. CASE Pull(w) /\ failed
      BY <3>2 DEF Pull
    <3> QED
      BY <1>5, <3>1, <3>2
  <2> QED
    BY <1>0, <2>1 DEF Flow
<1>6. CASE Feed \/ Return \/ Sending \/ Receiving \/ UNCHANGED vars
  <2>1. UNCHANGED <<tree, taken, wpc, path>> /\ (failed => failed')
    BY <1>6, Elsewhere
  <2>2. \A o : Here(o)' = Here(o) /\ Into(o)' = Into(o) /\ Seen(o)' = Seen(o)
    BY <2>1, SetsElsewhere DEF Into, Seen
  <2> QED
    BY <1>0, <2>1, <2>2 DEF Flow
<1> QED
  BY <1>1, <1>2, <1>3, <1>4, <1>5, <1>6, Steps

(***************************************************************************)
(* The invariant holds in every state, and implies the properties.         *)
(***************************************************************************)
LEMMA InitTree ==
  ASSUME Init
  PROVE  /\ TreeType /\ Shape
         /\ \A m \in DOMAIN tree : tree[m].n = 0 /\ tree[m].vl = 0 /\ tree[m].ends = 0
<1> DEFINE t == <<Node>>
           new == Fresh(t, RootActions)
<1>1. t \in Seq(NodeType) /\ Len(t) = 1 /\ DOMAIN t = {1} /\ t[1] = Node
  BY DEF Node, NodeType
<1>2. t[1].kids = {} /\ t[1].n = 0 /\ t[1].vl = 0 /\ t[1].ends = 0
  BY <1>1 DEF Node
<1> HIDE DEF t
<1>3. RootActions \in SUBSET Entries /\ IsFiniteSet(RootActions)
  BY TreeSearchAssumption DEF Entries
<1>4. Moved(t, tree, 1, new, 0, 0, 0) /\ tree[1].open
  <2>1. tree = Grown(t, 1, RootActions)
    BY DEF Init, Root, t
  <2> QED
    BY <1>1, <1>2, <1>3, <2>1, GrowthMoves
<1> HIDE DEF new
<1>5. /\ tree \in Seq(NodeType) /\ 1 <= Len(tree) /\ Len(tree) \in Nat
      /\ DOMAIN tree = 1 .. Len(tree)
      /\ tree[1].kids = new
  BY <1>1, <1>2, <1>4 DEF Moved
<1>6. /\ \A k \in new : 1 < k[2] /\ k[2] <= Len(tree)
      /\ \A k, l \in new : k[1] = l[1] \/ k[2] = l[2] => k = l
  BY <1>1, <1>4 DEF Moved, NewKids
<1>7. tree[1].n = 0 /\ tree[1].vl = 0 /\ tree[1].ends = 0
  BY <1>2, <1>4 DEF Moved, Counts
<1>8. \A o \in DOMAIN tree : o # 1 => tree[o] = Node
  <2>1. \A o \in DOMAIN tree : o # 1 => o \in Len(t) + 1 .. Len(tree)
    BY <1>1, <1>5
  <2> QED
    BY <2>1, <1>4 DEF Moved
<1>9. \A o \in DOMAIN tree : o # 1 =>
        tree[o].kids = {} /\ tree[o].n = 0 /\ tree[o].vl = 0 /\ tree[o].ends = 0
  BY <1>8 DEF Node
<1>10. TreeType
  BY <1>5 DEF TreeType
<1>11. KidsLater
  BY <1>5, <1>6, <1>9 DEF KidsLater
<1>12. OneEach
  BY <1>5, <1>6, <1>9 DEF OneEach
<1>13. tree[Root].open /\ \A m \in DOMAIN tree : tree[m].kids # {} => tree[m].open
  BY <1>4, <1>9 DEF Root
<1> QED
  BY <1>7, <1>9, <1>10, <1>11, <1>12, <1>13 DEF Shape

LEMMA InitInv == Init => IInv
<1> SUFFICES ASSUME Init PROVE IInv
  OBVIOUS
<1>1. /\ TreeType /\ Shape
      /\ \A m \in DOMAIN tree : tree[m].n = 0 /\ tree[m].vl = 0 /\ tree[m].ends = 0
  BY InitTree
<1>2. /\ fed = 0 /\ taken = 0
      /\ wpc = [w \in Workers |-> "pull"] /\ roll = [w \in Workers |-> 0]
      /\ path = [w \in Workers |-> <<>>] /\ legal = [w \in Workers |-> {}]
      /\ resp = [w \in Workers |-> 0] /\ done = [w \in Workers |-> FALSE]
      /\ sendq = <<>> /\ spc = "idle" /\ sjob = NoJob
      /\ pending = <<>> /\ rpc = "idle" /\ rjob = NoJob /\ asked = <<>>
      /\ failed = FALSE /\ mpc = "feed"
  BY DEF Init
<1>3. NRollouts \in Nat \ {0} /\ MaxDepth \in Nat /\ Par \in Nat \ {0}
  BY TreeSearchAssumption, ParNat
<1>4. StateType
  <2>1. fed \in 0 .. NRollouts /\ taken \in 0 .. fed /\ fed - taken <= 2 * Par
    BY <1>2, <1>3
  <2>2. 0 \in 0 .. NRollouts /\ <<>> \in Seq(Nat)
    BY <1>3
  <2>3. /\ roll \in [Workers -> 0 .. NRollouts] /\ resp \in [Workers -> 0 .. NRollouts]
        /\ path \in [Workers -> Seq(Nat)]
    BY <1>2, <2>2
  <2>4. /\ wpc \in [Workers -> Idle \cup Walking \cup Leaf \cup {"backup"}]
        /\ done \in [Workers -> BOOLEAN] /\ legal \in [Workers -> Lists \cup {{}}]
    BY <1>2 DEF Idle
  <2> QED
    BY <1>2, <2>1, <2>3, <2>4 DEF StateType
<1>5. DispatchType
  <2>1. sendq \in Seq(Workers) /\ pending \in Seq(Workers) /\ asked \in Seq(1 .. NRollouts)
        /\ Len(sendq) = 0 /\ Len(pending) = 0
    BY <1>2
  <2> QED
    BY <1>2, <1>3, <2>1 DEF DispatchType
<1>6. Phases
  BY <1>2 DEF Phases
<1>7. \A w \in Workers : path[w] = <<>> /\ Len(path[w]) = 0 /\ DOMAIN path[w] = {}
                          /\ wpc[w] = "pull" /\ ~done[w]
  BY <1>2
<1>8. PathInv
  BY <1>3, <1>7 DEF PathInv, Idle, Walking, Leaf
<1>9. NeverPanics
  BY <1>7 DEF NeverPanics
<1>10. Sent = {} /\ Unanswered = {} /\ AtSender = {} /\ AtReceiver = {}
  BY <1>2 DEF Sent, Unanswered, Elements, AtSender, AtReceiver
<1>11. Jobs
  <2>1. Distinct(sendq) /\ Distinct(pending)
    BY <1>2 DEF Distinct
  <2> QED
    BY <1>7, <1>10, <2>1 DEF Jobs
<1>12. Replies
  <2>1. Taken = 0 /\ Unposted = 0 /\ Len(asked) = 0 /\ Len(pending) = 0 /\ DOMAIN pending = {}
    BY <1>2 DEF Taken, Unposted
  <2>2. Aligned
    BY <1>2, <2>1 DEF Aligned
  <2> QED
    BY <1>2, <1>7, <2>2 DEF Replies
<1>13. /\ Active = {} /\ Unended = {}
       /\ \A m : On(m) = {} /\ Coming(m) = {} /\ Here(m) = {}
  <2>1. Active = {} /\ Unended = {}
    BY <1>7 DEF Active, Unended, Idle, Walking, Leaf
  <2>2. \A m : On(m) = {} /\ Coming(m) = {}
    BY <1>7 DEF On, Coming, Walking
  <2> QED
    BY <2>1, <2>2 DEF Here
<1>14. Cardinality({}) = 0
  BY FS_EmptySet
<1>21. taken = 0 /\ ~failed /\ \A m : Cardinality(Coming(m)) = 0 /\ Cardinality(Here(m)) = 0
  BY <1>2, <1>13, <1>14
<1>15. Started
  BY <1>1, <1>2, <1>13, <1>14 DEF Started
<1>16. Losses
  BY <1>1, <1>13, <1>14 DEF Losses
<1>17. \A m \in DOMAIN tree : Seen(m) = 0
  BY <1>1 DEF Seen
<1>18. Bounded
  BY <1>17, <1>21 DEF Bounded
<1>19. \A m \in DOMAIN tree : Into(m) = {}
  <2> SUFFICES ASSUME NEW m \in DOMAIN tree, NEW k \in tree[m].kids, NEW j \in 1 .. NRollouts,
                      j <= Seen(k[2])
               PROVE  FALSE
    BY DEF Into
  <2>1. Seen(k[2]) = 0
    BY <1>1, <1>17, KidNodes
  <2> QED
    BY <1>3, <2>1
<1>20. Flow
  <2>1. \A m \in DOMAIN tree : Cardinality(Into(m)) = 0
    BY <1>14, <1>19
  <2> QED
    BY <1>1, <1>17, <1>21, <2>1, TreeDomain DEF Flow
<1> QED
  BY <1>1, <1>4, <1>5, <1>6, <1>8, <1>9, <1>11, <1>12, <1>15, <1>16, <1>18, <1>20 DEF IInv

\* The tree, the paths of the workers, the jobs and replies and the counts of the nodes
\* stay in step with each other through every interleaving of the actor's threads.
THEOREM Inductive == Spec => []IInv
<1>1. IInv /\ [Next]_vars => IInv'
  <2> SUFFICES ASSUME IInv, [Next]_vars PROVE IInv'
    OBVIOUS
  <2>1. TreeType' /\ Shape'
    BY ShapeStep DEF IInv
  <2>2. StateType' /\ DispatchType' /\ Phases' /\ PathInv' /\ NeverPanics'
    BY StateStep, DispatchStep, PhasesStep, PathStep, PanicsStep
  <2>3. Jobs' /\ Replies'
    BY JobsStep, RepliesStep
  <2>4. Started' /\ Losses' /\ Bounded' /\ Flow'
    BY CountStep, FlowStep
  <2> QED
    BY <2>1, <2>2, <2>3, <2>4 DEF IInv
<1> QED
  BY <1>1, InitInv, PTL DEF Spec

\* Counters stay between zero and the number of rollouts, paths within the tree, channels
\* within their capacity.
THEOREM TypeCorrect == Spec => []TypeOK
<1>1. IInv => TypeOK
  <2> SUFFICES ASSUME IInv PROVE TypeOK
    OBVIOUS
  <2>0. /\ TreeType /\ Shape /\ StateType /\ DispatchType /\ Phases /\ PathInv
        /\ Started /\ Losses /\ Bounded /\ NRollouts \in Nat
        /\ taken \in Nat /\ taken <= NRollouts
    BY TreeSearchAssumption DEF IInv, StateType
  <2>1. ASSUME NEW m \in DOMAIN tree
        PROVE  /\ tree[m].open \in BOOLEAN
               /\ tree[m].kids \subseteq Entries \X (DOMAIN tree \ {Root})
               /\ {tree[m].n, tree[m].vl, tree[m].ends} \subseteq 0 .. NRollouts
    <3>1. /\ tree[m].n \in Nat /\ tree[m].vl \in Int /\ tree[m].ends \in Nat
          /\ tree[m].open \in BOOLEAN /\ tree[m].kids \in SUBSET (Entries \X Nat)
      BY <2>0, TreeDomain, NodeFields
    <3>2. ASSUME NEW k \in tree[m].kids PROVE k \in Entries \X (DOMAIN tree \ {Root})
      <4>1. k = <<k[1], k[2]>> /\ k[1] \in Entries
        BY <3>1
      <4>2. k[2] \in DOMAIN tree /\ k[2] # Root
        BY <2>0, KidNodes, TreeDomain DEF Root
      <4> QED
        BY <4>1, <4>2
    <3>3. tree[m].vl \in Nat
      <4>1. tree[m].vl >= Cardinality(On(m)) /\ Cardinality(On(m)) \in Nat
        BY <2>0, Numbers DEF Losses
      <4> QED
        BY <3>1, <4>1
    <3>4. tree[m].n + tree[m].vl <= taken
      <4>1. Seen(m) + Cardinality(Coming(m)) <= taken /\ Cardinality(Coming(m)) \in Nat
        BY <2>0, Numbers DEF Bounded
      <4>2. Seen(m) = tree[m].n + tree[m].vl
        BY DEF Seen
      <4> QED
        BY <2>0, <3>1, <3>3, <4>1, <4>2
    <3>5. tree[m].ends <= taken
      <4>1. tree[m].ends + Cardinality(Unended) <= taken /\ Cardinality(Unended) \in Nat
        BY <2>0, Numbers DEF Started
      <4> QED
        BY <2>0, <3>1, <4>1
    <3>6. /\ tree[m].n \in 0 .. NRollouts /\ tree[m].vl \in 0 .. NRollouts
          /\ tree[m].ends \in 0 .. NRollouts
      BY <2>0, <3>1, <3>3, <3>4, <3>5
    <3> QED
      BY <3>1, <3>2, <3>6
  <2>2. ASSUME NEW w \in Workers PROVE path[w] \in Seq(DOMAIN tree) /\ Len(path[w]) <= MaxDepth + 2
    <3>1. path[w] \in Seq(Nat) /\ \A i \in DOMAIN path[w] : path[w][i] \in DOMAIN tree
      BY <2>0 DEF StateType, PathInv
    <3>2. \A q \in Seq(Nat) : (\A i \in DOMAIN q : q[i] \in DOMAIN tree) => q \in Seq(DOMAIN tree)
      BY SeqDef
    <3> QED
      BY <2>0, <3>1, <3>2 DEF PathInv
  <2>3. ASSUME NEW w \in Workers
        PROVE  /\ wpc[w] \in {"pull", "query", "check", "add", "select", "over", "deep", "send",
                              "wait", "commit", "backup", "gone"}
               /\ roll[w] \in 0 .. NRollouts /\ resp[w] \in 0 .. NRollouts /\ done[w] \in BOOLEAN
               /\ legal[w] \in Lists \cup {{}}
    <3>1. wpc[w] \in Idle \cup Walking \cup Leaf \cup {"backup"}
      BY <2>0 DEF StateType
    <3> QED
      BY <2>0, <3>1 DEF StateType, Idle, Walking, Leaf
  <2> QED
    BY <2>0, <2>1, <2>2, <2>3 DEF TypeOK, StateType, DispatchType, Phases
<1> QED
  BY <1>1, Inductive, PTL

\* A step that leaves the counters of the later children of an action alone leaves them
\* unvisited, and the children it adds are later than all there are.
LEMMA UnvisitedMoved ==
  ASSUME TreeType, Shape, Unvisited, NEW m \in DOMAIN tree, NEW new, NEW dn, NEW dv, NEW de,
         Moved(tree, tree', m, new, dn, dv, de),
         \/ dn = 0 /\ dv = 0
         \/ \A o \in DOMAIN tree : \A k, l \in tree[o].kids :
              k[1][1] = l[1][1] /\ k[2] < l[2] => l[2] # m
  PROVE  Unvisited'
<1> SUFFICES ASSUME NEW o \in DOMAIN tree', NEW k \in tree'[o].kids, NEW l \in tree'[o].kids,
                    k[1][1] = l[1][1], k[2] < l[2]
             PROVE  tree'[l[2]].n = 0 /\ tree'[l[2]].vl = 0
  BY DEF Unvisited
<1>1. TreeType' /\ Shape'
  BY MovedKeeps, MovedShape
<1>2. /\ DOMAIN tree' = 1 .. Len(tree') /\ DOMAIN tree = 1 .. Len(tree) /\ Len(tree) \in Nat
      /\ Len(tree') \in Nat
      /\ \A q \in DOMAIN tree' \ DOMAIN tree : tree'[q] = Node
  BY MovedKeeps, TreeDomain
<1>3. /\ k[2] \in DOMAIN tree' /\ k[2] \in Nat /\ o < k[2]
      /\ l[2] \in DOMAIN tree' /\ l[2] \in Nat /\ o < l[2]
  <2>1. \A q \in DOMAIN tree' : \A j \in tree'[q].kids :
          j[2] \in DOMAIN tree' /\ j[2] \in Nat /\ q < j[2]
    <3>1. \A q \in DOMAIN tree' : tree'[q].kids \in SUBSET (Entries \X Nat)
      BY <1>1, NodeFields DEF TreeType
    <3>2. \A q \in DOMAIN tree' : \A j \in tree'[q].kids : j[2] \in Nat
      BY <3>1
    <3>3. \A q \in DOMAIN tree' : \A j \in tree'[q].kids : q < j[2] /\ j[2] <= Len(tree')
      BY <1>1 DEF Shape, KidsLater
    <3> QED
      BY <1>2, <3>2, <3>3
  <2> QED
    BY <2>1
<1>4. CASE l[2] \notin DOMAIN tree
  BY <1>2, <1>3, <1>4 DEF Node
<1>5. CASE l[2] \in DOMAIN tree
  <2>1. k[2] \in DOMAIN tree /\ o \in DOMAIN tree
    BY <1>2, <1>3, <1>5
  <2>2. tree'[o].kids = tree[o].kids \cup (IF o = m THEN new ELSE {})
    BY <2>1, MovedKeeps
  <2>3. \A j \in new : j[2] \notin DOMAIN tree
    BY <1>2 DEF Moved, NewKids
  <2>4. k \in tree[o].kids /\ l \in tree[o].kids
    BY <2>1, <2>2, <2>3, <1>5
  <2>5. tree[l[2]].n = 0 /\ tree[l[2]].vl = 0
    BY <2>1, <2>4 DEF Unvisited
  <2>6. CASE l[2] = m
    <3>1. dn = 0 /\ dv = 0
      BY <2>1, <2>4, <2>6
    <3> QED
      BY <2>5, <2>6, <3>1 DEF Moved, Counts
  <2>7. CASE l[2] # m
    BY <2>5, <2>7, <1>5 DEF Moved
  <2> QED
    BY <2>6, <2>7
<1> QED
  BY <1>4, <1>5

\* No rollout is on its way through a later child, so no backup comes to one.
LEMMA UnvisitedStep == IInv /\ Unvisited /\ [Next]_vars => Unvisited'
<1> SUFFICES ASSUME IInv, Unvisited, [Next]_vars PROVE Unvisited'
  OBVIOUS
<1>0. TreeType /\ Shape /\ StateType /\ PathInv /\ Losses
  BY DEF IInv
<1>1. CASE tree' = tree
  BY <1>1 DEF Unvisited
<1>2. ASSUME NEW w \in Workers, Working(w), tree' # tree PROVE Unvisited'
  <2>1. CASE Pull(w) /\ ~failed
    <3>1. Moved(tree, tree', Root, {}, 0, 1, 0)
      BY <1>0, <2>1, PullMoves
    <3>2. \A o \in DOMAIN tree : \A l \in tree[o].kids : l[2] # Root
      BY <1>0, KidNodes, TreeDomain DEF Root
    <3> QED
      BY <1>0, <3>1, <3>2, TreeDomain, UnvisitedMoved
  <2>2. CASE Add(w)
    <3>1. At(w) \in DOMAIN tree
      BY <1>0, <2>2, AtNode DEF Add, Idle
    <3> QED
      BY <1>0, <2>2, <3>1, AddMoves, UnvisitedMoved
  <2>3. CASE Descend(w)
    <3>1. PICK k \in tree[At(w)].kids :
            /\ \A l \in tree[At(w)].kids : l[1][1] = k[1][1] => k[2] <= l[2]
            /\ k[2] \in DOMAIN tree /\ Moved(tree, tree', k[2], {}, 0, 1, 0)
      BY <1>0, <2>3, DescendMoves
    <3>2. At(w) \in DOMAIN tree
      BY <1>0, <2>3, AtNode DEF Descend, Idle
    <3>3. ASSUME NEW o \in DOMAIN tree, NEW j \in tree[o].kids, NEW l \in tree[o].kids,
                 j[1][1] = l[1][1], j[2] < l[2], l[2] = k[2]
          PROVE  FALSE
      <4>1. o = At(w) /\ l = k
        BY <1>0, <3>2, <3>3 DEF Shape, OneEach
      <4>2. k[2] <= j[2]
        BY <3>1, <3>3, <4>1
      <4>3. j[2] \in Nat /\ k[2] \in Nat
        BY <1>0, <3>2, KidNodes
      <4> QED
        BY <3>3, <4>2, <4>3
    <3> QED
      BY <1>0, <3>1, <3>3, UnvisitedMoved
  <2>4. CASE Commit(w)
    <3>1. At(w) \in DOMAIN tree
      BY <1>0, <2>4, AtNode DEF Commit, Idle
    <3> QED
      BY <1>0, <2>4, <3>1, CommitMoves, UnvisitedMoved
  <2>5. CASE Backup(w)
    <3> DEFINE m == Head(path[w])
    <3>1. m \in DOMAIN tree /\ path[w] # <<>>
      BY <1>0, <2>5, AtNode DEF Backup, Idle, PathInv
    <3>2. Moved(tree, tree', m, {}, 1, -1, 0)
      BY <1>0, <2>5, BackupMoves
    <3>3. tree[m].vl # 0
      <4>1. path[w][1] = m /\ 1 \in DOMAIN path[w]
        BY <1>0, <3>1 DEF StateType
      <4>2. w \in On(m)
        BY <4>1 DEF On
      <4>3. Cardinality(On(m)) \in Nat /\ IsFiniteSet(On(m))
        BY FS_Subset, FS_CardinalityType, TreeSearchAssumption DEF On
      <4>4. Cardinality(On(m)) # 0
        BY <4>2, <4>3, FS_EmptySet
      <4>5. tree[m].vl >= Cardinality(On(m)) /\ tree[m].vl \in Int
        BY <1>0, <3>1, TreeDomain, NodeFields DEF Losses
      <4> QED
        BY <4>3, <4>4, <4>5
    <3>4. \A o \in DOMAIN tree : \A k, l \in tree[o].kids :
            k[1][1] = l[1][1] /\ k[2] < l[2] => l[2] # m
      BY <3>3 DEF Unvisited
    <3> QED
      BY <1>0, <3>1, <3>2, <3>4, UnvisitedMoved
  <2>6. CASE Exit(w) \/ Query(w) \/ Check(w) \/ Breaks(w) \/ SendJob(w) \/ Await(w)
             \/ (Pull(w) /\ failed)
    BY <1>2, <2>6 DEF Exit, Query, Check, Breaks, SendJob, Await, Pull
  <2> QED
    BY <1>2, <2>1, <2>2, <2>3, <2>4, <2>5, <2>6 DEF Working
<1>3. CASE Feed \/ Return \/ Sending \/ Receiving \/ UNCHANGED vars
  BY <1>1, <1>3, Elsewhere
<1> QED
  BY <1>1, <1>2, <1>3 DEF Next

\* Two rollouts that expand one node, or add to it what each misses, never give it two
\* children for an action beyond those of one list that repeats it, nor a child two
\* parents; and rollouts only visit the first child of an action.
THEOREM NoTwins == Spec => []OneChild
<1>1. IInv => OneEach
  BY DEF IInv, Shape
<1>2. Init => Unvisited
  BY InitTree, KidNodes DEF Unvisited
<1>3. IInv /\ Unvisited /\ [Next]_vars => Unvisited'
  BY UnvisitedStep
<1>4. Spec => []Unvisited
  BY <1>2, <1>3, Inductive, PTL DEF Spec
<1> QED
  BY <1>1, <1>4, Inductive, PTL DEF OneChild

\* A rollout that chooses among children finds one for each of its legal actions.
THEOREM ChildToChoose == Spec => []NeverPanics
<1>1. IInv => NeverPanics
  BY DEF IInv
<1> QED
  BY <1>1, Inductive, PTL

\* The order of jobs at the two dispatchers is the order of requests in Python, as long
\* as nothing has failed; after a failure no worker uses a reply that came.
THEOREM RepliesMatch == Spec => []OwnReply
<1>1. IInv => OwnReply
  BY DEF IInv, Replies, OwnReply
<1> QED
  BY <1>1, Inductive, PTL

\* When a search returns without failure, each visit of a node ended there or went on to
\* one child, the root has seen all rollouts, and no virtual loss is left.
THEOREM AllCounted == Spec => []VisitsAdd
<1>1. IInv => VisitsAdd
  <2> SUFFICES ASSUME IInv, mpc = "returned", ~failed
               PROVE  /\ tree[Root].n = NRollouts /\ tree[Root].ends = 0
                      /\ \A m \in DOMAIN tree :
                           /\ tree[m].vl = 0
                           /\ tree[m].n = tree[m].ends + Cardinality(ChildVisits(m))
    BY DEF VisitsAdd
  <2>0. TreeType /\ Shape /\ StateType /\ Phases /\ PathInv /\ Losses /\ Flow
    BY DEF IInv
  <2>1. \A w \in Workers : wpc[w] = "gone" /\ path[w] = <<>>
    BY <2>0 DEF Phases, PathInv, Idle
  <2>2. taken = NRollouts
    BY <2>0, <2>1, TreeSearchAssumption DEF Phases
  <2>3. /\ Unended = {} /\ \A m : On(m) = {}
    BY <2>1 DEF Unended, On, Walking, Leaf
  <2>4. \A m : Here(m) = {}
    BY <2>3 DEF Here
  <2>5. Cardinality({}) = 0
    BY FS_EmptySet
  <2>6. \A m \in DOMAIN tree : tree[m].vl = 0 /\ tree[m].n \in Nat /\ tree[m].ends \in Nat
    BY <2>0, <2>3, <2>5, TreeDomain, NodeFields DEF Losses
  <2>7. \A m \in DOMAIN tree : Seen(m) = tree[m].n
    BY <2>6 DEF Seen
  <2>8. ASSUME NEW m \in DOMAIN tree PROVE Into(m) = ChildVisits(m)
    <3>1. \A k \in tree[m].kids : Seen(k[2]) = tree[k[2]].n
      BY <2>0, <2>7, KidNodes
    <3> QED
      BY <3>1 DEF Into, ChildVisits
  <2>9. tree[Root].n = NRollouts /\ tree[Root].ends = 0
    BY <2>0, <2>2, <2>7, TreeDomain DEF Flow
  <2>10. ASSUME NEW m \in DOMAIN tree PROVE tree[m].n = tree[m].ends + Cardinality(ChildVisits(m))
    <3>1. Seen(m) = tree[m].ends + Cardinality(Into(m)) + Cardinality(Here(m))
      BY <2>0 DEF Flow
    <3>2. Cardinality(Into(m)) \in Nat
      BY <2>0, IntoFinite
    <3>3. Cardinality(Here(m)) = 0
      BY <2>4, <2>5
    <3>4. Seen(m) = tree[m].n /\ tree[m].ends \in Nat /\ Into(m) = ChildVisits(m)
      BY <2>6, <2>7, <2>8
    <3> QED
      BY <3>1, <3>2, <3>3, <3>4
  <2> QED
    BY <2>6, <2>9, <2>10
<1> QED
  BY <1>1, Inductive, PTL
=============================================================================
