-------------------------- MODULE RunRegistryProofs --------------------------
(***************************************************************************)
(* Proofs about RunRegistry, for any number of processes and of commands.  *)
(*                                                                         *)
(* The two locks do less than it seems: a fresh run writes its pair and    *)
(* waits for its metadata lock without the run-id lock, and the metadata   *)
(* lock vanishes with the directory of a fresh run that fails.  What makes *)
(* the properties hold is that nobody else can have the directory of a     *)
(* fresh run that has no ckpts/ yet, while a directory with ckpts/ is      *)
(* never removed: this is the invariant.                                   *)
(***************************************************************************)
EXTENDS RunRegistry, FiniteSetTheorems, WellFoundedInduction, TLAPS

\* The commands that have been given a number or a version, or need none.
Waiting == {p \in Procs : pc[p] = "number"}
Issued  == count - Cardinality(Waiting)

\* The directories of which there is any trace.
Past == dirs \cup ckpts \cup revived \cup {s.dir : s \in leaf}
          \cup {s.dir : s \in resolved} \cup {d \in Dir : meta[d] # NoMeta}

\* Directories nobody has removed.
Intact == dirs \ revived

Shape ==
  \A p \in Procs :
    /\ pc[p] = "idle" <=> cmd[p] = "none"
    /\ pc[p] = "number" => cmd[p] \in {"fresh", "resume"} /\ ver[p] <= 1
    /\ pc[p] = "mkdir" => cmd[p] = "fresh"
    /\ pc[p] = "read" => cmd[p] \in {"resume", "close", "mark"}
    /\ pc[p] \in {"leaf", "resolved", "begin", "train"} => cmd[p] \in {"fresh", "resume"}
    /\ pc[p] # "idle" => dir[p] \in Dir \/ (cmd[p] = "fresh" /\ pc[p] = "number")

Ids ==
  /\ \A p \in Procs : pc[p] # "idle" => id[p] \in 1 .. count
  /\ \A p, q \in Procs : p # q /\ pc[p] # "idle" /\ pc[q] # "idle" => id[p] # id[q]
  /\ \A p \in Procs : dir[p][2] <= count
  /\ \A d \in Past : d[2] <= count

Bounds ==
  /\ Issued >= 0
  /\ \A p \in Procs : dir[p][1] <= Issued
  /\ \A p \in Procs : pc[p] # "number" => ver[p] <= Issued
  /\ \A d \in Past : d[1] <= Issued
  /\ \A s \in resolved : s.ver <= Issued

\* The directory of a fresh run is its own.
Own ==
  \A p \in Procs : cmd[p] = "fresh" =>
    /\ pc[p] \in {"number", "mkdir"} =>
         /\ \A d \in Past : d[2] # id[p]
         /\ \A q \in Procs \ {p} : dir[q][2] # id[p]
    /\ pc[p] # "number" => dir[p][2] = id[p]
    /\ pc[p] \in {"leaf", "resolved", "lock", "write", "begin"} =>
         dir[p] \in Intact /\ dir[p] \notin ckpts

\* A trained run is not removed.
Trained ==
  /\ ckpts \subseteq Intact
  /\ \A d \in ckpts : meta[d] # NoMeta
  /\ \A p \in Procs : cmd[p] \in {"resume", "close"} \/ pc[p] = "train" => dir[p] \in ckpts
  /\ \A p \in Procs : pc[p] = "begin" => meta[dir[p]] # NoMeta

Resuming(p) == cmd[p] = "resume" /\ pc[p] \in {"read", "leaf", "resolved", "lock", "write"}
Reading(p)  == pc[p] = "read" /\ cmd[p] # "resume"

Held ==
  \A p \in Procs :
    /\ pc[p] = "mkdir" \/ Resuming(p) => runIdLock = p
    /\ (pc[p] = "write" \/ Reading(p)) /\ dir[p] \in Intact => metaLock[dir[p]] = p
    /\ pc[p] = "write" /\ cmd[p] \in {"close", "mark"} /\ dir[p] \in Intact =>
         seen[p] = meta[dir[p]]

NewNumber ==
  \A p \in Procs : pc[p] = "mkdir" => \A d \in Intact : d[1] # dir[p][1]

Written(d, v) == \E s \in resolved : s.dir = d /\ s.ver = v
Versioned ==
  \A p \in Procs :
    /\ pc[p] \in {"leaf", "resolved"} \/ (Resuming(p) /\ pc[p] = "read") =>
         \A s \in resolved : s.dir = dir[p] => s.ver < ver[p]
    /\ cmd[p] \in {"fresh", "resume"} /\ pc[p] \in {"lock", "write"} => Written(dir[p], ver[p])
    /\ cmd[p] = "recover" /\ dir[p] \in Intact => Written(dir[p], ver[p])
    /\ Resuming(p) =>
         /\ meta[dir[p]].ver < ver[p]
         /\ \A q \in Procs : cmd[q] = "recover" /\ dir[q] = dir[p] => ver[q] < ver[p]

\* The version in the metadata has been written.
Named == \A d \in Intact : meta[d] # NoMeta => Written(d, meta[d].ver)

IInv ==
  /\ TypeOK /\ Shape /\ Ids /\ Bounds /\ Own /\ Trained /\ Held /\ NewNumber /\ Versioned
  /\ UniqueNumber /\ Named

(***************************************************************************)
(* Numbers                                                                 *)
(***************************************************************************)
LEMMA NatWellFounded == IsWellFoundedOn({w \in Nat \X Nat : w[1] < w[2]}, Nat)
BY NatLessThanWellFounded DEF OpToRel

\* Highest is what its name says: the distances from a bound have a minimum.
LEMMA HighestOf ==
  ASSUME NEW M \in Nat, NEW S, S \subseteq 0 .. M, S # {}
  PROVE  Highest(S) \in S /\ \A k \in S : k <= Highest(S)
<1> DEFINE T == {M - k : k \in S}
<1>1. T \subseteq Nat /\ T # {}
  <2>1. \A k \in S : M - k \in Nat
    OBVIOUS
  <2>2. QED
    BY <2>1
<1>2. PICK x \in T : \A y \in T : ~(<<y, x>> \in {w \in Nat \X Nat : w[1] < w[2]})
  <2> HIDE DEF T
  <2> QED
    BY <1>1, NatWellFounded, WFMin
<1>3. PICK n \in S : x = M - n
  BY <1>2
<1>4. \A k \in S : k <= n
  <2> TAKE k \in S
  <2>1. M - k \in T /\ M - k \in Nat /\ M - n \in Nat /\ k \in Int /\ n \in Int
    OBVIOUS
  <2>2. ~(M - k < M - n)
    BY <1>2, <1>3, <2>1
  <2>3. QED
    BY <2>1, <2>2
<1>5. QED
  BY <1>3, <1>4 DEF Highest

LEMMA WaitingFinite ==
  ASSUME TypeOK
  PROVE  IsFiniteSet(Waiting) /\ Cardinality(Waiting) \in Nat /\ Issued \in Int
<1>1. IsFiniteSet(Waiting)
  BY RegistryAssumption, FS_Subset DEF Waiting
<1>2. Cardinality(Waiting) \in Nat
  BY <1>1, FS_CardinalityType
<1>3. QED
  BY <1>1, <1>2, RegistryAssumption DEF Issued, TypeOK

\* A command that begins to wait, one that ceases to, and any other step.
LEMMA WaitingSteps ==
  ASSUME TypeOK, NEW p \in Procs, NEW l, pc' = [pc EXCEPT ![p] = l]
  PROVE  /\ pc[p] # "number" /\ l = "number" => Cardinality(Waiting') = Cardinality(Waiting) + 1
         /\ pc[p] = "number" /\ l # "number" =>
              Cardinality(Waiting') = Cardinality(Waiting) - 1 /\ Cardinality(Waiting) > 0
         /\ (pc[p] = "number") = (l = "number") => Waiting' = Waiting
<1>1. IsFiniteSet(Waiting) /\ Cardinality(Waiting) \in Nat
  BY WaitingFinite
<1>2. \A q \in Procs : pc'[q] = IF q = p THEN l ELSE pc[q]
  BY DEF TypeOK
<1>3. CASE pc[p] # "number" /\ l = "number"
  <2>1. Waiting' = Waiting \cup {p} /\ p \notin Waiting
    BY <1>2, <1>3 DEF Waiting
  <2>2. QED
    BY <1>1, <1>3, <2>1, FS_AddElement
<1>4. CASE pc[p] = "number" /\ l # "number"
  <2>1. Waiting' = Waiting \ {p} /\ p \in Waiting
    BY <1>2, <1>4 DEF Waiting
  <2>2. Cardinality(Waiting') = Cardinality(Waiting) - 1 /\ Waiting # {}
    BY <1>1, <1>4, <2>1, FS_RemoveElement
  <2>3. Cardinality(Waiting) # 0
    BY <1>1, <2>2, FS_EmptySet
  <2>4. QED
    BY <1>1, <1>4, <2>2, <2>3
<1>5. CASE (pc[p] = "number") = (l = "number")
  <2>1. Waiting' = Waiting
    BY <1>2, <1>5 DEF Waiting
  <2>2. QED
    BY <1>5, <2>1
<1>6. QED
  BY <1>3, <1>4, <1>5
(***************************************************************************)
(* The steps                                                               *)
(***************************************************************************)
LEMMA IssuedSteps ==
  ASSUME TypeOK, NEW p \in Procs, NEW l, pc' = [pc EXCEPT ![p] = l]
  PROVE  /\ count' = count + 1 /\ pc[p] = "idle" => Issued' >= Issued
         /\ count' = count /\ l # "number" => Issued' >= Issued
         /\ count' = count /\ l # "number" /\ pc[p] = "number" => Issued' = Issued + 1
         /\ count' \in Int => Issued' \in Int
<1>1. Cardinality(Waiting) \in Nat /\ count \in Nat
  BY WaitingFinite, RegistryAssumption DEF TypeOK
<1>2. CASE pc[p] # "number" /\ l = "number"
  <2>1. Cardinality(Waiting') = Cardinality(Waiting) + 1
    BY <1>2, WaitingSteps
  <2>2. QED
    BY <1>1, <1>2, <2>1 DEF Issued
<1>3. CASE pc[p] = "number" /\ l # "number"
  <2>1. Cardinality(Waiting') = Cardinality(Waiting) - 1
    BY <1>3, WaitingSteps
  <2>2. QED
    BY <1>1, <1>3, <2>1 DEF Issued
<1>4. CASE (pc[p] = "number") = (l = "number")
  <2>1. Cardinality(Waiting') = Cardinality(Waiting)
    BY <1>4, WaitingSteps
  <2>2. QED
    BY <1>1, <1>4, <2>1 DEF Issued
<1>5. QED
  BY <1>2, <1>3, <1>4

LEMMA DirPair == \A d \in Dir \cup {NoDir} : d[1] \in Int /\ d[2] \in Int
BY RegistryAssumption DEF Dir, Number, NoDir

LEMMA PastDir ==
  ASSUME TypeOK PROVE Past \subseteq Dir /\ \A s \in resolved : s.dir \in Past /\ s.ver \in Int
BY RegistryAssumption DEF TypeOK, Past, Files, Version

\* What a step that gives no number keeps of the bounds.
LEMMA BoundsStep ==
  ASSUME IInv, TypeOK', NEW p \in Procs, NEW l, pc' = [pc EXCEPT ![p] = l],
         \/ count' = count /\ l # "number"
         \/ count' = count + 1 /\ pc[p] = "idle",
         Past' \subseteq Past \cup ({dir[p]} \cap Dir),
         \A q \in Procs : dir'[q] \in {dir[q]} \cup Past \cup {NoDir},
         \A q \in Procs : pc'[q] # "number" =>
           \/ ver'[q] = 0 \/ (pc[q] # "number" /\ ver'[q] = ver[q])
           \/ \E s \in resolved : ver'[q] = s.ver,
         \A s \in resolved' : s \in resolved \/ (s.ver = ver[p] /\ pc[p] # "number")
  PROVE  Bounds'
<1>1. TypeOK
  BY DEF IInv
<1>2. Issued' >= Issued
  BY <1>1, IssuedSteps
<1>3. Issued' \in Int /\ Issued \in Int
  <2>1. count' \in Int
    BY RegistryAssumption DEF TypeOK
  <2>2. QED
    BY <1>1, <2>1, WaitingFinite, IssuedSteps
<1>4. Issued' >= 0
  BY <1>2, <1>3 DEF IInv, Bounds
<1>5. \A d \in Past \cup {NoDir} : d[1] <= Issued
  BY <1>3 DEF IInv, Bounds, NoDir
<1>6. \A q \in Procs : dir[q] \in Dir \cup {NoDir} /\ ver[q] \in Int
  BY <1>1, RegistryAssumption DEF TypeOK, Version
<1>7. \A q \in Procs : dir'[q][1] <= Issued'
  <2> TAKE q \in Procs
  <2>1. dir'[q] \in Dir \cup {NoDir} /\ dir'[q][1] <= Issued
    BY <1>1, <1>5, <1>6, PastDir DEF IInv, Bounds
  <2>2. QED
    BY <1>2, <1>3, <2>1, DirPair
<1>8. \A d \in Past' : d[1] <= Issued'
  <2> TAKE d \in Past'
  <2>1. d \in Dir /\ d[1] <= Issued
    BY <1>1, <1>5, PastDir DEF IInv, Bounds
  <2>2. QED
    BY <1>2, <1>3, <2>1, DirPair
<1>9. \A q \in Procs : pc'[q] # "number" => ver'[q] <= Issued'
  BY <1>1, <1>2, <1>3, <1>4, <1>6, PastDir DEF IInv, Bounds
<1>10. \A s \in resolved' : s.ver <= Issued'
  BY <1>1, <1>2, <1>3, <1>6, PastDir DEF IInv, Bounds
<1>11. QED
  BY <1>4, <1>7, <1>8, <1>9, <1>10 DEF Bounds

\* The same of the ids.
LEMMA IdsStep ==
  ASSUME IInv, TypeOK', NEW p \in Procs, count' = count,
         Past' \subseteq Past \cup ({dir[p]} \cap Dir),
         \A q \in Procs : dir'[q] \in {dir[q]} \cup Past \cup {NoDir},
         \A q \in Procs : pc'[q] # "idle" => pc[q] # "idle" /\ id'[q] = id[q]
  PROVE  Ids'
<1>1. TypeOK
  BY DEF IInv
<1>2. \A d \in Past \cup {NoDir} : d[2] <= count
  BY <1>1, RegistryAssumption DEF IInv, Ids, TypeOK, NoDir
<1>3. QED
  BY <1>2 DEF IInv, Ids

\* And of those of a command that starts.
LEMMA IdsStart ==
  ASSUME IInv, TypeOK', NEW p \in Procs, NEW c, NEW l, NEW d \in dirs \cup {NoDir}, NEW v,
         Start(p, c, l, d, v)
  PROVE  Ids'
<1>1. TypeOK /\ count \in Int /\ count' = count + 1
  BY RegistryAssumption DEF IInv, TypeOK, Start
<1>2. Past' = Past /\ Past \subseteq Dir
  BY <1>1, PastDir DEF Past, Start, files, pair
<1>3. /\ dir' = [dir EXCEPT ![p] = d] /\ id' = [id EXCEPT ![p] = count + 1]
     /\ pc' = [pc EXCEPT ![p] = l] /\ pc[p] = "idle"
  BY DEF Start, Goto
<1>a. /\ dir \in [Procs -> Dir \cup {NoDir}] /\ id \in [Procs -> 0 .. MaxCommands]
     /\ \A q \in Procs : pc'[q] = IF q = p THEN l ELSE pc[q]
  BY <1>1, <1>3 DEF TypeOK
<1>4. \A e \in Past \cup {NoDir} : e[2] <= count /\ e[2] \in Int
  BY <1>1, <1>2, DirPair, RegistryAssumption DEF IInv, Ids, TypeOK, NoDir
<1>5. d \in Past \cup {NoDir}
  BY DEF Past
<1>6. \A q \in Procs : dir'[q][2] <= count'
  <2> TAKE q \in Procs
  <2>1. CASE q = p
    BY <1>1, <1>3, <1>a, <1>4, <1>5, <2>1
  <2>2. CASE q # p
    <3>1. dir'[q] = dir[q]
      BY <1>3, <1>a, <2>2
    <3>2. dir[q][2] <= count /\ dir[q][2] \in Int
      BY <1>a, DirPair DEF IInv, Ids
    <3>3. QED
      BY <1>1, <3>1, <3>2
  <2>3. QED
    BY <2>1, <2>2
<1>7. \A e \in Past' : e[2] <= count'
  BY <1>1, <1>2, <1>4
<1>b. \A q \in Procs : id[q] \in Int /\ id'[q] = IF q = p THEN count + 1 ELSE id[q]
  BY <1>3, <1>a
<1>c. count >= 0
  BY <1>1, RegistryAssumption DEF TypeOK
<1>8. \A q \in Procs : pc'[q] # "idle" => id'[q] \in 1 .. count'
  BY <1>1, <1>a, <1>b, <1>c DEF IInv, Ids
<1>9. \A q, r \in Procs : q # r /\ pc'[q] # "idle" /\ pc'[r] # "idle" => id'[q] # id'[r]
  BY <1>1, <1>a, <1>b DEF IInv, Ids
<1>10. QED
  BY <1>6, <1>7, <1>8, <1>9 DEF Ids

LEMMA MaxNumberOf ==
  ASSUME TypeOK
  PROVE  /\ MaxNumber \in Nat /\ \A d \in dirs : d[1] <= MaxNumber
         /\ MaxNumber = 0 \/ \E d \in dirs : MaxNumber = d[1]
<1> DEFINE S == {d[1] : d \in dirs}
<1>1. S \subseteq 0 .. MaxCommands
  BY RegistryAssumption DEF TypeOK, Dir, Number
<1>2. CASE S = {}
  BY <1>2 DEF MaxNumber, Highest
<1>3. CASE S # {}
  <2>1. Highest(S) \in S /\ \A k \in S : k <= Highest(S)
    <3> HIDE DEF S
    <3> QED
      BY <1>1, <1>3, HighestOf, RegistryAssumption
  <2>2. QED
    BY <1>1, <2>1, RegistryAssumption DEF MaxNumber
<1>4. QED
  BY <1>2, <1>3

LEMMA MaxVersionOf ==
  ASSUME TypeOK, NEW d
  PROVE  /\ MaxVersion(d) \in Version /\ \A s \in resolved : s.dir = d => s.ver <= MaxVersion(d)
         /\ MaxVersion(d) = 0 \/ Written(d, MaxVersion(d))
<1> DEFINE S == Versions(d)
<1>1. S \subseteq 0 .. MaxCommands
  BY DEF TypeOK, Files, Version, Versions
<1>2. CASE S = {}
  BY <1>2, RegistryAssumption DEF MaxVersion, Highest, Version, Versions
<1>3. CASE S # {}
  <2>1. Highest(S) \in S /\ \A k \in S : k <= Highest(S)
    <3> HIDE DEF S
    <3> QED
      BY <1>1, <1>3, HighestOf, RegistryAssumption
  <2>2. QED
    BY <1>1, <2>1 DEF MaxVersion, Written, Version, Versions
<1>4. QED
  BY <1>2, <1>3

\* The version of the next resume is above all that are written, and no higher than
\* it must be.
LEMMA NextVersionOf ==
  ASSUME TypeOK, MaxCommands >= 1, NEW d
  PROVE  /\ NextVersion(d) \in Nat /\ \A s \in resolved : s.dir = d => s.ver < NextVersion(d)
         /\ NextVersion(d) = 2 \/ \E s \in resolved : s.dir = d /\ NextVersion(d) = s.ver + 1
<1> DEFINE S == {1} \cup Versions(d)
<1>1. S \subseteq 0 .. MaxCommands /\ S # {}
  BY RegistryAssumption DEF TypeOK, Files, Version, Versions
<1>2. Highest(S) \in S /\ \A k \in S : k <= Highest(S)
  <2> HIDE DEF S
  <2> QED
    BY <1>1, HighestOf, RegistryAssumption
<1>3. Highest(S) \in Nat /\ NextVersion(d) = Highest(S) + 1
  BY <1>1, <1>2 DEF NextVersion
<1>4. \A s \in resolved : s.dir = d => s.ver \in S /\ s.ver \in Nat
  BY DEF Versions, TypeOK, Files, Version
<1>5. Highest(S) = 1 \/ \E s \in resolved : s.dir = d /\ Highest(S) = s.ver
  BY <1>2 DEF Versions
<1>6. QED
  <2> HIDE DEF S
  <2>1. \A s \in resolved : s.dir = d => s.ver < NextVersion(d)
    BY <1>2, <1>3, <1>4
  <2>2. QED
    BY <1>3, <1>5, <2>1

LEMMA StartFreshKeeps ==
  ASSUME IInv, NEW p \in Procs, StartFresh(p) PROVE IInv'
<1>1. TypeOK'
  <2>1. pc[p] # "idle" /\ ~(cmd[p] = "fresh" /\ pc[p] = "number") => dir[p] \in Dir
    BY DEF IInv, Shape
  <2>2. QED
    BY <2>1, RegistryAssumption
       DEF IInv, TypeOK, Shape, Version, Number, Meta, NoMeta, Terminal, StartFresh, Start,
           Goto, files, pair, locks, local
<1>2. Shape'
  BY DEF IInv, Shape, TypeOK, NoDir, StartFresh, Start, Goto, files, pair, locks, local
<1>3. Ids'
  BY <1>1, IdsStart DEF StartFresh
<1>4. Bounds'
  <2>1. Past' \subseteq Past \cup ({dir[p]} \cap Dir)
    BY <1>1 DEF Past, TypeOK, Shape, StartFresh, Start, files, pair
  <2>2. \A q \in Procs : dir'[q] \in {dir[q]} \cup Past \cup {NoDir}
    BY DEF TypeOK, Past, StartFresh, Start, Goto, files, pair, local
  <2>3. \A q \in Procs : pc'[q] # "number" =>
           \/ ver'[q] = 0 \/ (pc[q] # "number" /\ ver'[q] = ver[q])
           \/ \E s \in resolved : ver'[q] = s.ver
    BY DEF IInv, TypeOK, Shape, StartFresh, Start, Goto, files, pair, local
  <2>4. \A s \in resolved' : s \in resolved \/ (s.ver = ver[p] /\ pc[p] # "number")
    BY DEF StartFresh, Start, files, pair
  <2>5. QED
    BY <1>1, <2>1, <2>2, <2>3, <2>4, BoundsStep DEF StartFresh, Start, Goto
<1>5. Own'
  BY DEF IInv, Own, TypeOK, Shape, Ids, Trained, Past, Intact, NoDir, StartFresh, Start, Goto,
         files, pair, locks, local
<1>6. Trained'
  BY DEF IInv, Trained, TypeOK, Shape, Own, Intact, NoMeta, StartFresh, Start, Goto, files,
         pair, locks, local
<1>7. Held'
  BY RegistryAssumption
     DEF IInv, Held, TypeOK, Shape, Ids, Own, Trained, Intact, Resuming, Reading, StartFresh,
         Start, Goto, files, pair, locks, local
<1>8. NewNumber'
  BY DEF IInv, NewNumber, TypeOK, Shape, Own, Held, Intact, Past, StartFresh, Start, Goto,
         files, pair, locks, local
<1>9. Versioned'
  BY DEF IInv, Versioned, TypeOK, Shape, Ids, Own, Trained, Held, Intact, Resuming, Reading,
         Written, Past, NoMeta, StartFresh, Start, Goto, files, pair, locks, local
<1>10. UniqueNumber'
  BY DEF IInv, UniqueNumber, NewNumber, TypeOK, Shape, Intact, StartFresh, Start, Goto, files,
         pair, locks, local
<1>11. Named'
  BY DEF IInv, Named, Versioned, TypeOK, Shape, Own, Held, Trained, Intact, Written,
         Resuming, Reading, Past, NoMeta, StartFresh, Start, Goto, files, pair, locks, local
<1>12. QED
  BY <1>1, <1>2, <1>3, <1>4, <1>5, <1>6, <1>7, <1>8, <1>9, <1>10, <1>11 DEF IInv

LEMMA StartResumeKeeps ==
  ASSUME IInv, NEW p \in Procs, NEW d \in dirs, StartResume(p, d) PROVE IInv'
<1>1. TypeOK'
  <2>1. pc[p] # "idle" /\ ~(cmd[p] = "fresh" /\ pc[p] = "number") => dir[p] \in Dir
    BY DEF IInv, Shape
  <2>2. QED
    BY <2>1, RegistryAssumption
       DEF IInv, TypeOK, Shape, Version, Number, Meta, NoMeta, Terminal, StartResume, Start,
           Goto, files, pair, locks, local
<1>2. Shape'
  BY DEF IInv, Shape, TypeOK, NoDir, StartResume, Start, Goto, files, pair, locks, local
<1>3. Ids'
  BY <1>1, IdsStart DEF StartResume
<1>4. Bounds'
  <2>1. Past' \subseteq Past \cup ({dir[p]} \cap Dir)
    BY <1>1 DEF Past, TypeOK, Shape, StartResume, Start, files, pair
  <2>2. \A q \in Procs : dir'[q] \in {dir[q]} \cup Past \cup {NoDir}
    BY DEF TypeOK, Past, StartResume, Start, Goto, files, pair, local
  <2>3. \A q \in Procs : pc'[q] # "number" =>
           \/ ver'[q] = 0 \/ (pc[q] # "number" /\ ver'[q] = ver[q])
           \/ \E s \in resolved : ver'[q] = s.ver
    BY DEF TypeOK, Shape, StartResume, Start, Goto, files, pair, local
  <2>4. \A s \in resolved' : s \in resolved \/ (s.ver = ver[p] /\ pc[p] # "number")
    BY DEF StartResume, Start, files, pair
  <2>5. QED
    BY <1>1, <2>1, <2>2, <2>3, <2>4, BoundsStep DEF StartResume, Start, Goto
<1>5. Own'
  BY DEF IInv, Own, TypeOK, Shape, Ids, Trained, Past, Intact, NoDir, StartResume, Start, Goto,
         files, pair, locks, local
<1>6. Trained'
  BY DEF IInv, Trained, TypeOK, Shape, Own, Intact, NoMeta, StartResume, Start, Goto, files,
         pair, locks, local
<1>7. Held'
  BY RegistryAssumption
     DEF IInv, Held, TypeOK, Shape, Ids, Own, Trained, Intact, Resuming, Reading, StartResume,
         Start, Goto, files, pair, locks, local
<1>8. NewNumber'
  BY DEF IInv, NewNumber, TypeOK, Shape, Own, Held, Intact, Past, StartResume, Start, Goto,
         files, pair, locks, local
<1>9. Versioned'
  BY DEF IInv, Versioned, TypeOK, Shape, Ids, Own, Trained, Held, Intact, Resuming, Reading,
         Written, Past, NoMeta, StartResume, Start, Goto, files, pair, locks, local
<1>10. UniqueNumber'
  BY DEF IInv, UniqueNumber, NewNumber, TypeOK, Shape, Intact, StartResume, Start, Goto, files,
         pair, locks, local
<1>11. Named'
  BY DEF IInv, Named, Versioned, TypeOK, Shape, Own, Held, Trained, Intact, Written,
         Resuming, Reading, Past, NoMeta, StartResume, Start, Goto, files, pair, locks, local
<1>12. QED
  BY <1>1, <1>2, <1>3, <1>4, <1>5, <1>6, <1>7, <1>8, <1>9, <1>10, <1>11 DEF IInv

LEMMA StartMarkKeeps ==
  ASSUME IInv, NEW p \in Procs, NEW d \in dirs, StartMark(p, d) PROVE IInv'
<1>1. TypeOK'
  <2>1. pc[p] # "idle" /\ ~(cmd[p] = "fresh" /\ pc[p] = "number") => dir[p] \in Dir
    BY DEF IInv, Shape
  <2>2. QED
    BY <2>1, RegistryAssumption
       DEF IInv, TypeOK, Shape, Version, Number, Meta, NoMeta, Terminal, StartMark, Start, Goto,
           files, pair, locks, local
<1>2. Shape'
  BY DEF IInv, Shape, TypeOK, NoDir, StartMark, Start, Goto, files, pair, locks, local
<1>3. Ids'
  BY <1>1, IdsStart DEF StartMark
<1>4. Bounds'
  <2>1. Past' \subseteq Past \cup ({dir[p]} \cap Dir)
    BY <1>1 DEF Past, TypeOK, Shape, StartMark, Start, files, pair
  <2>2. \A q \in Procs : dir'[q] \in {dir[q]} \cup Past \cup {NoDir}
    BY DEF TypeOK, Past, StartMark, Start, Goto, files, pair, local
  <2>3. \A q \in Procs : pc'[q] # "number" =>
           \/ ver'[q] = 0 \/ (pc[q] # "number" /\ ver'[q] = ver[q])
           \/ \E s \in resolved : ver'[q] = s.ver
    BY DEF TypeOK, Shape, StartMark, Start, Goto, files, pair, local
  <2>4. \A s \in resolved' : s \in resolved \/ (s.ver = ver[p] /\ pc[p] # "number")
    BY DEF StartMark, Start, files, pair
  <2>5. QED
    BY <1>1, <2>1, <2>2, <2>3, <2>4, BoundsStep DEF StartMark, Start, Goto
<1>5. Own'
  BY DEF IInv, Own, TypeOK, Shape, Ids, Trained, Past, Intact, NoDir, StartMark, Start, Goto,
         files, pair, locks, local
<1>6. Trained'
  BY DEF IInv, Trained, TypeOK, Shape, Own, Intact, NoMeta, StartMark, Start, Goto, files, pair,
         locks, local
<1>7. Held'
  BY RegistryAssumption
     DEF IInv, Held, TypeOK, Shape, Ids, Own, Trained, Intact, Resuming, Reading, StartMark,
         Start, Goto, files, pair, locks, local
<1>8. NewNumber'
  BY DEF IInv, NewNumber, TypeOK, Shape, Own, Held, Intact, Past, StartMark, Start, Goto, files,
         pair, locks, local
<1>9. Versioned'
  BY DEF IInv, Versioned, TypeOK, Shape, Ids, Own, Trained, Held, Intact, Resuming, Reading,
         Written, Past, NoMeta, StartMark, Start, Goto, files, pair, locks, local
<1>10. UniqueNumber'
  BY DEF IInv, UniqueNumber, NewNumber, TypeOK, Shape, Intact, StartMark, Start, Goto, files,
         pair, locks, local
<1>11. Named'
  BY DEF IInv, Named, Versioned, TypeOK, Shape, Own, Held, Trained, Intact, Written,
         Resuming, Reading, Past, NoMeta, StartMark, Start, Goto, files, pair, locks, local
<1>12. QED
  BY <1>1, <1>2, <1>3, <1>4, <1>5, <1>6, <1>7, <1>8, <1>9, <1>10, <1>11 DEF IInv

LEMMA StartRecoverKeeps ==
  ASSUME IInv, NEW p \in Procs, NEW d \in dirs, StartRecover(p, d) PROVE IInv'
<1>1. TypeOK'
  <2>1. MaxVersion(d) \in Version /\ d \in Dir
    BY MaxVersionOf DEF IInv, TypeOK
  <2>2. QED
    BY <2>1, RegistryAssumption DEF IInv, TypeOK, StartRecover, Start, Goto, files, pair, locks
<1>2. Shape'
  BY DEF IInv, Shape, TypeOK, NoDir, StartRecover, Start, Goto, files, pair, locks, local
<1>3. Ids'
  BY <1>1, IdsStart DEF StartRecover
<1>4. Bounds'
  <2>1. Past' \subseteq Past \cup ({dir[p]} \cap Dir)
    BY <1>1 DEF Past, TypeOK, Shape, StartRecover, Start, files, pair
  <2>2. \A q \in Procs : dir'[q] \in {dir[q]} \cup Past \cup {NoDir}
    BY DEF TypeOK, Past, StartRecover, Start, Goto, files, pair, local
  <2>3. \E s \in resolved : s.ver = MaxVersion(d)
    <3>1. MaxVersion(d) # 0
      BY DEF StartRecover
    <3>2. QED
      BY <3>1, MaxVersionOf DEF IInv, Written
  <2>4. \A q \in Procs : ver'[q] = IF q = p THEN MaxVersion(d) ELSE ver[q]
    BY DEF IInv, TypeOK, StartRecover, Start
  <2>5. \A q \in Procs : pc'[q] # "number" =>
           \/ ver'[q] = 0 \/ (pc[q] # "number" /\ ver'[q] = ver[q])
           \/ \E s \in resolved : ver'[q] = s.ver
    BY <2>3, <2>4 DEF TypeOK, StartRecover, Start, Goto
  <2>6. \A s \in resolved' : s \in resolved \/ (s.ver = ver[p] /\ pc[p] # "number")
    BY DEF StartRecover, Start, files, pair
  <2>7. QED
    BY <1>1, <2>1, <2>2, <2>5, <2>6, BoundsStep DEF StartRecover, Start, Goto
<1>5. Own'
  BY DEF IInv, Own, TypeOK, Shape, Ids, Trained, Past, Intact, NoDir, StartRecover, Start, Goto,
         files, pair, locks, local
<1>6. Trained'
  BY DEF IInv, Trained, TypeOK, Shape, Own, Intact, NoMeta, StartRecover, Start, Goto, files,
         pair, locks, local
<1>7. Held'
  BY RegistryAssumption
     DEF IInv, Held, TypeOK, Shape, Ids, Own, Trained, Intact, Resuming, Reading, StartRecover,
         Start, Goto, files, pair, locks, local
<1>8. NewNumber'
  BY DEF IInv, NewNumber, TypeOK, Shape, Own, Held, Intact, Past, StartRecover, Start, Goto,
         files, pair, locks, local
<1>9. Versioned'
  <2>1. Written(d, MaxVersion(d)) /\ meta[d] = NoMeta
    <3>1. MaxVersion(d) # 0
      BY DEF StartRecover
    <3>2. QED
      BY <3>1, MaxVersionOf DEF IInv, StartRecover
  <2>2. resolved' = resolved /\ meta' = meta /\ Intact' = Intact
    BY DEF StartRecover, Start, files, pair, Intact
  <2>3. \A q \in Procs \ {p} :
          pc'[q] = pc[q] /\ cmd'[q] = cmd[q] /\ dir'[q] = dir[q] /\ ver'[q] = ver[q]
    BY DEF TypeOK, StartRecover, Start, Goto
  <2>4. pc'[p] = "lock" /\ cmd'[p] = "recover" /\ dir'[p] = d /\ ver'[p] = MaxVersion(d)
    BY DEF IInv, TypeOK, StartRecover, Start, Goto
  <2>5. \A q \in Procs : Resuming(q)' => Resuming(q) /\ q # p /\ dir[q] # d
    BY <2>1, <2>3, <2>4 DEF IInv, Trained, Resuming
  <2>6. QED
    BY <2>1, <2>2, <2>3, <2>4, <2>5 DEF IInv, Versioned, Written
<1>10. UniqueNumber'
  BY DEF IInv, UniqueNumber, NewNumber, TypeOK, Shape, Intact, StartRecover, Start, Goto, files,
         pair, locks, local
<1>11. Named'
  BY DEF IInv, Named, Versioned, TypeOK, Shape, Own, Held, Trained, Intact, Written,
         Resuming, Reading, Past, NoMeta, StartRecover, Start, Goto, files, pair, locks, local
<1>12. QED
  BY <1>1, <1>2, <1>3, <1>4, <1>5, <1>6, <1>7, <1>8, <1>9, <1>10, <1>11 DEF IInv

LEMMA TakeRunIdLockKeeps ==
  ASSUME IInv, NEW p \in Procs, TakeRunIdLock(p) PROVE IInv'
<1>1. TypeOK /\ pc[p] = "number" /\ runIdLock = Nobody /\ runIdLock' = p /\ count' = count
  BY DEF IInv, TakeRunIdLock
<1>2. cmd' = cmd /\ id' = id /\ seen' = seen /\ metaLock' = metaLock
      /\ resolved' = resolved /\ leaf' = leaf
      /\ meta' = meta /\ dirs' = dirs /\ revived' = revived /\ ckpts' = ckpts
  BY DEF TakeRunIdLock, files, pair
<1>3. Past' = Past /\ Intact' = Intact
  BY <1>2 DEF Past, Intact
<1>4. count \in Int /\ count <= MaxCommands /\ MaxCommands \in Nat
  BY <1>1, RegistryAssumption DEF TypeOK
<1>5. Issued \in Nat /\ Issued' = Issued + 1 /\ Issued' <= count
  <2>1. PICK l : l # "number" /\ pc' = [pc EXCEPT ![p] = l]
    BY DEF TakeRunIdLock, Allocate, Goto
  <2>2. Issued' = Issued + 1
    BY <1>1, <2>1, IssuedSteps
  <2>3. Cardinality(Waiting) > 0 /\ Cardinality(Waiting) \in Nat
    BY <1>1, <2>1, WaitingSteps, WaitingFinite
  <2>4. Issued \in Int /\ Issued >= 0
    BY <1>1, WaitingFinite DEF IInv, Bounds
  <2>5. QED
    BY <1>4, <2>2, <2>3, <2>4 DEF Issued
<1>6. Bounds /\ Ids /\ Own /\ Shape /\ Held /\ Trained /\ NewNumber /\ Versioned
  BY DEF IInv
<1>t. /\ dir \in [Procs -> Dir \cup {NoDir}] /\ ver \in [Procs -> Version]
     /\ pc \in [Procs -> {"idle", "number", "mkdir", "read", "leaf", "resolved", "lock", "write",
                      "begin", "train"}]
  BY <1>1 DEF TypeOK
<1>7. UniqueNumber' /\ Named'
  BY <1>2 DEF IInv, UniqueNumber, Named, Written, Intact
<1>8. CASE cmd[p] = "fresh"
  <2> DEFINE n == MaxNumber + 1
             e == <<n, id[p]>>
  <2>1. n \in Number /\ n <= Issued' /\ \A d \in dirs : d[1] # n
    <3>1. MaxNumber \in Nat /\ MaxNumber <= Issued
      BY <1>1, <1>5, <1>6, MaxNumberOf DEF Bounds, Past
    <3>2. \A d \in dirs : d[1] \in Int /\ d[1] <= MaxNumber
      BY <1>1, DirPair, MaxNumberOf DEF TypeOK
    <3>3. QED
      BY <1>4, <1>5, <3>1, <3>2 DEF Number
  <2>2. id[p] \in 1 .. count /\ id[p] \in Number
    BY <1>1, <1>4, <1>6 DEF Ids, Number
  <2>3. e \in Dir /\ e[1] = n /\ e[2] = id[p]
    BY <2>1, <2>2 DEF Dir
  <2> HIDE DEF n, e
  <2>4. dir' = [dir EXCEPT ![p] = e] /\ pc' = [pc EXCEPT ![p] = "mkdir"] /\ ver' = ver
    BY <1>8 DEF TakeRunIdLock, Allocate, Goto, n, e
  <2>5. TypeOK'
    BY <1>1, <1>2, <2>3, <2>4 DEF TypeOK
  <2>6. \A q \in Procs : (dir'[q] = IF q = p THEN e ELSE dir[q])
            /\ (pc'[q] = IF q = p THEN "mkdir" ELSE pc[q])
    BY <1>t, <2>4
  <2>7. Shape'
    BY <1>2, <1>6, <1>8, <2>3, <2>4, <2>6 DEF Shape
  <2>8. Ids'
    BY <1>1, <1>2, <1>3, <1>6, <2>2, <2>3, <2>6 DEF Ids
  <2>9. Bounds'
    <3>1. \A q \in Procs : dir[q][1] \in Int /\ ver[q] \in Int
      BY <1>1, DirPair, RegistryAssumption DEF TypeOK, Version
    <3>2. \A d \in Past : d[1] \in Int
      BY <1>1, DirPair, PastDir
    <3>3. \A s \in resolved : s.ver \in Int
      BY <1>1, PastDir
    <3>4. ver[p] <= Issued'
      <4>1. ver[p] <= 1
        BY <1>1, <1>6 DEF Shape
      <4>2. QED
        BY <1>5, <3>1, <4>1
    <3>5. QED
      BY <1>2, <1>3, <1>5, <1>6, <2>1, <2>3, <2>4, <2>6, <3>1, <3>2, <3>3, <3>4 DEF Bounds
  <2>10. Own'
    BY <1>1, <1>2, <1>3, <1>6, <1>8, <2>3, <2>6 DEF Own, Ids, TypeOK
  <2>11. Trained'
    BY <1>2, <1>3, <1>6, <1>8, <2>6 DEF Trained
  <2>12. Held'
    BY <1>1, <1>2, <1>3, <1>6, <1>8, <2>6, RegistryAssumption DEF Held, Resuming, Reading
  <2>13. NewNumber'
    BY <1>1, <1>3, <1>6, <2>1, <2>3, <2>6, RegistryAssumption DEF NewNumber, Held, Intact
  <2>14. Versioned'
    BY <1>2, <1>3, <1>6, <1>8, <2>4, <2>6 DEF Versioned, Resuming, Written
  <2>15. QED
    BY <1>7, <2>5, <2>7, <2>8, <2>9, <2>10, <2>11, <2>12, <2>13, <2>14 DEF IInv
<1>9. CASE cmd[p] = "resume"
  <2> DEFINE v == NextVersion(dir[p])
  <2>1. dir[p] \in ckpts /\ dir[p] \in Intact /\ meta[dir[p]] # NoMeta /\ dir[p] \in dirs
    BY <1>6, <1>9 DEF Trained, Intact
  <2>2. v \in Version /\ v <= Issued' /\ \A s \in resolved : s.dir = dir[p] => s.ver < v
    <3>1. dir[p] \in Dir /\ dir[p][1] <= Issued
      BY <1>1, <1>6, <2>1, PastDir DEF Bounds, Past
    <3>2. Issued >= 1
      BY <1>5, <3>1 DEF Dir, Number
    <3>3. MaxCommands >= 1
      BY <1>4, <1>5, <3>2
    <3>4. \A s \in resolved : s.ver \in Int /\ s.ver <= Issued
      BY <1>1, <1>6, PastDir DEF Bounds
    <3>5. v \in Nat /\ (v = 2 \/ \E s \in resolved : v = s.ver + 1)
      BY <1>1, <3>3, NextVersionOf
    <3>6. v <= Issued + 1
      BY <1>5, <3>2, <3>4, <3>5
    <3>7. \A s \in resolved : s.dir = dir[p] => s.ver < v
      BY <1>1, <3>3, NextVersionOf
    <3>8. QED
      BY <1>4, <1>5, <3>5, <3>6, <3>7 DEF Version
  <2> HIDE DEF v
  <2>3. ver' = [ver EXCEPT ![p] = v] /\ pc' = [pc EXCEPT ![p] = "read"] /\ dir' = dir
    BY <1>9 DEF TakeRunIdLock, Allocate, Goto, v
  <2>4. TypeOK'
    BY <1>1, <1>2, <2>2, <2>3 DEF TypeOK
  <2>5. \A q \in Procs : (ver'[q] = IF q = p THEN v ELSE ver[q])
            /\ (pc'[q] = IF q = p THEN "read" ELSE pc[q])
    BY <1>t, <2>3
  <2>6. Shape'
    BY <1>2, <1>6, <1>9, <2>3, <2>5 DEF Shape
  <2>7. Ids'
    BY <1>1, <1>2, <1>3, <1>6, <2>3, <2>5 DEF Ids
  <2>8. Bounds'
    <3>1. \A q \in Procs : dir[q][1] \in Int /\ ver[q] \in Int
      BY <1>1, DirPair, RegistryAssumption DEF TypeOK, Version
    <3>2. \A d \in Past : d[1] \in Int
      BY <1>1, DirPair, PastDir
    <3>3. \A s \in resolved : s.ver \in Int
      BY <1>1, PastDir
    <3>4. QED
      BY <1>2, <1>3, <1>5, <1>6, <2>2, <2>3, <2>5, <3>1, <3>2, <3>3 DEF Bounds
  <2>9. Own'
    BY <1>1, <1>2, <1>3, <1>6, <1>9, <2>3, <2>5 DEF Own
  <2>10. Trained'
    BY <1>2, <1>3, <1>6, <1>9, <2>3, <2>5 DEF Trained
  <2>11. Held'
    BY <1>1, <1>2, <1>3, <1>6, <1>9, <2>3, <2>5, RegistryAssumption DEF Held, Resuming, Reading
  <2>12. NewNumber'
    BY <1>3, <1>6, <2>3, <2>5 DEF NewNumber
  <2>13. Versioned'
    <3>1. meta[dir[p]].ver < v
      BY <2>1, <2>2 DEF IInv, Named, Written, Intact
    <3>2. \A q \in Procs : cmd[q] = "recover" /\ dir[q] = dir[p] => ver[q] < v
      BY <1>6, <2>1, <2>2 DEF Versioned, Written
    <3>3. \A q \in Procs \ {p} : ~Resuming(q)
      BY <1>1, <1>6, RegistryAssumption DEF Held
    <3>4. QED
      BY <1>2, <1>3, <1>6, <1>9, <2>2, <2>3, <2>5, <3>1, <3>2, <3>3
         DEF Versioned, Resuming, Written
  <2>14. QED
    BY <1>7, <2>4, <2>6, <2>7, <2>8, <2>9, <2>10, <2>11, <2>12, <2>13 DEF IInv
<1>10. QED
  BY <1>1, <1>6, <1>8, <1>9 DEF Shape

LEMMA MkdirKeeps ==
  ASSUME IInv, NEW p \in Procs, Mkdir(p) PROVE IInv'
<1>1. TypeOK'
  <2>1. pc[p] # "idle" /\ ~(cmd[p] = "fresh" /\ pc[p] = "number") => dir[p] \in Dir
    BY DEF IInv, Shape
  <2>2. QED
    BY <2>1, RegistryAssumption
       DEF IInv, TypeOK, Shape, Version, Number, Meta, NoMeta, Terminal, Mkdir, Goto, files,
           pair, locks, local
<1>2. Shape'
  BY DEF IInv, Shape, TypeOK, NoDir, Mkdir, Goto, files, pair, locks, local
<1>3. Ids'
  BY DEF IInv, Ids, TypeOK, Shape, Past, NoDir, Mkdir, Goto, files, pair, locks, local
<1>4. Bounds'
  <2>1. Past' \subseteq Past \cup ({dir[p]} \cap Dir)
    BY <1>1 DEF Past, TypeOK, Shape, Mkdir, files, pair
  <2>2. \A q \in Procs : dir'[q] \in {dir[q]} \cup Past \cup {NoDir}
    BY DEF TypeOK, Past, Mkdir, Goto, files, pair, local
  <2>3. \A q \in Procs : pc'[q] # "number" =>
           \/ ver'[q] = 0 \/ (pc[q] # "number" /\ ver'[q] = ver[q])
           \/ \E s \in resolved : ver'[q] = s.ver
    BY DEF TypeOK, Shape, Mkdir, Goto, files, pair, local
  <2>4. \A s \in resolved' : s \in resolved \/ (s.ver = ver[p] /\ pc[p] # "number")
    BY DEF Mkdir, files, pair
  <2>5. QED
    BY <1>1, <2>1, <2>2, <2>3, <2>4, BoundsStep DEF Mkdir, Goto
<1>5. Own'
  BY DEF IInv, Own, TypeOK, Shape, Ids, Trained, Past, Intact, NoDir, Mkdir, Goto, files, pair,
         locks, local
<1>6. Trained'
  BY DEF IInv, Trained, TypeOK, Shape, Own, Intact, NoMeta, Mkdir, Goto, files, pair, locks,
         local
<1>7. Held'
  BY RegistryAssumption
     DEF IInv, Held, TypeOK, Shape, Ids, Own, Trained, Intact, Resuming, Reading, Mkdir, Goto,
         files, pair, locks, local
<1>8. NewNumber'
  BY DEF IInv, NewNumber, TypeOK, Shape, Own, Held, Intact, Past, Mkdir, Goto, files, pair,
         locks, local
<1>9. Versioned'
  BY DEF IInv, Versioned, TypeOK, Shape, Ids, Own, Trained, Held, Intact, Resuming, Reading,
         Written, Past, NoMeta, Mkdir, Goto, files, pair, locks, local
<1>10. UniqueNumber'
  BY DEF IInv, UniqueNumber, NewNumber, TypeOK, Shape, Intact, Mkdir, Goto, files, pair, locks,
         local
<1>11. Named'
  BY DEF IInv, Named, Versioned, TypeOK, Shape, Own, Held, Trained, Intact, Written,
         Resuming, Reading, Past, NoMeta, Mkdir, Goto, files, pair, locks, local
<1>12. QED
  BY <1>1, <1>2, <1>3, <1>4, <1>5, <1>6, <1>7, <1>8, <1>9, <1>10, <1>11 DEF IInv

LEMMA ReadForResumeKeeps ==
  ASSUME IInv, NEW p \in Procs, ReadForResume(p) PROVE IInv'
<1>1. TypeOK'
  <2>1. pc[p] # "idle" /\ ~(cmd[p] = "fresh" /\ pc[p] = "number") => dir[p] \in Dir
    BY DEF IInv, Shape
  <2>2. QED
    BY <2>1, RegistryAssumption
       DEF IInv, TypeOK, Shape, Version, Number, Meta, NoMeta, Terminal, ReadForResume, Goto,
           files, pair, locks, local
<1>2. Shape'
  BY DEF IInv, Shape, TypeOK, NoDir, ReadForResume, Goto, files, pair, locks, local
<1>3. Ids'
  BY DEF IInv, Ids, TypeOK, Shape, Past, NoDir, ReadForResume, Goto, files, pair, locks, local
<1>4. Bounds'
  <2>1. Past' \subseteq Past \cup ({dir[p]} \cap Dir)
    BY <1>1 DEF Past, TypeOK, Shape, ReadForResume, files, pair
  <2>2. \A q \in Procs : dir'[q] \in {dir[q]} \cup Past \cup {NoDir}
    BY DEF TypeOK, Past, ReadForResume, Goto, files, pair, local
  <2>3. \A q \in Procs : pc'[q] # "number" =>
           \/ ver'[q] = 0 \/ (pc[q] # "number" /\ ver'[q] = ver[q])
           \/ \E s \in resolved : ver'[q] = s.ver
    BY DEF TypeOK, Shape, ReadForResume, Goto, files, pair, local
  <2>4. \A s \in resolved' : s \in resolved \/ (s.ver = ver[p] /\ pc[p] # "number")
    BY DEF ReadForResume, files, pair
  <2>5. QED
    BY <1>1, <2>1, <2>2, <2>3, <2>4, BoundsStep DEF ReadForResume, Goto
<1>5. Own'
  BY DEF IInv, Own, TypeOK, Shape, Ids, Trained, Past, Intact, NoDir, ReadForResume, Goto,
         files, pair, locks, local
<1>6. Trained'
  BY DEF IInv, Trained, TypeOK, Shape, Own, Intact, NoMeta, ReadForResume, Goto, files, pair,
         locks, local
<1>7. Held'
  BY RegistryAssumption
     DEF IInv, Held, TypeOK, Shape, Ids, Own, Trained, Intact, Resuming, Reading, ReadForResume,
         Goto, files, pair, locks, local
<1>8. NewNumber'
  BY DEF IInv, NewNumber, TypeOK, Shape, Own, Held, Intact, Past, ReadForResume, Goto, files,
         pair, locks, local
<1>9. Versioned'
  BY DEF IInv, Versioned, TypeOK, Shape, Ids, Own, Trained, Held, Intact, Resuming, Reading,
         Written, Past, NoMeta, ReadForResume, Goto, files, pair, locks, local
<1>10. UniqueNumber'
  BY DEF IInv, UniqueNumber, NewNumber, TypeOK, Shape, Intact, ReadForResume, Goto, files, pair,
         locks, local
<1>11. Named'
  BY DEF IInv, Named, Versioned, TypeOK, Shape, Own, Held, Trained, Intact, Written,
         Resuming, Reading, Past, NoMeta, ReadForResume, Goto, files, pair, locks, local
<1>12. QED
  BY <1>1, <1>2, <1>3, <1>4, <1>5, <1>6, <1>7, <1>8, <1>9, <1>10, <1>11 DEF IInv

\* The file a command is about to write: it belongs to a directory that is there.
LEMMA FileOf ==
  ASSUME IInv, NEW p \in Procs, pc[p] \in {"leaf", "resolved"}
  PROVE  /\ File(p) \in Files /\ File(p).dir = dir[p] /\ File(p).ver = ver[p]
         /\ dir[p] \in Past \cap Dir
<1>1. dir[p] \in Dir
  BY DEF IInv, Shape
<1>2. id[p] \in Number
  BY RegistryAssumption DEF IInv, Ids, TypeOK, Number
<1>3. ver[p] \in Version
  BY DEF IInv, TypeOK
<1>4. dir[p] \in Intact
  BY DEF IInv, Shape, Own, Trained
<1>5. QED
  BY <1>1, <1>2, <1>3, <1>4 DEF File, Files, Past, Intact

\* Of what is written, nothing is replaced.
LEMMA NothingReplaced ==
  ASSUME IInv, NEW p \in Procs, WriteResolved(p)
  PROVE  resolved' = resolved \cup {File(p)}
<1>1. ver[p] \in Int /\ File(p).dir = dir[p] /\ File(p).ver = ver[p]
  BY FileOf, RegistryAssumption DEF IInv, TypeOK, Version, WriteResolved
<1>2. \A s \in resolved : s.dir = dir[p] => s.ver < ver[p]
  BY DEF IInv, Versioned, WriteResolved
<1>3. \A s \in resolved : s.ver \in Int
  BY PastDir DEF IInv
<1>4. \A s \in resolved : s.dir # File(p).dir \/ s.ver # File(p).ver
  BY <1>1, <1>2, <1>3
<1>5. QED
  BY <1>4 DEF WriteResolved, Replace

LEMMA WriteLeafKeeps ==
  ASSUME IInv, NEW p \in Procs, WriteLeaf(p) PROVE IInv'
<1>0. pc[p] = "leaf" /\ File(p) \in Files /\ File(p).dir = dir[p] /\ dir[p] \in Past
  BY FileOf DEF WriteLeaf
<1>1. TypeOK'
  BY <1>0 DEF IInv, TypeOK, Replace, WriteLeaf, Goto, locks, local
<1>p. Past' \subseteq Past
  BY <1>0 DEF Past, Replace, WriteLeaf
<1>2. Shape'
  BY DEF IInv, Shape, TypeOK, NoDir, WriteLeaf, Goto, files, pair, locks, local
<1>3. Ids'
  <2>1. \A q \in Procs : pc'[q] # "idle" => pc[q] # "idle" /\ id'[q] = id[q]
    BY <1>0 DEF IInv, TypeOK, WriteLeaf, Goto, local
  <2>2. QED
    BY <1>1, <1>p, <2>1, IdsStep DEF WriteLeaf, local
<1>4. Bounds'
  <2>1. Past' \subseteq Past \cup ({dir[p]} \cap Dir)
    BY <1>p
  <2>2. \A q \in Procs : dir'[q] \in {dir[q]} \cup Past \cup {NoDir}
    BY DEF TypeOK, Past, WriteLeaf, Goto, files, pair, local
  <2>3. \A q \in Procs : pc'[q] # "number" =>
           \/ ver'[q] = 0 \/ (pc[q] # "number" /\ ver'[q] = ver[q])
           \/ \E s \in resolved : ver'[q] = s.ver
    BY DEF TypeOK, Shape, WriteLeaf, Goto, files, pair, local
  <2>4. \A s \in resolved' : s \in resolved \/ (s.ver = ver[p] /\ pc[p] # "number")
    BY DEF WriteLeaf, files, pair
  <2>5. QED
    BY <1>1, <2>1, <2>2, <2>3, <2>4, BoundsStep DEF WriteLeaf, Goto
<1>5. Own'
  <2>1. UNCHANGED <<Intact, ckpts, cmd, id, dir>>
    BY DEF Intact, WriteLeaf, local
  <2>2. \A q \in Procs : pc'[q] = IF q = p THEN "resolved" ELSE pc[q]
    BY DEF IInv, TypeOK, WriteLeaf, Goto
  <2>3. QED
    BY <1>0, <1>p, <2>1, <2>2 DEF IInv, Own
<1>6. Trained'
  BY DEF IInv, Trained, TypeOK, Shape, Own, Intact, NoMeta, WriteLeaf, Goto, files, pair, locks,
         local
<1>7. Held'
  BY RegistryAssumption
     DEF IInv, Held, TypeOK, Shape, Ids, Own, Trained, Intact, Resuming, Reading, WriteLeaf,
         Goto, files, pair, locks, local
<1>8. NewNumber'
  BY DEF IInv, NewNumber, TypeOK, Shape, Own, Held, Intact, Past, WriteLeaf, Goto, files, pair,
         locks, local
<1>9. Versioned'
  BY DEF IInv, Versioned, TypeOK, Shape, Ids, Own, Trained, Held, Intact, Resuming, Reading,
         Written, Past, NoMeta, WriteLeaf, Goto, files, pair, locks, local
<1>10. UniqueNumber'
  BY DEF IInv, UniqueNumber, NewNumber, TypeOK, Shape, Intact, WriteLeaf, Goto, files, pair,
         locks, local
<1>11. Named'
  BY DEF IInv, Named, Versioned, TypeOK, Shape, Own, Held, Trained, Intact, Written,
         Resuming, Reading, Past, NoMeta, WriteLeaf, Goto, files, pair, locks, local
<1>12. QED
  BY <1>1, <1>2, <1>3, <1>4, <1>5, <1>6, <1>7, <1>8, <1>9, <1>10, <1>11 DEF IInv

LEMMA WriteResolvedKeeps ==
  ASSUME IInv, NEW p \in Procs, WriteResolved(p) PROVE IInv'
<1>0. pc[p] = "resolved" /\ File(p) \in Files /\ File(p).dir = dir[p] /\ dir[p] \in Past
  BY FileOf DEF WriteResolved
<1>1. TypeOK'
  BY <1>0 DEF IInv, TypeOK, Replace, WriteResolved, Goto, locks, local
<1>p. Past' \subseteq Past
  BY <1>0 DEF Past, Replace, WriteResolved
<1>2. Shape'
  BY DEF IInv, Shape, TypeOK, NoDir, WriteResolved, Goto, files, pair, locks, local
<1>3. Ids'
  <2>1. \A q \in Procs : pc'[q] # "idle" => pc[q] # "idle" /\ id'[q] = id[q]
    BY <1>0 DEF IInv, TypeOK, WriteResolved, Goto, local
  <2>2. QED
    BY <1>1, <1>p, <2>1, IdsStep DEF WriteResolved, local
<1>4. Bounds'
  <2>1. Past' \subseteq Past \cup ({dir[p]} \cap Dir)
    BY <1>p
  <2>2. \A q \in Procs : dir'[q] \in {dir[q]} \cup Past \cup {NoDir}
    BY DEF TypeOK, Past, WriteResolved, Goto, files, pair, local
  <2>3. \A q \in Procs : pc'[q] # "number" =>
           \/ ver'[q] = 0 \/ (pc[q] # "number" /\ ver'[q] = ver[q])
           \/ \E s \in resolved : ver'[q] = s.ver
    BY DEF TypeOK, Shape, WriteResolved, Goto, files, pair, local
  <2>4. \A s \in resolved' : s \in resolved \/ (s.ver = ver[p] /\ pc[p] # "number")
    BY <1>0, NothingReplaced, FileOf
  <2>5. QED
    BY <1>1, <2>1, <2>2, <2>3, <2>4, BoundsStep DEF WriteResolved, Goto
<1>5. Own'
  <2>1. UNCHANGED <<Intact, ckpts, cmd, id, dir>>
    BY DEF Intact, WriteResolved, local
  <2>2. \A q \in Procs : pc'[q] = IF q = p THEN "lock" ELSE pc[q]
    BY DEF IInv, TypeOK, WriteResolved, Goto
  <2>3. QED
    BY <1>0, <1>p, <2>1, <2>2 DEF IInv, Own
<1>6. Trained'
  BY DEF IInv, Trained, TypeOK, Shape, Own, Intact, NoMeta, WriteResolved, Goto, files, pair,
         locks, local
<1>7. Held'
  BY RegistryAssumption
     DEF IInv, Held, TypeOK, Shape, Ids, Own, Trained, Intact, Resuming, Reading, WriteResolved,
         Goto, files, pair, locks, local
<1>8. NewNumber'
  BY DEF IInv, NewNumber, TypeOK, Shape, Own, Held, Intact, Past, WriteResolved, Goto, files,
         pair, locks, local
<1>9. Versioned'
  <2>1. ver[p] \in Int /\ File(p).ver = ver[p] /\ resolved' = resolved \cup {File(p)}
    BY <1>0, NothingReplaced, FileOf, RegistryAssumption DEF IInv, TypeOK, Version
  <2>2. cmd' = cmd /\ dir' = dir /\ ver' = ver /\ meta' = meta /\ Intact' = Intact
    BY DEF WriteResolved, Intact, local
  <2>3. \A q \in Procs : pc'[q] = IF q = p THEN "lock" ELSE pc[q]
    BY DEF IInv, TypeOK, WriteResolved, Goto
  <2>4. pc[p] = "resolved" /\ cmd[p] \in {"fresh", "resume"}
    BY DEF IInv, Shape, WriteResolved
  <2>5. \A q \in Procs : Resuming(q)' => Resuming(q)
    BY <2>2, <2>3, <2>4 DEF Resuming
  <2>6. \A e, v : Written(e, v) => \E s \in resolved' : s.dir = e /\ s.ver = v
    BY <2>1 DEF Written
  <2>7. \E s \in resolved' : s.dir = dir[p] /\ s.ver = ver[p]
    BY <1>0, <2>1
  <2>8. \A q \in Procs \ {p} : pc[q] \in {"leaf", "resolved"} \/ (Resuming(q) /\ pc[q] = "read")
            => dir[q] # dir[p]
    BY <2>4 DEF IInv, TypeOK, Shape, Ids, Own, Trained, Held, Resuming
  <2>9. \A q \in Procs : pc'[q] \in {"leaf", "resolved"} \/ (Resuming(q)' /\ pc'[q] = "read") =>
          \A s \in resolved' : s.dir = dir[q] => s.ver < ver[q]
    BY <1>0, <2>1, <2>3, <2>5, <2>8 DEF IInv, Versioned
  <2>10. \A q \in Procs : cmd[q] \in {"fresh", "resume"} /\ pc'[q] \in {"lock", "write"} =>
          \E s \in resolved' : s.dir = dir[q] /\ s.ver = ver[q]
    BY <2>3, <2>6, <2>7 DEF IInv, Versioned
  <2>11. \A q \in Procs : cmd[q] = "recover" /\ dir[q] \in Intact => \E s \in resolved' :
             s.dir = dir[q] /\ s.ver = ver[q]
    BY <2>6 DEF IInv, Versioned
  <2>12. \A q \in Procs : Resuming(q)' =>
           /\ meta[dir[q]].ver < ver[q]
           /\ \A r \in Procs : cmd[r] = "recover" /\ dir[r] = dir[q] => ver[r] < ver[q]
    BY <2>5 DEF IInv, Versioned
  <2>13. QED
    BY <2>2, <2>9, <2>10, <2>11, <2>12 DEF Versioned, Written
<1>10. UniqueNumber'
  BY DEF IInv, UniqueNumber, NewNumber, TypeOK, Shape, Intact, WriteResolved, Goto, files, pair,
         locks, local
<1>11. Named'
  <2>1. resolved \subseteq resolved' /\ UNCHANGED <<Intact, meta>>
    BY <1>0, NothingReplaced DEF WriteResolved, Intact
  <2>2. QED
    BY <2>1 DEF IInv, Named, Written
<1>12. QED
  BY <1>1, <1>2, <1>3, <1>4, <1>5, <1>6, <1>7, <1>8, <1>9, <1>10, <1>11 DEF IInv

LEMMA TakeMetaLockKeeps ==
  ASSUME IInv, NEW p \in Procs, TakeMetaLock(p) PROVE IInv'
<1>1. TypeOK'
  <2>1. pc[p] # "idle" /\ ~(cmd[p] = "fresh" /\ pc[p] = "number") => dir[p] \in Dir
    BY DEF IInv, Shape
  <2>2. QED
    BY <2>1, RegistryAssumption
       DEF IInv, TypeOK, Shape, Version, Number, Meta, NoMeta, Terminal, TakeMetaLock, Goto,
           files, pair, locks, local
<1>2. Shape'
  BY DEF IInv, Shape, TypeOK, NoDir, TakeMetaLock, Goto, files, pair, locks, local
<1>3. Ids'
  BY DEF IInv, Ids, TypeOK, Shape, Past, NoDir, TakeMetaLock, Goto, files, pair, locks, local
<1>4. Bounds'
  <2>1. Past' \subseteq Past \cup ({dir[p]} \cap Dir)
    BY <1>1 DEF Past, TypeOK, Shape, TakeMetaLock, files, pair
  <2>2. \A q \in Procs : dir'[q] \in {dir[q]} \cup Past \cup {NoDir}
    BY DEF TypeOK, Past, TakeMetaLock, Goto, files, pair, local
  <2>3. \A q \in Procs : pc'[q] # "number" =>
           \/ ver'[q] = 0 \/ (pc[q] # "number" /\ ver'[q] = ver[q])
           \/ \E s \in resolved : ver'[q] = s.ver
    BY DEF TypeOK, Shape, TakeMetaLock, Goto, files, pair, local
  <2>4. \A s \in resolved' : s \in resolved \/ (s.ver = ver[p] /\ pc[p] # "number")
    BY DEF TakeMetaLock, files, pair
  <2>5. QED
    BY <1>1, <2>1, <2>2, <2>3, <2>4, BoundsStep DEF TakeMetaLock, Goto
<1>5. Own'
  BY DEF IInv, Own, TypeOK, Shape, Ids, Trained, Past, Intact, NoDir, TakeMetaLock, Goto, files,
         pair, locks, local
<1>6. Trained'
  BY DEF IInv, Trained, TypeOK, Shape, Own, Intact, NoMeta, TakeMetaLock, Goto, files, pair,
         locks, local
<1>7. Held'
  BY RegistryAssumption
     DEF IInv, Held, TypeOK, Shape, Ids, Own, Trained, Intact, Resuming, Reading, TakeMetaLock,
         Goto, files, pair, locks, local
<1>8. NewNumber'
  BY DEF IInv, NewNumber, TypeOK, Shape, Own, Held, Intact, Past, TakeMetaLock, Goto, files,
         pair, locks, local
<1>9. Versioned'
  BY DEF IInv, Versioned, TypeOK, Shape, Ids, Own, Trained, Held, Intact, Resuming, Reading,
         Written, Past, NoMeta, TakeMetaLock, Goto, files, pair, locks, local
<1>10. UniqueNumber'
  BY DEF IInv, UniqueNumber, NewNumber, TypeOK, Shape, Intact, TakeMetaLock, Goto, files, pair,
         locks, local
<1>11. Named'
  BY DEF IInv, Named, Versioned, TypeOK, Shape, Own, Held, Trained, Intact, Written,
         Resuming, Reading, Past, NoMeta, TakeMetaLock, Goto, files, pair, locks, local
<1>12. QED
  BY <1>1, <1>2, <1>3, <1>4, <1>5, <1>6, <1>7, <1>8, <1>9, <1>10, <1>11 DEF IInv

LEMMA ReadUnderLockKeeps ==
  ASSUME IInv, NEW p \in Procs, ReadUnderLock(p) PROVE IInv'
<1>1. TypeOK'
  <2>1. pc[p] # "idle" /\ ~(cmd[p] = "fresh" /\ pc[p] = "number") => dir[p] \in Dir
    BY DEF IInv, Shape
  <2>2. QED
    BY <2>1, RegistryAssumption
       DEF IInv, TypeOK, Shape, Version, Number, Meta, NoMeta, Terminal, ReadUnderLock, Goto,
           files, pair, locks, local
<1>2. Shape'
  BY DEF IInv, Shape, TypeOK, NoDir, ReadUnderLock, Goto, files, pair, locks, local
<1>3. Ids'
  BY DEF IInv, Ids, TypeOK, Shape, Past, NoDir, ReadUnderLock, Goto, files, pair, locks, local
<1>4. Bounds'
  <2>1. Past' \subseteq Past \cup ({dir[p]} \cap Dir)
    BY <1>1 DEF Past, TypeOK, Shape, ReadUnderLock, files, pair
  <2>2. \A q \in Procs : dir'[q] \in {dir[q]} \cup Past \cup {NoDir}
    BY DEF TypeOK, Past, ReadUnderLock, Goto, files, pair, local
  <2>3. \A q \in Procs : pc'[q] # "number" =>
           \/ ver'[q] = 0 \/ (pc[q] # "number" /\ ver'[q] = ver[q])
           \/ \E s \in resolved : ver'[q] = s.ver
    BY DEF TypeOK, Shape, ReadUnderLock, Goto, files, pair, local
  <2>4. \A s \in resolved' : s \in resolved \/ (s.ver = ver[p] /\ pc[p] # "number")
    BY DEF ReadUnderLock, files, pair
  <2>5. QED
    BY <1>1, <2>1, <2>2, <2>3, <2>4, BoundsStep DEF ReadUnderLock, Goto
<1>5. Own'
  BY DEF IInv, Own, TypeOK, Shape, Ids, Trained, Past, Intact, NoDir, ReadUnderLock, Goto,
         files, pair, locks, local
<1>6. Trained'
  BY DEF IInv, Trained, TypeOK, Shape, Own, Intact, NoMeta, ReadUnderLock, Goto, files, pair,
         locks, local
<1>7. Held'
  BY RegistryAssumption
     DEF IInv, Held, TypeOK, Shape, Ids, Own, Trained, Intact, Resuming, Reading, ReadUnderLock,
         Goto, files, pair, locks, local
<1>8. NewNumber'
  BY DEF IInv, NewNumber, TypeOK, Shape, Own, Held, Intact, Past, ReadUnderLock, Goto, files,
         pair, locks, local
<1>9. Versioned'
  BY DEF IInv, Versioned, TypeOK, Shape, Ids, Own, Trained, Held, Intact, Resuming, Reading,
         Written, Past, NoMeta, ReadUnderLock, Goto, files, pair, locks, local
<1>10. UniqueNumber'
  BY DEF IInv, UniqueNumber, NewNumber, TypeOK, Shape, Intact, ReadUnderLock, Goto, files, pair,
         locks, local
<1>11. Named'
  BY DEF IInv, Named, Versioned, TypeOK, Shape, Own, Held, Trained, Intact, Written,
         Resuming, Reading, Past, NoMeta, ReadUnderLock, Goto, files, pair, locks, local
<1>12. QED
  BY <1>1, <1>2, <1>3, <1>4, <1>5, <1>6, <1>7, <1>8, <1>9, <1>10, <1>11 DEF IInv

LEMMA WriteKeeps ==
  ASSUME IInv, NEW p \in Procs, Write(p) PROVE IInv'
<1>1. TypeOK'
  <2>1. pc[p] = "write" /\ dir[p] \in dirs /\ dir[p] \in Dir
    BY DEF IInv, TypeOK, Write
  <2>2. PICK s \in Allowed(p), v \in Version :
                 meta' = [meta EXCEPT ![dir[p]] = [status |-> s, ver |-> v]]
    <3>1. ver[p] \in Version /\ seen[p].ver \in Version
      BY DEF IInv, TypeOK, Meta
    <3>2. QED
      BY <3>1 DEF Write
  <2>3. meta' \in [Dir -> Meta]
    <3>1. s \in {"running", "unknown"} \cup Terminal
      BY <2>1, <2>2 DEF IInv, TypeOK, Shape, Allowed, Terminal
    <3>2. [status |-> s, ver |-> v] \in Meta
      BY <3>1 DEF Meta
    <3>3. QED
      BY <2>2, <3>2 DEF IInv, TypeOK
  <2>4. 0 \in Version /\ NoMeta \in Meta
    BY RegistryAssumption DEF Version, NoMeta, Meta
  <2>5. CASE cmd[p] \in {"fresh", "resume"}
    BY <2>1, <2>3, <2>5 DEF IInv, TypeOK, Write, Goto, Release, pair, local
  <2>6. CASE cmd[p] \notin {"fresh", "resume"}
    BY <2>1, <2>3, <2>4, <2>6, RegistryAssumption
       DEF IInv, TypeOK, Write, Exit, Goto, Release, pair, local
  <2>7. QED
    BY <2>5, <2>6
<1>2. Shape'
  BY DEF IInv, Shape, TypeOK, NoDir, Write, Allowed, Exit, Release, Goto, files, pair, locks,
         local
<1>3. Ids'
  <2>1. Past' \subseteq Past \cup ({dir[p]} \cap Dir)
    BY <1>1 DEF Past, TypeOK, Shape, Write, Exit, Release, files, pair
  <2>2. \A q \in Procs : dir'[q] \in {dir[q]} \cup Past \cup {NoDir}
    BY DEF IInv, TypeOK, Write, Exit, Goto, Release, local
  <2>3. \A q \in Procs : pc'[q] # "idle" => pc[q] # "idle" /\ id'[q] = id[q]
    BY DEF IInv, TypeOK, Write, Exit, Goto, Release, local
  <2>4. QED
    BY <1>1, <2>1, <2>2, <2>3, IdsStep DEF Write
<1>4. Bounds'
  <2>1. Past' \subseteq Past \cup ({dir[p]} \cap Dir)
    BY <1>1 DEF Past, TypeOK, Shape, Write, Allowed, Exit, Release, files, pair
  <2>2. \A q \in Procs : dir'[q] \in {dir[q]} \cup Past \cup {NoDir}
    BY DEF IInv, TypeOK, Past, Write, Allowed, Exit, Release, Goto, files, pair, local
  <2>3. \A q \in Procs : pc'[q] # "number" =>
           \/ ver'[q] = 0 \/ (pc[q] # "number" /\ ver'[q] = ver[q])
           \/ \E s \in resolved : ver'[q] = s.ver
    BY DEF IInv, TypeOK, Shape, Write, Allowed, Exit, Release, Goto, files, pair, local
  <2>4. \A s \in resolved' : s \in resolved \/ (s.ver = ver[p] /\ pc[p] # "number")
    BY DEF Write, Allowed, Exit, Release, files, pair
  <2>5. QED
    BY <1>1, <2>1, <2>2, <2>3, <2>4, BoundsStep DEF Write, Allowed, Exit, Release, Goto
<1>5. Own'
  <2>1. Past' \subseteq Past \cup ({dir[p]} \cap Dir)
    BY <1>1 DEF Past, TypeOK, Shape, Write, Exit, Release, files, pair
  <2>2. \A q \in Procs \ {p} :
          pc'[q] = pc[q] /\ cmd'[q] = cmd[q] /\ dir'[q] = dir[q] /\ id'[q] = id[q]
    BY DEF IInv, TypeOK, Write, Exit, Goto, local
  <2>3. /\ pc'[p] \in {"idle", "begin"} /\ dir'[p] \in {NoDir, dir[p]}
        /\ cmd'[p] = "fresh" => cmd[p] = "fresh" /\ dir'[p] = dir[p] /\ id'[p] = id[p]
    BY DEF IInv, TypeOK, Write, Exit, Goto, local
  <2>4. Intact' = Intact /\ ckpts' = ckpts
    BY DEF Write, Intact
  <2>5. pc[p] = "write" /\ \A q \in Procs : pc[q] # "idle" => id[q] # 0
    BY RegistryAssumption DEF Write, IInv, Ids, TypeOK
  <2>6. ASSUME NEW q \in Procs \ {p}, cmd[q] = "fresh", pc[q] \in {"number", "mkdir"}
        PROVE  (\A d \in Past' : d[2] # id[q]) /\ \A r \in Procs \ {q} : dir'[r][2] # id[q]
    <3>1. (\A d \in Past : d[2] # id[q]) /\ \A r \in Procs \ {q} : dir[r][2] # id[q]
      BY <2>6 DEF IInv, Own
    <3>2. NoDir[2] # id[q]
      BY <2>5, <2>6 DEF NoDir
    <3>3. QED
      BY <2>1, <2>2, <2>3, <3>1, <3>2
  <2>7. QED
    BY <2>2, <2>3, <2>4, <2>5, <2>6 DEF IInv, Own
<1>6. Trained'
  <2>1. pc[p] = "write" /\ dir[p] \in dirs /\ dir[p] \in Dir
    BY DEF IInv, TypeOK, Write
  <2>2. PICK s \in Allowed(p), v \in Version :
                 meta' = [meta EXCEPT ![dir[p]] = [status |-> s, ver |-> v]]
    <3>1. ver[p] \in Version /\ seen[p].ver \in Version
      BY DEF IInv, TypeOK, Meta
    <3>2. QED
      BY <3>1 DEF Write
  <2>3. s # "none"
    BY <2>1, <2>2 DEF IInv, TypeOK, Shape, Allowed, Terminal
  <2>4. \A d \in Dir : meta'[d] = IF d = dir[p] THEN [status |-> s, ver |-> v] ELSE meta[d]
    BY <2>2 DEF IInv, TypeOK
  <2>5. ckpts' = ckpts /\ Intact' = Intact /\ ckpts \subseteq Dir
    BY DEF IInv, TypeOK, Write, Intact
  <2>6. \A d \in Dir : meta[d] # NoMeta => meta'[d] # NoMeta
    BY <2>3, <2>4 DEF NoMeta
  <2>7. \A q \in Procs \ {p} : pc'[q] = pc[q] /\ cmd'[q] = cmd[q] /\ dir'[q] = dir[q]
    BY DEF IInv, TypeOK, Write, Exit, Goto, local
  <2>8. /\ pc'[p] \in {"idle", "begin"}
        /\ pc'[p] = "begin" => cmd'[p] = cmd[p] /\ dir'[p] = dir[p]
        /\ pc'[p] = "idle" => cmd'[p] = "none"
    BY DEF IInv, TypeOK, Write, Exit, Goto, local
  <2>9. meta'[dir[p]] # NoMeta
    BY <2>1, <2>3, <2>4 DEF NoMeta
  <2>10. \A q \in Procs : pc[q] = "begin" => dir[q] \in Dir
    BY DEF IInv, Shape
  <2>11. QED
    BY <2>5, <2>6, <2>7, <2>8, <2>9, <2>10 DEF IInv, Trained
<1>7. Held'
  BY RegistryAssumption
     DEF IInv, Held, TypeOK, Shape, Ids, Own, Trained, Intact, Resuming, Reading, Write,
         Allowed, Exit, Release, Goto, files, pair, locks, local
<1>8. NewNumber'
  BY DEF IInv, NewNumber, TypeOK, Shape, Own, Held, Intact, Past, Write, Allowed, Exit, Release,
         Goto, files, pair, locks, local
<1>9. Versioned'
  <2>1. pc[p] = "write" /\ dir[p] \in dirs /\ dir[p] \in Dir
    BY DEF IInv, TypeOK, Write
  <2>2. PICK s \in Allowed(p), v \in Version :
                 meta' = [meta EXCEPT ![dir[p]] = [status |-> s, ver |-> v]]
    <3>1. ver[p] \in Version /\ seen[p].ver \in Version
      BY DEF IInv, TypeOK, Meta
    <3>2. QED
      BY <3>1 DEF Write
  <2>3. UNCHANGED <<resolved, Intact>>
    BY DEF Write, pair, Intact
  <2>4. \A q \in Procs \ {p} :
          pc'[q] = pc[q] /\ cmd'[q] = cmd[q] /\ dir'[q] = dir[q] /\ ver'[q] = ver[q]
    BY DEF IInv, TypeOK, Write, Exit, Goto, local
  <2>5. /\ pc'[p] \in {"idle", "begin"} /\ cmd'[p] \in {"none", "fresh", "resume"}
    BY <2>1 DEF IInv, TypeOK, Write, Exit, Goto, local
  <2>6. \A d \in Dir \ {dir[p]} : meta'[d] = meta[d]
    BY <2>2 DEF TypeOK
  <2>7. \A q \in Procs \ {p} : Resuming(q) => dir[q] \in Dir /\ meta'[dir[q]].ver < ver[q]
    <3> TAKE q \in Procs \ {p}
    <3> HAVE Resuming(q)
    <3>1. dir[q] \in ckpts /\ dir[q] \in Intact /\ dir[q] \in Dir /\ runIdLock = q
              /\ meta[dir[q]].ver < ver[q]
      BY DEF IInv, TypeOK, Trained, Held, Versioned, Resuming
    <3>2. CASE dir[q] # dir[p]
      BY <2>6, <3>1, <3>2
    <3>3. CASE dir[q] = dir[p]
      <4>1. cmd[p] \in {"close", "mark"} \/ cmd[p] = "recover"
        BY <2>1, <3>1, <3>3 DEF IInv, TypeOK, Shape, Own, Held, Resuming
      <4>2. meta'[dir[p]].ver = IF cmd[p] = "recover" THEN ver[p] ELSE seen[p].ver
        BY <2>1, <4>1 DEF IInv, TypeOK, Write
      <4>3. CASE cmd[p] = "recover"
        BY <3>1, <3>3, <4>2, <4>3 DEF IInv, Versioned
      <4>4. CASE cmd[p] # "recover"
        BY <2>1, <3>1, <3>3, <4>1, <4>2, <4>4 DEF IInv, Held
      <4>5. QED
        BY <4>3, <4>4
    <3>4. QED
      BY <3>2, <3>3
  <2>8. \A q \in Procs : Resuming(q)' => q # p /\ Resuming(q)
    BY <2>4, <2>5 DEF Resuming
  <2>9. QED
    BY <2>3, <2>4, <2>5, <2>7, <2>8 DEF IInv, Versioned, Written
<1>10. UniqueNumber'
  BY DEF IInv, UniqueNumber, NewNumber, TypeOK, Shape, Intact, Write, Allowed, Exit, Release,
         Goto, files, pair, locks, local
<1>11. Named'
  BY DEF IInv, Named, Versioned, TypeOK, Shape, Own, Held, Trained, Intact, Written, Resuming,
         Reading, Past, NoMeta, Write, Allowed, Exit, Release, Goto, files, pair, locks, local
<1>12. QED
  BY <1>1, <1>2, <1>3, <1>4, <1>5, <1>6, <1>7, <1>8, <1>9, <1>10, <1>11 DEF IInv

LEMMA TrainBeginsKeeps ==
  ASSUME IInv, NEW p \in Procs, TrainBegins(p) PROVE IInv'
<1>1. TypeOK'
  <2>1. pc[p] # "idle" /\ ~(cmd[p] = "fresh" /\ pc[p] = "number") => dir[p] \in Dir
    BY DEF IInv, Shape
  <2>2. QED
    BY <2>1, RegistryAssumption
       DEF IInv, TypeOK, Shape, Version, Number, Meta, NoMeta, Terminal, TrainBegins, Goto,
           files, pair, locks, local
<1>2. Shape'
  BY DEF IInv, Shape, TypeOK, NoDir, TrainBegins, Goto, files, pair, locks, local
<1>3. Ids'
  BY DEF IInv, Ids, TypeOK, Shape, Past, NoDir, TrainBegins, Goto, files, pair, locks, local
<1>4. Bounds'
  <2>1. Past' \subseteq Past \cup ({dir[p]} \cap Dir)
    BY <1>1 DEF Past, TypeOK, Shape, TrainBegins, files, pair
  <2>2. \A q \in Procs : dir'[q] \in {dir[q]} \cup Past \cup {NoDir}
    BY DEF TypeOK, Past, TrainBegins, Goto, files, pair, local
  <2>3. \A q \in Procs : pc'[q] # "number" =>
           \/ ver'[q] = 0 \/ (pc[q] # "number" /\ ver'[q] = ver[q])
           \/ \E s \in resolved : ver'[q] = s.ver
    BY DEF TypeOK, Shape, TrainBegins, Goto, files, pair, local
  <2>4. \A s \in resolved' : s \in resolved \/ (s.ver = ver[p] /\ pc[p] # "number")
    BY DEF TrainBegins, files, pair
  <2>5. QED
    BY <1>1, <2>1, <2>2, <2>3, <2>4, BoundsStep DEF TrainBegins, Goto
<1>5. Own'
  BY DEF IInv, Own, TypeOK, Shape, Ids, Trained, Past, Intact, NoDir, TrainBegins, Goto, files,
         pair, locks, local
<1>6. Trained'
  BY DEF IInv, Trained, TypeOK, Shape, Own, Intact, NoMeta, TrainBegins, Goto, files, pair,
         locks, local
<1>7. Held'
  BY RegistryAssumption
     DEF IInv, Held, TypeOK, Shape, Ids, Own, Trained, Intact, Resuming, Reading, TrainBegins,
         Goto, files, pair, locks, local
<1>8. NewNumber'
  BY DEF IInv, NewNumber, TypeOK, Shape, Own, Held, Intact, Past, TrainBegins, Goto, files,
         pair, locks, local
<1>9. Versioned'
  BY DEF IInv, Versioned, TypeOK, Shape, Ids, Own, Trained, Held, Intact, Resuming, Reading,
         Written, Past, NoMeta, TrainBegins, Goto, files, pair, locks, local
<1>10. UniqueNumber'
  BY DEF IInv, UniqueNumber, NewNumber, TypeOK, Shape, Intact, TrainBegins, Goto, files, pair,
         locks, local
<1>11. Named'
  BY DEF IInv, Named, Versioned, TypeOK, Shape, Own, Held, Trained, Intact, Written,
         Resuming, Reading, Past, NoMeta, TrainBegins, Goto, files, pair, locks, local
<1>12. QED
  BY <1>1, <1>2, <1>3, <1>4, <1>5, <1>6, <1>7, <1>8, <1>9, <1>10, <1>11 DEF IInv

LEMMA TrainEndsKeeps ==
  ASSUME IInv, NEW p \in Procs, TrainEnds(p) PROVE IInv'
<1>1. TypeOK'
  <2>1. pc[p] # "idle" /\ ~(cmd[p] = "fresh" /\ pc[p] = "number") => dir[p] \in Dir
    BY DEF IInv, Shape
  <2>2. QED
    BY <2>1, RegistryAssumption
       DEF IInv, TypeOK, Shape, Version, Number, Meta, NoMeta, Terminal, TrainEnds, Goto, files,
           pair, locks, local
<1>2. Shape'
  BY DEF IInv, Shape, TypeOK, NoDir, TrainEnds, Goto, files, pair, locks, local
<1>3. Ids'
  BY DEF IInv, Ids, TypeOK, Shape, Past, NoDir, TrainEnds, Goto, files, pair, locks, local
<1>4. Bounds'
  <2>1. Past' \subseteq Past \cup ({dir[p]} \cap Dir)
    BY <1>1 DEF Past, TypeOK, Shape, TrainEnds, files, pair
  <2>2. \A q \in Procs : dir'[q] \in {dir[q]} \cup Past \cup {NoDir}
    BY DEF TypeOK, Past, TrainEnds, Goto, files, pair, local
  <2>3. \A q \in Procs : pc'[q] # "number" =>
           \/ ver'[q] = 0 \/ (pc[q] # "number" /\ ver'[q] = ver[q])
           \/ \E s \in resolved : ver'[q] = s.ver
    BY DEF TypeOK, Shape, TrainEnds, Goto, files, pair, local
  <2>4. \A s \in resolved' : s \in resolved \/ (s.ver = ver[p] /\ pc[p] # "number")
    BY DEF TrainEnds, files, pair
  <2>5. QED
    BY <1>1, <2>1, <2>2, <2>3, <2>4, BoundsStep DEF TrainEnds, Goto
<1>5. Own'
  BY DEF IInv, Own, TypeOK, Shape, Ids, Trained, Past, Intact, NoDir, TrainEnds, Goto, files,
         pair, locks, local
<1>6. Trained'
  BY DEF IInv, Trained, TypeOK, Shape, Own, Intact, NoMeta, TrainEnds, Goto, files, pair, locks,
         local
<1>7. Held'
  BY RegistryAssumption
     DEF IInv, Held, TypeOK, Shape, Ids, Own, Trained, Intact, Resuming, Reading, TrainEnds,
         Goto, files, pair, locks, local
<1>8. NewNumber'
  BY DEF IInv, NewNumber, TypeOK, Shape, Own, Held, Intact, Past, TrainEnds, Goto, files, pair,
         locks, local
<1>9. Versioned'
  BY DEF IInv, Versioned, TypeOK, Shape, Ids, Own, Trained, Held, Intact, Resuming, Reading,
         Written, Past, NoMeta, TrainEnds, Goto, files, pair, locks, local
<1>10. UniqueNumber'
  BY DEF IInv, UniqueNumber, NewNumber, TypeOK, Shape, Intact, TrainEnds, Goto, files, pair,
         locks, local
<1>11. Named'
  BY DEF IInv, Named, Versioned, TypeOK, Shape, Own, Held, Trained, Intact, Written,
         Resuming, Reading, Past, NoMeta, TrainEnds, Goto, files, pair, locks, local
<1>12. QED
  BY <1>1, <1>2, <1>3, <1>4, <1>5, <1>6, <1>7, <1>8, <1>9, <1>10, <1>11 DEF IInv

LEMMA StopKeeps ==
  ASSUME IInv, NEW p \in Procs, Stop(p) PROVE IInv'
<1>1. TypeOK'
  <2>1. pc[p] # "idle" /\ ~(cmd[p] = "fresh" /\ pc[p] = "number") => dir[p] \in Dir
    BY DEF IInv, Shape
  <2>2. QED
    BY <2>1, RegistryAssumption
       DEF IInv, TypeOK, Shape, Version, Number, Meta, NoMeta, Terminal, Stop, Exit, Release,
           Goto, files, pair, locks, local
<1>2. Shape'
  BY DEF IInv, Shape, TypeOK, NoDir, Stop, Exit, Release, Goto, files, pair, locks, local
<1>3. Ids'
  BY DEF IInv, Ids, TypeOK, Shape, Past, NoDir, Stop, Exit, Release, Goto, files, pair, locks,
         local
<1>4. Bounds'
  <2>1. Past' \subseteq Past \cup ({dir[p]} \cap Dir)
    BY <1>1 DEF Past, TypeOK, Shape, Stop, Exit, Release, files, pair
  <2>2. \A q \in Procs : dir'[q] \in {dir[q]} \cup Past \cup {NoDir}
    BY DEF TypeOK, Past, Stop, Exit, Release, Goto, files, pair, local
  <2>3. \A q \in Procs : pc'[q] # "number" =>
           \/ ver'[q] = 0 \/ (pc[q] # "number" /\ ver'[q] = ver[q])
           \/ \E s \in resolved : ver'[q] = s.ver
    BY DEF IInv, TypeOK, Shape, Stop, Exit, Release, Goto, files, pair, local
  <2>4. \A s \in resolved' : s \in resolved \/ (s.ver = ver[p] /\ pc[p] # "number")
    BY DEF Stop, Exit, Release, files, pair
  <2>5. QED
    BY <1>1, <2>1, <2>2, <2>3, <2>4, BoundsStep DEF Stop, Exit, Release, Goto
<1>5. Own'
  BY DEF IInv, Own, TypeOK, Shape, Ids, Trained, Past, Intact, NoDir, Stop, Exit, Release, Goto,
         files, pair, locks, local
<1>6. Trained'
  BY DEF IInv, Trained, TypeOK, Shape, Own, Intact, NoMeta, Stop, Exit, Release, Goto, files,
         pair, locks, local
<1>7. Held'
  BY RegistryAssumption
     DEF IInv, Held, TypeOK, Shape, Ids, Own, Trained, Intact, Resuming, Reading, Stop, Exit,
         Release, Goto, files, pair, locks, local
<1>8. NewNumber'
  BY DEF IInv, NewNumber, TypeOK, Shape, Own, Held, Intact, Past, Stop, Exit, Release, Goto,
         files, pair, locks, local
<1>9. Versioned'
  BY DEF IInv, Versioned, TypeOK, Shape, Ids, Own, Trained, Held, Intact, Resuming, Reading,
         Written, Past, NoMeta, Stop, Exit, Release, Goto, files, pair, locks, local
<1>10. UniqueNumber'
  BY DEF IInv, UniqueNumber, NewNumber, TypeOK, Shape, Intact, Stop, Exit, Release, Goto, files,
         pair, locks, local
<1>11. Named'
  BY DEF IInv, Named, Versioned, TypeOK, Shape, Own, Held, Trained, Intact, Written,
         Resuming, Reading, Past, NoMeta, Stop, Exit, Release, Goto, files, pair, locks, local
<1>12. QED
  BY <1>1, <1>2, <1>3, <1>4, <1>5, <1>6, <1>7, <1>8, <1>9, <1>10, <1>11 DEF IInv

LEMMA FreshFailsKeeps ==
  ASSUME IInv, NEW p \in Procs, FreshFails(p) PROVE IInv'
<1>1. TypeOK'
  <2>1. pc[p] # "idle" /\ ~(cmd[p] = "fresh" /\ pc[p] = "number") => dir[p] \in Dir
    BY DEF IInv, Shape
  <2>2. QED
    BY <2>1, RegistryAssumption
       DEF IInv, TypeOK, Shape, Version, Number, Meta, NoMeta, Terminal, FreshFails, Exit, Goto,
           files, pair, locks, local
<1>2. Shape'
  BY DEF IInv, Shape, TypeOK, NoDir, FreshFails, Exit, Goto, files, pair, locks, local
<1>3. Ids'
  BY DEF IInv, Ids, TypeOK, Shape, Past, NoDir, FreshFails, Exit, Goto, files, pair, locks,
         local
<1>4. Bounds'
  <2>1. Past' \subseteq Past \cup ({dir[p]} \cap Dir)
    BY <1>1 DEF Past, TypeOK, Shape, FreshFails, Exit, files, pair
  <2>2. \A q \in Procs : dir'[q] \in {dir[q]} \cup Past \cup {NoDir}
    BY DEF TypeOK, Past, FreshFails, Exit, Goto, files, pair, local
  <2>3. \A q \in Procs : pc'[q] # "number" =>
           \/ ver'[q] = 0 \/ (pc[q] # "number" /\ ver'[q] = ver[q])
           \/ \E s \in resolved : ver'[q] = s.ver
    BY DEF TypeOK, Shape, FreshFails, Exit, Goto, files, pair, local
  <2>4. \A s \in resolved' : s \in resolved \/ (s.ver = ver[p] /\ pc[p] # "number")
    BY DEF FreshFails, Exit, files, pair
  <2>5. QED
    BY <1>1, <2>1, <2>2, <2>3, <2>4, BoundsStep DEF FreshFails, Exit, Goto
<1>5. Own'
  BY DEF IInv, Own, TypeOK, Shape, Ids, Trained, Past, Intact, NoDir, FreshFails, Exit, Goto,
         files, pair, locks, local
<1>6. Trained'
  <2>1. /\ UNCHANGED <<ckpts, revived>> /\ dirs' = dirs \ {dir[p]}
        /\ dir[p] \notin ckpts
    BY DEF IInv, Own, FreshFails
  <2>2. \A d \in Dir \ {dir[p]} : meta'[d] = meta[d]
    BY DEF IInv, TypeOK, FreshFails
  <2>3. \A q \in Procs \ {p} : pc'[q] = pc[q] /\ cmd'[q] = cmd[q] /\ dir'[q] = dir[q]
    BY DEF IInv, TypeOK, FreshFails, Exit, Goto
  <2>4. pc'[p] = "idle" /\ cmd'[p] = "none"
    BY DEF IInv, TypeOK, FreshFails, Exit, Goto
  <2>5. \A q \in Procs \ {p} : pc[q] = "begin" => dir[q] \in Dir /\ dir[q] # dir[p]
    BY <2>1 DEF IInv, Shape, Ids, Own, Trained, FreshFails
  <2>6. QED
    BY <2>1, <2>2, <2>3, <2>4, <2>5 DEF IInv, TypeOK, Trained, Intact
<1>7. Held'
  BY RegistryAssumption
     DEF IInv, Held, TypeOK, Shape, Ids, Own, Trained, Intact, Resuming, Reading, FreshFails,
         Exit, Goto, files, pair, locks, local
<1>8. NewNumber'
  BY DEF IInv, NewNumber, TypeOK, Shape, Own, Held, Intact, Past, FreshFails, Exit, Goto, files,
         pair, locks, local
<1>9. Versioned'
  <2>1. /\ Intact' = Intact \ {dir[p]} /\ resolved' = {s \in resolved : s.dir # dir[p]}
        /\ dir[p] \notin ckpts
    BY DEF IInv, Own, Intact, FreshFails
  <2>2. \A d \in Dir \ {dir[p]} : meta'[d] = meta[d]
    BY DEF IInv, TypeOK, FreshFails
  <2>3. \A q \in Procs \ {p} : /\ pc'[q] = pc[q] /\ cmd'[q] = cmd[q] /\ dir'[q] = dir[q]
                              /\ ver'[q] = ver[q]
    BY DEF IInv, TypeOK, FreshFails, Exit, Goto
  <2>4. pc'[p] = "idle" /\ cmd'[p] = "none"
    BY DEF IInv, TypeOK, FreshFails, Exit, Goto
  <2>5. \A q \in Procs \ {p} :
          Resuming(q) \/ pc[q] \in {"leaf", "resolved"}
            \/ (cmd[q] \in {"fresh", "resume"} /\ pc[q] \in {"lock", "write"})
          => dir[q] \in Dir /\ dir[q] # dir[p]
    BY <2>1 DEF IInv, Shape, Ids, Own, Trained, FreshFails, Resuming
  <2>6. \A e, v : e # dir[p] /\ Written(e, v) => \E s \in resolved' : s.dir = e /\ s.ver = v
    BY <2>1 DEF Written
  <2>7. \A q \in Procs : Resuming(q)' => q # p /\ Resuming(q)
    BY <2>3, <2>4 DEF Resuming
  <2>8. \A q \in Procs \ {p} :
          /\ pc[q] \in {"leaf", "resolved"} \/ (Resuming(q) /\ pc[q] = "read") =>
               \A s \in resolved' : s.dir = dir[q] => s.ver < ver[q]
          /\ cmd[q] \in {"fresh", "resume"} /\ pc[q] \in {"lock", "write"} =>
               \E s \in resolved' : s.dir = dir[q] /\ s.ver = ver[q]
          /\ cmd[q] = "recover" /\ dir[q] \in Intact' =>
               \E s \in resolved' : s.dir = dir[q] /\ s.ver = ver[q]
    BY <2>1, <2>5, <2>6 DEF IInv, Versioned
  <2>9. \A q \in Procs : Resuming(q)' =>
          /\ meta'[dir[q]].ver < ver[q]
          /\ \A r \in Procs : cmd'[r] = "recover" /\ dir'[r] = dir[q] => ver'[r] < ver[q]
    BY <2>2, <2>3, <2>4, <2>5, <2>7 DEF IInv, Versioned
  <2>10. QED
    BY <2>3, <2>4, <2>7, <2>8, <2>9 DEF Versioned, Written
<1>10. UniqueNumber'
  BY DEF IInv, UniqueNumber, NewNumber, TypeOK, Shape, Intact, FreshFails, Exit, Goto, files,
         pair, locks, local
<1>11. Named'
  BY DEF IInv, Named, Versioned, TypeOK, Shape, Own, Held, Trained, Intact, Written,
         Resuming, Reading, Past, NoMeta, FreshFails, Exit, Goto, files, pair, locks, local
<1>12. QED
  BY <1>1, <1>2, <1>3, <1>4, <1>5, <1>6, <1>7, <1>8, <1>9, <1>10, <1>11 DEF IInv

LEMMA InitIInv == Init => IInv
<1> SUFFICES ASSUME Init PROVE IInv
  OBVIOUS
<1>1. TypeOK
  BY RegistryAssumption DEF Init, TypeOK, Meta, NoMeta, Version
<1>2. Past = {} /\ Waiting = {}
  BY DEF Init, Past, Waiting
<1>3. Issued = 0
  BY <1>2, FS_EmptySet DEF Issued, Init
<1>4. Ids /\ Bounds
  BY <1>2, <1>3 DEF Ids, Bounds, Init, NoDir
<1>5. Shape /\ Own /\ Trained /\ Held /\ NewNumber /\ Versioned
  BY DEF Init, Shape, Own, Trained, Held, NewNumber, Versioned, Resuming, Reading
<1>6. UniqueNumber /\ Named
  BY DEF Init, UniqueNumber, Named, Intact
<1>7. QED
  BY <1>1, <1>4, <1>5, <1>6 DEF IInv

LEMMA StutterKeeps == ASSUME IInv, UNCHANGED vars PROVE IInv'
<1>1. TypeOK' /\ Shape' /\ Ids' /\ Own' /\ Trained' /\ Held' /\ NewNumber' /\ Versioned'
  BY DEF IInv, vars, files, pair, locks, local, TypeOK, Shape, Ids, Past, Own, Trained, Intact,
         Held, NewNumber, Versioned, Resuming, Reading, Written
<1>2. Bounds' /\ UniqueNumber' /\ Named'
  BY DEF IInv, vars, files, pair, locks, local, Bounds, Past, Issued, Waiting, UniqueNumber,
         Named, Written, Intact
<1>3. QED
  BY <1>1, <1>2 DEF IInv

LEMMA NextIInv == IInv /\ [Next]_vars => IInv'
<1> SUFFICES ASSUME IInv, [Next]_vars PROVE IInv'
  OBVIOUS
<1>1. CASE UNCHANGED vars
  BY <1>1, StutterKeeps
<1>2. ASSUME NEW p \in Procs, StartFresh(p) PROVE IInv'
  BY <1>2, StartFreshKeeps
<1>3. ASSUME NEW p \in Procs, NEW d \in dirs,
             StartResume(p, d) \/ StartMark(p, d) \/ StartRecover(p, d)
      PROVE  IInv'
  BY <1>3, StartResumeKeeps, StartMarkKeeps, StartRecoverKeeps
<1>4. ASSUME NEW p \in Procs,
             TakeRunIdLock(p) \/ Mkdir(p) \/ ReadForResume(p) \/ WriteLeaf(p)
               \/ WriteResolved(p)
      PROVE  IInv'
  BY <1>4, TakeRunIdLockKeeps, MkdirKeeps, ReadForResumeKeeps, WriteLeafKeeps, WriteResolvedKeeps
<1>5. ASSUME NEW p \in Procs,
             TakeMetaLock(p) \/ ReadUnderLock(p) \/ Write(p) \/ TrainBegins(p)
               \/ TrainEnds(p)
      PROVE  IInv'
  BY <1>5, TakeMetaLockKeeps, ReadUnderLockKeeps, WriteKeeps, TrainBeginsKeeps, TrainEndsKeeps
<1>6. ASSUME NEW p \in Procs, Stop(p) \/ FreshFails(p) PROVE IInv'
  BY <1>6, StopKeeps, FreshFailsKeeps
<1>7. QED
  BY <1>1, <1>2, <1>3, <1>4, <1>5, <1>6 DEF Next

LEMMA Inductive == Spec => []IInv
BY InitIInv, NextIInv, PTL DEF Spec

(***************************************************************************)
(* Theorems                                                                *)
(***************************************************************************)
\* The locks have one holder, and numbers and versions stay below the number of
\* commands started: a number is given only to a command that has none.
THEOREM TypeCorrect == Spec => []TypeOK
<1>1. IInv => TypeOK
  BY DEF IInv
<1>2. QED
  BY <1>1, Inductive, PTL

\* allocate_nnn: no two directories have the same number, unless the lock file of
\* a removed one was opened again.
THEOREM NumbersUnique == Spec => []UniqueNumber
<1>1. IInv => UniqueNumber
  BY DEF IInv
<1>2. QED
  BY <1>1, Inductive, PTL

(***************************************************************************)
(* The pair of files                                                       *)
(***************************************************************************)
\* A command that has written its leaf finds it there when it comes to write the
\* other file, and so does whoever reads the two.
Paired ==
  /\ \A p \in Procs : pc[p] = "resolved" => File(p) \in leaf
  /\ resolved \subseteq leaf

\* Two commands that write are in two directories.
LEMMA OneWriter ==
  ASSUME IInv, NEW p \in Procs, NEW q \in Procs \ {p},
         pc[p] \in {"leaf", "resolved"}, pc[q] \in {"leaf", "resolved"}
  PROVE  dir[p] # dir[q]
BY DEF IInv, TypeOK, Shape, Ids, Own, Trained, Held, Resuming

\* Nobody fails where another writes: the one is alone in its directory.
LEMMA AloneInFailure ==
  ASSUME IInv, NEW p \in Procs, FreshFails(p), NEW q \in Procs \ {p},
         pc[q] \in {"leaf", "resolved"}
  PROVE  dir[q] # dir[p]
BY DEF IInv, TypeOK, Shape, Ids, Own, Trained, FreshFails

\* What a step may do to the pairs that are complete.
KeepsPair == \A s \in resolved : s.dir \in dirs' => s \in resolved' /\ s \in leaf'

LEMMA PairStep == ASSUME IInv, Paired, [Next]_vars PROVE Paired' /\ [KeepsPair]_vars
<1>1. ASSUME UNCHANGED <<leaf, resolved>>,
             \A p \in Procs : pc'[p] = "resolved" => pc[p] = "resolved" /\ File(p)' = File(p)
      PROVE  Paired' /\ KeepsPair
  BY <1>1 DEF Paired, KeepsPair
<1>2. ASSUME NEW p \in Procs, WriteLeaf(p) PROVE Paired' /\ KeepsPair
  <2>1. pc[p] = "leaf" /\ leaf' = Replace(leaf, File(p)) /\ resolved' = resolved
        /\ \A q \in Procs : File(q)' = File(q)
    BY <1>2 DEF WriteLeaf, local, File
  <2>2. \A q \in Procs : pc'[q] = IF q = p THEN "resolved" ELSE pc[q]
    BY <1>2 DEF IInv, TypeOK, WriteLeaf, Goto
  <2>3. File(p).dir = dir[p] /\ File(p).ver = ver[p]
    BY DEF File
  <2>4. \A s \in resolved : s.dir # dir[p] \/ s.ver # ver[p]
    <3>1. \A s \in resolved : s.dir = dir[p] => s.ver < ver[p]
      BY <2>1 DEF IInv, Versioned
    <3>2. ver[p] \in Int /\ \A s \in resolved : s.ver \in Int
      BY PastDir, RegistryAssumption DEF IInv, TypeOK, Version
    <3>3. QED
      BY <3>1, <3>2
  <2>5. \A s \in resolved : s \in leaf'
    BY <2>1, <2>3, <2>4 DEF Paired, Replace
  <2>6. \A q \in Procs \ {p} : pc[q] = "resolved" => File(q) \in leaf'
    <3> TAKE q \in Procs \ {p}
    <3> HAVE pc[q] = "resolved"
    <3>1. File(q) \in leaf /\ File(q).dir = dir[q] /\ dir[q] # dir[p]
      BY <2>1, OneWriter DEF Paired, File
    <3>2. QED
      BY <2>1, <2>3, <3>1 DEF Replace
  <2>7. File(p) \in leaf'
    BY <2>1 DEF Replace
  <2>8. QED
    BY <2>1, <2>2, <2>5, <2>6, <2>7 DEF Paired, KeepsPair
<1>3. ASSUME NEW p \in Procs, WriteResolved(p) PROVE Paired' /\ KeepsPair
  <2>1. leaf' = leaf /\ resolved' = resolved \cup {File(p)} /\ pc[p] = "resolved"
        /\ \A q \in Procs : File(q)' = File(q)
    BY <1>3, NothingReplaced DEF WriteResolved, local, File
  <2>2. \A q \in Procs : pc'[q] = "resolved" => pc[q] = "resolved"
    BY <1>3 DEF IInv, TypeOK, WriteResolved, Goto
  <2>3. QED
    BY <2>1, <2>2 DEF Paired, KeepsPair
<1>4. ASSUME NEW p \in Procs, FreshFails(p) PROVE Paired' /\ KeepsPair
  <2>1. /\ leaf' = {s \in leaf : s.dir # dir[p]} /\ dir[p] \notin dirs'
        /\ resolved' = {s \in resolved : s.dir # dir[p]}
    BY <1>4 DEF FreshFails
  <2>2. \A q \in Procs : pc'[q] = "resolved" =>
          q # p /\ pc[q] = "resolved" /\ File(q)' = File(q) /\ File(q).dir = dir[q]
    BY <1>4 DEF IInv, TypeOK, FreshFails, Exit, Goto, File
  <2>3. \A q \in Procs : pc'[q] = "resolved" => File(q)' \in leaf'
    BY <1>4, <2>1, <2>2, AloneInFailure DEF Paired
  <2>4. QED
    BY <2>1, <2>3 DEF Paired, KeepsPair
<1>5. CASE UNCHANGED vars
  BY <1>5 DEF Paired, File, vars, files, pair, local
<1>6. CASE Next
  <2>1. PICK p \in Procs :
          \/ WriteLeaf(p) \/ WriteResolved(p) \/ FreshFails(p)
          \/ \E c, l, d, v : Start(p, c, l, d, v) /\ l # "resolved"
          \/ TakeRunIdLock(p) \/ Mkdir(p) \/ ReadForResume(p)
          \/ TakeMetaLock(p) \/ ReadUnderLock(p) \/ Write(p) \/ TrainBegins(p) \/ TrainEnds(p)
          \/ Stop(p)
    BY <1>6 DEF Next, StartFresh, StartResume, StartMark, StartRecover
  <2> DEFINE Others == /\ UNCHANGED <<leaf, resolved>>
                       /\ \A q \in Procs :
                            pc'[q] = "resolved" => pc[q] = "resolved" /\ File(q)' = File(q)
  <2>2. ASSUME NEW c, NEW l, NEW d, NEW v, Start(p, c, l, d, v), l # "resolved" PROVE Others
    BY <2>2 DEF IInv, TypeOK, Start, Goto, File, files, pair
  <2>3. CASE TakeRunIdLock(p) \/ Mkdir(p) \/ ReadForResume(p)
    <3>1. Others
      BY <2>3 DEF IInv, TypeOK, TakeRunIdLock, Allocate, Mkdir, ReadForResume, Goto, File, files,
                  pair, local
    <3>2. QED
      BY <1>1, <3>1
  <2>4. CASE TakeMetaLock(p) \/ ReadUnderLock(p) \/ TrainBegins(p) \/ TrainEnds(p)
    <3>1. Others
      BY <2>4 DEF IInv, TypeOK, TakeMetaLock, ReadUnderLock, TrainBegins, TrainEnds, Goto, File,
                  files, pair, local
    <3>2. QED
      BY <1>1, <3>1
  <2>5. CASE Write(p) \/ Stop(p)
    <3>1. Others
      BY <2>5 DEF IInv, TypeOK, Write, Stop, Exit, Goto, File, files, pair, local
    <3>2. QED
      BY <1>1, <3>1
  <2>6. QED
    BY <1>1, <1>2, <1>3, <1>4, <2>1, <2>2, <2>3, <2>4, <2>5
<1>7. QED
  BY <1>5, <1>6

LEMMA InitPaired == Init => Paired
BY DEF Init, Paired

LEMMA PairedStep == IInv /\ Paired /\ [Next]_vars => Paired' /\ [KeepsPair]_vars
BY PairStep

LEMMA AlwaysPaired == Spec => []Paired /\ [][KeepsPair]_vars
BY InitPaired, PairedStep, Inductive, PTL DEF Spec

\* _next_cfg_resolved_version and _bump_metadata_for_resume: where there is a
\* cfg_resolved, the cfg_leaf of its number is by the same command, and the version
\* in the metadata has both, whichever of resume, mark, recover and close wrote it.
THEOREM VersionsOwned == Spec => []VersionOwned
<1>1. IInv /\ Paired => VersionOwned
  BY DEF IInv, Paired, VersionOwned, Named, Written, Intact
<1>2. QED
  BY <1>1, Inductive, AlwaysPaired, PTL

\* A complete pair is never written again, by no resume and by no fresh run.
THEOREM PairsKept == Spec => PairKept
<1>1. [][KeepsPair]_vars => PairKept
  BY DEF KeepsPair, PairKept
<1>2. QED
  BY <1>1, AlwaysPaired, PTL

\* What a step may do to a recorded outcome.
KeepsOutcome == \A d \in ckpts : Overwritten(d) => Resumed(d) \/ Recovering(d)

LEMMA OutcomeStep == ASSUME IInv, [Next]_vars PROVE [KeepsOutcome]_vars
<1>1. CASE UNCHANGED vars
  BY <1>1
<1>2. ASSUME meta' = meta PROVE KeepsOutcome
  BY <1>2 DEF KeepsOutcome, Overwritten
<1>3. ASSUME NEW p \in Procs, Write(p) PROVE KeepsOutcome
  <2> SUFFICES ASSUME NEW d \in ckpts, Overwritten(d)
               PROVE  Resumed(d) \/ Recovering(d)
    BY DEF KeepsOutcome
  <2>1. d = dir[p] /\ d \in Dir /\ d \in Intact /\ pc[p] = "write"
    BY <1>3 DEF Write, IInv, TypeOK, Trained, Overwritten
  <2>2. PICK s \in Allowed(p) :
          meta'[d] = [status |-> s,
                      ver |-> IF cmd[p] \in {"close", "mark"} THEN seen[p].ver ELSE ver[p]]
    BY <1>3, <2>1 DEF Write, IInv, TypeOK
  <2>3. cmd[p] # "fresh"
    BY <2>1 DEF IInv, Own
  <2>4. cmd[p] \notin {"close", "mark"}
    BY <2>1, <2>2 DEF IInv, Held, Allowed, Terminal, Overwritten
  <2>5. cmd[p] \in {"resume", "recover"}
    BY <2>1, <2>3, <2>4 DEF IInv, TypeOK, Shape
  <2>6. CASE cmd[p] = "recover"
    BY <2>1, <2>6 DEF Recovering
  <2>7. CASE cmd[p] = "resume"
    <3>1. meta'[d].status = "running" /\ meta'[d].ver = ver[p]
      BY <2>2, <2>7 DEF Allowed
    <3>2. meta[d].ver < ver[p] /\ meta[d].ver \in Int /\ ver[p] \in Int
      BY <2>1, <2>7, RegistryAssumption DEF IInv, TypeOK, Meta, Version, Versioned, Resuming
    <3>3. QED
      BY <3>1, <3>2 DEF Resumed
  <2>8. QED
    BY <2>5, <2>6, <2>7
<1>4. ASSUME NEW p \in Procs, FreshFails(p) PROVE KeepsOutcome
  <2>1. dir[p] \notin ckpts
    BY <1>4 DEF FreshFails, IInv, Own
  <2>2. \A d \in ckpts : meta'[d] = meta[d]
    BY <1>4, <2>1 DEF FreshFails, IInv, TypeOK
  <2>3. QED
    BY <2>2 DEF KeepsOutcome, Overwritten
<1>5. CASE Next
  <2>1. PICK p \in Procs : Write(p) \/ FreshFails(p) \/ meta' = meta
    BY <1>5
       DEF Next, StartFresh, StartResume, StartMark, StartRecover, Start, TakeRunIdLock, Mkdir,
           ReadForResume, WriteLeaf, WriteResolved, TakeMetaLock, ReadUnderLock, TrainBegins,
           TrainEnds, Stop, files
  <2>2. QED
    BY <1>2, <1>3, <1>4, <2>1
<1>6. QED
  BY <1>1, <1>5

\* mark, close and recover (their transitions): an outcome recorded for a trained
\* run is overwritten only by a resume with a newer version, or by a recover that
\* found no metadata before and has not looked again.
THEOREM OutcomesKept == Spec => OutcomeKept
<1>1. IInv /\ [Next]_vars => [KeepsOutcome]_vars
  BY OutcomeStep
<1>2. [][KeepsOutcome]_vars => OutcomeKept
  BY DEF KeepsOutcome, OutcomeKept
<1>3. QED
  BY <1>1, <1>2, Inductive, PTL DEF Spec
=============================================================================
