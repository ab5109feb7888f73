----------------------------- MODULE RunRegistry -----------------------------
(***************************************************************************)
(* The registry of training runs (tools/runs): a directory per run under   *)
(* artifacts/, numbered, with versioned snapshots of the configuration and *)
(* one metadata file.  The commands train, train --resume, mark and        *)
(* recover run as processes of their own; two file locks keep them apart,  *)
(* one for the numbers and one in each directory for its metadata.  The    *)
(* kernel releases the locks of a process that dies.                       *)
(*                                                                         *)
(* A command may stop anywhere: it is killed, a call raises, a lock stays  *)
(* busy for ten attempts, or a status it read makes it give up.            *)
(*                                                                         *)
(* Of the metadata, status and version are kept; of cfg_leaf and           *)
(* cfg_resolved, which command wrote them: a file is there from the moment *)
(* it is opened, and a text that a kill cuts short is left out.  Two       *)
(* directories of one number differ in time or label: the command that     *)
(* makes one stands for these, so the collision of full names (EEXIST,     *)
(* retried) is left out.                                                   *)
(***************************************************************************)
EXTENDS Integers, FiniteSets

CONSTANTS Procs,        \* processes in which commands run
          Nobody,       \* no process
          MaxCommands   \* bound: commands started

ASSUME RegistryAssumption ==
  IsFiniteSet(Procs) /\ Nobody \notin Procs /\ MaxCommands \in Nat

Number   == 1 .. MaxCommands
Dir      == Number \X Number    \* number of the run, command that made it
NoDir    == <<0, 0>>
NoMeta   == [status |-> "none", ver |-> 0]
Terminal == {"done", "killed"}   \* "done" stands for "failed" as well

VARIABLES
  dirs,       \* directories under artifacts/
  leaf,       \* cfg_leaf files: directory, version, the command that wrote it
  resolved,   \* cfg_resolved files, likewise
  meta,       \* metadata.toml of a directory
  ckpts,      \* the directories with a ckpts/ directory
  runIdLock,  \* holder of .run_id_lock
  metaLock,   \* holder of a directory's .metadata_lock
  pc,         \* where a process is
  cmd,        \* fresh, resume, close, mark, recover
  id,         \* number of its command
  dir,        \* artifacts_dir
  ver,        \* cfg_resolved_version
  seen,       \* the metadata it has read
  count,      \* commands started
  revived     \* history: directories a command made again after their removal

locks    == <<runIdLock, metaLock>>
pair     == <<leaf, resolved>>
files    == <<dirs, pair, meta, ckpts, revived>>
local    == <<cmd, id, dir, ver, seen>>
vars     == <<files, locks, pc, local, count>>

Init ==
  /\ dirs = {} /\ leaf = {} /\ resolved = {} /\ meta = [d \in Dir |-> NoMeta] /\ ckpts = {}
  /\ runIdLock = Nobody /\ metaLock = [d \in Dir |-> Nobody]
  /\ pc = [p \in Procs |-> "idle"] /\ cmd = [p \in Procs |-> "none"]
  /\ id = [p \in Procs |-> 0] /\ dir = [p \in Procs |-> NoDir]
  /\ ver = [p \in Procs |-> 0] /\ seen = [p \in Procs |-> NoMeta]
  /\ count = 0 /\ revived = {}

Goto(p, l) == pc' = [pc EXCEPT ![p] = l]
\* The process ends, and what it knew is gone.
Exit(p) ==
  /\ Goto(p, "idle")
  /\ cmd' = [cmd EXCEPT ![p] = "none"] /\ id' = [id EXCEPT ![p] = 0]
  /\ dir' = [dir EXCEPT ![p] = NoDir] /\ ver' = [ver EXCEPT ![p] = 0]
  /\ seen' = [seen EXCEPT ![p] = NoMeta]

Highest(S) == IF S = {} THEN 0 ELSE CHOOSE n \in S : \A k \in S : k <= n
\* _glob_max_nnn; the versions there are, which only cfg_resolved files tell;
\* the version of the next resume.
MaxNumber     == Highest({d[1] : d \in dirs})
Versions(d)   == {s.ver : s \in {t \in resolved : t.dir = d}}
MaxVersion(d) == Highest(Versions(d))
\* Mutant: it is read off the metadata.
NextVersion_Meta(d) == meta[d].ver + 1
NextVersion(d) == Highest({1} \cup Versions(d)) + 1

(***************************************************************************)
(* Commands begin with checks that hold no lock                            *)
(***************************************************************************)
Start(p, c, l, d, v) ==
  /\ pc[p] = "idle" /\ count < MaxCommands
  /\ count' = count + 1
  /\ Goto(p, l)
  /\ cmd' = [cmd EXCEPT ![p] = c] /\ id' = [id EXCEPT ![p] = count + 1]
  /\ dir' = [dir EXCEPT ![p] = d] /\ ver' = [ver EXCEPT ![p] = v]
  /\ UNCHANGED <<files, locks, seen>>

StartFresh(p) == Start(p, "fresh", "number", NoDir, 1)

\* A registered run: metadata, and a checkpoint to resume from.
StartResume(p, d) ==
  d \in ckpts /\ meta[d] # NoMeta /\ Start(p, "resume", "number", d, 0)

\* The number must name one directory.
StartMark(p, d) ==
  /\ d \in dirs /\ \A e \in dirs : e[1] = d[1] => e = d
  /\ Start(p, "mark", "lock", d, 0)

StartRecover(p, d) ==
  /\ d \in dirs /\ meta[d] = NoMeta /\ MaxVersion(d) > 0
  /\ Start(p, "recover", "lock", d, MaxVersion(d))

(***************************************************************************)
(* Under the run-id lock: a number, or a version, and what it is read from *)
(***************************************************************************)
Allocate(p) ==
  IF cmd[p] = "fresh"
    THEN /\ dir' = [dir EXCEPT ![p] = <<MaxNumber + 1, id[p]>>]
         /\ Goto(p, "mkdir") /\ UNCHANGED ver
    ELSE /\ ver' = [ver EXCEPT ![p] = NextVersion(dir[p])]
         /\ Goto(p, "read") /\ UNCHANGED dir

TakeRunIdLock_Shared(p) ==
  /\ pc[p] = "number" /\ Allocate(p) /\ runIdLock' = p
  /\ UNCHANGED <<files, metaLock, cmd, id, seen, count>>
TakeRunIdLock(p) ==
  /\ pc[p] = "number" /\ runIdLock = Nobody /\ Allocate(p) /\ runIdLock' = p
  /\ UNCHANGED <<files, metaLock, cmd, id, seen, count>>

Mkdir(p) ==
  /\ pc[p] = "mkdir"
  /\ dirs' = dirs \cup {dir[p]} /\ runIdLock' = Nobody
  /\ Goto(p, "leaf")
  /\ UNCHANGED <<pair, meta, ckpts, revived, metaLock, local, count>>

\* A resume reads the metadata under the run-id lock only.
\* Mutant: it gives that lock back, the pair being the business of a later phase.
ReadForResume_Unlocked(p) ==
  /\ pc[p] = "read" /\ cmd[p] = "resume"
  /\ seen' = [seen EXCEPT ![p] = meta[dir[p]]]
  /\ Goto(p, "leaf") /\ runIdLock' = Nobody
  /\ UNCHANGED <<files, metaLock, cmd, id, dir, ver, count>>
ReadForResume(p) ==
  /\ pc[p] = "read" /\ cmd[p] = "resume"
  /\ seen' = [seen EXCEPT ![p] = meta[dir[p]]]
  /\ Goto(p, "leaf")
  /\ UNCHANGED <<files, locks, cmd, id, dir, ver, count>>

\* A file of one directory and version replaces the one before it.
File(p)       == [dir |-> dir[p], ver |-> ver[p], by |-> id[p]]
Replace(S, r) == {s \in S : s.dir # r.dir \/ s.ver # r.ver} \cup {r}

WriteLeaf(p) ==
  /\ pc[p] = "leaf"
  /\ leaf' = Replace(leaf, File(p))
  /\ Goto(p, "resolved")
  /\ UNCHANGED <<dirs, resolved, meta, ckpts, revived, locks, local, count>>

\* The text has passed _verify_round_trip, which else raises: Stop or FreshFails.
WriteResolved(p) ==
  /\ pc[p] = "resolved"
  /\ resolved' = Replace(resolved, File(p))
  /\ Goto(p, "lock")
  /\ UNCHANGED <<dirs, leaf, meta, ckpts, revived, locks, local, count>>

(***************************************************************************)
(* Under the metadata lock                                                 *)
(***************************************************************************)
\* The lock's file is opened in a directory that is made if it is missing.
TakeMetaLock(p) ==
  /\ pc[p] = "lock" /\ metaLock[dir[p]] = Nobody
  /\ metaLock' = [metaLock EXCEPT ![dir[p]] = p]
  /\ dirs' = dirs \cup {dir[p]}
  /\ revived' = IF dir[p] \in dirs THEN revived ELSE revived \cup {dir[p]}
  /\ Goto(p, IF cmd[p] \in {"close", "mark"} THEN "read" ELSE "write")
  /\ UNCHANGED <<pair, meta, ckpts, runIdLock, local, count>>

ReadUnderLock(p) ==
  /\ pc[p] = "read" /\ cmd[p] # "resume"
  /\ seen' = [seen EXCEPT ![p] = meta[dir[p]]]
  /\ Goto(p, "write")
  /\ UNCHANGED <<files, locks, cmd, id, dir, ver, count>>

\* Statuses a command may write over the one it has read: close leaves what
\* someone else has written, mark leaves terminal statuses.
Allowed_Close(p) ==
  CASE cmd[p] \in {"fresh", "resume"} -> {"running"}
    [] cmd[p] = "recover" -> {"unknown"}
    [] cmd[p] = "close"   -> {"done"}
    [] cmd[p] = "mark"    -> IF seen[p].status \in {"running", "unknown"} THEN Terminal ELSE {}
Allowed(p) ==
  CASE cmd[p] \in {"fresh", "resume"} -> {"running"}
    [] cmd[p] = "recover" -> {"unknown"}
    [] cmd[p] = "close"   -> IF seen[p].status = "running" THEN {"done"} ELSE {}
    [] cmd[p] = "mark"    -> IF seen[p].status \in {"running", "unknown"} THEN Terminal ELSE {}

Release(p) ==
  /\ runIdLock' = IF runIdLock = p THEN Nobody ELSE runIdLock
  /\ metaLock' = [d \in Dir |-> IF metaLock[d] = p THEN Nobody ELSE metaLock[d]]

\* A temporary file and os.replace: there is the old text or the new one.
Write(p) ==
  /\ pc[p] = "write" /\ dir[p] \in dirs
  /\ \E s \in Allowed(p) :
       meta' = [meta EXCEPT ![dir[p]] =
                  [status |-> s, ver |-> IF cmd[p] \in {"close", "mark"} THEN seen[p].ver ELSE ver[p]]]
  /\ IF cmd[p] \in {"fresh", "resume"}
       THEN Goto(p, "begin") /\ UNCHANGED local
       ELSE Exit(p)
  /\ Release(p)
  /\ UNCHANGED <<dirs, pair, ckpts, revived, count>>

\* Training makes ckpts/ first.
TrainBegins(p) ==
  /\ pc[p] = "begin"
  /\ ckpts' = ckpts \cup {dir[p]}
  /\ Goto(p, "train")
  /\ UNCHANGED <<dirs, pair, meta, revived, locks, local, count>>

\* Training returns or raises: phase C closes the metadata.
TrainEnds(p) ==
  /\ pc[p] = "train"
  /\ cmd' = [cmd EXCEPT ![p] = "close"] /\ Goto(p, "lock")
  /\ UNCHANGED <<files, locks, id, dir, ver, seen, count>>

(***************************************************************************)
(* Failures                                                                *)
(***************************************************************************)
\* Killed, an exception, a busy lock, a status that may not be overwritten.
Stop(p) ==
  /\ pc[p] # "idle"
  /\ Exit(p) /\ Release(p)
  /\ UNCHANGED <<files, count>>

\* A fresh run that fails before phase B has returned removes its directory, with
\* the lock file in it.
FreshFails(p) ==
  /\ cmd[p] = "fresh" /\ pc[p] \in {"leaf", "resolved", "lock", "write", "begin"}
  /\ dirs' = dirs \ {dir[p]}
  /\ leaf' = {s \in leaf : s.dir # dir[p]}
  /\ resolved' = {s \in resolved : s.dir # dir[p]}
  /\ meta' = [meta EXCEPT ![dir[p]] = NoMeta]
  /\ metaLock' = [metaLock EXCEPT ![dir[p]] = Nobody]
  /\ Exit(p)
  /\ UNCHANGED <<ckpts, revived, runIdLock, count>>

(***************************************************************************)
(* Specification                                                           *)
(***************************************************************************)
Next ==
  \E p \in Procs :
    \/ StartFresh(p)
    \/ \E d \in dirs : StartResume(p, d) \/ StartMark(p, d) \/ StartRecover(p, d)
    \/ TakeRunIdLock(p) \/ Mkdir(p) \/ ReadForResume(p)
    \/ WriteLeaf(p) \/ WriteResolved(p)
    \/ TakeMetaLock(p) \/ ReadUnderLock(p) \/ Write(p) \/ TrainBegins(p) \/ TrainEnds(p)
    \/ Stop(p) \/ FreshFails(p)

Spec == Init /\ [][Next]_vars

(***************************************************************************)
(* Properties                                                              *)
(***************************************************************************)
Version == 0 .. MaxCommands
Meta == [status : {"none", "running", "unknown"} \cup Terminal, ver : Version]
Files == [dir : Dir, ver : Version, by : Number]

TypeOK ==
  /\ dirs \subseteq Dir /\ ckpts \subseteq Dir /\ revived \subseteq Dir
  /\ leaf \subseteq Files /\ resolved \subseteq Files
  /\ meta \in [Dir -> Meta]
  /\ runIdLock \in Procs \cup {Nobody} /\ metaLock \in [Dir -> Procs \cup {Nobody}]
  /\ pc \in [Procs -> {"idle", "number", "mkdir", "read", "leaf", "resolved", "lock",
                    "write", "begin", "train"}]
  /\ cmd \in [Procs -> {"none", "fresh", "resume", "close", "mark", "recover"}]
  /\ id \in [Procs -> 0 .. MaxCommands] /\ dir \in [Procs -> Dir \cup {NoDir}]
  /\ ver \in [Procs -> Version] /\ seen \in [Procs -> Meta] /\ count \in 0 .. MaxCommands

\* Runs started at the same time get numbers of their own, also while others are
\* removed; only a directory that a command made again, opening the lock file of
\* one just removed, may share the number of a later run.
UniqueNumber ==
  \A d, e \in dirs \ revived : d[1] = e[1] => d = e

\* A version is of one command: where there is a cfg_resolved, the cfg_leaf of its
\* number is by the same one, however resumes race and whichever failed after the
\* leaf alone; and the version that the metadata names has both.
VersionOwned ==
  /\ resolved \subseteq leaf
  /\ \A d \in dirs \ revived :
       meta[d] # NoMeta => \E s \in resolved : s.dir = d /\ s.ver = meta[d].ver

\* A complete pair is never written again.
PairKept == [][\A s \in resolved : s.dir \in dirs' => s \in resolved' /\ s \in leaf']_vars

Overwritten(d) == meta[d].status \in Terminal /\ meta'[d] # meta[d]
Resumed(d)     == meta'[d].status = "running" /\ meta'[d].ver > meta[d].ver
Recovering(d)  == \E p \in Procs : cmd[p] = "recover" /\ dir[p] = d /\ pc[p] = "write"

\* Whatever else trainers and operators do at the same time, the outcome that one of
\* them recorded for a trained run is taken away by a resume, for a version of its
\* own, or by a recover that is under way since before there was metadata.
OutcomeKept == [][\A d \in ckpts : Overwritten(d) => Resumed(d) \/ Recovering(d)]_vars

\* "{done, failed, killed} -> anything raises InvalidTransition: terminal states are
\* frozen, the only escape is resume" (mark.py; likewise schema.py), and recover
\* refuses to overwrite an existing metadata.toml.
TerminalFrozen == [][\A d \in ckpts : Overwritten(d) => Resumed(d)]_vars
=============================================================================
