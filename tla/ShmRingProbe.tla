---------------------------- MODULE ShmRingProbe ----------------------------
(***************************************************************************)
(* The collector's diagnostic look at the transition ring,                 *)
(* CrossLangShmRing.peek_count_and_full_at_head: the consumer's thread     *)
(* reads head and count and then, without a lock, one status byte after    *)
(* another, while producers go on pushing.                                 *)
(***************************************************************************)
EXTENDS ShmRing

VARIABLE probe     \* at: none / scan / done; cnt, full: the pair it returns; i: slots read

NoProbe == [at |-> "none", cnt |-> 0, full |-> 0, i |-> 0]

ProbeInit == Init /\ probe = NoProbe

\* head and count; an empty ring is reported without a scan.
ProbeRead ==
  /\ cpc = "idle" /\ probe.at = "none"
  /\ probe' = [at |-> IF count <= 0 THEN "done" ELSE "scan", cnt |-> count, full |-> 0, i |-> 0]
  /\ UNCHANGED vars

ScanLimit == IF probe.cnt <= Cap THEN probe.cnt ELSE Cap

\* Mutant of ProbeScan: the scan starts one slot after head.
ProbeScan_Late ==
  /\ probe.at = "scan"
  /\ LET n == probe.i + 1
     IN  probe' = [probe EXCEPT
           !.i = n,
           !.full = @ + (IF status[(head + n) % Cap] = FULL THEN 1 ELSE 0),
           !.at = IF n = ScanLimit THEN "done" ELSE @]
  /\ UNCHANGED vars

ProbeScan ==
  /\ probe.at = "scan"
  /\ LET n == probe.i + 1
     IN  probe' = [probe EXCEPT
           !.i = n,
           !.full = @ + (IF status[(head + probe.i) % Cap] = FULL THEN 1 ELSE 0),
           !.at = IF n = ScanLimit THEN "done" ELSE @]
  /\ UNCHANGED vars

\* The scan and the pops run in one thread; a pop that returns ends the report.
ProbedPop ==
  /\ probe.at # "scan" /\ Pop
  /\ probe' = IF PopRelease \/ PopTransient THEN NoProbe ELSE probe

ProbeNext ==
  \/ ProbeRead \/ ProbeScan \/ ProbedPop
  \/ \E p \in alive : ProducerStep(p) /\ UNCHANGED probe

ProbeSpec ==
  /\ ProbeInit /\ [][ProbeNext]_<<vars, probe>>
  /\ WF_<<vars, probe>>(ProbedPop) /\ WF_<<vars, probe>>(ProbeScan)
  /\ \A p \in Producers : WF_<<vars, probe>>(PushSteps(p) /\ UNCHANGED probe)

(* "count > 0 and n_full == count: ring healthy, pop should get a frame"   *)
(* (ring_shm.py): although the scan races with the producers, the pop that *)
(* follows such a report never comes back empty-handed.                    *)
Healthy == probe.at = "done" /\ probe.cnt > 0 /\ probe.full = probe.cnt
HealthyMeansPop ==
  [][(Healthy /\ cpc = "status") => ~PopTransient]_<<vars, probe>>
==============================================================================
