------------------------------- MODULE ScanPlan -------------------------------
(***************************************************************************)
(* How an observation is cut into scans (models/obs.py, models/target.py): *)
(* a five point target becomes five targets; the frequencies of a target   *)
(* are covered by as many captures as it needs, of each of which only the  *)
(* middle is usable; and its integration time is cut into scans that are   *)
(* not too long.  This is done at START and again at RESET, on targets     *)
(* that have been expanded before.  ScanLedger goes on from here.          *)
(*                                                                         *)
(* Frequencies are whole numbers of a unit of which Rate make the sample   *)
(* rate, 13/20 of it usable.  The distance of captures is a fraction, so   *)
(* what a capture covers is multiplied by the number of captures less one. *)
(* The rounding of freq_overlap to 4 decimals is left out.                 *)
(***************************************************************************)
EXTENDS Integers, SequencesExt, FiniteSetsExt

CONSTANTS Rate,        \* sample_rate
          MaxDuration, \* MAX_SCAN_DURATION_SEC, in halves of a second
          Sources,     \* targets an observation may have: kind, bandwidth and time
          MaxTargets   \* bound on the targets of an observation

ASSUME PlanAssumption ==
    /\ Rate \in Nat \ {0} /\ Rate % 40 = 0
    /\ MaxDuration \in Nat \ {0} /\ MaxDuration % 2 = 0
    /\ Sources \subseteq [kind : {"plain", "five"}, bandwidth : Nat, time : Nat]
    /\ \A s \in Sources : s.bandwidth % 2 = 0
    /\ MaxTargets \in Nat

Points == <<"C", "N", "S", "E", "W">>

\* A target with the direction it was expanded to and the index it was given.
Target(s) == [source |-> s, direction |-> "none", idx |-> -1]

VARIABLES sources,  \* the targets of the observation as it was designed
          targets,  \* targets and target_configs, which are expanded alike
          plan      \* target_scans

planVars == <<sources, targets, plan>>

CeilDiv(a, b) == -((-a) \div b)

-----------------------------------------------------------------------------
(* TargetScanSet.determine_scans *)

UsableRate == (Rate * 13) \div 20

\* Mutant: a rest smaller than a capture is not captured.
FreqScansFloor(c) == Max({1, c.bandwidth \div UsableRate})

FreqScans(c) == Max({1, CeilDiv(c.bandwidth, UsableRate)})

ScanIterations(c) == CeilDiv(c.time, MaxDuration)

\* The next full second, if there are several scans.
ScanDuration(c) ==
    IF ScanIterations(c) > 1
      THEN 2 * CeilDiv(c.time, 2 * ScanIterations(c)) ELSE c.time

\* What is multiplied with FreqScale(c) is whole.
FreqScale(c) == Max({1, FreqScans(c) - 1})

\* start_freq of a capture from freq_min, times FreqScale
StartFreq(c, f) ==
    IF FreqScans(c) = 1
      THEN c.bandwidth \div 2 - Rate \div 2
      ELSE f * (c.bandwidth - UsableRate) - FreqScale(c) * ((Rate - UsableRate) \div 2)

Scans(t) ==
    LET c == t.source
    IN  [i \in 1..(FreqScans(c) * ScanIterations(c)) |->
           [tgt_idx |-> t.idx,
            freq_scan |-> (i - 1) \div ScanIterations(c),
            scan_iter |-> (i - 1) % ScanIterations(c),
            start |-> StartFreq(c, (i - 1) \div ScanIterations(c)),
            duration |-> ScanDuration(c)]]

-----------------------------------------------------------------------------
(* ObsModel.determine_scans *)

\* Mutant: a target that has been expanded is expanded again.
ExpandedAlways(t) ==
    IF t.source.kind = "five"
      THEN [i \in 1..5 |-> [t EXCEPT !.direction = Points[i]]] ELSE <<t>>

Expanded(t) ==
    IF t.source.kind = "five" /\ t.direction = "none"
      THEN [i \in 1..5 |-> [t EXCEPT !.direction = Points[i]]] ELSE <<t>>

ExpandedTargets(ts) ==
    LET all == FlattenSeq([i \in DOMAIN ts |-> Expanded(ts[i])])
    IN  [i \in DOMAIN all |-> [all[i] EXCEPT !.idx = i - 1]]

PlanInit ==
    /\ sources \in SeqOf(Sources, MaxTargets)
    /\ targets = [i \in DOMAIN sources |-> Target(sources[i])]
    /\ plan = <<>>

\* START and RESET
DetermineScans ==
    /\ targets' = ExpandedTargets(targets)
    /\ plan' = [i \in DOMAIN targets' |-> Scans(targets'[i])]
    /\ UNCHANGED sources

-----------------------------------------------------------------------------

\* Twice the frequencies, from freq_min, that a scan can use.
UsableFrom(s, c) == 2 * s.start + FreqScale(c) * (Rate - UsableRate)
UsableTo(s, c) == 2 * s.start + FreqScale(c) * (Rate + UsableRate)

(* The scans planned, at START or at RESET again, are those the design     *)
(* asks for: every pointing of every target once and in order, under its   *)
(* own index; in every iteration each frequency within the bandwidth in    *)
(* the usable part of a capture; scans that are not too long and together  *)
(* as long as the integration time, but for the rounding.                  *)
PlanCovers ==
    plan # <<>> =>
      /\ [i \in DOMAIN targets |-> <<targets[i].source, targets[i].direction>>] =
           FlattenSeq([i \in DOMAIN sources |->
             IF sources[i].kind = "five"
               THEN [k \in 1..5 |-> <<sources[i], Points[k]>>]
               ELSE << <<sources[i], "none">> >>])
      /\ Len(plan) = Len(targets)
      /\ \A i \in DOMAIN plan :
           LET c == targets[i].source
               iters == {plan[i][k].scan_iter : k \in DOMAIN plan[i]}
               length == Cardinality(iters) * ScanDuration(c)
           IN  /\ \A k \in DOMAIN plan[i] :
                    /\ plan[i][k].tgt_idx = i - 1
                    /\ plan[i][k].duration <= MaxDuration
               /\ c.time <= length /\ length <= c.time + 2 * Cardinality(iters)
               /\ \A iter \in iters, x \in 0..c.bandwidth :
                    \E k \in DOMAIN plan[i] :
                      LET s == plan[i][k]
                      IN  /\ s.scan_iter = iter
                          /\ UsableFrom(s, c) <= 2 * x * FreqScale(c)
                          /\ 2 * x * FreqScale(c) <= UsableTo(s, c)
=============================================================================
