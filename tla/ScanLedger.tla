----------------------------- MODULE ScanLedger -----------------------------
(***************************************************************************)
(* How the planned scans of an observation are ticked off (models/obs.py,  *)
(* models/target.py, tm.py) by the reports of the scans that were taken    *)
(* (sdp.py, obs/scan.py).                                                  *)
(*                                                                         *)
(* The plan has Iterations scans in each of Bands frequency bands of each  *)
(* of Targets targets, all numbered from 0.  The Science Data Processor    *)
(* numbers the scans it takes of a band with a counter of its own, which   *)
(* also counts scans it gives up and starts again at 0 after a restart of  *)
(* the digitiser or a reset of the observation.  The two numberings        *)
(* therefore part, and a report names a scan by the number the processor   *)
(* gave it.  A planned scan takes over the number of the scan that was     *)
(* reported for it.                                                        *)
(***************************************************************************)
EXTENDS Naturals, Sequences

CONSTANTS Targets,     \* targets of the observation
          Bands,       \* frequency scans of a target
          Iterations,  \* scan iterations of a frequency scan
          MaxNumber,   \* bound on the processor's counters
          MaxReports,  \* bound on the reports under way
          MaxTroubles  \* bound on restarts of the digitiser and on aborts

ASSUME SizeAssumption ==
    /\ Targets \in Nat \ {0} /\ Bands \in Nat \ {0} /\ Iterations \in Nat \ {0}
    /\ MaxNumber \in Nat /\ MaxReports \in Nat /\ MaxTroubles \in Nat

\* A planned scan: the index of its target, its freq_scan, and the scan_iter it
\* was planned with.
Position == (0..(Targets - 1)) \X (0..(Bands - 1)) \X (0..(Iterations - 1))
Band == (0..(Targets - 1)) \X (0..(Bands - 1))
BandOf(p) == <<p[1], p[2]>>

First == <<0, 0, 0>>
Over == <<Targets, 0, 0>>   \* tgt_idx = len(targets), tgt_scan = 0

\* The order of the lists of scans.
Before(p, q) ==
    \/ p[1] < q[1]
    \/ p[1] = q[1] /\ p[2] < q[2]
    \/ p[1] = q[1] /\ p[2] = q[2] /\ p[3] < q[3]
FirstOf(S) == {p \in S : \A q \in S : ~Before(q, p)}

Report == [band : Band, number : Nat]

VARIABLES
    number,   \* scan_iter of every planned scan
    done,     \* planned scans whose status is COMPLETE
    cur,      \* tgt_idx and tgt_scan of the observation
    state,    \* "scanning" or "aborted"
    pending,  \* SCAN_COMPLETED transitions that wait to be performed
    count,    \* per band, the number of the scan the processor takes now
    taken,    \* the band the digitiser has been told to take
    reports,  \* reports of complete scans on their way
    resetting,\* the processor has an obs_reset before it
    troubles  \* restarts and aborts so far (bounds them)

ledger == <<number, done, cur, state, pending>>
processor == <<count, taken, reports>>
ledgerVars == <<number, done, cur, state, pending, count, taken, reports, resetting, troubles>>

LedgerInit ==
    /\ number = [p \in Position |-> p[3]]
    /\ done = {}
    /\ cur = First
    /\ state = "scanning"
    /\ pending = 0
    /\ count = [b \in Band |-> 0]
    /\ taken = BandOf(First)
    /\ reports = <<>>
    /\ resetting = FALSE
    /\ troubles = 0

-----------------------------------------------------------------------------
(* Looking scans up. *)

\* TargetScanSet.get_scan_by_index: by the number a scan has now.
ByIndex(b, n) == FirstOf({p \in Position : BandOf(p) = b /\ number[p] = n})

\* get_current_tgt_scan: tgt_scan is turned into a band and a number.
Current == IF cur = Over THEN {} ELSE ByIndex(BandOf(cur), cur[3])

\* Mutant: a number beyond the plan stands for no planned scan.
ByIdPlanned(r) == ByIndex(r.band, r.number)

\* get_target_scan_by_id: the scan of that number or else, for a scan that was
\* taken again, the current one if it has the same target and band.
ById(r) ==
    IF ByIndex(r.band, r.number) # {} THEN ByIndex(r.band, r.number)
    ELSE {p \in Current : BandOf(p) = r.band}

-----------------------------------------------------------------------------
(* The Science Data Processor and the digitiser. *)

\* _abort_scan: the scan under way is given up, the next one gets a new number.
GiveUp ==
    /\ count[taken] < MaxNumber
    /\ count' = [count EXCEPT ![taken] = @ + 1]
    /\ UNCHANGED <<ledger, taken, reports, resetting, troubles>>

\* The scan under way is complete and is reported.
CompleteScan ==
    /\ count[taken] < MaxNumber
    /\ Len(reports) < MaxReports
    /\ reports' = Append(reports, [band |-> taken, number |-> count[taken]])
    /\ count' = [count EXCEPT ![taken] = @ + 1]
    /\ UNCHANGED <<ledger, taken, resetting, troubles>>

\* The digitiser's read counter starts again, and with it all numbers.
DigitiserRestarts ==
    /\ troubles < MaxTroubles
    /\ troubles' = troubles + 1
    /\ count' = [b \in Band |-> 0]
    /\ UNCHANGED <<ledger, taken, reports, resetting>>

\* set_obs_reset
SdpResets ==
    /\ resetting
    /\ resetting' = FALSE
    /\ count' = [b \in Band |-> 0]
    /\ UNCHANGED <<ledger, taken, reports, troubles>>

-----------------------------------------------------------------------------
(* The Telescope Manager. *)

\* process_sdp_msg, SCAN_COMPLETE: update_from_model copies number and status
\* to the planned scan, if one was found.  The transition follows in any case.
Mark ==
    /\ reports # <<>>
    /\ LET found == ById(Head(reports))
       IN  /\ number' = [p \in Position |->
                           IF p \in found THEN Head(reports).number ELSE number[p]]
           /\ done' = done \cup found
    /\ pending' = pending + 1
    /\ reports' = Tail(reports)
    /\ UNCHANGED <<cur, state, count, taken, resetting, troubles>>

OpenFrom(t) == {p \in Position \ done : p[1] >= t}

\* Mutant: the scan behind the current one is next, done or not.
NextInOrder ==
    LET rest == {p \in Position : Before(cur, p)}
    IN  \/ \E p \in FirstOf(rest) : cur' = p
        \/ rest = {} /\ cur' = Over

\* set_next_tgt_scan: the first open scan from the current target on.
NextScan ==
    \/ \E p \in FirstOf(OpenFrom(cur[1])) : cur' = p
    \/ OpenFrom(cur[1]) = {} /\ cur' = Over

\* complete_scan, if the observation is still scanning.
Advance ==
    /\ pending > 0
    /\ pending' = pending - 1
    /\ IF state = "scanning" /\ cur # Over THEN NextScan ELSE UNCHANGED cur
    /\ UNCHANGED <<number, done, state, processor, resetting, troubles>>

\* start_obs_scanning tells the digitiser the band of the current scan.
Instruct ==
    /\ state = "scanning" /\ cur # Over /\ pending = 0
    /\ taken' = BandOf(cur)
    /\ UNCHANGED <<ledger, count, reports, resetting, troubles>>

Abort ==
    /\ state = "scanning" /\ cur # Over
    /\ troubles < MaxTroubles
    /\ troubles' = troubles + 1
    /\ state' = "aborted"
    /\ UNCHANGED <<number, done, cur, pending, processor, resetting>>

\* RESET makes the plan anew and has the processor reset.
Reset ==
    /\ state = "aborted"
    /\ state' = "scanning"
    /\ number' = [p \in Position |-> p[3]]
    /\ done' = {}
    /\ cur' = First
    /\ resetting' = TRUE
    /\ UNCHANGED <<pending, processor, troubles>>

LedgerNext ==
    \/ GiveUp \/ CompleteScan \/ DigitiserRestarts \/ SdpResets
    \/ Mark \/ Advance \/ Instruct \/ Abort \/ Reset

LedgerSpec == LedgerInit /\ [][LedgerNext]_ledgerVars

-----------------------------------------------------------------------------

LedgerTypeOK ==
    /\ number \in [Position -> Nat]
    /\ done \subseteq Position
    /\ cur \in Position \cup {Over}
    /\ state \in {"scanning", "aborted"}
    /\ pending \in Nat
    /\ count \in [Band -> Nat]
    /\ taken \in Band
    /\ reports \in Seq(Report)
    /\ resetting \in BOOLEAN
    /\ troubles \in Nat

(* While no transition waits, the scan an observation that is scanning is  *)
(* configured for exists, is the one its indexes stand for, and is not     *)
(* complete, whatever numbers the planned scans have taken over: otherwise *)
(* the configuration of the next scan would find nothing to do             *)
(* (oet.py:667) and the observation would stand still.                     *)
CurrentIsOpen ==
    state = "scanning" /\ pending = 0 /\ cur # Over =>
        Current = {cur} /\ cur \notin done

(* An observation is over only when every planned scan is complete.        *)
OverMeansDone == cur = Over => done = Position

(* A report ticks off a planned scan that was open, unless all scans of    *)
(* its band are complete, the Telescope Manager is still about to move on, *)
(* or the numbers have started again: no scan that was taken is lost to    *)
(* the plan because the two numberings differ.                             *)
EveryReportCounts ==
    [][ Mark /\ troubles = 0 /\ pending = 0 =>
          \/ \E p \in Position \ done : done' = done \cup {p}
          \/ \A p \in Position : BandOf(p) = Head(reports).band => p \in done ]_ledgerVars
=============================================================================
