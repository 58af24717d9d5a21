--------------------------- MODULE ScanIntegration ----------------------------
(***************************************************************************)
(* The observation processing tool: the scans of an observation on disk    *)
(* are integrated into one synthetic scan for every target and frequency,  *)
(* calibration scans first, or stitched into filterbank files              *)
(* (src/src/obs/obs.py and src/src/obs/opt.py).                            *)
(*                                                                         *)
(* The user excludes scans until an input changes nothing.  Both passes,   *)
(* over the calibration and over the sky scans, end in a synthesis that    *)
(* looks at every planned scan again; a synthetic scan that is complete is *)
(* left alone, one that is not takes one row more of every scan.           *)
(*                                                                         *)
(* A scan is its place in the plan, which is in the order of targets,      *)
(* frequencies and iterations.  Times are in half rows.                    *)
(***************************************************************************)
EXTENDS Integers, Sequences, FiniteSets, SequencesExt

CONSTANTS
    Plan,       \* the planned scans: target, frequency, kind and band
    Seconds,    \* seconds of a scan
    Gaps,       \* gaps between the seconds, in half rows, negative to overlap
    MaxToggles  \* bound: inputs of the user

Planned == DOMAIN Plan
Loads == {e \in Planned : Plan[e].kind = "LOAD"}
Skies == Planned \ Loads
IdOf(e) == <<Plan[e].target, Plan[e].freq>>

ASSUME IntegrationAssumption ==
    /\ \A e, f \in Planned : IdOf(e) = IdOf(f) => Plan[e] = Plan[f]
    /\ \A e, f \in Planned : e < f => \/ Plan[e].target < Plan[f].target
                                      \/ /\ Plan[e].target = Plan[f].target
                                         /\ Plan[e].freq <= Plan[f].freq

VARIABLES
    doing,       \* the part of the tool that is next
    stored,      \* what is left of every scan: a file, a file of no name, or none
    begun,       \* when each second of every scan was read
    blacklist,   \* scans the user has excluded
    toggles,     \* inputs of the user so far
    scans,       \* how often a scan was integrated
    calibrated,  \* the load a sky scan was divided by when it was integrated
    cal_q,       \* the synthetic loads
    sky_q,       \* the synthetic scans of the sky
    power,       \* rows of the saved table of total power
    collapsed,   \* scans integrated for every target and frequency
    stitched     \* the filterbank files: the start in the header, and the rows

integrationVars == <<doing, stored, begun, blacklist, toggles, scans, calibrated, cal_q, sky_q,
                     power, collapsed, stitched>>

NoRows == <<>>

-----------------------------------------------------------------------------
(* Excluding scans.  An index the plan does not have is told and ignored.   *)

Toggled(tokens) == {e \in Planned : Cardinality({i \in DOMAIN tokens : tokens[i] = e}) % 2 = 1}

SymmetricDifference(a, b) == (a \ b) \cup (b \ a)

\* The first input that leaves the exclusions as they are ends the choice.
BlacklistScans(tokens) ==
    LET updated == SymmetricDifference(blacklist, Toggled(tokens))
    IN /\ doing = "choose"
       /\ updated = blacklist \/ toggles < MaxToggles
       /\ blacklist' = updated
       /\ toggles' = IF updated = blacklist THEN toggles ELSE toggles + 1
       /\ doing' = IF updated = blacklist THEN "integrate_cal" ELSE doing
       /\ UNCHANGED <<stored, begun, scans, calibrated, cal_q, sky_q, power, collapsed, stitched>>

-----------------------------------------------------------------------------
(* Integrating.                                                             *)

Readable(e) == e \notin blacklist /\ stored[e] = "file"

UpdateIntegrated(set) == scans' = [e \in Planned |-> IF e \in set THEN scans[e] + 1 ELSE scans[e]]

IntegrateCalScans ==
    /\ doing = "integrate_cal" /\ doing' = "synthesise_cal"
    /\ UpdateIntegrated({e \in Loads : Readable(e)})
    /\ UNCHANGED <<stored, begun, blacklist, toggles, calibrated, cal_q, sky_q, power, collapsed,
                   stitched>>

IsComplete(syn) == Len(syn.rows) >= syn.duration

\* The rows of the newest complete load with the same settings.
LoadFor(loads, band) ==
    LET fit == SelectSeq(loads, LAMBDA l : l.band = band /\ IsComplete(l))
    IN IF fit = <<>> THEN NoRows ELSE [i \in DOMAIN Last(fit).rows |-> Last(fit).rows[i].of]

IntegrateSkyScans ==
    LET set == {e \in Skies : Readable(e)}
    IN /\ doing = "integrate_sky" /\ doing' = "synthesise_sky"
       /\ UpdateIntegrated(set)
       /\ calibrated' = [e \in Planned |-> IF e \in set THEN LoadFor(cal_q, Plan[e].band)
                                           ELSE calibrated[e]]
       /\ UNCHANGED <<stored, begun, blacklist, toggles, cal_q, sky_q, power, collapsed, stitched>>

\* A row of a synthetic scan: the scan it is of, and the load it is divided by.
RowOf(e, loads) ==
    [of |-> e, load |-> IF e \in Skies THEN LoadFor(loads, Plan[e].band) ELSE NoRows]

\* The rows a synthetic scan has room for: one for every planned scan that is
\* not excluded, whether there is a file of it or not.
Duration(e) == Cardinality({f \in Planned \ blacklist : IdOf(f) = IdOf(e)})

\* Mutant: a scan that is complete takes rows as well.
SynthesisedAlways(queue, e, loads) ==
    IF \E i \in DOMAIN queue : queue[i].id = IdOf(e)
    THEN [i \in DOMAIN queue |-> IF queue[i].id = IdOf(e)
                                 THEN [queue[i] EXCEPT !.rows = Append(@, RowOf(e, loads))]
                                 ELSE queue[i]]
    ELSE Append(queue, [id |-> IdOf(e), band |-> Plan[e].band, duration |-> Duration(e),
                        rows |-> <<RowOf(e, loads)>>])

\* A new synthetic scan, or one row more of one that is not complete.
Synthesised(queue, e, loads) ==
    IF \E i \in DOMAIN queue : queue[i].id = IdOf(e)
    THEN [i \in DOMAIN queue |-> IF queue[i].id = IdOf(e) /\ ~IsComplete(queue[i])
                                 THEN [queue[i] EXCEPT !.rows = Append(@, RowOf(e, loads))]
                                 ELSE queue[i]]
    ELSE Append(queue, [id |-> IdOf(e), band |-> Plan[e].band, duration |-> Duration(e),
                        rows |-> <<RowOf(e, loads)>>])

\* Every planned scan in turn, calibration and sky alike, that was integrated.
SynthesiseIntegratedScans ==
    LET integrated == SelectSeq([e \in Planned |-> e],
                                LAMBDA e : e \notin blacklist /\ scans[e] > 0)
        queues == FoldLeft(LAMBDA q, e : IF e \in Loads
                                         THEN [q EXCEPT !.cal = Synthesised(@, e, q.cal)]
                                         ELSE [q EXCEPT !.sky = Synthesised(@, e, q.cal)],
                           [cal |-> cal_q, sky |-> sky_q], integrated)
    IN /\ doing \in {"synthesise_cal", "synthesise_sky"}
       /\ doing' = IF doing = "synthesise_cal" THEN "integrate_sky" ELSE "report"
       /\ cal_q' = queues.cal /\ sky_q' = queues.sky
       /\ UNCHANGED <<stored, begun, blacklist, toggles, scans, calibrated, power, collapsed,
                      stitched>>

CollapseIntegratedArrays ==
    [id \in {IdOf(e) : e \in Skies \ blacklist} |->
        Cardinality({e \in Skies \ blacklist : IdOf(e) = id /\ scans[e] > 0})]

\* One line for every row of a synthetic scan of the sky, by band.
SaveAggregatedPower ==
    LET sorted == SortSeq(sky_q, LAMBDA a, b : \/ a.band < b.band
                                               \/ a.band = b.band /\ a.id[2] < b.id[2])
    IN FlattenSeq([i \in DOMAIN sorted |->
                      [k \in DOMAIN sorted[i].rows |-> [id |-> sorted[i].id, number |-> k]]])

ReportTotals ==
    /\ doing = "report" /\ doing' = "done"
    /\ power' = SaveAggregatedPower
    /\ collapsed' = CollapseIntegratedArrays
    /\ UNCHANGED <<stored, begun, blacklist, toggles, scans, calibrated, cal_q, sky_q, stitched>>

-----------------------------------------------------------------------------
(* Stitching.  Every second is two rows; a time between the end of one and  *)
(* the start of the next is filled with as many rows as fit in it, rounded  *)
(* to the nearest, a half to the even one.                                  *)

RowsPerSecond == 2

Rounded(halves) == IF halves % 4 = 3 THEN (halves + 1) \div 2 ELSE halves \div 2

EndOf(start) == start + 2 * RowsPerSecond

IterFilterbankScans(id) ==
    SelectSeq([e \in Planned |-> e], LAMBDA e : e \in Skies /\ IdOf(e) = id /\ stored[e] # "unnamed")

GapRows(file, start, second) ==
    IF file.end = 0 \/ start <= file.end THEN 0 ELSE Rounded(start - file.end)

WriteSecond(file, start, second) ==
    LET gap == GapRows(file, start, second)
    IN [rows |-> file.rows \o [i \in 1..gap |-> 0]
                           \o [i \in 1..RowsPerSecond |-> start + 2 * (i - 1)],
        end |-> EndOf(start)]

WriteScanWithGapFill(file, e) ==
    FoldLeft(LAMBDA f, second : WriteSecond(f, begun[e][second], second), file,
             [second \in 1..Seconds |-> second])

\* A scan without a file is passed over; the spectra of the others are divided by
\* one deviation of them all.
LoadFilterbankScanData(id) ==
    SelectSeq(IterFilterbankScans(id), LAMBDA e : stored[e] = "file")

\* The header has the start of the first scan; a group without any file leaves none.
ExportFilterbankObservation ==
    LET ids == {IdOf(e) : e \in Skies}
    IN /\ doing = "stitch" /\ doing' = "done"
       /\ stitched' = [id \in {i \in ids : LoadFilterbankScanData(i) # <<>>} |->
                          [start |-> begun[Head(IterFilterbankScans(id))][1],
                           rows |-> FoldLeft(WriteScanWithGapFill, [rows |-> <<>>, end |-> 0],
                                             LoadFilterbankScanData(id)).rows]]
       /\ UNCHANGED <<stored, begun, blacklist, toggles, scans, calibrated, cal_q, sky_q, power,
                      collapsed>>

-----------------------------------------------------------------------------
\* Seconds follow each other in the order of the plan.
Timeline(gaps) ==
    LET second[n \in 0..(Len(gaps))] ==
            IF n = 0 THEN 1 ELSE EndOf(second[n - 1]) + gaps[n]
    IN [e \in Planned |-> [s \in 1..Seconds |-> second[(e - 1) * Seconds + s - 1]]]

EvenGaps == [i \in 1..(Len(Plan) * Seconds) |-> 0]

IntegrationInit ==
    /\ doing \in {"choose", "stitch"}
    /\ stored \in [Planned -> {"file", "missing", "unnamed"}]
    /\ IF doing = "stitch"
       THEN (\A e \in Loads : stored[e] = "file") /\ \E gaps \in Gaps : begun = Timeline(gaps)
       ELSE (\A e \in Planned : stored[e] # "unnamed") /\ begun = Timeline(EvenGaps)
    /\ blacklist = {} /\ toggles = 0
    /\ scans = [e \in Planned |-> 0]
    /\ calibrated = [e \in Planned |-> NoRows]
    /\ cal_q = <<>> /\ sky_q = <<>> /\ power = <<>> /\ collapsed = <<>> /\ stitched = <<>>

Tokens == UNION {[1..n -> Planned \cup {0}] : n \in 0..2}

IntegrationNext ==
    \/ \E tokens \in Tokens : BlacklistScans(tokens)
    \/ IntegrateCalScans \/ SynthesiseIntegratedScans \/ IntegrateSkyScans \/ ReportTotals
    \/ ExportFilterbankObservation

-----------------------------------------------------------------------------
(* Properties.                                                              *)

RowsOf(syn) == {syn.rows[i].of : i \in DOMAIN syn.rows}

\* Every scan of the sky that has a file and is not excluded is one row of the
\* synthetic scan of its target and frequency, no other is, and the table of
\* total power has one line for each of the scans the totals count.  When no file
\* of a calibration scan is missing, all the rows of a band are divided by the
\* same load, the one the scans themselves were divided by, made once of every
\* calibration scan.  (A missing calibration scan leaves its synthetic load
\* incomplete, the second synthesis adds its rows again: obs.py:320.)
IntegratedOnce ==
    doing = "done" /\ stitched = <<>> =>
        /\ \A i \in DOMAIN sky_q :
            LET syn == sky_q[i]
            IN /\ RowsOf(syn) = {e \in Skies : Readable(e) /\ IdOf(e) = syn.id}
               /\ Len(syn.rows) = Cardinality(RowsOf(syn))
               /\ collapsed[syn.id] = Len(SelectSeq(power, LAMBDA line : line.id = syn.id))
        /\ \A e \in Skies : Readable(e) => \E i \in DOMAIN sky_q : e \in RowsOf(sky_q[i])
        /\ (\A e \in Loads \ blacklist : stored[e] = "file") =>
            /\ \A i \in DOMAIN cal_q :
                /\ RowsOf(cal_q[i]) = {e \in Loads \ blacklist : IdOf(e) = cal_q[i].id}
                /\ Len(cal_q[i].rows) = Cardinality(RowsOf(cal_q[i]))
            /\ \A i, j \in DOMAIN sky_q : sky_q[i].band = sky_q[j].band =>
                \A k \in DOMAIN sky_q[i].rows, l \in DOMAIN sky_q[j].rows :
                    /\ sky_q[i].rows[k].load = sky_q[j].rows[l].load
                    /\ sky_q[i].rows[k].load = calibrated[sky_q[i].rows[k].of]

\* In a stitched file the place of a row is its time: where no seconds overlap,
\* the row at a place was read that many rows after the first row, but for half
\* a row at most for every gap before it.
RowsAreInTime ==
    \A id \in DOMAIN stitched :
        LET rows == stitched[id].rows
            real == {i \in DOMAIN rows : rows[i] # 0}
            off(i) == (rows[i] - rows[1]) - 2 * (i - 1)
        IN (\A i, j \in real : i < j => rows[j] >= rows[i] + 2) =>
            \A i \in real : off(i) \in -((i - 1) \div RowsPerSecond)..((i - 1) \div RowsPerSecond)

ProductsAreTrue == IntegratedOnce /\ RowsAreInTime
=============================================================================
