------------------------------ MODULE MCSdpScans ------------------------------
(***************************************************************************)
(* The instance TLC checks of what is recorded: the scans of the Science   *)
(* Data Processor, and the logs that are read back.  They share no state.  *)
(* A behaviour exercises one of them.                                      *)
(***************************************************************************)
EXTENDS SdpScans, DailyLogs

VARIABLE recorded  \* what is exercised

\* The load and the sky of one observation of the ODT, and a scan of a user at
\* another frequency that the names of files do not tell from the first.
MCSettings == {
    [tgt |-> "t1", obs |-> "odt", odt |-> TRUE, freq |-> 1, gain |-> 1, load |-> TRUE],
    [tgt |-> "t1", obs |-> "odt", odt |-> TRUE, freq |-> 1, gain |-> 1, load |-> FALSE],
    [tgt |-> "u1", obs |-> "usr", odt |-> FALSE, freq |-> 2, gain |-> 1, load |-> FALSE]}

RecordedInit ==
    /\ recorded \in {"scans", "logs"}
    /\ Init /\ LogsInit
    /\ recorded = "logs" \/ subject = "health"

RecordedNext ==
    /\ UNCHANGED recorded
    /\ IF recorded = "scans" THEN Next ELSE UNCHANGED vars
    /\ IF recorded = "logs" THEN LogsNext ELSE UNCHANGED logVars

RecordedSpec == RecordedInit /\ [][RecordedNext]_<<recorded, vars, logVars>>
=============================================================================
