----------------------------- MODULE ObsLifecycle -----------------------------
(***************************************************************************)
(* What the life cycle of one observation promises to whoever reads        *)
(* obs_state: the table allowed_transitions of src/src/models/obs.py with  *)
(* what the states stand for.  An observation enters SCANNING only from    *)
(* READY or, when a configuration event comes late, from CONFIGURING; it   *)
(* leaves an engaged state towards IDLE only with all its scans complete;  *)
(* a scan once complete stays so until the observation starts over.        *)
(***************************************************************************)
CONSTANT Scans   \* the scans of the observation

VARIABLES obs_state, complete

vars == <<obs_state, complete>>

Engaged == {"CONFIGURING", "READY", "SCANNING"}

Init == obs_state = "EMPTY" /\ complete = {}

\* determine_scans: a new set of scans, none of them complete.
StartOver == /\ obs_state \in {"EMPTY", "IDLE", "ABORTED"}
             /\ obs_state' = "IDLE"
             /\ complete' = {}

Configure == /\ obs_state \in {"IDLE", "CONFIGURING", "READY"}
             /\ obs_state' = "CONFIGURING"
             /\ UNCHANGED complete

MakeReady == /\ obs_state \in Engaged
             /\ obs_state' = "READY"
             /\ UNCHANGED complete

Scan == /\ obs_state \in {"CONFIGURING", "READY"}
        /\ obs_state' = "SCANNING"
        /\ UNCHANGED complete

\* The Science Data Processor reports a scan, early or late.
CompleteScan == /\ \E s \in Scans : complete' = complete \cup {s}
                /\ UNCHANGED obs_state

Release == /\ obs_state = "ABORTED" \/ (obs_state = "READY" /\ complete = Scans)
           /\ obs_state' = "IDLE"
           /\ UNCHANGED complete

Abort == obs_state' = "ABORTED" /\ UNCHANGED complete

Next == StartOver \/ Configure \/ MakeReady \/ Scan \/ CompleteScan \/ Release \/ Abort

Spec == Init /\ [][Next]_vars

=============================================================================
