------------------------------ MODULE MCObsFaults -----------------------------
(***************************************************************************)
(* The instance TLC checks of an observation to which things happen: its   *)
(* workflow with faults, the pointing of its dish with requests that are   *)
(* sent again, and the schedule that starts it.  They share no state: the  *)
(* workflow abstracts the dish to an estimate of its slew, the pointing    *)
(* abstracts the other devices, the schedule ends where the workflow       *)
(* begins.  A behaviour exercises one of them.                             *)
(***************************************************************************)
EXTENDS ObsWorkflow, TargetAcquisition, MCObsSchedule

VARIABLE follows  \* what is exercised

\* Targets that drift, are tracked or scanned, apart and at one place, and a load.
Aimed(p, f, l) == [pointing |-> p, feed |-> f, place |-> l]

ExampleAims ==
    {<<Aimed("drift", "sky", 2), Aimed("track", "sky", 3)>>,
     <<Aimed("scan", "load", 3), Aimed("track", "sky", 3)>>,
     <<Aimed("track", "sky", 1), Aimed("drift", "sky", 1)>>}

FaultsInit ==
    /\ follows \in {"workflow", "pointing", "schedule"}
    /\ Init /\ AcquisitionInit /\ ScheduleInit
    /\ follows = "pointing" \/ aims = CHOOSE list \in AimLists : TRUE

FaultsNext ==
    /\ UNCHANGED follows
    /\ IF follows = "workflow" THEN Next ELSE UNCHANGED vars
    /\ IF follows = "pointing" THEN AcquisitionNext ELSE UNCHANGED acquisitionVars
    /\ IF follows = "schedule" THEN ScheduleNext ELSE UNCHANGED scheduleVars

FaultsSpec == FaultsInit /\ [][FaultsNext]_<<follows, vars, acquisitionVars, scheduleVars>>
=============================================================================
