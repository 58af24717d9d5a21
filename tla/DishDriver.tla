------------------------------ MODULE DishDriver ------------------------------
(***************************************************************************)
(* The driver of one dish, src/src/dsh/drivers/driver.py, over the MD01    *)
(* controller of src/src/dsh/drivers/md01/md01_driver.py, with the mount   *)
(* it commands.  Every operation is a function from a dish to the set of   *)
(* its outcomes: what the dish and the mount have become, and the error    *)
(* the call ends with.  An exchange with the controller can fail after the *)
(* mount has obeyed (the response is lost) as well as before.              *)
(*                                                                         *)
(* Abstracted: angles are the points of a grid of altitudes and azimuths   *)
(* with 0 for the stow position; pointing and PEC histories, slew          *)
(* estimates, health (it is a test of the failure count) and messages.     *)
(***************************************************************************)
EXTENDS Integers, Sequences

CONSTANTS MaxAlt, MaxAz, \* the grid of positions
          FailedAt,      \* failures in a row at which the health is FAILED
          Errors         \* what a failed exchange may raise

ASSUME GridAssumption == MaxAlt \in Nat \ {0} /\ MaxAz \in Nat \ {0}
ASSUME FailedAssumption == FailedAt \in Nat \ {0}
ASSUME ErrorsAssumption == Errors \subseteq {"XBase", "OSError"}

Modes == {"STARTUP", "SHUTDOWN", "STANDBY_LP", "STANDBY_FP", "MAINTENANCE",
          "STOW", "CONFIG", "OPERATE", "UNKNOWN"}
PointingStates == {"READY", "SLEW", "TRACK", "SCAN", "UNKNOWN"}
Capabilities == {"UNAVAILABLE", "STANDBY", "CONFIGURING", "OPERATE_DEGRADED",
                 "OPERATE_FULL", "UNKNOWN"}
Operational == {"OPERATE_DEGRADED", "OPERATE_FULL"}

\* Targets by their pointing type: the first two are followed across the sky.
Targets == {"track", "scan", "drift"}

Positions == (0..MaxAlt) \X (0..MaxAz)
Nowhere == <<>>
StowAltAz == <<0, 0>>

(* The transitions the model of a dish accepts *)

ModeTransitions ==
  [STARTUP     |-> {"UNKNOWN", "STARTUP", "STANDBY_FP", "SHUTDOWN"},
   SHUTDOWN    |-> {"UNKNOWN", "SHUTDOWN", "STARTUP"},
   STANDBY_LP  |-> {"UNKNOWN", "STANDBY_LP", "STANDBY_FP", "STOW", "SHUTDOWN"},
   STANDBY_FP  |-> {"UNKNOWN", "STANDBY_FP", "STANDBY_LP", "CONFIG", "STOW", "SHUTDOWN"},
   CONFIG      |-> {"UNKNOWN", "CONFIG", "OPERATE", "STOW", "SHUTDOWN"},
   STOW        |-> {"UNKNOWN", "STOW", "STANDBY_LP", "STANDBY_FP", "MAINTENANCE", "SHUTDOWN"},
   MAINTENANCE |-> {"UNKNOWN", "MAINTENANCE", "STOW", "SHUTDOWN"},
   OPERATE     |-> Modes \ {"STARTUP", "MAINTENANCE"},
   UNKNOWN     |-> Modes \ {"STANDBY_LP", "CONFIG", "OPERATE"}]

CapabilityTransitions ==
  [UNKNOWN          |-> Capabilities,
   UNAVAILABLE      |-> {"UNKNOWN", "UNAVAILABLE", "STANDBY"},
   STANDBY          |-> {"UNKNOWN", "STANDBY", "CONFIGURING", "UNAVAILABLE"},
   CONFIGURING      |-> Capabilities \ {"UNAVAILABLE"},
   OPERATE_DEGRADED |-> Capabilities \ {"UNAVAILABLE"},
   OPERATE_FULL     |-> Capabilities \ {"UNAVAILABLE"}]

Dishes ==
  [mode: Modes, pointing: PointingStates, capability: Capabilities,
   target: Targets \cup {"none"},
   desired: Positions \cup {Nowhere},  \* desired_altaz
   seen: Positions \cup {Nowhere},     \* pointing_altaz, as of the last poll
   alarm: BOOLEAN,                     \* weather_alarm
   cache: Positions \cup {Nowhere},    \* _last_set_command_data
   failures: 0..FailedAt,              \* driver_failures
   goal: Positions \cup {Nowhere},     \* where the mount is going or holds
   at: Positions,                      \* where the mount is
   faults: Nat]                        \* bound: exchanges that may still fail

\* A dish as the configuration file describes it, over a given mount.
Configured(d) ==
  [d EXCEPT !.mode = "STARTUP", !.pointing = "READY", !.capability = "OPERATE_FULL",
            !.target = "none", !.desired = Nowhere, !.seen = Nowhere,
            !.alarm = FALSE, !.cache = Nowhere, !.failures = 0]

-----------------------------------------------------------------------------
(* Outcomes: what follows a call is skipped when it raises, and an except  *)
(* clause changes the dish before the error is raised again.               *)

Done(d) == {[dish |-> d, err |-> "none"]}
Raise(d, e) == {[dish |-> d, err |-> e]}
Then(outcomes, F(_)) ==
  UNION {IF o.err = "none" THEN F(o.dish) ELSE {o} : o \in outcomes}
Except(outcomes, F(_)) ==
  {IF o.err = "none" THEN o ELSE [o EXCEPT !.dish = F(@)] : o \in outcomes}

\* BaseModel refuses a transition that is not in the table.
AssignMode(d, m) ==
  IF m \in ModeTransitions[d.mode] THEN Done([d EXCEPT !.mode = m]) ELSE Raise(d, "XBase")
AssignCapability(d, c) ==
  IF c \in CapabilityTransitions[d.capability]
  THEN Done([d EXCEPT !.capability = c]) ELSE Raise(d, "XBase")

\* increment_failures; above FailedAt nothing distinguishes the counts.
CountFailure(d) ==
  [d EXCEPT !.failures = IF @ < FailedAt THEN @ + 1 ELSE @]

\* The except clause most operations share.
LoseTrack(d) == [CountFailure(d) EXCEPT !.mode = "UNKNOWN", !.pointing = "UNKNOWN"]

-----------------------------------------------------------------------------
(* The MD01 controller *)

\* Two attempts at an exchange, of which the mount may obey one although both
\* responses are lost.
Exchange(d, obeyed) ==
  Done(obeyed) \cup
  UNION {Raise([e EXCEPT !.faults = @ - 1], x) :
           e \in IF d.faults > 0 THEN {d, obeyed} ELSE {}, x \in Errors}

\* A SET of the position that was acknowledged last is not sent again.
SetAltAz(d, p) ==
  IF d.cache = p
  THEN Done(d)
  ELSE Then(Exchange(d, [d EXCEPT !.goal = p]),
            LAMBDA e : Done([e EXCEPT !.cache = p]))

\* Mutant: the position acknowledged last outlives a stop.
StopMountOnly(d) == Exchange(d, [d EXCEPT !.goal = Nowhere])

StopMount(d) ==
  Exchange([d EXCEPT !.cache = Nowhere], [d EXCEPT !.cache = Nowhere, !.goal = Nowhere])

\* _slew and _track ask where the mount is before they choose between a
\* position and its flipped equivalent.
PointMount(d, p) ==
  Then(Exchange(d, d), LAMBDA e : SetAltAz(e, p))

-----------------------------------------------------------------------------
(* Movement *)

ClearTarget(d) == [d EXCEPT !.target = "none"]

Stop(d) ==
  Then(Except(StopMount(d), LoseTrack), LAMBDA e : Done([e EXCEPT !.pointing = "READY"]))

\* A poll: the position that is read, and what it says of a slew.
GetCurrentAltAz(d) ==
  Then(Except(Exchange(d, d), CountFailure),
       LAMBDA e :
         LET ok == [e EXCEPT !.failures = 0, !.seen = e.at] IN
         IF e.seen # e.at \/ e.pointing \notin {"SLEW", "TRACK", "SCAN"} THEN Done(ok)
         ELSE IF e.desired = Nowhere THEN Raise(ok, "XBase")
         ELSE IF e.pointing # "SLEW" THEN Done(ok)
         ELSE Done([ok EXCEPT !.pointing = IF e.at = e.desired THEN "READY" ELSE "UNKNOWN"]))

Slew(d, p) ==
  IF d.capability \notin Operational \/ d.mode # "OPERATE" \/ d.pointing # "READY"
  THEN Raise(d, "XBase")
  ELSE IF d.seen = p
  THEN Done([d EXCEPT !.desired = p])
  ELSE Then(Except(PointMount([d EXCEPT !.desired = p], p), LoseTrack),
            LAMBDA e : Done([e EXCEPT !.pointing = "SLEW"]))

\* track and scan, which differ in the kind of target only.
Follow(d, p) ==
  LET moving == IF d.target = "track" THEN "TRACK" ELSE "SCAN" IN
  IF d.capability \notin Operational \/ d.mode # "OPERATE"
     \/ d.pointing \notin {"READY", moving}
  THEN Raise(d, "XBase")
  ELSE Then(Except(PointMount(d, p), LoseTrack),
            LAMBDA e : Done([e EXCEPT !.desired = p, !.pointing = moving]))

-----------------------------------------------------------------------------
(* Modes *)

SetStartup(d) ==
  Then(AssignMode(d, "STARTUP"), LAMBDA e :
  Then(Except(Stop([e EXCEPT !.pointing = "UNKNOWN"]),
              LAMBDA f : [CountFailure(f) EXCEPT !.mode = "UNKNOWN"]), LAMBDA f :
  AssignMode(f, "STANDBY_FP")))

SetStandby(d) ==
  Then(Except(Stop(d), LAMBDA e : [CountFailure(e) EXCEPT !.mode = "UNKNOWN",
                                                          !.pointing = "READY"]),
       LAMBDA e : AssignMode(e, "STANDBY_FP"))

\* Mutant: stowing is not refused to a dish that is not operational.
SetStowAlways(d) ==
  Then(Stop(ClearTarget(d)), LAMBDA e :
  Then(Except(SetAltAz([e EXCEPT !.desired = StowAltAz], StowAltAz), LoseTrack), LAMBDA g :
  Then(AssignMode(g, "STOW"), LAMBDA h : Done([h EXCEPT !.pointing = "SLEW"]))))

\* With a weather alarm the dish is lowered at the azimuth it was last seen at.
SetStow(d) ==
  IF d.capability \notin Operational
  THEN Raise(d, "XBase")
  ELSE Then(Stop(ClearTarget(d)), LAMBDA e :
       LET p == IF e.alarm /\ e.seen # Nowhere THEN <<StowAltAz[1], e.seen[2]>> ELSE StowAltAz
           f == [e EXCEPT !.desired = p] IN
       IF e.seen = p
       THEN AssignMode(f, "STOW")
       ELSE Then(Except(SetAltAz(f, p), LoseTrack), LAMBDA g :
            Then(AssignMode(g, "STOW"), LAMBDA h : Done([h EXCEPT !.pointing = "SLEW"]))))

SetShutdown(d) ==
  Then(IF d.mode \in {"STANDBY_FP", "CONFIG", "OPERATE"} THEN SetStow(d) ELSE Done(d), LAMBDA e :
  Then(AssignMode(e, "SHUTDOWN"), LAMBDA f : Done([f EXCEPT !.pointing = "UNKNOWN"])))

SetMaintenance(d) ==
  Then(SetStow(d), LAMBDA e :
  Then(AssignMode(e, "MAINTENANCE"), LAMBDA f : Done([f EXCEPT !.pointing = "UNKNOWN"])))

SetConfig(d) ==
  IF d.capability \notin Operational \cup {"CONFIGURING"}
  THEN Raise(d, "XBase")
  ELSE Then(AssignMode(d, "CONFIG"), LAMBDA e : Done([e EXCEPT !.pointing = "UNKNOWN"]))

\* sky is the position of every target at the moment of the call.
SetOperate(d, sky) ==
  IF d.capability \notin Operational
  THEN Raise(d, "XBase")
  ELSE Then(AssignMode(d, "OPERATE"), LAMBDA e :
       LET f == [e EXCEPT !.pointing = "READY"] IN
       IF f.target = "none" THEN Done(f) ELSE Slew(f, sky[f.target]))

\* STANDBY_LP and UNKNOWN are accepted, and nothing is done.
SetDishMode(d, m, sky) ==
  IF d.capability \in {"UNAVAILABLE", "UNKNOWN"} THEN Raise(d, "XBase")
  ELSE CASE m = "STARTUP" -> SetStartup(d)
         [] m = "STANDBY_FP" -> SetStandby(d)
         [] m = "SHUTDOWN" -> SetShutdown(d)
         [] m = "STOW" -> SetStow(d)
         [] m = "MAINTENANCE" -> SetMaintenance(d)
         [] m = "CONFIG" -> SetConfig(d)
         [] m = "OPERATE" -> SetOperate(d, sky)
         [] OTHER -> Done(d)

-----------------------------------------------------------------------------
(* Capability, target and the emergency stop *)

\* The dish is stopped before the capability is taken away.
SetCapability(d, c) ==
  Then(IF d.capability \in Operational /\ c \notin Operational THEN Stop(d) ELSE Done(d),
       LAMBDA e : AssignCapability(e, c))

SetTarget(d, t) ==
  IF d.mode # "CONFIG"
  THEN Raise(d, "XBase")
  ELSE LET e == [d EXCEPT !.target = t] IN
       IF e.pointing = "READY" THEN Done(e) ELSE Stop(e)

\* What follows the change of capability is done whether or not it succeeds.
EmergencyStop(d) ==
  {[o EXCEPT !.dish = [ClearTarget(@) EXCEPT !.desired = Nowhere, !.mode = "UNKNOWN"]] :
     o \in SetCapability(d, "STANDBY")}
===============================================================================
