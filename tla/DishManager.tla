----------------------------- MODULE DishManager ------------------------------
(***************************************************************************)
(* The Dish Manager, src/src/dsh/dm.py, for one dish: the polling timer,   *)
(* the weather alarm, the Telescope Manager's commands and connection, the *)
(* operator's stop.  Its processors run handlers side by side; what a      *)
(* handler does to the dish it does under the lock of the dish, in one     *)
(* step here, but the tests that decide whether to do it come before the   *)
(* lock is taken.  The mount moves, and the sky turns, at any time.        *)
(***************************************************************************)
EXTENDS DishDriver, FiniteSets

CONSTANTS NumProcs,     \* processors
          ModeCommands, CapabilityCommands, TargetCommands, \* what is asked for
          MaxCommands,  \* bound: commands and lost connections
          MaxFaults,    \* bound: exchanges with the controller that fail
          MaxChanges    \* bound: changes of the weather, and turns of the sky

ASSUME CommandsAssumption ==
  /\ ModeCommands \subseteq Modes
  /\ CapabilityCommands \subseteq Capabilities
  /\ TargetCommands \subseteq Targets \cup {"none"}
ASSUME NumProcsAssumption == NumProcs \in Nat \ {0}
ASSUME ManagerBoundsAssumption == {MaxCommands, MaxFaults, MaxChanges} \subseteq Nat

VARIABLES dish,      \* the dish, its driver, its controller and the mount
          sky,       \* where each target is
          pending,   \* what the busy processors are about to do to the dish
          timer,     \* the polling timer: "armed", "fired", or "lost"
          connected, \* tm_connected
          weather,   \* what weather_store.alarm() answers
          commands, changes \* counters for the bounds

vars == <<dish, sky, pending, timer, connected, weather, commands, changes>>

\* Modes the alarm does not stow from, and those a lost connection stows from.
Sheltered == {"STOW", "MAINTENANCE", "SHUTDOWN", "STARTUP"}
Stowable == {"STANDBY_LP", "STANDBY_FP", "CONFIG", "OPERATE", "UNKNOWN"}

\* Processors are alike; no two are on the same errand.
Intents == {"standby", "stow", "shelter", "release", "poll"}

TypeOK ==
  /\ dish \in Dishes
  /\ sky \in [Targets -> Positions]
  /\ pending \subseteq Intents /\ Cardinality(pending) <= NumProcs
  /\ timer \in {"armed", "fired", "lost"}
  /\ {connected, weather} \subseteq BOOLEAN
  /\ commands \in 0..MaxCommands /\ changes \in 0..MaxChanges

\* The mount is stowed, or was left elsewhere; process_init has loaded the configuration.
Init ==
  /\ \E p \in {StowAltAz, <<MaxAlt, 0>>} :
       dish = Configured([mode |-> "STARTUP", pointing |-> "READY",
                          capability |-> "OPERATE_FULL", target |-> "none",
                          desired |-> Nowhere, seen |-> Nowhere, alarm |-> FALSE,
                          cache |-> Nowhere, failures |-> 0, goal |-> Nowhere,
                          at |-> p, faults |-> MaxFaults])
  /\ sky = [t \in Targets |-> <<MaxAlt, MaxAz>>]
  /\ pending = {}
  /\ timer = "armed"
  /\ connected = FALSE /\ weather = FALSE
  /\ commands = 0 /\ changes = 0

IsOperational == dish.capability \in Operational

\* One of the outcomes of a driver call becomes the dish.
Perform(outcomes, Ends(_)) == \E o \in outcomes : dish' = o.dish /\ Ends(o.err)
Anyhow(err) == TRUE

Free == Cardinality(pending) < NumProcs

\* A free processor begins, if there is anything to do.
Begin(errands) == Free /\ errands \cap pending = {} /\ pending' = pending \cup errands
Finish(errand) == errand \in pending /\ pending' = pending \ {errand}

Commanded == commands < MaxCommands /\ commands' = commands + 1

-----------------------------------------------------------------------------
(* Commands: each is handled by an idle processor, under the lock *)

Command ==
  /\ Free /\ Commanded
  /\ UNCHANGED <<sky, pending, timer, connected, weather, changes>>

TmSetMode ==
  /\ Command /\ connected
  /\ \E m \in ModeCommands : Perform(SetDishMode(dish, m, sky), Anyhow)

TmSetCapability ==
  /\ Command /\ connected
  /\ \E c \in CapabilityCommands : Perform(SetCapability(dish, c), Anyhow)

\* The target that is already pursued is not set again; a refused one is dropped.
NewTarget(d, t) ==
  IF t = "none"
  THEN SetDishMode(ClearTarget(d), "STANDBY_FP", sky)
  ELSE IF d.target = t /\ d.mode = "OPERATE"
  THEN Done(d)
  ELSE Then(SetTarget(d, t), LAMBDA e : SetDishMode(e, "OPERATE", sky))

TmSetTarget ==
  /\ Command /\ connected
  /\ \E t \in TargetCommands :
       Perform({IF o.err = "XBase" THEN [o EXCEPT !.dish = ClearTarget(@)] ELSE o :
                  o \in NewTarget(dish, t)}, Anyhow)

StopCommand ==
  /\ Command
  /\ Perform(EmergencyStop(dish), Anyhow)

\* All processors wait while the configuration is read again.
Resync ==
  /\ pending = {}
  /\ IsOperational => dish.mode \in {"STOW", "MAINTENANCE", "SHUTDOWN"}
  /\ Commanded
  /\ LET fresh == Configured(dish) IN
     Perform(IF connected THEN SetStandby(fresh) ELSE Done(fresh),
             LAMBDA err : timer' = IF err = "OSError" THEN timer ELSE "armed")
  /\ UNCHANGED <<sky, pending, connected, weather, changes>>

-----------------------------------------------------------------------------
(* The connection to the Telescope Manager *)

TmConnected ==
  /\ ~connected /\ connected' = TRUE
  /\ Begin(IF IsOperational /\ dish.mode \in {"STARTUP", "STOW"} THEN {"standby"} ELSE {})
  /\ UNCHANGED <<dish, sky, timer, weather, commands, changes>>

TmDisconnected ==
  /\ connected /\ connected' = FALSE /\ Commanded
  /\ Begin(IF IsOperational /\ dish.mode \in Stowable THEN {"stow"} ELSE {})
  /\ UNCHANGED <<dish, sky, timer, weather, changes>>

EnterStandby ==
  /\ Finish("standby")
  /\ Perform(SetDishMode(dish, "STANDBY_FP", sky), Anyhow)
  /\ UNCHANGED <<sky, timer, connected, weather, commands, changes>>

EnterStow ==
  /\ Finish("stow")
  /\ Perform(SetDishMode(dish, "STOW", sky), Anyhow)
  /\ UNCHANGED <<sky, timer, connected, weather, commands, changes>>

-----------------------------------------------------------------------------
(* The polling timer *)

\* Mutant: the alarm is taken to be handled once the dish has been told of it.
ShelterOnce == weather /\ IsOperational /\ ~dish.alarm /\ dish.mode \notin Sheltered

MustShelter == weather /\ IsOperational /\ dish.mode \notin Sheltered

BeginPoll ==
  /\ timer = "armed" /\ timer' = "fired"
  /\ Begin({IF MustShelter THEN "shelter"
            ELSE IF ~weather /\ dish.alarm THEN "release" ELSE "poll"})
  /\ UNCHANGED <<dish, sky, connected, weather, commands, changes>>

\* An error the handler does not expect ends the poll, and with it the timer.
Continue(errand, err) ==
  /\ errand \in pending
  /\ IF err = "OSError"
     THEN pending' = pending \ {errand} /\ timer' = "lost"
     ELSE pending' = (pending \ {errand}) \cup {"poll"} /\ UNCHANGED timer

Shelter ==
  /\ Perform(SetDishMode([dish EXCEPT !.alarm = TRUE], "STOW", sky),
             LAMBDA err : Continue("shelter", err))
  /\ UNCHANGED <<sky, connected, weather, commands, changes>>

Cleared(d) == SetDishMode([d EXCEPT !.alarm = FALSE], "STANDBY_FP", sky)

Release ==
  /\ Perform(Cleared(dish), LAMBDA err : Continue("release", err))
  /\ UNCHANGED <<sky, connected, weather, commands, changes>>

\* What a poll does once the position has been read, or could not be.
Pursue(d) ==
  IF d.failures >= FailedAt THEN Done(d)
  ELSE IF \/ d.target = "track" /\ d.pointing \in {"READY", "TRACK"}
          \/ d.target = "scan" /\ d.pointing \in {"READY", "SCAN"}
  THEN Follow(d, sky[d.target])
  ELSE Done(d)

Rearm(d, err) == err # "OSError"

Poll ==
  /\ Finish("poll")
  /\ \E read \in GetCurrentAltAz(dish) :
     \E o \in IF read.err = "OSError" THEN {read} ELSE Pursue(read.dish) :
       /\ dish' = o.dish
       /\ timer' = IF Rearm(o.dish, o.err) THEN "armed" ELSE "lost"
  /\ UNCHANGED <<sky, connected, weather, commands, changes>>

-----------------------------------------------------------------------------
(* The world *)

\* Either axis, or both, arrive.
MountMoves ==
  /\ dish.goal # Nowhere
  /\ \E p \in {dish.at[1], dish.goal[1]} \X {dish.at[2], dish.goal[2]} :
       p # dish.at /\ dish' = [dish EXCEPT !.at = p]
  /\ UNCHANGED <<sky, pending, timer, connected, weather, commands, changes>>

WeatherChanges ==
  /\ changes < MaxChanges /\ changes' = changes + 1
  /\ weather' = ~weather
  /\ UNCHANGED <<dish, sky, pending, timer, connected, commands>>

\* Where a target is matters once the dish has it.
SkyTurns ==
  /\ dish.target # "none"
  /\ changes < MaxChanges /\ changes' = changes + 1
  /\ \E az \in 0..MaxAz :
       sky' = [sky EXCEPT !["track"] = <<MaxAlt, az>>, !["scan"] = <<MaxAlt, az>>]
  /\ sky' # sky
  /\ UNCHANGED <<dish, pending, timer, connected, weather, commands>>

Polling == BeginPoll \/ Shelter \/ Release \/ Poll

Next ==
  \/ TmSetMode \/ TmSetCapability \/ TmSetTarget \/ StopCommand \/ Resync
  \/ TmConnected \/ TmDisconnected \/ EnterStandby \/ EnterStow
  \/ Polling
  \/ MountMoves \/ WeatherChanges \/ SkyTurns

\* Processors finish the handlers they run and take the events of the timer,
\* of which one is under way at a time.
Fairness == WF_vars(EnterStandby) /\ WF_vars(EnterStow) /\ WF_vars(Polling)

Spec == Init /\ [][Next]_vars /\ Fairness

-----------------------------------------------------------------------------
(* Properties *)

\* A SET may be left out: the mount really holds, or goes to, the position
\* acknowledged last whenever the driver compares with it.
SuppressionIsSound ==
  dish.mode \notin {"UNKNOWN", "SHUTDOWN"} /\ dish.cache # Nowhere => dish.goal = dish.cache

\* A dish that says it is slewing, tracking or scanning has a mount that was
\* told the very position the dish is expected at.
PointingIsHonest ==
  dish.pointing \in {"SLEW", "TRACK", "SCAN"} => dish.goal = dish.desired

\* What the driver believes of the mount is so, lost responses, retries, stops and
\* exchanges of which some fail notwithstanding: a SET is left out only if the mount
\* holds or goes to that position, and a dish that says it moves has a mount told to.
MountAgrees == SuppressionIsSound /\ PointingIsHonest

\* A dish whose capability is not an operational one is never set in motion,
\* by whatever handler was under way when it was taken away.
InhibitedStays ==
  [][dish'.goal \notin {dish.goal, Nowhere} => dish.capability \in Operational]_vars

\* Under an alarm that does not end, an operational dish ends in a mode that
\* shelters it, although exchanges fail, the Telescope Manager commands other
\* modes, and connections come and go.
AlarmShelters == <>[]weather => <>[](~IsOperational \/ dish.mode \in Sheltered)

===============================================================================
