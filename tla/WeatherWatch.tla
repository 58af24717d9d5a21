----------------------------- MODULE WeatherWatch -----------------------------
(***************************************************************************)
(* The Weather Station's polling (ws/ws.py) and the Dish Manager's watch   *)
(* over what it reports (models/ws.py, dsh/dm.py).                         *)
(*                                                                         *)
(* The station polls its driver on a grid of deadlines, skips those that   *)
(* pass during a read, and sends what it read when it is connected.  The   *)
(* Dish Manager keeps recent samples and raises the alarm for strong wind  *)
(* and for silence.  The driver fails, the link and either program come    *)
(* and go, and time passes.  There is one station.                         *)
(***************************************************************************)
EXTENDS Integers, FiniteSets

CONSTANTS Period,       \* of polling
          Timeout,      \* threshold_timeout
          Retention,    \* retention_period
          GustCount,    \* threshold_wind_count
          MaxTime,      \* bound on time
          MaxChanges    \* bound on changes of the wind and on troubles

ASSUME WeatherAssumption ==
    /\ {Period, Timeout, GustCount, MaxTime, MaxChanges} \subseteq Nat \ {0} /\ Retention \in Nat
    /\ Timeout <= Retention

VARIABLES
    now,
    wind,      \* "calm" or "storm", in the world
    stormFrom, \* when the storm began
    deadline,  \* _poll_deadline; Never: None
    timer,     \* when the poll timer is due, or Never
    due,       \* a poll event is queued
    polling,   \* the poll handler runs
    driver,    \* weather_driver is not None
    linked,    \* dm_connected
    underway,  \* samples on their way
    store,     \* weather_data of the Dish Manager
    created,   \* created_dt
    changes    \* changes and troubles so far (bounds them)

stationVars == <<deadline, timer, due, polling, driver>>
watchVars == <<underway, store, created>>
weatherVars == <<now, wind, stormFrom, stationVars, linked, watchVars, changes>>

Never == -1

\* _next_poll_timer: the next deadline of the grid that is in the future.
NextDeadline(reset) ==
    LET next == IF reset \/ deadline = Never THEN now + Period ELSE deadline + Period
    IN  IF next > now THEN next ELSE next + Period * ((now - next) \div Period + 1)

Change == changes < MaxChanges /\ changes' = changes + 1

PollTimer(reset) == deadline' = NextDeadline(reset) /\ timer' = NextDeadline(reset)

-----------------------------------------------------------------------------
Tick ==
    /\ now < MaxTime /\ timer # now
    /\ now' = now + 1
    /\ UNCHANGED <<wind, stormFrom, stationVars, linked, watchVars, changes>>

WindChanges ==
    /\ Change
    /\ wind' = IF wind = "calm" THEN "storm" ELSE "calm"
    /\ stormFrom' = IF wind = "calm" THEN now ELSE 0
    /\ UNCHANGED <<now, stationVars, linked, watchVars>>

(* The station *)

TimerFires ==
    /\ timer = now
    /\ timer' = Never /\ due' = TRUE
    /\ UNCHANGED <<now, wind, stormFrom, deadline, polling, driver, linked, watchVars, changes>>

BeginPoll ==
    /\ due /\ ~polling
    /\ due' = FALSE /\ polling' = TRUE
    /\ deadline' = IF deadline = Never THEN now ELSE deadline
    /\ UNCHANGED <<now, wind, stormFrom, timer, driver, linked, watchVars, changes>>

\* The driver has read the wind, or other things but not the wind, or nothing.
Readings ==
    {{}} \cup IF driver THEN {{[time |-> now, wind |-> w]} : w \in {wind, "unknown"}} ELSE {}

EndPoll ==
    /\ polling /\ polling' = FALSE
    /\ \E read \in Readings : underway' = IF linked THEN underway \cup read ELSE underway
    /\ PollTimer(FALSE)
    /\ UNCHANGED <<now, wind, stormFrom, due, driver, linked, store, created, changes>>

\* process_resync runs alone; it ends early if there is no driver to be had.
ResyncStation ==
    /\ Change
    /\ ~polling
    /\ \/ driver' = TRUE /\ PollTimer(TRUE)
       \/ driver' = FALSE /\ UNCHANGED <<deadline, timer>>
    /\ UNCHANGED <<now, wind, stormFrom, due, polling, linked, watchVars>>

\* The program ends, and is started again and initialised.
RestartStation ==
    /\ Change
    /\ \/ driver' = TRUE /\ deadline' = now + Period /\ timer' = now + Period
       \/ driver' = FALSE /\ deadline' = Never /\ timer' = Never
    /\ due' = FALSE /\ polling' = FALSE /\ linked' = FALSE
    /\ UNCHANGED <<now, wind, stormFrom, watchVars>>

LinkChanges ==
    /\ Change
    /\ linked' = ~linked
    /\ \E left \in SUBSET underway : underway' = left
    /\ UNCHANGED <<now, wind, stormFrom, stationVars, store, created>>

(* The Dish Manager *)

\* process_ws_msg and WeatherStationList.append.
StoreSample(sample) ==
    /\ underway' = {s \in underway : s.time > sample.time}
    /\ store' = {s \in store \cup {sample} : s.time >= now - Retention}
    /\ UNCHANGED <<now, wind, stormFrom, stationVars, linked, created, changes>>

Deliver == \E sample \in {s \in underway : \A r \in underway : s.time <= r.time} : StoreSample(sample)

\* It starts again, or loads its configuration again: a new list.
ResyncManager ==
    /\ Change
    /\ store' = {} /\ created' = now
    /\ UNCHANGED <<now, wind, stormFrom, stationVars, linked, underway>>

\* Mutant: samples count as long as they are kept.
RecentKept == store

\* get_alarm_metrics over all stations.
Recent == {s \in store : s.time >= now - Timeout}

Winds == {s \in Recent : s.wind # "unknown"}
Storms == {s \in Recent : s.wind = "storm"}

\* A storm is over the thresholds of gusts and of the average; with any two
\* parts of calm to one of storm the average is not.
Alarm ==
    \/ Recent = {} /\ now - created >= Timeout
    \/ 3 * Cardinality(Storms) > 2 * Cardinality(Winds)
    \/ Cardinality(Storms) > GustCount

WeatherInit ==
    /\ now = 0 /\ wind = "calm" /\ stormFrom = 0
    /\ deadline = Period /\ timer = Period /\ due = FALSE /\ polling = FALSE /\ driver = TRUE
    /\ linked = FALSE /\ underway = {} /\ store = {} /\ created = 0
    /\ changes = 0

WeatherNext ==
    \/ Tick \/ WindChanges \/ LinkChanges
    \/ TimerFires \/ BeginPoll \/ EndPoll \/ ResyncStation \/ RestartStation
    \/ Deliver \/ ResyncManager

-----------------------------------------------------------------------------
(* Property *)

\* Danger is seen.  When a storm has lasted for longer than the timeout, the
\* alarm is raised, whatever has become of the driver, the station and the
\* link: strong wind raises it if samples come, and their absence if none do.
\* Two cases are left out, in which the code keeps silent: the Dish Manager
\* has started or loaded its configuration within the timeout, or samples do
\* come but the wind is missing in all of them.
DangerIsSeen ==
    (wind = "storm" /\ now - stormFrom > Timeout) =>
        Alarm \/ now - created < Timeout \/ (Winds = {} /\ Recent # {})
=============================================================================
