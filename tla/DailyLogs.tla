------------------------------- MODULE DailyLogs ------------------------------
(***************************************************************************)
(* The logs that are read back: an application's health and heartbeats     *)
(* (env/app.py, util/availability.py), the weather alarm of the Dish       *)
(* Manager (dsh/dm.py, util/alarm_rsp_efficiency.py), and the pointing of  *)
(* a dish (dsh/dm.py, dsh/drivers/driver.py).                              *)
(*                                                                         *)
(* Each is written by one program to a file that is renamed to its day at  *)
(* the first record after midnight.  The program crashes and is started    *)
(* again.  The reports are operators of the files.  Two records of a       *)
(* reading are in the order in which they were written.                    *)
(***************************************************************************)
EXTENDS Integers, FiniteSets, SequencesExt

CONSTANTS Day,        \* length of a day
          Beat,       \* seconds between two heartbeats
          Timeout,    \* heartbeat_timeout_sec
          Period,     \* what a report covers
          MaxClock,   \* bound on time
          MaxTurns    \* bound on changes, crashes and starts

ASSUME LogsAssumption ==
    /\ {Day, Beat, Timeout, Period, MaxClock} \subseteq Nat \ {0} /\ MaxTurns \in Nat
    /\ Beat < Timeout

VARIABLES
    subject,   \* "health", "alarm" or "pointing": the log
    clock,
    alive,     \* the program runs
    value,     \* the health or the alarm's state
    beat,      \* _last_heartbeat
    base,      \* the file without a date: records [time, is, value]
    rollover,  \* when the handler renames it
    rotated,   \* the files with a date: day -> records
    written,   \* every record, in the world
    seen,      \* the states of the present unit of time, in the world
    truth,     \* those of the units before
    turns      \* changes, crashes and starts so far (bounds them)

logVars == <<subject, clock, alive, value, beat, base, rollover, rotated, written, seen, truth, turns>>

DayOf(t) == t \div Day
Midnight(t) == (DayOf(t) + 1) * Day
Turn == turns < MaxTurns /\ turns' = turns + 1

States == IF subject = "health" THEN {"OK", "FAILED"} ELSE {"ACTIVE", "CLEAR"}
Fresh == IF subject = "health" THEN "UNKNOWN" ELSE "CLEAR"

-----------------------------------------------------------------------------
(* Writing *)

\* TimedRotatingFileHandler, as the loggers set it up: at midnight, in UTC, and
\* with the day as suffix.
EmitWith(is, what, midnight) ==
    LET record == [time |-> clock, is |-> is, value |-> what]
    IN  /\ IF clock >= midnight
           THEN /\ rotated' = [d \in DOMAIN rotated \cup {DayOf(midnight - 1)} |->
                                   IF d = DayOf(midnight - 1) THEN base ELSE rotated[d]]
                /\ base' = <<record>> /\ rollover' = Midnight(clock)
           ELSE base' = Append(base, record) /\ rollover' = midnight /\ UNCHANGED rotated
        /\ written' = Append(written, record)

Emit(is, what) == EmitWith(is, what, rollover)

\* The status thread beats at its start and then regularly, the poll of a dish
\* may miss a turn.
Advance ==
    /\ clock < MaxClock
    /\ alive /\ subject = "health" => clock - beat < Beat
    /\ clock' = clock + 1
    /\ truth' = Append(truth, seen) /\ seen' = {IF alive THEN value ELSE "off"}
    /\ UNCHANGED <<subject, alive, value, beat, base, rollover, rotated, written, turns>>

Heartbeat ==
    /\ alive /\ subject = "health" /\ clock - beat = Beat
    /\ beat' = clock /\ Emit("beat", value)
    /\ UNCHANGED <<subject, clock, alive, value, seen, truth, turns>>

\* set_health_state, and the alarm's beginning and end.
ChangeState ==
    /\ Turn
    /\ alive /\ subject # "pointing"
    /\ \E to \in States \ {value} :
           value' = to /\ seen' = seen \cup {to} /\ Emit("transition", to)
    /\ UNCHANGED <<subject, clock, alive, beat, truth>>

LogPointing ==
    /\ alive /\ subject = "pointing"
    /\ \A i \in DOMAIN written : written[i].time < clock
    /\ Emit("pointing", "")
    /\ UNCHANGED <<subject, clock, alive, value, beat, seen, truth, turns>>

Crash ==
    /\ Turn
    /\ alive /\ alive' = FALSE
    /\ seen' = seen \cup {"off"}
    /\ UNCHANGED <<subject, clock, value, beat, base, rollover, rotated, written, truth>>

\* The handler of a program that starts counts from the last change of the file.
StartProgram ==
    LET midnight == Midnight(IF base = <<>> THEN clock ELSE Last(base).time)
    IN  /\ Turn
        /\ ~alive /\ alive' = TRUE
        /\ value' = Fresh /\ seen' = seen \cup {Fresh}
        /\ beat' = clock
        /\ IF subject = "health" THEN EmitWith("beat", Fresh, midnight)
           ELSE rollover' = midnight /\ UNCHANGED <<base, rotated, written>>
        /\ UNCHANGED <<subject, clock, truth>>

LogsInit ==
    /\ subject \in {"health", "alarm", "pointing"}
    /\ clock = 0 /\ alive = FALSE /\ value = "off" /\ beat = 0
    /\ base = <<>> /\ rollover = Day /\ rotated = [d \in {} |-> <<>>]
    /\ written = <<>> /\ seen = {"off"} /\ truth = <<>> /\ turns = 0

LogsNext == Advance \/ Heartbeat \/ ChangeState \/ LogPointing \/ Crash \/ StartProgram

LogsSpec == LogsInit /\ [][LogsNext]_logVars

-----------------------------------------------------------------------------
(* Reading a period: util/availability.py and util/alarm_rsp_efficiency.py *)

\* _collect_log_files: the files of the days of the period, and the one without.
Collected(start, end) ==
    LET days == {d \in DOMAIN rotated : d \in DayOf(start)..DayOf(end)}
    IN  FlattenSeq([i \in 1..Cardinality(days) |-> rotated[SetToSortSeq(days, <)[i]]]) \o base

Earlier(e, f) == e.time < f.time

Beats(records) == {records[i].time : i \in {j \in DOMAIN records : records[j].is = "beat"}}

\* Mutant: only the silence between two heartbeats is noticed.
SilencesBetween(beats, end) ==
    {b + Timeout : b \in {c \in beats : \E d \in beats : /\ d > c + Timeout
                                                         /\ \A f \in beats : f <= c \/ f >= d}}

\* When the heartbeats were missed, between two of them and after the last.
Silences(beats, end) ==
    {b + Timeout : b \in {c \in beats : /\ end > c + Timeout
                                        /\ \A f \in beats : f <= c \/ f > c + Timeout}}

\* _parse_logs: what the records say, and a failure at each silence.
HealthEvents(start, end) ==
    LET records == Collected(start, end)
    IN  SortSeq(records \o SetToSeq({[time |-> t, is |-> "silence", value |-> "FAILED"] :
                                        t \in Silences(Beats(records), end)}), Earlier)

\* parse_alarm_transition_logs.
AlarmEvents(start, end) == SortSeq(Collected(start, end), Earlier)

Events(start, end) ==
    IF subject = "health" THEN HealthEvents(start, end) ELSE AlarmEvents(start, end)

\* _build_state_intervals: [state, for] of the intervals that cover the period.
Intervals(events, start, end) ==
    LET within == SelectSeq(events, LAMBDA e : e.time \in start..end)
        before == SelectSeq(events, LAMBDA e : e.time < start)
        known == IF before = <<>> THEN IF subject = "health" THEN "UNKNOWN" ELSE "CLEAR"
                 ELSE Last(before).value
        cuts == <<start>> \o [i \in DOMAIN within |-> within[i].time] \o <<end>>
        states == <<known>> \o [i \in DOMAIN within |-> within[i].value]
    IN  SelectSeq([i \in DOMAIN states |-> [state |-> states[i], for |-> cuts[i + 1] - cuts[i]]],
                  LAMBDA interval : interval.for > 0)

\* The state of each unit of time of the period.
Spread(intervals) ==
    FlattenSeq([i \in DOMAIN intervals |-> [t \in 1..intervals[i].for |-> intervals[i].state]])

Reported(start, end) == Spread(Intervals(Events(start, end), start, end))

\* generate_report: the period in buckets.
Report(size, start, end) ==
    LET n == (end - start + size - 1) \div size
        from(i) == start + (i - 1) * size
    IN  [i \in 1..n |-> Spread(Intervals(Events(start, end), from(i), Min({from(i) + size, end})))]

\* alarm_count and recovery_count of get_alarm_rsp_efficiency.
Counted(state, start, end) ==
    Len(SelectSeq(Events(start, end), LAMBDA e : e.time \in start..end /\ e.value = state))

-----------------------------------------------------------------------------
(* Reading the pointing: dsh/drivers/driver.py *)

\* _pointing_log_paths: the file without a date, and that of the earliest instant.
PointingLogs(requested) ==
    <<base>> \o IF DayOf(Min(requested)) \in DOMAIN rotated
                THEN <<rotated[DayOf(Min(requested))]>> ELSE <<>>

\* _read_pointing_log_window: backwards up to the last record before the window.
Window(requested) ==
    LET start == Min(requested)
        tail(log) == {log[i].time : i \in {j \in DOMAIN log : log[j].time >= start}}
        close(log) == {log[i].time : i \in {j \in DOMAIN log :
            /\ log[j].time < start
            /\ \A k \in DOMAIN log : k > j => log[k].time >= start}}
    IN  UNION {tail(log) \cup close(log) : log \in ToSet(PointingLogs(requested))}

\* get_pointing_for_time_range: of a range, and of a list of instants.
PointingOfRange(from, to) == {t \in Window({from, to}) : t \in from..to}

Distance(t, u) == IF t < u THEN u - t ELSE t - u

Nearest(at, requested) ==
    LET found == Window(requested)
    IN  {t \in found : \A u \in found : Distance(at, t) <= Distance(at, u)}

-----------------------------------------------------------------------------
HealthIsTrue ==
    clock > 0 =>
        LET start == Max({0, clock - Period})
            end == clock
            states == Reported(start, end)
        IN  /\ Len(states) = end - start
            /\ \A size \in {2, 3} : FlattenSeq(Report(size, start, end)) = states
            /\ \A t \in start..end - 1 :
                /\ states[t - start + 1] = "OK" /\ (\E b \in Beats(Collected(start, end)) : b <= t)
                      => \E u \in Max({0, t - Timeout})..t : "OK" \in truth[u + 1]
                /\ t - Beat + 1 >= DayOf(start) * Day
                   /\ (\A u \in t - Beat + 1..t : truth[u + 1] = {"OK"})
                      => states[t - start + 1] = "OK"

\* The instants of the period at which the alarm's state was logged.
Logged(start, end) == {written[i].time : i \in {j \in DOMAIN written : written[j].time \in start..end}}

AlarmIsTrue ==
    clock > 0 =>
        LET start == Max({0, clock - Period})
            end == clock
            states == Reported(start, end)
        IN  /\ Len(states) = end - start
            /\ \A s \in States :
                  Counted(s, start, end) =
                      Len(SelectSeq(written, LAMBDA e : e.time \in start..end /\ e.value = s))
            /\ \A t \in start..end - 1 : \A s \in States :
                  /\ truth[t + 1] = {s}
                  /\ \E u \in Logged(start, t) : \A v \in u..t : "off" \notin truth[v + 1]
                  => states[t - start + 1] = s

Samples == {written[i].time : i \in DOMAIN written}

PointingIsTrue ==
    \A from, to \in 0..clock : from <= to /\ (\A d \in DOMAIN rotated : d <= DayOf(from)) =>
        /\ PointingOfRange(from, to) = Samples \cap (from..to)
        /\ \A at \in {from, to} :
             LET near == {t \in Samples : \A u \in Samples : Distance(at, t) <= Distance(at, u)}
             IN  (\A t \in near : DayOf(t) >= DayOf(from)) => Nearest(at, {from, to}) = near

\* Although the files are renamed at midnight, whenever that is noticed, and
\* the program crashes and starts again.  Health: a report up to the present
\* covers its period, in one piece or in buckets; it claims no availability the program did not
\* have within the timeout, once a heartbeat of these days was written, and
\* denies none that it had since a heartbeat of the first day.  Alarm: every
\* beginning and end is counted once, and from the first that a period holds
\* its state is the true one as long as the program runs.  Pointing: before
\* the file of a later day is renamed a query finds every sample, and the
\* nearest unless it was taken the day before.
LogsAreTrue ==
    CASE subject = "health" -> HealthIsTrue
      [] subject = "alarm" -> AlarmIsTrue
      [] OTHER -> PointingIsTrue
=============================================================================
