----------------------------- MODULE ObsWorkflow ------------------------------
(***************************************************************************)
(* The workflow of one observation in the Telescope Manager: process_obs_  *)
(* event of src/src/obs/oet.py, the timer, device and operator events of   *)
(* src/src/tm/tm.py that drive it, and the processors that take events off *)
(* the application's queue, handle them and then perform the action the    *)
(* handler returned: timers first, then messages, then new events          *)
(* (src/src/env/app_processor.py).  With one processor (--num_processors   *)
(* 1) events are worked off one after the other; with more, a processor    *)
(* may be overtaken between any two of these steps.                        *)
(*                                                                         *)
(* Abstracted: the scans of all targets form one list; dish, digitiser     *)
(* settings and Science Data Processor are configured together, for one    *)
(* scan or for none (0); what the digitiser acquires is a request of its   *)
(* own; other observations appear only as busy resources and as their      *)
(* release.  A timer is the event it will put into the queue.              *)
(***************************************************************************)
EXTENDS Integers, Sequences, FiniteSets, SequencesExt

CONSTANTS Procs,      \* processor threads
          NScans,     \* scans of the observation
          Faults,     \* kinds of fault that occur
          MaxFaults,  \* bound: faults and operator resets
          MaxRaces,   \* bound: events that arrive before the last one is worked off
          Millisecond \* whether an ABORT may fall into the millisecond after the block

FaultKinds == {"ErrorMsg", "DigError", "OperatorReset", "Unavailable", "Disconnected", "RequestLost"}

ASSUME NScansAssumption == NScans \in Nat \ {0}
ASSUME FaultsAssumption == Faults \subseteq FaultKinds
ASSUME BoundsAssumption == {MaxFaults, MaxRaces} \subseteq Nat /\ Millisecond \in BOOLEAN

VARIABLES obs_state,  \* state of the observation
          cur,        \* current scan (tgt_idx, tgt_scan), NScans + 1 past the last
          complete,   \* scans whose status is COMPLETE
          block,      \* scheduling block: running, over for one millisecond, over
          timers,     \* timers in the heap of the TimerManager
          queue,      \* the event queue
          work,       \* what each processor has in hand
          asked,      \* scan the devices were last asked to be configured for
          unanswered, \* whether they still owe the answer
          conf,       \* scan they are known to be configured for
          dig,        \* scan the digitiser acquires, 0: stopped
          owed,       \* requests to acquire that the digitiser has to answer, repetitions once
          scanning,   \* the scanning attribute of the digitiser's model: its last answer
          slewing,    \* whether the estimated target acquisition is in the future
          reported,   \* scans the Science Data Processor has reported
          faults, races \* counters for the bounds

vars == <<obs_state, cur, complete, block, timers, queue, work, asked, unanswered,
          conf, dig, owed, scanning, slewing, reported, faults, races>>

obs == <<obs_state, cur, complete>>
devices == <<asked, unanswered, conf, dig, owed, scanning, slewing, reported>>
digitiser == <<dig, owed, scanning>>
counters == <<faults, races>>

Scans == 1..NScans
Active == {"CONFIGURING", "READY", "SCANNING"}   \* ACTIVE_OBSERVATION_STATES

-----------------------------------------------------------------------------
(* Events, messages and what a processor has in hand *)

ObsEvents == {"START", "ASSIGN_RESOURCES", "RELEASE_RESOURCES", "CONFIGURE_RESOURCES", "READY",
              "SCAN_STARTED", "SCAN_COMPLETED", "SCAN_ENDED", "ABORT", "RESET"}
OtherEvents == {"Applied", "Acquires", "Progress", "ScanComplete", "ErrorMsg", "DigError", "OperatorReset"}
ObsTimers == {"obs_configuring_timer", "obs_scanning_timer", "obs_abort_timer"}
ConfigTimers == {"config_retry", "config_final"}
AcquireTimers == {"acquire_retry", "acquire_final"}
TimerKinds == ObsTimers \cup ConfigTimers \cup AcquireTimers

Ev(kind) == [kind |-> kind, scan |-> 0]
About(kind, s) == [kind |-> kind, scan |-> s]
None == Ev("none")

Timers == {Ev(k) : k \in ObsTimers} \cup {About(k, s) : k \in TimerKinds \ ObsTimers, s \in 0..NScans + 1}

Pending(kinds) == \E t \in timers : t.kind \in kinds

\* Messages: configure the devices for a scan, acquire a scan (0: release, stop).
Configure(s) == About("config", s)
Acquire(s) == About("acquire", s)

\* The timer that goes with each request, and the timers its answer stops.
Retry(msgs) == {About("config_retry", m.scan) : m \in {n \in msgs : n.kind = "config"}}
                \cup {About("acquire_retry", m.scan) : m \in {n \in msgs : n.kind = "acquire"}}
Answered(kinds, s) == {About(k, s) : k \in kinds}

Idle == [ev |-> None, stop |-> {}, start |-> {}, msgs |-> {}, next |-> None]

\* The states in which a transition is accepted.
Accepts == [START |-> {"EMPTY"}, ASSIGN_RESOURCES |-> {"IDLE"},
            RELEASE_RESOURCES |-> {"IDLE", "READY", "ABORTED"},
            CONFIGURE_RESOURCES |-> {"IDLE", "CONFIGURING", "READY"},
            READY |-> {"CONFIGURING", "READY"}, SCAN_STARTED |-> {"CONFIGURING", "READY"},
            SCAN_COMPLETED |-> {"SCANNING"}, SCAN_ENDED |-> {"SCANNING"},
            ABORT |-> {"EMPTY", "IDLE", "CONFIGURING", "READY", "SCANNING", "ABORTED"},
            RESET |-> {"ABORTED", "IDLE"}]

Handles(p, kind) == work[p].ev.kind = kind
Accepted(p, kind) == Handles(p, kind) /\ obs_state \in Accepts[kind]

\* The handler returns an Action: timers to stop and to start, messages, an event.
Return(p, stop, start, msgs, next) ==
    work' = [work EXCEPT ![p] = [ev |-> None, stop |-> stop, start |-> start \cup Retry(msgs),
                                 msgs |-> msgs, next |-> next]]

\* stop_obs_scanning: the digitiser is told only if its model says it acquires.
StopScanning == {Configure(0)} \cup (IF scanning # 0 THEN {Acquire(0)} ELSE {})

\* set_next_tgt_scan: the first scan that is not complete.
NextScan == LET open == Scans \ complete
            IN IF open = {} THEN NScans + 1 ELSE CHOOSE s \in open : \A t \in open : s <= t

-----------------------------------------------------------------------------

Init == /\ obs_state = "EMPTY" /\ cur = 1 /\ complete = {}
        /\ block = "running" /\ timers = {}
        /\ queue = <<Ev("START")>>
        /\ work = [p \in Procs |-> Idle]
        /\ asked = 0 /\ unanswered = FALSE /\ conf = 0
        /\ dig = 0 /\ owed = <<>> /\ scanning = 0
        /\ slewing = FALSE /\ reported = {}
        /\ faults = 0 /\ races = 0

-----------------------------------------------------------------------------
(* process_obs_event: one atomic step under the lock of the observation *)

Take(p) == /\ work[p] = Idle /\ queue # <<>>
           /\ work' = [work EXCEPT ![p].ev = Head(queue)]
           /\ queue' = Tail(queue)
           /\ UNCHANGED <<obs, block, timers, devices, counters>>

\* A transition in a state that does not accept it is logged and dropped.
Ignore(p) == /\ work[p].ev.kind \in ObsEvents
             /\ obs_state \notin Accepts[work[p].ev.kind]
             /\ Return(p, {}, {}, {}, None)
             /\ UNCHANGED <<obs, block, timers, queue, devices, counters>>

Start(p) == /\ Accepted(p, "START")
            /\ obs_state' = "IDLE"
            /\ complete' = {}
            /\ Return(p, {}, {}, {}, Ev("ASSIGN_RESOURCES"))
            /\ UNCHANGED <<cur, block, timers, queue, devices, counters>>

\* Granted within the block; refused because others hold the resources; given
\* up because the dish, the digitiser or the processor is out of order.
AssignResources(p) ==
    /\ Accepted(p, "ASSIGN_RESOURCES")
    /\ \/ /\ block = "running"
          /\ Return(p, {}, {}, {}, Ev("CONFIGURE_RESOURCES"))
          /\ UNCHANGED faults
       \/ /\ Return(p, {}, {}, {}, None)
          /\ UNCHANGED faults
       \/ /\ "Unavailable" \in Faults /\ faults < MaxFaults
          /\ Return(p, {}, {}, {}, Ev("ABORT"))
          /\ faults' = faults + 1
    /\ UNCHANGED <<obs, block, timers, queue, devices, races>>

ReleaseResources(p) ==
    /\ Accepted(p, "RELEASE_RESOURCES")
    /\ obs_state' = "IDLE"
    /\ Return(p, {}, {}, {}, None)
    /\ UNCHANGED <<cur, complete, block, timers, queue, devices, counters>>

\* configure_resources: ready, or send what differs unless a request is under way.
\* A digitiser that acquires another scan is moved to this one or stopped.
ConfigureResources(p) ==
    /\ Accepted(p, "CONFIGURE_RESOURCES")
    /\ obs_state' = "CONFIGURING"
    /\ IF cur \in Scans /\ conf = cur /\ scanning \in {0, cur}
       THEN Return(p, {Ev("obs_configuring_timer")}, {}, {}, Ev("READY"))
       ELSE \E move \in {0, cur} :
            LET ask == cur \in Scans /\ conf # cur /\ ~Pending(ConfigTimers)
                tell == cur \in Scans /\ scanning \notin {0, cur} /\ ~Pending(AcquireTimers)
            IN Return(p, {}, {Ev("obs_configuring_timer")} \ timers,
                      (IF ask THEN {Configure(cur)} ELSE {}) \cup (IF tell THEN {Acquire(move)} ELSE {}),
                      None)
    /\ UNCHANGED <<cur, complete, block, timers, queue, devices, counters>>

\* start_obs_scanning answers True even if a request under way keeps it from
\* telling the digitiser; without a connection the observation is aborted.
Ready(p) ==
    /\ Accepted(p, "READY")
    /\ obs_state' = "READY"
    /\ \/ /\ Return(p, {}, {}, IF scanning # cur /\ ~Pending(AcquireTimers) THEN {Acquire(cur)} ELSE {},
                    Ev("SCAN_STARTED"))
          /\ UNCHANGED faults
       \/ /\ "Disconnected" \in Faults /\ faults < MaxFaults
          /\ Return(p, {}, {}, {}, Ev("ABORT"))
          /\ faults' = faults + 1
    /\ UNCHANGED <<cur, complete, block, timers, queue, devices, races>>

ScanStarted(p) ==
    /\ Accepted(p, "SCAN_STARTED")
    /\ obs_state' = "SCANNING"
    /\ Return(p, {}, {Ev("obs_scanning_timer")}, {}, None)
    /\ UNCHANGED <<cur, complete, block, timers, queue, devices, counters>>

\* Mutant: the scan that ended is done with, complete or not.
ScanDoneSkipping(p) ==
    /\ Accepted(p, "SCAN_COMPLETED") \/ Accepted(p, "SCAN_ENDED")
    /\ obs_state' = "READY"
    /\ cur' = IF cur \in Scans THEN cur + 1 ELSE cur
    /\ IF cur' \in Scans
       THEN Return(p, {Ev("obs_scanning_timer")}, {}, {}, Ev("CONFIGURE_RESOURCES"))
       ELSE Return(p, {Ev("obs_scanning_timer")}, {}, StopScanning, Ev("RELEASE_RESOURCES"))
    /\ UNCHANGED <<complete, block, timers, queue, devices, counters>>

\* complete_scan: on to the next open scan, stop and release after the last.
ScanDone(p) ==
    /\ Accepted(p, "SCAN_COMPLETED") \/ Accepted(p, "SCAN_ENDED")
    /\ obs_state' = "READY"
    /\ IF cur \notin Scans
       THEN Return(p, {Ev("obs_scanning_timer")}, {}, {}, Ev("ABORT")) /\ UNCHANGED cur
       ELSE /\ cur' = NextScan
            /\ IF cur' \in Scans
               THEN Return(p, {Ev("obs_scanning_timer")}, {}, {}, Ev("CONFIGURE_RESOURCES"))
               ELSE Return(p, {Ev("obs_scanning_timer")}, {}, StopScanning, Ev("RELEASE_RESOURCES"))
    /\ UNCHANGED <<complete, block, timers, queue, devices, counters>>

\* Mutant: only an observation that has been configured gets a timer.
AbortUntimed(p) ==
    /\ Accepted(p, "ABORT")
    /\ obs_state' = "ABORTED"
    /\ IF obs_state \in Active
       THEN Return(p, {Ev("obs_configuring_timer"), Ev("obs_scanning_timer")},
                   {Ev("obs_abort_timer")}, StopScanning, None)
       ELSE Return(p, {}, {}, {}, None)
    /\ UNCHANGED <<cur, complete, block, timers, queue, devices, counters>>

\* The abort timer runs to the end of the block.  One to two milliseconds after
\* the end its duration is -1, which is TIMER_STOP.
Abort(p) ==
    /\ Accepted(p, "ABORT")
    /\ obs_state' = "ABORTED"
    /\ LET engaged == obs_state \in Active
           until_end == block # "millisecond"
       IN Return(p, {Ev("obs_configuring_timer")}
                      \cup (IF engaged THEN {Ev("obs_scanning_timer")} ELSE {})
                      \cup (IF until_end THEN {} ELSE {Ev("obs_abort_timer")}),
                 IF until_end THEN {Ev("obs_abort_timer")} ELSE {},
                 IF engaged THEN StopScanning ELSE {}, None)
    /\ UNCHANGED <<cur, complete, block, timers, queue, devices, counters>>

\* All scans are open again; without a block there is nothing to assign.
Reset(p) ==
    /\ Accepted(p, "RESET")
    /\ obs_state' = "IDLE"
    /\ cur' = 1 /\ complete' = {}
    /\ Return(p, {Ev("obs_abort_timer")}, {}, {Ev("obs_reset")},
              IF block = "running" THEN Ev("ASSIGN_RESOURCES") ELSE None)
    /\ UNCHANGED <<block, timers, queue, devices, counters>>

-----------------------------------------------------------------------------
(* Timer events and messages: the handlers of tm.py, outside any lock *)

\* Mutant: the configuration waits for the slew without a timer.
ExpiredOnce(p) ==
    /\ work[p].ev.kind \in ObsTimers
    /\ CASE Handles(p, "obs_configuring_timer") /\ obs_state = "CONFIGURING" ->
                Return(p, {}, {}, {}, IF slewing THEN None ELSE Ev("ABORT"))
         [] Handles(p, "obs_scanning_timer") /\ obs_state = "SCANNING" ->
                Return(p, {}, {}, {}, Ev("SCAN_ENDED"))
         [] Handles(p, "obs_abort_timer") /\ obs_state = "ABORTED" ->
                Return(p, {}, {}, {}, Ev("RELEASE_RESOURCES"))
         [] OTHER -> Return(p, {}, {}, {}, None)
    /\ UNCHANGED <<obs, block, timers, queue, devices, counters>>

\* ABORT follows a configuration that timed out, SCAN_ENDED a scan and
\* RELEASE_RESOURCES the end of the block, if the state still asks for it.
Expired(p) ==
    /\ work[p].ev.kind \in ObsTimers
    /\ CASE Handles(p, "obs_configuring_timer") /\ obs_state = "CONFIGURING" ->
                IF slewing THEN Return(p, {}, {Ev("obs_configuring_timer")}, {}, None)
                           ELSE Return(p, {}, {}, {}, Ev("ABORT"))
         [] Handles(p, "obs_scanning_timer") /\ obs_state = "SCANNING" ->
                Return(p, {}, {}, {}, Ev("SCAN_ENDED"))
         [] Handles(p, "obs_abort_timer") /\ obs_state = "ABORTED" ->
                Return(p, {}, {}, {}, Ev("RELEASE_RESOURCES"))
         [] OTHER -> Return(p, {}, {}, {}, None)
    /\ UNCHANGED <<obs, block, timers, queue, devices, counters>>

\* A request is sent once more, whatever has happened since; then given up.
RequestTimedOut(p) ==
    LET s == work[p].ev.scan
        again(msg, final) ==
            work' = [work EXCEPT ![p] = [Idle EXCEPT !.start = {About(final, s)}, !.msgs = {msg}]]
    IN /\ \/ Handles(p, "config_retry") /\ again(Configure(s), "config_final")
          \/ Handles(p, "acquire_retry") /\ again(Acquire(s), "acquire_final")
          \/ /\ Handles(p, "config_final") \/ Handles(p, "acquire_final")
             /\ Return(p, {}, {}, {}, IF obs_state = "CONFIGURING" THEN Ev("ABORT") ELSE None)
       /\ UNCHANGED <<obs, block, timers, queue, devices, counters>>

\* Devices answer; while CONFIGURING the workflow looks again.
LookAgain == IF obs_state = "CONFIGURING" THEN Ev("CONFIGURE_RESOURCES") ELSE None

Applied(p) ==
    /\ Handles(p, "Applied") \/ Handles(p, "Progress")
    /\ conf' = IF Handles(p, "Applied") THEN work[p].ev.scan ELSE conf
    /\ Return(p, Answered(ConfigTimers, work[p].ev.scan), {}, {}, LookAgain)
    /\ UNCHANGED <<obs, block, timers, queue, asked, unanswered, digitiser, slewing, reported, counters>>

\* Mutant: an answer is of interest to an active observation only.
AcquiresIfActive(p) ==
    /\ Handles(p, "Acquires")
    /\ scanning' = IF obs_state \in Active THEN work[p].ev.scan ELSE scanning
    /\ Return(p, Answered(AcquireTimers, work[p].ev.scan), {}, {}, LookAgain)
    /\ UNCHANGED <<obs, block, timers, queue, asked, unanswered, conf, dig, owed, slewing, reported, counters>>

Acquires(p) ==
    /\ Handles(p, "Acquires")
    /\ scanning' = work[p].ev.scan
    /\ Return(p, Answered(AcquireTimers, work[p].ev.scan), {}, {}, LookAgain)
    /\ UNCHANGED <<obs, block, timers, queue, asked, unanswered, conf, dig, owed, slewing, reported, counters>>

\* The scan's status comes from the Science Data Processor; which scan the
\* transition is about is not part of it.
ScanComplete(p) ==
    /\ Handles(p, "ScanComplete")
    /\ complete' = complete \cup {work[p].ev.scan}
    /\ Return(p, {}, {}, {}, Ev("SCAN_COMPLETED"))
    /\ UNCHANGED <<obs_state, cur, block, timers, queue, devices, counters>>

\* An error of the Dish Manager or the Science Data Processor.
ErrorMsg(p) ==
    /\ Handles(p, "ErrorMsg")
    /\ Return(p, {}, {}, {}, Ev("ABORT"))
    /\ UNCHANGED <<obs, block, timers, queue, devices, counters>>

\* A digitiser error, a lost connection or a weather alarm: only if active.
DigError(p) ==
    /\ Handles(p, "DigError")
    /\ Return(p, {}, {}, {}, IF obs_state \in Active THEN Ev("ABORT") ELSE None)
    /\ UNCHANGED <<obs, block, timers, queue, devices, counters>>

OperatorReset(p) ==
    /\ Handles(p, "OperatorReset")
    /\ Return(p, {}, {}, {}, Ev("RESET"))
    /\ UNCHANGED <<obs, block, timers, queue, devices, counters>>

-----------------------------------------------------------------------------
(* performActions, in the order of the code *)

PerformTimers(p) ==
    /\ work[p].stop \cup work[p].start # {}
    /\ timers' = (timers \ work[p].stop) \cup work[p].start
    /\ work' = [work EXCEPT ![p].stop = {}, ![p].start = {}]
    /\ UNCHANGED <<obs, block, queue, devices, counters>>

PerformMessages(p) ==
    LET msgs == work[p].msgs
        requests(kind) == {m \in msgs : m.kind = kind}
    IN /\ work[p].stop \cup work[p].start = {} /\ msgs # {}
       /\ work' = [work EXCEPT ![p].msgs = {}]
       /\ IF requests("config") = {} THEN UNCHANGED <<asked, unanswered, slewing>>
          ELSE /\ \E m \in requests("config") : asked' = m.scan
               /\ unanswered' = TRUE
               /\ slewing' \in IF asked' = 0 THEN {FALSE} ELSE BOOLEAN
       /\ IF requests("acquire") = {} THEN UNCHANGED <<dig, owed>>
          ELSE \E m \in requests("acquire") :
               /\ dig' = m.scan
               /\ owed' = IF owed # <<>> /\ Last(owed) = m.scan THEN owed ELSE Append(owed, m.scan)
       /\ reported' = IF requests("obs_reset") = {} THEN reported ELSE {}
       /\ UNCHANGED <<obs, block, timers, queue, conf, scanning, counters>>

PerformTransition(p) ==
    /\ work[p].stop \cup work[p].start = {} /\ work[p].msgs = {} /\ work[p].next # None
    /\ queue' = Append(queue, work[p].next)
    /\ work' = [work EXCEPT ![p].next = None]
    /\ UNCHANGED <<obs, block, timers, devices, counters>>

-----------------------------------------------------------------------------
(* Time, devices, other observations and the operator *)

\* Nothing is queued, in hand or to be performed.
Quiet == queue = <<>> /\ \A p \in Procs : work[p] = Idle

Arrives(ev) == /\ races' = IF Quiet THEN races ELSE races + 1
               /\ races' <= MaxRaces
               /\ queue' = Append(queue, ev)
               /\ UNCHANGED <<obs, work>>

Fault(kind) == kind \in Faults /\ faults < MaxFaults /\ faults' = faults + 1

\* The abort timer runs to the end of the block.
TimerFires(t) == /\ t \in timers /\ (t.kind = "obs_abort_timer" => block # "running")
                 /\ timers' = timers \ {t}
                 /\ Arrives(t)
                 /\ UNCHANGED <<block, devices, faults>>

BlockPasses == /\ block # "over"
               /\ block' = IF block = "running" /\ Millisecond THEN "millisecond" ELSE "over"
               /\ UNCHANGED <<obs, timers, queue, work, devices, counters>>

SlewEnds == /\ slewing /\ slewing' = FALSE
            /\ UNCHANGED <<obs, block, timers, queue, work, asked, unanswered, conf,
                           digitiser, reported, counters>>

DeviceAnswers == /\ unanswered /\ unanswered' = FALSE
                 /\ Arrives(About("Applied", asked))
                 /\ UNCHANGED <<block, timers, asked, conf, digitiser, slewing, reported, faults>>

\* One stage of the configuration is done, the next waits to be asked for.
DeviceProgress == /\ unanswered /\ unanswered' = FALSE
                  /\ asked # 0 /\ Arrives(About("Progress", asked))
                  /\ UNCHANGED <<block, timers, asked, conf, digitiser, slewing, reported, faults>>

\* An error instead of the answer, or neither.
DeviceFails == /\ unanswered /\ unanswered' = FALSE
               /\ \/ Fault("ErrorMsg") /\ Arrives(Ev("ErrorMsg"))
                  \/ Fault("RequestLost") /\ UNCHANGED <<obs, queue, work, races>>
               /\ UNCHANGED <<block, timers, asked, conf, digitiser, slewing, reported>>

DigitiserAnswers ==
    /\ owed # <<>> /\ owed' = Tail(owed)
    /\ \/ Arrives(About("Acquires", Head(owed))) /\ UNCHANGED faults
       \/ Fault("RequestLost") /\ UNCHANGED <<obs, queue, work, races>>
    /\ UNCHANGED <<block, timers, asked, unanswered, conf, dig, scanning, slewing, reported>>

SdpReports(s) == /\ dig = s /\ s \notin reported
                 /\ reported' = reported \cup {s}
                 /\ Arrives(About("ScanComplete", s))
                 /\ UNCHANGED <<block, timers, asked, unanswered, conf, digitiser, slewing, faults>>

Reported(kind) == /\ kind \in {"DigError", "OperatorReset"} /\ Fault(kind)
                  /\ Arrives(Ev(kind))
                  /\ UNCHANGED <<block, timers, devices>>

\* Another observation has released the dish: whoever is IDLE within its block is
\* sent ASSIGN_RESOURCES, whether it waits or has completed.
OtherReleases == /\ obs_state = "IDLE" /\ block = "running"
                 /\ Arrives(Ev("ASSIGN_RESOURCES"))
                 /\ UNCHANGED <<block, timers, devices, faults>>

-----------------------------------------------------------------------------

Process(p) == \/ Take(p) \/ Ignore(p) \/ Start(p) \/ AssignResources(p) \/ ReleaseResources(p)
              \/ ConfigureResources(p) \/ Ready(p) \/ ScanStarted(p) \/ ScanDone(p)
              \/ Abort(p) \/ Reset(p) \/ Expired(p) \/ RequestTimedOut(p) \/ Applied(p) \/ Acquires(p) \/ ScanComplete(p)
              \/ ErrorMsg(p) \/ DigError(p) \/ OperatorReset(p)
              \/ PerformTimers(p) \/ PerformMessages(p) \/ PerformTransition(p)

Next == \/ \E p \in Procs : Process(p)
        \/ \E t \in Timers : TimerFires(t)
        \/ BlockPasses \/ SlewEnds \/ DeviceAnswers \/ DigitiserAnswers \/ DeviceProgress \/ DeviceFails
        \/ \E s \in Scans : SdpReports(s)
        \/ \E kind \in FaultKinds : Reported(kind)
        \/ OtherReleases

Spec == Init /\ [][Next]_vars

\* Processors work, time passes and connected devices answer.
FairSpec == /\ Spec
            /\ \A p \in Procs : WF_vars(Process(p))
            /\ WF_vars(BlockPasses) /\ WF_vars(SlewEnds)
            /\ \A k \in ObsTimers : SF_vars(TimerFires(Ev(k)))
            /\ SF_vars(\E t \in Timers : t.kind \notin ObsTimers /\ TimerFires(t))
            /\ SF_vars(DeviceAnswers) /\ SF_vars(DigitiserAnswers) /\ SF_vars(\E s \in Scans : SdpReports(s))

-----------------------------------------------------------------------------
(* Properties *)

Events == {Ev(k) : k \in ObsEvents \cup OtherEvents \cup {"none"}} \cup Timers
            \cup {About(k, s) : k \in {"Applied", "Acquires", "Progress", "ScanComplete"}, s \in 0..NScans + 1}
Messages == {Ev("obs_reset")} \cup {About(k, s) : k \in {"config", "acquire"}, s \in 0..NScans + 1}

TypeOK ==
    /\ obs_state \in Active \cup {"EMPTY", "IDLE", "ABORTED"}
    /\ cur \in 1..NScans + 1
    /\ complete \subseteq Scans
    /\ block \in {"running", "millisecond", "over"}
    /\ timers \subseteq Timers
    /\ queue \in Seq(Events)
    /\ work \in [Procs -> [ev : Events, stop : SUBSET Timers, start : SUBSET Timers,
                           msgs : SUBSET Messages, next : Events]]
    /\ asked \in 0..NScans /\ conf \in 0..NScans
    /\ {dig, scanning} \subseteq 0..NScans + 1 /\ owed \in Seq(0..NScans + 1)
    /\ unanswered \in BOOLEAN /\ slewing \in BOOLEAN
    /\ reported \subseteq 1..NScans + 1
    /\ faults \in 0..MaxFaults /\ races \in 0..MaxRaces

\* An observation being configured is watched by a timer: devices that never
\* answer, or a dish that never arrives, cannot hold its resources for ever.
ConfiguringIsTimed ==
    Quiet /\ obs_state = "CONFIGURING" => Ev("obs_configuring_timer") \in timers

\* A scan is watched by a timer in case it exceeds its expected duration.
ScanningIsTimed == Quiet /\ obs_state = "SCANNING" => Ev("obs_scanning_timer") \in timers

\* An ABORTED observation has the timer that will release its resources.
AbortedIsTimed == Quiet /\ obs_state = "ABORTED" => Ev("obs_abort_timer") \in timers

\* Once the workflow is quiet, nothing has been left half way: an observation that
\* waits, also for its release, is watched by a timer, and READY always has its next
\* transition under way.
WaitingIsWatched ==
    /\ ConfiguringIsTimed /\ ScanningIsTimed /\ AbortedIsTimed
    /\ Quiet => obs_state \notin {"EMPTY", "READY"}

\* When all is answered and worked off, the model of the digitiser says what the
\* digitiser does: start and stop are decided by comparing with the model.
ModelFollowsDigitiser == Quiet /\ owed = <<>> => scanning = dig

\* The workflow keeps the promises of the life cycle.
Lifecycle == INSTANCE ObsLifecycle WITH Scans <- Scans, obs_state <- obs_state, complete <- complete
LifecycleSpec == Lifecycle!Spec

\* Every observation comes to rest in IDLE, whatever times out or fails on the way.
ComesToRest == <>[](obs_state = "IDLE")

=============================================================================
