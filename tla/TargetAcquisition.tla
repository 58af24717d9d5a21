--------------------------- MODULE TargetAcquisition --------------------------
(***************************************************************************)
(* How an observation points its dish: the Observation Execution Tool asks *)
(* for a target, the Dish Manager sets it and polls the mount until it is  *)
(* there, and the Telescope Manager, which has only a picture of the dish, *)
(* lets the scan begin and records when its target was acquired            *)
(* (configure_resources and is_on_target of src/src/obs/oet.py,            *)
(* process_dm_msg of src/src/tm/tm.py, process_tm_msg and the driver timer *)
(* of src/src/dsh/dm.py, src/src/dsh/drivers/driver.py).                   *)
(*                                                                         *)
(* A request that is not answered in time is sent once more.  Requests,    *)
(* answers and advice are each handled by any processor, so in any order;  *)
(* the dish's lock keeps its handlers apart, but not the periodic status,  *)
(* nor the advice made of the dish after the lock has been released.       *)
(*                                                                         *)
(* A target is its place in the list of the observation; targets at one    *)
(* place need no slew between them.  A time is only an estimate or actual, *)
(* and of which target.                                                    *)
(***************************************************************************)
EXTENDS Integers, Sequences, FiniteSets

CONSTANTS
    AimLists,   \* lists of targets: how they are followed, the feed, and where
    MaxMishaps  \* bound: requests sent again and periodic reports, together

Followings == {"drift", "track", "scan"}
Aims == [pointing : Followings, feed : {"sky", "load"}, place : Nat \ {0}]

ASSUME AcquisitionAssumption ==
    /\ \A list \in AimLists : list \in Seq(Aims) /\ list # <<>>
    /\ MaxMishaps \in Nat

VARIABLES
    aims,      \* the targets of the observation
    obsState,  \* the state of the observation
    aim,       \* the target it is at
    review,    \* a review of the configuration has been asked for
    waiting,   \* the timer of every request that has not been answered
    timeouts,  \* requests that were sent again so far
    requests,  \* requests on their way or queued at the Dish Manager
    answers,   \* answers and advice on their way or queued at the Telescope Manager
    dish,      \* the Dish Manager's model of the dish
    setting,   \* the request whose target is being set, under the lock of the dish
    releasing, \* answers to be made now that the lock has been released
    antenna,   \* where the mount is, 0 while it moves
    goal,      \* where the mount was told to go
    picture,   \* the Telescope Manager's copy of the model of the dish
    recorded,  \* when and where the target of every scan was acquired
    statuses,  \* periodic reports so far
    confirmed, \* history: targets whose place the poll or the setting has confirmed
    torn       \* history: a report was made of a dish whose target was being set, or
               \* was no longer as the handler left it

obsVars == <<aims, obsState, aim, review, recorded>>
requestVars == <<waiting, timeouts>>
netVars == <<requests, answers>>
dishVars == <<dish, setting, releasing, antenna, goal, confirmed>>
historyVars == <<statuses, torn>>
acquisitionVars == <<obsVars, requestVars, netVars, dishVars, picture, historyVars>>

NoRequest == [n |-> 0]
NoTime == [time |-> "none", of |-> 0]
Actual(k) == [time |-> "actual", of |-> k]
Estimate(k) == [time |-> "estimate", of |-> k]
NotYet == [acq |-> NoTime, at |-> 0]

Unpointed == [target |-> 0, mode |-> "STANDBY", state |-> "READY", acq |-> NoTime, at |-> 1]

AcquisitionInit ==
    /\ aims \in AimLists
    /\ obsState = "CONFIGURING" /\ aim = 1 /\ review = TRUE
    /\ waiting = <<>> /\ timeouts = 0
    /\ requests = {} /\ answers = {}
    /\ dish = Unpointed /\ picture = Unpointed
    /\ setting = NoRequest /\ releasing = {}
    /\ antenna = 1 /\ goal = 1
    /\ recorded = [k \in DOMAIN aims |-> NotYet]
    /\ statuses = 0 /\ confirmed = {} /\ torn = FALSE

-----------------------------------------------------------------------------
(* The Observation Execution Tool.                                          *)

PointingOf == [drift |-> "READY", track |-> "TRACK", scan |-> "SCAN"]

\* is_on_target of the dish in the picture, once it has the right target.
IsOnTarget == picture.state = PointingOf[aims[aim].pointing]

TimersActive == \E n \in DOMAIN waiting : waiting[n].timer # "stopped"

\* The dish takes a target only in its configuration mode.
Request ==
    IF picture.mode # "CONFIG" THEN [asks |-> "mode", target |-> 0]
                               ELSE [asks |-> "target", target |-> aim]

\* Whether the dish lets a scan begin: one of a load does not wait for it.
PointingSuffices == IsOnTarget \/ aims[aim].feed = "load"

\* Nothing is asked for while an answer is waited for.  The digitiser and the
\* Science Data Processor may have to be configured as well.
ReviewConfiguration(others) ==
    /\ review /\ obsState = "CONFIGURING"
    /\ review' = FALSE
    /\ IF picture.target # aim
       THEN /\ IF TimersActive THEN UNCHANGED <<requests, waiting>>
               ELSE /\ waiting' = Append(waiting, [request |-> Request, timer |-> "retry"])
                    /\ requests' = requests \cup {[n |-> Len(waiting'), copy |-> 1,
                                                   request |-> Request]}
            /\ UNCHANGED obsState
       ELSE /\ obsState' = IF others /\ PointingSuffices THEN "SCANNING" ELSE obsState
            /\ UNCHANGED <<requests, waiting>>
    /\ UNCHANGED <<aims, aim, recorded, timeouts, answers, dishVars, picture, historyVars>>

\* An answer of the digitiser or the Science Data Processor asks for a review.
OthersProgress ==
    /\ obsState = "CONFIGURING" /\ ~review
    /\ review' = TRUE
    /\ UNCHANGED <<aims, obsState, aim, recorded, requestVars, netVars, dishVars, picture,
                   historyVars>>

\* A scan, of up to a minute, lasts longer than the two timers of a request, of ten seconds
\* each, and than a request takes to be carried out, the mount to start and the poll to
\* see it move.
EndScan ==
    /\ obsState = "SCANNING" /\ ~TimersActive /\ requests = {} /\ setting = NoRequest
    /\ antenna \in {0, goal} /\ dish.at = antenna
    /\ IF aim = Len(aims)
       THEN obsState' = "COMPLETED" /\ UNCHANGED <<aim, review>>
       ELSE obsState' = "CONFIGURING" /\ aim' = aim + 1 /\ review' = TRUE
    /\ UNCHANGED <<aims, recorded, requestVars, netVars, dishVars, picture, historyVars>>

\* The first timer sends the request again, the second aborts a configuration.
RetryRequest(n) ==
    /\ waiting[n].timer = "retry" /\ timeouts + statuses < MaxMishaps
    /\ waiting' = [waiting EXCEPT ![n].timer = "final"]
    /\ timeouts' = timeouts + 1
    /\ requests' = requests \cup {[n |-> n, copy |-> 2, request |-> waiting[n].request]}
    /\ UNCHANGED <<obsVars, answers, dishVars, picture, historyVars>>

RequestFails(n) ==
    /\ waiting[n].timer = "final"
    /\ waiting' = [waiting EXCEPT ![n].timer = "stopped"]
    /\ obsState' = IF obsState = "CONFIGURING" THEN "ABORTED" ELSE obsState
    /\ UNCHANGED <<aims, aim, review, recorded, timeouts, netVars, dishVars, picture,
                   historyVars>>

-----------------------------------------------------------------------------
(* The Dish Manager.                                                        *)

DishLockFree == setting = NoRequest

NoObs == 0

Reply(n, says, target, acquired) ==
    [n |-> n, says |-> says, target |-> target, acquired |-> acquired, dish |-> Unpointed,
     obs |-> NoObs]

\* Advice: a copy of the model, and the target it is about, if any.
Advice(copy, obs) ==
    [n |-> 0, says |-> "advice", target |-> 0, acquired |-> FALSE, dish |-> copy, obs |-> obs]

HandleMode(q) ==
    /\ q \in requests /\ q.request.asks = "mode" /\ DishLockFree
    /\ requests' = requests \ {q}
    /\ dish' = [dish EXCEPT !.mode = "CONFIG", !.state = "UNKNOWN"]
    /\ answers' = answers \cup {Reply(q.n, "mode", 0, FALSE)}
    /\ UNCHANGED <<obsVars, requestVars, setting, releasing, antenna, goal, confirmed, picture,
                   historyVars>>

PlaceOf(k) == aims[k].place

\* The lock is released; unless the target is acquired the time is an estimate.
Release(q, left) ==
    LET k == q.request.target
        acquired == left.state = "READY"
    IN /\ dish' = IF acquired THEN left ELSE [left EXCEPT !.acq = Estimate(k)]
       /\ setting' = NoRequest
       /\ releasing' = releasing \cup {[n |-> q.n, copy |-> q.copy, target |-> k,
                                        acquired |-> acquired, left |-> dish']}

\* A target that is set already is only answered.
HandleDuplicate(q) ==
    /\ q \in requests /\ q.request.asks = "target" /\ DishLockFree
    /\ dish.target = q.request.target /\ dish.mode = "OPERATE"
    /\ requests' = requests \ {q}
    /\ Release(q, dish)
    /\ UNCHANGED <<obsVars, requestVars, answers, antenna, goal, confirmed, picture, historyVars>>

\* Out of its configuration mode the dish refuses a target, and loses its own.
RefuseTarget(q) ==
    /\ q \in requests /\ q.request.asks = "target" /\ DishLockFree
    /\ dish.mode # "CONFIG" /\ ~(dish.target = q.request.target /\ dish.mode = "OPERATE")
    /\ requests' = requests \ {q}
    /\ dish' = [dish EXCEPT !.target = 0]
    /\ answers' = answers \cup {Reply(q.n, "error", 0, FALSE)}
    /\ UNCHANGED <<obsVars, requestVars, setting, releasing, antenna, goal, confirmed, picture,
                   historyVars>>

\* The mount is stopped, and the mode becomes operational before it is told where to go.
BeginTarget(q) ==
    /\ q \in requests /\ q.request.asks = "target" /\ DishLockFree
    /\ dish.mode = "CONFIG"
    /\ requests' = requests \ {q}
    /\ setting' = q
    /\ dish' = [dish EXCEPT !.target = q.request.target, !.acq = NoTime, !.mode = "OPERATE",
                            !.state = "READY"]
    /\ goal' = antenna
    /\ UNCHANGED <<obsVars, requestVars, answers, releasing, antenna, confirmed, picture,
                   historyVars>>

\* A dish that was last seen at the place of its target need not slew.
FinishTarget ==
    LET k == dish.target
    IN /\ ~DishLockFree
       /\ IF dish.at = PlaceOf(k)
          THEN /\ Release(setting, [dish EXCEPT !.acq = Actual(k)])
               /\ confirmed' = confirmed \cup {k}
               /\ UNCHANGED goal
          ELSE /\ Release(setting, [dish EXCEPT !.state = "SLEW"])
               /\ goal' = PlaceOf(k)
               /\ UNCHANGED confirmed
       /\ UNCHANGED <<obsVars, requestVars, netVars, antenna, picture, historyVars>>

\* The mount does not take the command: the dish and its target are given up.
SlewFails ==
    /\ ~DishLockFree /\ dish.at # PlaceOf(dish.target)
    /\ dish' = [dish EXCEPT !.mode = "UNKNOWN", !.state = "UNKNOWN", !.target = 0]
    /\ answers' = answers \cup {Reply(setting.n, "error", 0, FALSE)}
    /\ setting' = NoRequest
    /\ UNCHANGED <<obsVars, requestVars, requests, releasing, antenna, goal, confirmed, picture,
                   historyVars>>

\* The answer, and with an acquired target the model as it is by now.
AnswerTarget(r) ==
    /\ releasing' = releasing \ {r}
    /\ answers' = answers \cup {Reply(r.n, "target", r.target, r.acquired)}
                          \cup (IF r.acquired THEN {Advice(dish, r.target)} ELSE {})
    /\ torn' = (torn \/ (r.acquired /\ dish # r.left))
    /\ UNCHANGED <<obsVars, requestVars, requests, dish, setting, antenna, goal,
                   confirmed, picture, statuses>>

\* The periodic report does not wait for the lock and is about no observation.
ReportStatus ==
    /\ timeouts + statuses < MaxMishaps
    /\ statuses' = statuses + 1
    /\ answers' = answers \cup {Advice(dish, NoObs)}
    /\ torn' = (torn \/ ~DishLockFree)
    /\ UNCHANGED <<obsVars, requestVars, requests, dishVars, picture>>

MountMoves ==
    /\ antenna \notin {0, goal} /\ antenna' = 0
    /\ UNCHANGED <<obsVars, requestVars, netVars, dish, setting, releasing, goal, confirmed,
                   picture, historyVars>>

\* A mount that was stopped on its way stays there.
MountArrives ==
    /\ antenna = 0 /\ goal # 0 /\ antenna' = goal
    /\ UNCHANGED <<obsVars, requestVars, netVars, dish, setting, releasing, goal, confirmed,
                   picture, historyVars>>

\* What get_current_altaz makes of a reading: a dish that slews and does not
\* move is there, or has stopped too early.
Seen(reading) ==
    LET still == reading = dish.at /\ reading # 0
        here == [dish EXCEPT !.at = reading]
    IN CASE dish.state = "SLEW" /\ still /\ reading = goal ->
                [here EXCEPT !.state = "READY", !.acq = Actual(dish.target)]
         [] dish.state = "SLEW" /\ still /\ reading # goal ->
                [here EXCEPT !.state = "UNKNOWN"]
         [] OTHER -> here

\* The driver timer: a dish that is ready begins to follow its target.  One that
\* need not follow is reported once, when it has slewed.
PollDish ==
    LET seen == Seen(antenna)
        k == dish.target
        told == /\ k # 0 /\ seen.state = "READY"
                /\ aims[k].pointing # "drift" \/ dish.state = "SLEW"
        polled == IF told /\ seen.mode = "OPERATE"
                  THEN [seen EXCEPT !.state = PointingOf[aims[k].pointing]] ELSE seen
    IN /\ DishLockFree
       /\ dish' = polled
       /\ answers' = IF told THEN answers \cup {Advice(polled, k)} ELSE answers
       /\ confirmed' = IF dish.state = "SLEW" /\ seen.state = "READY" THEN confirmed \cup {k}
                     ELSE confirmed
       /\ UNCHANGED <<obsVars, requestVars, requests, setting, releasing, antenna, goal, picture,
                      historyVars>>

-----------------------------------------------------------------------------
(* The Telescope Manager.                                                   *)

\* Mutant: a target that is answered leaves the state of the one before it.
PointedStale(m) ==
    [picture EXCEPT !.target = m.target, !.mode = "OPERATE",
                    !.acq = IF m.acquired THEN @ ELSE Estimate(m.target)]

\* What an answered target makes of the picture: whether the dish is there is
\* not known unless the answer says so.
Pointed(m) ==
    [picture EXCEPT !.target = m.target, !.mode = "OPERATE",
                    !.state = IF m.acquired THEN "READY" ELSE "UNKNOWN",
                    !.acq = IF m.acquired THEN @ ELSE Estimate(m.target)]

Pictured(m) ==
    CASE m.says = "mode" -> [picture EXCEPT !.mode = "CONFIG"]
      [] m.says = "target" -> Pointed(m)
      [] m.says = "error" -> [picture EXCEPT !.mode = "UNKNOWN"]
      [] m.says = "advice" -> m.dish

\* The acquisition an advice is about, of the dish that came with it.
Acquisition(m) == IF m.obs = NoObs THEN NotYet ELSE [acq |-> m.dish.acq, at |-> m.dish.at]

\* The first time known is kept; a load has none.
SetTgtAcquisition(m) ==
    LET k == m.dish.target
        found == Acquisition(m)
    IN IF /\ m.says = "advice" /\ k # 0 /\ found.acq # NoTime
          /\ aims[k].feed # "load" /\ recorded[k].acq = NoTime
       THEN [recorded EXCEPT ![k] = found]
       ELSE recorded

\* Every answer but a periodic report asks for a review.
ProcessDmMsg(m) ==
    /\ answers' = answers \ {m}
    /\ picture' = Pictured(m)
    /\ recorded' = SetTgtAcquisition(m)
    /\ obsState' = IF m.says = "error" THEN "ABORTED" ELSE obsState
    /\ review' = (review \/ (obsState' = "CONFIGURING" /\ (m.says # "advice" \/ m.obs # NoObs)))
    /\ waiting' = [n \in DOMAIN waiting |->
                      IF n = m.n THEN [waiting[n] EXCEPT !.timer = "stopped"] ELSE waiting[n]]
    /\ UNCHANGED <<aims, aim, timeouts, requests, dishVars, historyVars>>

\* What follows the end of the observation is not followed.
AcquisitionNext ==
    /\ obsState \in {"CONFIGURING", "SCANNING"}
    /\ \/ \E others \in BOOLEAN : ReviewConfiguration(others)
       \/ OthersProgress \/ EndScan
       \/ \E n \in DOMAIN waiting : RetryRequest(n) \/ RequestFails(n)
       \/ \E q \in requests : \/ HandleMode(q) \/ HandleDuplicate(q) \/ RefuseTarget(q)
                              \/ BeginTarget(q)
       \/ FinishTarget \/ SlewFails \/ ReportStatus \/ MountMoves \/ MountArrives \/ PollDish
       \/ \E r \in releasing : AnswerTarget(r)
       \/ \E m \in answers : ProcessDmMsg(m)

-----------------------------------------------------------------------------
(* Properties.                                                              *)

\* A scan of the sky begins only when the dish has been found at the scan's own
\* target, whatever answers and reports overtake each other, unless a report
\* was made of a dish in the middle of a setting (driver.py:1025).
SkyIsSeen ==
    (obsState = "SCANNING" /\ aims[aim].feed = "sky" /\ ~torn) => aim \in confirmed

\* The acquisition recorded with a scan is an actual one of its own target, with
\* the position of that target: never an estimate, nor what the Telescope Manager
\* knew before (tm.py:531-545).
AcquisitionIsActual ==
    ~torn => \A k \in DOMAIN recorded :
        recorded[k] # NotYet => recorded[k] = [acq |-> Actual(k), at |-> PlaceOf(k)]

\* Scans see their targets: each begins at its own, and with its own acquisition on
\* record, whatever answers, advice and reports of the dish overtake each other.
TargetIsSeen == SkyIsSeen /\ AcquisitionIsActual
=============================================================================
