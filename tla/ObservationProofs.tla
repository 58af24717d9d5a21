---------------------------- MODULE ObservationProofs -------------------------
(***************************************************************************)
(* Proofs about observations, for every number of scans and list of        *)
(* targets and any number of faults, races and requests sent again.        *)
(*                                                                         *)
(* The workflow of ObsWorkflow, worked off by one processor:               *)
(*   - A state other than IDLE has an event on its way that leads out of   *)
(*     it, or the timer that brings one, so an observation that waits is   *)
(*     watched.                                                            *)
(*   - The last thing said about the acquisition agrees with the           *)
(*     digitiser, so its model does once all is worked off.                *)
(*   - A release that waits belongs to an observation that is complete, or *)
(*     to one that was aborted and that no configuration can follow, so    *)
(*     the workflow implements ObsLifecycle.                               *)
(*                                                                         *)
(* The pointing of TargetAcquisition: every scan sees its own target.  A   *)
(* sighting travels with its target.  The history confirmed has the        *)
(* targets that a poll or a setting has found the dish at.  A model of the *)
(* dish, be it the Dish Manager's own while the lock is free, one on its   *)
(* way with advice or the Telescope Manager's picture, names a target with *)
(* a pointing state only when that target is among them, and advice about  *)
(* an observation has the actual acquisition.  That a dish which was last  *)
(* seen at the place of the target need not slew is safe because the mount *)
(* stays where it was seen: whoever starts a slew starts it towards the    *)
(* place of the scan, and the requests of a scan end before the next scan  *)
(* begins.                                                                 *)
(*                                                                         *)
(* The schedule of ObsSchedule, for every set of designs and workers: as   *)
(* long as handlers do not overlap, what has begun or is about to stays in *)
(* the archive, and what is to come is cared for: a decision is on its     *)
(* way, the observation is about to start, or the timer, or the one that   *)
(* the decision at hand will set, is due in time.                          *)
(***************************************************************************)
EXTENDS ObsWorkflow, TargetAcquisition, ObsSchedule, SequenceTheorems, FiniteSetTheorems,
        WellFoundedInduction, TLAPS

-----------------------------------------------------------------------------
(* The workflow: an observation that waits is watched.                       *)

\* What a processor has in hand.
Fields == {"ev", "stop", "start", "msgs", "next"}
\* The states of an observation.
States == Active \cup {"EMPTY", "IDLE", "ABORTED"}

\* The events that lead out of a state, and the timer that watches it.
Calls == [EMPTY |-> {"START", "ABORT"}, IDLE |-> {},
          CONFIGURING |-> {"READY", "ABORT", "obs_configuring_timer"},
          READY |-> {"READY", "SCAN_STARTED", "CONFIGURE_RESOURCES", "RELEASE_RESOURCES",
                     "ABORT"},
          SCANNING |-> {"SCAN_COMPLETED", "SCAN_ENDED", "ABORT", "obs_scanning_timer"},
          ABORTED |-> {"RELEASE_RESOURCES", "RESET", "ABORT", "obs_abort_timer"}]

\* The timer that watches each state.
TimerOf == [EMPTY |-> "none", IDLE |-> "none", READY |-> "none",
            CONFIGURING |-> "obs_configuring_timer", SCANNING |-> "obs_scanning_timer",
            ABORTED |-> "obs_abort_timer"]

\* An event of one of these kinds is queued, in hand or about to be queued.
Called(kinds) ==
    \/ \E e \in Range(queue) : e.kind \in kinds
    \/ \E p \in Procs : work[p].ev.kind \in kinds \/ work[p].next.kind \in kinds

\* A timer runs and is not about to be stopped, or is about to be started.
Runs(t) == t # None /\
    \E p \in Procs : t \in work[p].start \/ (t \in timers /\ t \notin work[p].stop)

\* The queue is a sequence.
QueueInv == queue \in Seq(Range(queue))

\* A processor performs what a handler returned before it takes the next event.
HandsInv ==
    /\ DOMAIN work = Procs
    /\ \A p \in Procs : /\ DOMAIN work[p] = Fields
                        /\ \/ work[p].ev = None
                           \/ work[p].stop = {} /\ work[p].start = {} /\ work[p].next = None

\* An observation in a state other than IDLE has an event on its way that leads out of
\* this state, or the timer that will bring one.
WatchInv ==
    /\ obs_state \in States
    /\ \/ obs_state = "IDLE" \/ Called(Calls[obs_state]) \/ Runs(Ev(TimerOf[obs_state]))

\* The block never is over for just a millisecond.
BlockInv == block \in {"running", "over"}

\* The inductive invariant behind WaitingIsWatched.
WatchedInv == QueueInv /\ HandsInv /\ BlockInv /\ WatchInv

\* A sequence is one of any set that holds its elements.
LEMMA SeqOfMembers ==
  ASSUME NEW S, NEW s \in Seq(S), NEW T, \A i \in 1..Len(s) : s[i] \in T
  PROVE  s \in Seq(T)
<1>1. Len(s) \in Nat /\ s = [i \in 1..Len(s) |-> s[i]]
  OBVIOUS
<1>2. QED BY <1>1

\* What is in a queue after something has been appended.
LEMMA QueueAppended ==
  ASSUME NEW q, q \in Seq(Range(q)), NEW e
  PROVE  Append(q, e) \in Seq(Range(Append(q, e))) /\ Range(Append(q, e)) = Range(q) \cup {e}
<1>1. PICK S : S = Range(q) \cup {e}
  OBVIOUS
<1>2. q \in Seq(S)
  BY <1>1, Range(q) \subseteq S
<1>3. /\ Append(q, e) \in Seq(S) /\ Len(q) \in Nat /\ DOMAIN q = 1..Len(q)
      /\ DOMAIN Append(q, e) = 1..(Len(q) + 1)
      /\ \A i \in 1..Len(q) : Append(q, e)[i] = q[i]
      /\ Append(q, e)[Len(q) + 1] = e
  BY <1>1, <1>2
<1>4. Range(Append(q, e)) = S
  <2>1. Range(Append(q, e)) \subseteq S
    BY <1>1, <1>3 DEF Range
  <2>2. Range(q) \subseteq Range(Append(q, e))
    BY <1>3 DEF Range
  <2>3. e \in Range(Append(q, e))
    <3>1. Len(q) + 1 \in DOMAIN Append(q, e)
      BY <1>3
    <3>2. QED BY <1>3, <3>1 DEF Range
  <2>4. QED BY <1>1, <2>1, <2>2, <2>3
<1>5. QED BY <1>1, <1>3, <1>4

\* What is in a queue before its head is taken.
LEMMA QueueTaken ==
  ASSUME NEW q, q \in Seq(Range(q)), q # <<>>
  PROVE  Tail(q) \in Seq(Range(Tail(q))) /\ Range(q) = Range(Tail(q)) \cup {Head(q)}
<1>1. PICK S : S = Range(q)
  OBVIOUS
<1>2. PICK t : t = Tail(q)
  OBVIOUS
<1>3. q \in Seq(S)
  BY <1>1
<1>4. /\ t \in Seq(S) /\ Len(t) = Len(q) - 1 /\ \A i \in 1..Len(t) : t[i] = q[i + 1]
  BY <1>2, <1>3, HeadTailProperties
<1>5. /\ Len(q) \in Nat \ {0} /\ DOMAIN q = 1..Len(q) /\ Len(t) \in Nat /\ DOMAIN t = 1..Len(t)
      /\ Head(q) = q[1]
  BY <1>3, <1>4
<1>6. Range(q) \subseteq Range(t) \cup {Head(q)}
  <2>1. SUFFICES ASSUME NEW i \in 1..Len(q) PROVE q[i] \in Range(t) \cup {Head(q)}
    BY <1>5 DEF Range
  <2>2. CASE i = 1
    BY <1>5, <2>2
  <2>3. CASE i # 1
    <3>1. PICK j \in 1..Len(t) : j + 1 = i
      <4>1. i - 1 \in 1..Len(t) /\ (i - 1) + 1 = i
        BY <1>4, <1>5, <2>1, <2>3
      <4>2. QED BY <4>1
    <3>2. t[j] = q[i]
      BY <1>4, <3>1
    <3>3. QED BY <1>5, <3>2 DEF Range
  <2>4. QED BY <2>2, <2>3
<1>7. Range(t) \subseteq Range(q)
  <2>1. SUFFICES ASSUME NEW i \in 1..Len(t) PROVE t[i] \in Range(q)
    BY <1>5 DEF Range
  <2>2. i + 1 \in DOMAIN q /\ t[i] = q[i + 1]
    BY <1>4, <1>5
  <2>3. QED BY <2>2 DEF Range
<1>8. Head(q) \in Range(q)
  <2>1. 1 \in DOMAIN q
    BY <1>5
  <2>2. QED BY <1>5, <2>1 DEF Range
<1>9. t \in Seq(Range(t))
  <2>1. \A i \in 1..Len(t) : t[i] \in Range(t)
    BY <1>5 DEF Range
  <2>2. QED BY <1>4, <2>1, SeqOfMembers
<1>10. QED BY <1>2, <1>6, <1>7, <1>8, <1>9

\* What a handler returns: the state may stay if the event was not one that leads out of it.
LEMMA Handled ==
  ASSUME WatchedInv, NEW p, Procs = {p}, NEW r, DOMAIN r = Fields, r.ev = None,
         work' = [work EXCEPT ![p] = r], UNCHANGED <<queue, timers, block>>,
         work[p].ev # None, obs_state' \in States,
         \/ obs_state' = "IDLE"
         \/ /\ obs_state' = obs_state /\ work[p].ev.kind \notin Calls[obs_state]
            /\ Ev(TimerOf[obs_state]) \notin r.stop
         \/ r.next.kind \in Calls[obs_state']
         \/ Ev(TimerOf[obs_state']) # None /\ Ev(TimerOf[obs_state']) \in r.start
         \/ /\ Ev(TimerOf[obs_state']) # None
            /\ Ev(TimerOf[obs_state']) \in timers /\ r.stop = {}
  PROVE  WatchedInv'
<1>. USE DEF WatchedInv
<1>1. /\ DOMAIN work' = Procs /\ work'[p] = r
      /\ work[p].stop = {} /\ work[p].start = {} /\ work[p].next = None
  BY DEF HandsInv
<1>2. QueueInv' /\ HandsInv' /\ BlockInv'
  BY <1>1 DEF QueueInv, HandsInv, BlockInv
<1>3. CASE obs_state' = obs_state /\ work[p].ev.kind \notin Calls[obs_state]
           /\ Ev(TimerOf[obs_state]) \notin r.stop
  <2>1. CASE Called(Calls[obs_state])
    <3>1. CASE \E e \in Range(queue) : e.kind \in Calls[obs_state]
      BY <1>2, <1>3, <3>1 DEF WatchInv, Called
    <3>2. CASE work[p].next.kind \in Calls[obs_state]
      <4>1. Calls[obs_state] \subseteq ObsEvents \cup TimerKinds
        BY DEF WatchInv, Calls, ObsEvents, TimerKinds, ObsTimers, States, Active
      <4>2. FALSE
        BY <1>1, <3>2, <4>1 DEF None, Ev, ObsEvents, TimerKinds, ObsTimers, ConfigTimers,
                                AcquireTimers
      <4>3. QED BY <4>2
    <3>3. QED BY <1>3, <2>1, <3>1, <3>2 DEF Called
  <2>2. CASE Runs(Ev(TimerOf[obs_state]))
    <3>1. Ev(TimerOf[obs_state]) \in timers /\ Ev(TimerOf[obs_state]) # None
      BY <1>1, <2>2 DEF Runs
    <3>2. Runs(Ev(TimerOf[obs_state]))'
      BY <1>1, <1>3, <3>1 DEF Runs
    <3>3. QED BY <1>2, <1>3, <3>2 DEF WatchInv
  <2>3. QED BY <1>2, <1>3, <2>1, <2>2 DEF WatchInv
<1>4. CASE obs_state' = "IDLE"
  BY <1>2, <1>4 DEF WatchInv
<1>5. CASE r.next.kind \in Calls[obs_state']
  <2>1. Called(Calls[obs_state])'
    BY <1>1, <1>5 DEF Called
  <2>2. QED BY <1>2, <2>1 DEF WatchInv
<1>6. CASE Ev(TimerOf[obs_state']) # None /\ Ev(TimerOf[obs_state']) \in r.start
  <2>1. Runs(Ev(TimerOf[obs_state]))'
    BY <1>1, <1>6 DEF Runs
  <2>2. QED BY <1>2, <2>1 DEF WatchInv
<1>7. CASE /\ Ev(TimerOf[obs_state']) # None
           /\ Ev(TimerOf[obs_state']) \in timers /\ r.stop = {}
  <2>1. Runs(Ev(TimerOf[obs_state]))'
    BY <1>1, <1>7 DEF Runs
  <2>2. QED BY <1>2, <2>1 DEF WatchInv
<1>8. QED BY <1>3, <1>4, <1>5, <1>6, <1>7

\* Something arrives, or a timer goes off.
LEMMA Arrived ==
  ASSUME WatchedInv, NEW ev, queue' = Append(queue, ev), UNCHANGED <<obs, work>>,
         block' \in {"running", "over"}, timers' = timers \/ timers' = timers \ {ev}
  PROVE  WatchedInv'
<1>. USE DEF WatchedInv
<1>1. QueueInv' /\ Range(queue') = Range(queue) \cup {ev}
  BY QueueAppended DEF QueueInv
<1>2. HandsInv' /\ BlockInv' /\ obs_state' = obs_state
  BY DEF HandsInv, BlockInv, obs
<1>3. Called(Calls[obs_state]) => Called(Calls[obs_state])'
  BY <1>1, <1>2 DEF Called
<1>4. CASE Runs(Ev(TimerOf[obs_state]))
  <2>1. CASE timers' = timers
    BY <1>1, <1>2, <1>4, <2>1 DEF Runs, WatchInv
  <2>2. CASE Ev(TimerOf[obs_state]) # ev
    BY <1>1, <1>2, <1>4, <2>2 DEF Runs, WatchInv
  <2>3. CASE Ev(TimerOf[obs_state]) = ev
    <3>1. ev.kind = TimerOf[obs_state] /\ ev.kind # "none"
      BY <1>4, <2>3 DEF Runs, None, Ev
    <3>2. ev.kind \in Calls[obs_state]
      BY <3>1 DEF WatchInv, TimerOf, Calls, States, Active
    <3>3. Called(Calls[obs_state])'
      BY <1>1, <1>2, <3>2 DEF Called
    <3>4. QED BY <1>1, <1>2, <3>3 DEF WatchInv
  <2>4. QED BY <2>1, <2>2, <2>3
<1>5. QED BY <1>1, <1>2, <1>3, <1>4 DEF WatchInv

\* Steps that touch neither the observation nor what will happen to it.
LEMMA Elsewhere ==
  ASSUME WatchedInv, UNCHANGED <<obs, work, queue, timers>>, block' \in {"running", "over"}
  PROVE  WatchedInv'
BY DEF WatchedInv, QueueInv, HandsInv, BlockInv, WatchInv, Called, Runs, obs

\* A processor takes an event: what was queued is in hand.
LEMMA TakenUp ==
  ASSUME WatchedInv, NEW p, Procs = {p}, Take(p)
  PROVE  WatchedInv'
<1>. USE DEF WatchedInv
<1>1. /\ work[p] = Idle /\ queue # <<>> /\ queue' = Tail(queue)
      /\ work' = [work EXCEPT ![p].ev = Head(queue)]
      /\ UNCHANGED <<obs_state, block, timers>>
  BY DEF Take, obs
<1>2. QueueInv' /\ Range(queue) = Range(queue') \cup {Head(queue)}
  BY <1>1, QueueTaken DEF QueueInv
<1>3. PICK r : r = [work[p] EXCEPT !.ev = Head(queue)]
  OBVIOUS
<1>4. /\ DOMAIN r = Fields /\ r.ev = Head(queue)
      /\ r.stop = {} /\ r.start = {} /\ r.next = None
  BY <1>1, <1>3 DEF Idle, Fields
<1>5. DOMAIN work' = Procs /\ work'[p] = r
  BY <1>1, <1>3 DEF HandsInv
<1>6. HandsInv' /\ BlockInv'
  BY <1>1, <1>4, <1>5 DEF HandsInv, BlockInv
<1>7. CASE Called(Calls[obs_state])
  <2>1. Calls[obs_state] \subseteq ObsEvents \cup TimerKinds
    BY DEF WatchInv, Calls, ObsEvents, TimerKinds, ObsTimers, States, Active
  <2>2. work[p].ev.kind \notin Calls[obs_state] /\ work[p].next.kind \notin Calls[obs_state]
    BY <1>1, <2>1
    DEF Idle, None, Ev, ObsEvents, TimerKinds, ObsTimers, ConfigTimers, AcquireTimers
  <2>3. PICK e \in Range(queue) : e.kind \in Calls[obs_state]
    BY <1>7, <2>2 DEF Called
  <2>4. Called(Calls[obs_state])'
    BY <1>1, <1>2, <1>4, <1>5, <2>3 DEF Called
  <2>5. QED BY <1>1, <1>2, <1>6, <2>4 DEF WatchInv
<1>8. CASE Runs(Ev(TimerOf[obs_state]))
  <2>1. Ev(TimerOf[obs_state]) \in timers /\ Ev(TimerOf[obs_state]) # None
    BY <1>1, <1>8 DEF Runs, Idle
  <2>2. Runs(Ev(TimerOf[obs_state]))'
    BY <1>1, <1>4, <1>5, <2>1 DEF Runs
  <2>3. QED BY <1>1, <1>2, <1>6, <2>2 DEF WatchInv
<1>9. QED BY <1>1, <1>2, <1>6, <1>7, <1>8 DEF WatchInv

\* The same for an action given by its parts.
LEMMA Returned ==
  ASSUME WatchedInv, NEW p, Procs = {p}, NEW stop, NEW start, NEW msgs, NEW next,
         Return(p, stop, start, msgs, next), UNCHANGED <<queue, timers, block>>,
         work[p].ev # None, obs_state' \in States,
         \/ obs_state' = "IDLE"
         \/ /\ obs_state' = obs_state /\ work[p].ev.kind \notin Calls[obs_state]
            /\ Ev(TimerOf[obs_state]) \notin stop
         \/ next.kind \in Calls[obs_state']
         \/ Ev(TimerOf[obs_state']) # None /\ Ev(TimerOf[obs_state']) \in start
         \/ /\ Ev(TimerOf[obs_state']) # None
            /\ Ev(TimerOf[obs_state']) \in timers /\ stop = {}
  PROVE  WatchedInv'
<1>1. PICK r : r = [ev |-> None, stop |-> stop, start |-> start \cup Retry(msgs), msgs |-> msgs,
                    next |-> next]
  OBVIOUS
<1>2. /\ DOMAIN r = Fields /\ r.ev = None /\ r.stop = stop /\ start \subseteq r.start
      /\ r.next = next
  BY <1>1 DEF Fields
<1>3. work' = [work EXCEPT ![p] = r]
  BY <1>1 DEF Return
<1>4. QED BY <1>2, <1>3, Handled

\* An event that leads out of a state is accepted in it; the timer of a state leads out
\* of it, and no other timer and no message does.
LEMMA EventKinds ==
  /\ \A k \in ObsEvents \cup OtherEvents \cup TimerKinds : k # "none"
  /\ \A s \in States : /\ \A k \in OtherEvents \cup ConfigTimers \cup AcquireTimers :
                             k \notin Calls[s]
                       /\ \A k \in ObsEvents : k \in Calls[s] => s \in Accepts[k]
                       /\ \A k \in ObsTimers : k \in Calls[s] => TimerOf[s] = k
                       /\ TimerOf[s] \notin ConfigTimers \cup AcquireTimers
                       /\ TimerOf[s] # "none" => TimerOf[s] \in Calls[s]
<1>1. \A k \in ObsEvents \cup OtherEvents \cup TimerKinds : k # "none"
  BY DEF ObsEvents, OtherEvents, TimerKinds, ObsTimers, ConfigTimers, AcquireTimers
<1>2. ASSUME NEW s \in States
      PROVE  /\ \A k \in OtherEvents \cup ConfigTimers \cup AcquireTimers : k \notin Calls[s]
             /\ \A k \in ObsTimers : k \in Calls[s] => TimerOf[s] = k
             /\ TimerOf[s] \notin ConfigTimers \cup AcquireTimers
             /\ TimerOf[s] # "none" => TimerOf[s] \in Calls[s]
  BY DEF States, Active, OtherEvents, ConfigTimers, AcquireTimers, ObsTimers, Calls, TimerOf
<1>3. ASSUME NEW s \in States, NEW k \in ObsEvents, k \in Calls[s]
      PROVE  s \in Accepts[k]
  BY <1>3 DEF States, Active, ObsEvents, Calls, Accepts
<1>4. QED BY <1>1, <1>2, <1>3

\* A processor that handles an event has one.
LEMMA SomethingInHand ==
  ASSUME NEW p, work[p].ev.kind \in ObsEvents \cup OtherEvents \cup TimerKinds
  PROVE  work[p].ev # None
BY EventKinds DEF None, Ev

\* An event that the state does not accept leads nowhere, so nothing waited for it.
LEMMA Ignored ==
  ASSUME WatchedInv, NEW p, Procs = {p}, Ignore(p)
  PROVE  WatchedInv'
<1>1. /\ work[p].ev.kind \in ObsEvents /\ obs_state \notin Accepts[work[p].ev.kind]
      /\ Return(p, {}, {}, {}, None) /\ UNCHANGED <<queue, timers, block>>
      /\ obs_state' = obs_state /\ obs_state \in States
  BY DEF Ignore, obs, WatchedInv, WatchInv
<1>2. work[p].ev # None
  BY <1>1, SomethingInHand
<1>3. work[p].ev.kind \notin Calls[obs_state]
  BY <1>1, EventKinds
<1>4. QED BY <1>1, <1>2, <1>3, Returned

\* Handlers after which the observation is IDLE.
LEMMA Rested ==
  ASSUME WatchedInv, NEW p, Procs = {p},
         Start(p) \/ AssignResources(p) \/ ReleaseResources(p) \/ Reset(p)
  PROVE  WatchedInv'
<1>1. /\ UNCHANGED <<queue, timers, block>> /\ obs_state' = "IDLE" /\ obs_state' \in States
      /\ work[p].ev.kind \in ObsEvents
      /\ \E stop, start, msgs, next : Return(p, stop, start, msgs, next)
  BY DEF Start, AssignResources, ReleaseResources, Reset, Accepted, Handles, ObsEvents, Accepts,
         States, obs
<1>2. work[p].ev # None
  BY <1>1, SomethingInHand
<1>3. QED BY <1>1, <1>2, Returned

\* A configuration ends by READY or is watched by its timer.
LEMMA Configured ==
  ASSUME WatchedInv, NEW p, Procs = {p}, ConfigureResources(p)
  PROVE  WatchedInv'
<1>1. /\ UNCHANGED <<queue, timers, block>> /\ obs_state' = "CONFIGURING"
      /\ obs_state' \in States /\ work[p].ev.kind \in ObsEvents
  BY DEF ConfigureResources, Accepted, Handles, ObsEvents, States, Active
<1>2. work[p].ev # None
  BY <1>1, SomethingInHand
<1>3. CASE Return(p, {Ev("obs_configuring_timer")}, {}, {}, Ev("READY"))
  <2>1. Ev("READY").kind \in Calls["CONFIGURING"]
    BY DEF Ev, Calls
  <2>2. QED BY <1>1, <1>2, <1>3, <2>1, Returned
<1>4. CASE \E msgs : Return(p, {}, {Ev("obs_configuring_timer")} \ timers, msgs, None)
  <2>1. TimerOf["CONFIGURING"] = "obs_configuring_timer" /\ Ev("obs_configuring_timer") # None
    BY DEF TimerOf, Ev, None
  <2>2. PICK msgs, start : /\ start = {Ev("obs_configuring_timer")} \ timers
                           /\ Return(p, {}, start, msgs, None)
    BY <1>4
  <2>3. Ev("obs_configuring_timer") \in start \/ Ev("obs_configuring_timer") \in timers
    BY <2>2
  <2>4. QED BY <1>1, <1>2, <2>1, <2>2, <2>3, Returned
<1>5. QED BY <1>3, <1>4 DEF ConfigureResources

\* READY always has its next transition under way.
LEMMA MadeReady ==
  ASSUME WatchedInv, NEW p, Procs = {p}, Ready(p) \/ ScanDone(p)
  PROVE  WatchedInv'
<1>1. /\ UNCHANGED <<queue, timers, block>> /\ obs_state' = "READY"
      /\ obs_state' \in States /\ work[p].ev.kind \in ObsEvents
  BY DEF Ready, ScanDone, Accepted, Handles, ObsEvents, States, Active
<1>2. work[p].ev # None
  BY <1>1, SomethingInHand
<1>3. PICK stop, msgs, next :
         /\ Return(p, stop, {}, msgs, next)
         /\ next \in {Ev("SCAN_STARTED"), Ev("ABORT"), Ev("CONFIGURE_RESOURCES"),
                      Ev("RELEASE_RESOURCES")}
  BY DEF Ready, ScanDone
<1>4. next.kind \in Calls["READY"]
  BY <1>3 DEF Ev, Calls
<1>5. QED BY <1>1, <1>2, <1>3, <1>4, Returned

\* A scan is watched by its timer.
LEMMA Begun ==
  ASSUME WatchedInv, NEW p, Procs = {p}, ScanStarted(p)
  PROVE  WatchedInv'
<1>1. /\ UNCHANGED <<queue, timers, block>> /\ obs_state' = "SCANNING"
      /\ obs_state' \in States /\ work[p].ev.kind \in ObsEvents
      /\ Return(p, {}, {Ev("obs_scanning_timer")}, {}, None)
  BY DEF ScanStarted, Accepted, Handles, ObsEvents, States, Active
<1>2. work[p].ev # None
  BY <1>1, SomethingInHand
<1>3. TimerOf["SCANNING"] = "obs_scanning_timer" /\ Ev("obs_scanning_timer") # None
  BY DEF TimerOf, Ev, None
<1>4. QED BY <1>1, <1>2, <1>3, Returned

\* An ABORTED observation is watched by the timer that releases it.
LEMMA Aborted ==
  ASSUME WatchedInv, NEW p, Procs = {p}, Abort(p)
  PROVE  WatchedInv'
<1>1. /\ UNCHANGED <<queue, timers, block>> /\ obs_state' = "ABORTED"
      /\ obs_state' \in States /\ work[p].ev.kind \in ObsEvents
  BY DEF Abort, Accepted, Handles, ObsEvents, States, Active
<1>2. work[p].ev # None
  BY <1>1, SomethingInHand
<1>3. block # "millisecond"
  BY DEF WatchedInv, BlockInv
<1>4. \E stop, msgs : Return(p, stop, {Ev("obs_abort_timer")}, msgs, None)
  BY <1>3 DEF Abort
<1>5. TimerOf["ABORTED"] = "obs_abort_timer" /\ Ev("obs_abort_timer") # None
  BY DEF TimerOf, Ev, None
<1>6. QED BY <1>1, <1>2, <1>4, <1>5, Returned

\* The timer of the present state brings a transition, or runs again during a slew; one
\* of an earlier state is of no concern.
LEMMA TimerHandled ==
  ASSUME WatchedInv, NEW p, Procs = {p}, Expired(p)
  PROVE  WatchedInv'
<1>1. /\ UNCHANGED <<queue, timers, block>> /\ obs_state' = obs_state
      /\ obs_state \in States /\ work[p].ev.kind \in ObsTimers
  BY DEF Expired, obs, WatchedInv, WatchInv
<1>2. work[p].ev # None
  BY <1>1, SomethingInHand DEF TimerKinds
<1>3. CASE work[p].ev.kind = "obs_configuring_timer" /\ obs_state = "CONFIGURING"
  <2>1. \/ Return(p, {}, {Ev("obs_configuring_timer")}, {}, None)
        \/ Return(p, {}, {}, {}, Ev("ABORT"))
    BY <1>3 DEF Expired, Handles
  <2>2. /\ TimerOf["CONFIGURING"] = "obs_configuring_timer" /\ Ev("obs_configuring_timer") # None
        /\ Ev("ABORT").kind \in Calls["CONFIGURING"]
    BY DEF TimerOf, Calls, Ev, None
  <2>3. QED BY <1>1, <1>2, <1>3, <2>1, <2>2, Returned
<1>4. CASE work[p].ev.kind = "obs_scanning_timer" /\ obs_state = "SCANNING"
  <2>1. Return(p, {}, {}, {}, Ev("SCAN_ENDED"))
    BY <1>4 DEF Expired, Handles
  <2>2. Ev("SCAN_ENDED").kind \in Calls["SCANNING"]
    BY DEF Calls, Ev
  <2>3. QED BY <1>1, <1>2, <1>4, <2>1, <2>2, Returned
<1>5. CASE work[p].ev.kind = "obs_abort_timer" /\ obs_state = "ABORTED"
  <2>1. Return(p, {}, {}, {}, Ev("RELEASE_RESOURCES"))
    BY <1>5 DEF Expired, Handles
  <2>2. Ev("RELEASE_RESOURCES").kind \in Calls["ABORTED"]
    BY DEF Calls, Ev
  <2>3. QED BY <1>1, <1>2, <1>5, <2>1, <2>2, Returned
<1>6. CASE /\ ~(work[p].ev.kind = "obs_configuring_timer" /\ obs_state = "CONFIGURING")
           /\ ~(work[p].ev.kind = "obs_scanning_timer" /\ obs_state = "SCANNING")
           /\ ~(work[p].ev.kind = "obs_abort_timer" /\ obs_state = "ABORTED")
  <2>1. Return(p, {}, {}, {}, None)
    BY <1>6 DEF Expired, Handles
  <2>2. work[p].ev.kind \notin Calls[obs_state]
    <3>1. SUFFICES ASSUME TimerOf[obs_state] = work[p].ev.kind PROVE FALSE
      BY <1>1, EventKinds
    <3>2. QED BY <1>1, <1>6, <3>1 DEF TimerOf, States, Active, ObsTimers
  <2>3. QED BY <1>1, <1>2, <2>1, <2>2, Returned
<1>7. QED BY <1>3, <1>4, <1>5, <1>6

\* Messages, and timers of requests: none of them is what an observation waits for.
LEMMA OtherHandled ==
  ASSUME WatchedInv, NEW p, Procs = {p},
         \/ RequestTimedOut(p) \/ Applied(p) \/ Acquires(p) \/ ScanComplete(p)
         \/ ErrorMsg(p) \/ DigError(p) \/ OperatorReset(p)
  PROVE  WatchedInv'
<1>1. /\ UNCHANGED <<queue, timers, block>> /\ obs_state' = obs_state
      /\ work[p].ev.kind \in OtherEvents \cup ConfigTimers \cup AcquireTimers
  BY DEF RequestTimedOut, Applied, Acquires, ScanComplete, ErrorMsg, DigError, OperatorReset, obs,
         Handles, OtherEvents, ConfigTimers, AcquireTimers
<1>2. work[p].ev # None /\ obs_state \in States /\ work[p].ev.kind \notin Calls[obs_state]
  BY <1>1, SomethingInHand, EventKinds DEF TimerKinds, WatchedInv, WatchInv
<1>3. \A k, s : Ev(TimerOf[obs_state]) = About(k, s) => k \notin ConfigTimers \cup AcquireTimers
  BY <1>2, EventKinds DEF Ev, About
<1>4. CASE \E stop, start, msgs, next :
              /\ Return(p, stop, start, msgs, next)
              /\ stop \in {{}, Answered(ConfigTimers, work[p].ev.scan),
                           Answered(AcquireTimers, work[p].ev.scan)}
  <2>1. PICK stop, start, msgs, next :
              /\ Return(p, stop, start, msgs, next)
              /\ stop \in {{}, Answered(ConfigTimers, work[p].ev.scan),
                           Answered(AcquireTimers, work[p].ev.scan)}
    BY <1>4
  <2>2. Ev(TimerOf[obs_state]) \notin stop
    BY <1>3, <2>1 DEF Answered
  <2>3. QED BY <1>1, <1>2, <2>1, <2>2, Returned
<1>5. CASE RequestTimedOut(p) /\ (Handles(p, "config_retry") \/ Handles(p, "acquire_retry"))
  <2>1. PICK start, msgs, r : /\ r = [Idle EXCEPT !.start = start, !.msgs = msgs]
                              /\ work' = [work EXCEPT ![p] = r]
    <3>1. CASE Handles(p, "config_retry")
      BY <1>5, <3>1, Zenon DEF RequestTimedOut, Handles
    <3>2. CASE Handles(p, "acquire_retry")
      BY <1>5, <3>2, Zenon DEF RequestTimedOut, Handles
    <3>3. QED BY <1>5, <3>1, <3>2
  <2>3. DOMAIN r = Fields /\ r.ev = None /\ r.stop = {}
    BY <2>1 DEF Idle, Fields
  <2>4. QED BY <1>1, <1>2, <2>1, <2>3, Handled
<1>6. QED BY <1>4, <1>5
          DEF RequestTimedOut, Applied, Acquires, ScanComplete, ErrorMsg, DigError, OperatorReset

\* Timers are stopped and started.
LEMMA TimersPerformed ==
  ASSUME WatchedInv, NEW p, Procs = {p}, PerformTimers(p)
  PROVE  WatchedInv'
<1>. USE DEF WatchedInv
<1>1. /\ timers' = (timers \ work[p].stop) \cup work[p].start
      /\ work' = [work EXCEPT ![p].stop = {}, ![p].start = {}]
      /\ UNCHANGED <<obs_state, queue, block>>
  BY DEF PerformTimers, obs
<1>2. PICK r : r = [work[p] EXCEPT !.stop = {}, !.start = {}]
  OBVIOUS
<1>3. /\ DOMAIN r = Fields /\ r.stop = {} /\ r.start = {} /\ r.ev = work[p].ev
      /\ r.next = work[p].next
  BY <1>2 DEF HandsInv, Fields
<1>4. DOMAIN work' = Procs /\ work'[p] = r
  BY <1>1, <1>2 DEF HandsInv
<1>5. QueueInv' /\ HandsInv' /\ BlockInv'
  BY <1>1, <1>3, <1>4 DEF QueueInv, HandsInv, BlockInv
<1>6. Called(Calls[obs_state]) => Called(Calls[obs_state])'
  BY <1>1, <1>3, <1>4 DEF Called
<1>7. Runs(Ev(TimerOf[obs_state])) => Runs(Ev(TimerOf[obs_state]))'
  BY <1>1, <1>3, <1>4 DEF Runs
<1>8. QED BY <1>1, <1>5, <1>6, <1>7 DEF WatchInv

\* Messages are sent.
LEMMA MessagesPerformed ==
  ASSUME WatchedInv, NEW p, Procs = {p}, PerformMessages(p)
  PROVE  WatchedInv'
<1>. USE DEF WatchedInv
<1>1. /\ work' = [work EXCEPT ![p].msgs = {}]
      /\ UNCHANGED <<obs_state, queue, block, timers>>
  BY DEF PerformMessages, obs
<1>2. PICK r : r = [work[p] EXCEPT !.msgs = {}]
  OBVIOUS
<1>3. /\ DOMAIN r = Fields /\ r.stop = work[p].stop /\ r.start = work[p].start
      /\ r.ev = work[p].ev /\ r.next = work[p].next
  BY <1>2 DEF HandsInv, Fields
<1>4. DOMAIN work' = Procs /\ work'[p] = r
  BY <1>1, <1>2 DEF HandsInv
<1>5. QueueInv' /\ HandsInv' /\ BlockInv'
  BY <1>1, <1>3, <1>4 DEF QueueInv, HandsInv, BlockInv
<1>6. Called(Calls[obs_state]) => Called(Calls[obs_state])'
  BY <1>1, <1>3, <1>4 DEF Called
<1>7. Runs(Ev(TimerOf[obs_state])) => Runs(Ev(TimerOf[obs_state]))'
  BY <1>1, <1>3, <1>4 DEF Runs
<1>8. QED BY <1>1, <1>5, <1>6, <1>7 DEF WatchInv

\* The transition a handler returned joins the queue.
LEMMA TransitionPerformed ==
  ASSUME WatchedInv, NEW p, Procs = {p}, PerformTransition(p)
  PROVE  WatchedInv'
<1>. USE DEF WatchedInv
<1>1. /\ work' = [work EXCEPT ![p].next = None] /\ queue' = Append(queue, work[p].next)
      /\ UNCHANGED <<obs_state, block, timers>>
  BY DEF PerformTransition, obs
<1>2. PICK r : r = [work[p] EXCEPT !.next = None]
  OBVIOUS
<1>3. /\ DOMAIN r = Fields /\ r.stop = work[p].stop /\ r.start = work[p].start
      /\ r.ev = work[p].ev /\ r.next = None
  BY <1>2 DEF HandsInv, Fields
<1>4. DOMAIN work' = Procs /\ work'[p] = r
  BY <1>1, <1>2 DEF HandsInv
<1>5. QueueInv' /\ Range(queue') = Range(queue) \cup {work[p].next}
  BY <1>1, QueueAppended DEF QueueInv
<1>6. HandsInv' /\ BlockInv'
  BY <1>1, <1>3, <1>4 DEF HandsInv, BlockInv
<1>7. Called(Calls[obs_state]) => Called(Calls[obs_state])'
  BY <1>1, <1>3, <1>4, <1>5 DEF Called
<1>8. Runs(Ev(TimerOf[obs_state])) => Runs(Ev(TimerOf[obs_state]))'
  BY <1>1, <1>3, <1>4 DEF Runs
<1>9. QED BY <1>1, <1>5, <1>6, <1>7, <1>8 DEF WatchInv

\* Time, the devices, other observations and the operator.
LEMMA Surrounded ==
  ASSUME WatchedInv, Millisecond = FALSE,
         \/ \E t \in Timers : TimerFires(t)
         \/ BlockPasses \/ SlewEnds \/ DeviceAnswers \/ DigitiserAnswers \/ DeviceProgress
         \/ DeviceFails
         \/ \E s \in Scans : SdpReports(s)
         \/ \E kind \in FaultKinds : Reported(kind)
         \/ OtherReleases
  PROVE  WatchedInv'
<1>1. block \in {"running", "over"}
  BY DEF WatchedInv, BlockInv
<1>2. ASSUME NEW t \in Timers, TimerFires(t) PROVE WatchedInv'
  <2>1. /\ queue' = Append(queue, t) /\ UNCHANGED <<obs, work>> /\ block' = block
        /\ timers' = timers \ {t}
    BY <1>2 DEF TimerFires, Arrives
  <2>2. QED BY <1>1, <2>1, Arrived
<1>3. CASE BlockPasses \/ SlewEnds
  <2>1. UNCHANGED <<obs, work, queue, timers>> /\ block' \in {"running", "over"}
    BY <1>1, <1>3 DEF BlockPasses, SlewEnds
  <2>2. QED BY <2>1, Elsewhere
<1>4. CASE \/ DeviceAnswers \/ DigitiserAnswers \/ DeviceProgress \/ DeviceFails
           \/ \E s \in Scans : SdpReports(s)
           \/ \E kind \in FaultKinds : Reported(kind)
           \/ OtherReleases
  <2>1. UNCHANGED <<obs, work, block, timers>>
    BY <1>4 DEF DeviceAnswers, DigitiserAnswers, DeviceProgress, DeviceFails, SdpReports,
                Reported, OtherReleases, Arrives
  <2>2. queue' = queue \/ \E ev : queue' = Append(queue, ev)
    BY <1>4 DEF DeviceAnswers, DigitiserAnswers, DeviceProgress, DeviceFails, SdpReports,
                Reported, OtherReleases, Arrives
  <2>3. CASE queue' = queue
    BY <1>1, <2>1, <2>3, Elsewhere
  <2>4. CASE \E ev : queue' = Append(queue, ev)
    BY <1>1, <2>1, <2>4, Arrived
  <2>5. QED BY <2>2, <2>3, <2>4
<1>5. QED BY <1>2, <1>3, <1>4

\* The observation starts with START in the queue.
LEMMA WatchStarts == Init => WatchedInv
<1>. SUFFICES ASSUME Init PROVE WatchedInv
  OBVIOUS
<1>1. queue = <<Ev("START")>> /\ obs_state = "EMPTY" /\ block = "running"
      /\ work = [p \in Procs |-> Idle]
  BY DEF Init
<1>2. Range(queue) = {Ev("START")}
  BY <1>1 DEF Range
<1>3. QueueInv
  BY <1>1, <1>2 DEF QueueInv
<1>4. HandsInv
  BY <1>1 DEF HandsInv, Idle, Fields
<1>5. Called(Calls["EMPTY"])
  BY <1>2 DEF Called, Calls, Ev
<1>6. QED BY <1>1, <1>3, <1>4, <1>5 DEF WatchedInv, WatchInv, BlockInv, States

\* No step leaves an observation waiting for nothing.
LEMMA WatchIsKept ==
  ASSUME WatchedInv, NEW p, Procs = {p}, Millisecond = FALSE, [Next]_vars
  PROVE  WatchedInv'
<1>1. CASE UNCHANGED vars
  <2>1. UNCHANGED <<obs, work, queue, timers>> /\ block' \in {"running", "over"}
    BY <1>1 DEF vars, obs, WatchedInv, BlockInv
  <2>2. QED BY <2>1, Elsewhere
<1>2. CASE Process(p)
  BY <1>2, TakenUp, Ignored, Rested, Configured, MadeReady, Begun, Aborted, TimerHandled,
     OtherHandled, TimersPerformed, MessagesPerformed, TransitionPerformed
  DEF Process
<1>3. CASE Next /\ ~Process(p)
  BY <1>3, Surrounded DEF Next
<1>4. QED BY <1>1, <1>2, <1>3

\* Once the workflow is quiet no event is on its way, so the timer runs.
LEMMA WatchedIsWaiting ==
  ASSUME WatchedInv, NEW p, Procs = {p}
  PROVE  WaitingIsWatched
<1>1. SUFFICES ASSUME Quiet
               PROVE  /\ obs_state \notin {"EMPTY", "READY"}
                      /\ obs_state = "CONFIGURING" => Ev("obs_configuring_timer") \in timers
                      /\ obs_state = "SCANNING" => Ev("obs_scanning_timer") \in timers
                      /\ obs_state = "ABORTED" => Ev("obs_abort_timer") \in timers
  BY DEF WaitingIsWatched, ConfiguringIsTimed, ScanningIsTimed, AbortedIsTimed
<1>2. Range(queue) = {} /\ work[p] = Idle
  BY <1>1 DEF Quiet, Range
<1>3. obs_state \in States
  BY DEF WatchedInv, WatchInv
<1>4. ~Called(Calls[obs_state])
  <2>1. "none" \notin Calls[obs_state]
    BY <1>3 DEF Calls, States, Active
  <2>2. QED BY <1>2, <2>1 DEF Called, Idle, None, Ev
<1>5. obs_state # "IDLE" => /\ Ev(TimerOf[obs_state]) \in timers
                            /\ Ev(TimerOf[obs_state]) # None
  BY <1>2, <1>4 DEF WatchedInv, WatchInv, Runs, Idle
<1>6. obs_state \notin {"EMPTY", "READY"}
  BY <1>5 DEF TimerOf, None
<1>7. QED BY <1>5, <1>6 DEF TimerOf

\* Once the workflow is quiet, an observation that waits for devices, for the end of a
\* scan or for its release has the timer that ends the wait, and READY has its next
\* transition under way (process_obs_event and the timers of tm.py).  With one processor,
\* and when no ABORT falls into the millisecond after the block.
THEOREM WaitingWatched ==
  ASSUME NEW p, Procs = {p}, Millisecond = FALSE
  PROVE  Spec => []WaitingIsWatched
<1>1. WatchedInv /\ [Next]_vars => WatchedInv'
  BY WatchIsKept
<1>2. WatchedInv => WaitingIsWatched
  BY WatchedIsWaiting
<1>3. QED BY WatchStarts, <1>1, <1>2, PTL DEF Spec

-----------------------------------------------------------------------------
(* The digitiser: the last word about its acquisition is on its way.         *)

\* The last answer about the acquisition in a queue.
Latest(q, s) ==
    \E i \in DOMAIN q : /\ q[i].kind = "Acquires" /\ q[i].scan = s
                        /\ \A j \in DOMAIN q : j > i => q[j].kind # "Acquires"

\* No answer about the acquisition is in a queue.
Unanswered(q) == \A i \in DOMAIN q : q[i].kind # "Acquires"

\* The last thing said about the acquisition agrees with the digitiser: the request it
\* owes an answer to last, else the last answer in the queue, in hand or in the model.
LastWord ==
    IF owed # <<>> THEN Last(owed) = dig
    ELSE \/ Latest(queue, dig)
         \/ /\ Unanswered(queue)
            /\ \A p \in Procs : IF work[p].ev.kind = "Acquires" THEN work[p].ev.scan = dig
                                                               ELSE scanning = dig

\* No handler returns an answer of the digitiser.
RepliesInv ==
    /\ DOMAIN work = Procs
    /\ \A p \in Procs : DOMAIN work[p] = Fields /\ work[p].next.kind # "Acquires"

\* Requests to acquire are a sequence.
OwedInv == owed \in Seq(Range(owed))

\* The inductive invariant behind ModelFollowsDigitiser.
FollowedInv == QueueInv /\ OwedInv /\ RepliesInv /\ LastWord

\* What is appended comes last.
LEMMA LatestAppended ==
  ASSUME NEW q, q \in Seq(Range(q)), NEW e, NEW s
  PROVE  /\ e.kind # "Acquires" => /\ Latest(q, s) => Latest(Append(q, e), s)
                                   /\ Unanswered(q) => Unanswered(Append(q, e))
         /\ (e.kind = "Acquires" /\ e.scan = s) => Latest(Append(q, e), s)
<1>1. PICK a : a = Append(q, e)
  OBVIOUS
<1>2. PICK S : S = Range(q) \cup {e}
  OBVIOUS
<1>3. q \in Seq(S)
  BY <1>2, Range(q) \subseteq S
<1>4. /\ Len(q) \in Nat /\ DOMAIN q = 1..Len(q) /\ DOMAIN a = 1..(Len(q) + 1)
      /\ \A i \in 1..Len(q) : a[i] = q[i]
      /\ a[Len(q) + 1] = e
  BY <1>1, <1>2, <1>3
<1>5. ASSUME e.kind # "Acquires", Latest(q, s) PROVE Latest(a, s)
  BY <1>4, <1>5 DEF Latest
<1>6. ASSUME e.kind # "Acquires", Unanswered(q) PROVE Unanswered(a)
  BY <1>4, <1>6 DEF Unanswered
<1>7. ASSUME e.kind = "Acquires", e.scan = s PROVE Latest(a, s)
  <2>1. Len(q) + 1 \in DOMAIN a /\ \A j \in DOMAIN a : ~(j > Len(q) + 1)
    BY <1>4
  <2>2. QED BY <1>4, <1>7, <2>1 DEF Latest
<1>8. QED BY <1>1, <1>5, <1>6, <1>7

\* The last answer stays the last when the head of the queue is taken, unless it is the
\* head itself.
LEMMA LatestTaken ==
  ASSUME NEW q, q \in Seq(Range(q)), q # <<>>, NEW s
  PROVE  /\ Latest(q, s) => \/ Latest(Tail(q), s)
                            \/ /\ Unanswered(Tail(q))
                               /\ Head(q).kind = "Acquires" /\ Head(q).scan = s
         /\ Unanswered(q) => Unanswered(Tail(q)) /\ Head(q).kind # "Acquires"
<1>1. PICK t : t = Tail(q)
  OBVIOUS
<1>2. PICK S : S = Range(q)
  OBVIOUS
<1>3. /\ t \in Seq(S) /\ Len(t) = Len(q) - 1 /\ \A i \in 1..Len(t) : t[i] = q[i + 1]
  BY <1>1, <1>2, HeadTailProperties
<1>4. /\ Len(q) \in Nat \ {0} /\ DOMAIN q = 1..Len(q) /\ DOMAIN t = 1..(Len(q) - 1)
      /\ Head(q) = q[1] /\ \A i \in 1..(Len(q) - 1) : t[i] = q[i + 1]
  BY <1>2, <1>3
<1>5. ASSUME Latest(q, s)
      PROVE  \/ Latest(t, s)
             \/ Unanswered(t) /\ Head(q).kind = "Acquires" /\ Head(q).scan = s
  <2>1. PICK i \in 1..Len(q) : /\ q[i].kind = "Acquires" /\ q[i].scan = s
                               /\ \A j \in 1..Len(q) : j > i => q[j].kind # "Acquires"
    BY <1>4, <1>5 DEF Latest
  <2>2. CASE i = 1
    <3>1. \A j \in 1..(Len(q) - 1) : j + 1 \in 1..Len(q) /\ j + 1 > i
      BY <1>4, <2>2
    <3>2. QED BY <1>4, <2>1, <2>2, <3>1 DEF Unanswered
  <2>3. CASE i # 1
    <3>1. PICK k \in 1..(Len(q) - 1) : k + 1 = i
      <4>1. i - 1 \in 1..(Len(q) - 1) /\ (i - 1) + 1 = i
        BY <1>4, <2>3
      <4>2. QED BY <4>1
    <3>2. \A j \in 1..(Len(q) - 1) : j + 1 \in 1..Len(q) /\ (j > k => j + 1 > i)
      BY <1>4, <3>1
    <3>3. t[k] = q[i] /\ \A j \in 1..(Len(q) - 1) : j > k => t[j].kind # "Acquires"
      BY <1>4, <2>1, <3>1, <3>2
    <3>4. QED BY <1>4, <2>1, <3>1, <3>3 DEF Latest
  <2>4. QED BY <2>2, <2>3
<1>6. ASSUME Unanswered(q) PROVE Unanswered(t) /\ Head(q).kind # "Acquires"
  <2>1. 1 \in 1..Len(q) /\ \A j \in 1..(Len(q) - 1) : j + 1 \in 1..Len(q)
    BY <1>4
  <2>2. QED BY <1>4, <1>6, <2>1 DEF Unanswered
<1>7. QED BY <1>1, <1>5, <1>6

\* The digitiser is told nothing and nothing of what it says is handled.
LEMMA NothingSaid ==
  ASSUME FollowedInv, NEW p, Procs = {p}, UNCHANGED <<dig, owed, scanning>>,
         queue' = queue \/ \E e : queue' = Append(queue, e) /\ e.kind # "Acquires",
         DOMAIN work' = Procs,
         NEW r, work'[p] = r, DOMAIN r = Fields, r.next.kind # "Acquires",
         r.ev = work[p].ev \/ (work[p].ev.kind # "Acquires" /\ r.ev.kind # "Acquires")
  PROVE  FollowedInv'
<1>. USE DEF FollowedInv
<1>1. OwedInv' /\ RepliesInv'
  BY DEF OwedInv, RepliesInv
<1>2. /\ QueueInv' /\ (Latest(queue, dig) => Latest(queue, dig)')
      /\ Unanswered(queue) => Unanswered(queue)'
  <2>1. CASE queue' = queue
    BY <2>1 DEF QueueInv, Latest, Unanswered
  <2>2. CASE \E e : queue' = Append(queue, e) /\ e.kind # "Acquires"
    <3>1. PICK e : queue' = Append(queue, e) /\ e.kind # "Acquires"
      BY <2>2
    <3>2. queue \in Seq(Range(queue))
      BY DEF QueueInv
    <3>3. QueueInv'
      BY <3>1, <3>2, QueueAppended DEF QueueInv
    <3>4. PICK a : a = queue'
      OBVIOUS
    <3>5. /\ Latest(queue, dig) => Latest(a, dig)
          /\ Unanswered(queue) => Unanswered(a)
      BY <3>1, <3>2, <3>4, LatestAppended
    <3>6. QED BY <3>3, <3>4, <3>5 DEF Latest, Unanswered
  <2>3. QED BY <2>1, <2>2
<1>3. LastWord'
  BY <1>2 DEF LastWord
<1>4. QED BY <1>1, <1>2, <1>3

\* What handlers return, other than the one of the digitiser's answer.
LEMMA ReturnedReply ==
  ASSUME FollowedInv, NEW p, Procs = {p}, UNCHANGED <<dig, owed, scanning, queue>>,
         NEW stop, NEW start, NEW msgs, NEW next, Return(p, stop, start, msgs, next),
         next.kind # "Acquires", work[p].ev.kind # "Acquires"
  PROVE  FollowedInv'
<1>1. PICK r : r = [ev |-> None, stop |-> stop, start |-> start \cup Retry(msgs), msgs |-> msgs,
                    next |-> next]
  OBVIOUS
<1>2. DOMAIN r = Fields /\ r.ev.kind = "none" /\ r.next = next
  BY <1>1 DEF Fields, None, Ev
<1>3. DOMAIN work' = Procs /\ work'[p] = r
  BY <1>1 DEF Return, FollowedInv, RepliesInv
<1>4. QED BY <1>2, <1>3, NothingSaid

\* The transitions that are returned.
LEMMA NextEvents ==
  /\ None.kind # "Acquires"
  /\ \A k \in ObsEvents : Ev(k).kind # "Acquires"
BY DEF None, Ev, ObsEvents

\* Transitions of the observation.
LEMMA Steered ==
  ASSUME FollowedInv, NEW p, Procs = {p},
         \/ Ignore(p) \/ Start(p) \/ AssignResources(p) \/ ReleaseResources(p)
         \/ ConfigureResources(p) \/ Ready(p) \/ ScanStarted(p) \/ ScanDone(p) \/ Abort(p)
         \/ Reset(p)
  PROVE  FollowedInv'
<1>1. UNCHANGED <<dig, owed, scanning, queue>>
  BY DEF Ignore, Start, AssignResources, ReleaseResources, ConfigureResources, Ready, ScanStarted,
         ScanDone, Abort, Reset, devices
<1>2. work[p].ev.kind \in ObsEvents
  BY DEF Ignore, Start, AssignResources, ReleaseResources, ConfigureResources, Ready, ScanStarted,
         ScanDone, Abort, Reset, Accepted, Handles, ObsEvents
<1>3. work[p].ev.kind # "Acquires"
  BY <1>2 DEF ObsEvents
<1>4. \E stop, start, msgs, next : /\ Return(p, stop, start, msgs, next)
                                   /\ \/ next = None
                                      \/ \E k \in ObsEvents : next = Ev(k)
  <2>1. CASE Ignore(p) \/ ReleaseResources(p) \/ ScanStarted(p) \/ Abort(p)
    BY <2>1 DEF Ignore, ReleaseResources, ScanStarted, Abort
  <2>2. CASE Start(p) \/ AssignResources(p) \/ Reset(p)
    BY <2>2 DEF Start, AssignResources, Reset, ObsEvents
  <2>3. CASE ConfigureResources(p)
    BY <2>3 DEF ConfigureResources, ObsEvents
  <2>4. CASE Ready(p) \/ ScanDone(p)
    BY <2>4 DEF Ready, ScanDone, ObsEvents
  <2>5. QED BY <2>1, <2>2, <2>3, <2>4
<1>5. QED BY <1>1, <1>3, <1>4, NextEvents, ReturnedReply

\* Timers, messages of other devices, and reports.
LEMMA Reacted ==
  ASSUME FollowedInv, NEW p, Procs = {p},
         \/ Expired(p) \/ Applied(p) \/ ScanComplete(p) \/ ErrorMsg(p) \/ DigError(p)
         \/ OperatorReset(p) \/ RequestTimedOut(p)
  PROVE  FollowedInv'
<1>1. UNCHANGED <<dig, owed, scanning, queue>>
  BY DEF Expired, Applied, ScanComplete, ErrorMsg, DigError, OperatorReset, RequestTimedOut,
         devices, digitiser
<1>2. work[p].ev.kind # "Acquires"
  BY DEF Expired, Applied, ScanComplete, ErrorMsg, DigError, OperatorReset, RequestTimedOut,
         Handles, ObsTimers
<1>3. CASE \E stop, start, msgs, next : /\ Return(p, stop, start, msgs, next)
                                        /\ \/ next = None
                                           \/ \E k \in ObsEvents : next = Ev(k)
  BY <1>1, <1>2, <1>3, NextEvents, ReturnedReply
<1>4. CASE RequestTimedOut(p) /\ (Handles(p, "config_retry") \/ Handles(p, "acquire_retry"))
  <2>1. PICK start, msgs, r : /\ r = [Idle EXCEPT !.start = start, !.msgs = msgs]
                              /\ work' = [work EXCEPT ![p] = r]
    <3>1. CASE Handles(p, "config_retry")
      BY <1>4, <3>1, Zenon DEF RequestTimedOut, Handles
    <3>2. CASE Handles(p, "acquire_retry")
      BY <1>4, <3>2, Zenon DEF RequestTimedOut, Handles
    <3>3. QED BY <1>4, <3>1, <3>2
  <2>2. DOMAIN r = Fields /\ r.ev = None /\ r.next = None
    BY <2>1 DEF Idle, Fields
  <2>3. DOMAIN work' = Procs /\ work'[p] = r
    BY <2>1 DEF FollowedInv, RepliesInv
  <2>4. QED BY <1>1, <1>2, <2>2, <2>3, NextEvents, NothingSaid
<1>5. CASE Expired(p)
  <2>1. \E start, next : /\ Return(p, {}, start, {}, next)
                         /\ \/ next = None
                            \/ \E k \in ObsEvents : next = Ev(k)
    BY <1>5 DEF Expired, ObsEvents
  <2>2. QED BY <1>3, <2>1
<1>6. CASE ~Expired(p) /\ ~(RequestTimedOut(p) /\ (Handles(p, "config_retry")
                                                     \/ Handles(p, "acquire_retry")))
  <2>1. \E stop, next : /\ Return(p, stop, {}, {}, next)
                        /\ \/ next = None
                           \/ \E k \in ObsEvents : next = Ev(k)
    BY <1>6 DEF Applied, ScanComplete, ErrorMsg, DigError, OperatorReset, RequestTimedOut,
                LookAgain, ObsEvents
  <2>2. QED BY <1>3, <2>1
<1>7. QED BY <1>4, <1>5, <1>6

\* A processor takes an event, perhaps the last answer.
LEMMA TakenOver ==
  ASSUME FollowedInv, NEW p, Procs = {p}, Take(p)
  PROVE  FollowedInv'
<1>. USE DEF FollowedInv
<1>1. /\ work[p] = Idle /\ queue # <<>> /\ queue' = Tail(queue)
      /\ work' = [work EXCEPT ![p].ev = Head(queue)]
      /\ UNCHANGED <<dig, owed, scanning>>
  BY DEF Take, devices
<1>2. PICK r : r = [work[p] EXCEPT !.ev = Head(queue)]
  OBVIOUS
<1>3. /\ DOMAIN r = Fields /\ r.ev = Head(queue) /\ r.next = None
      /\ work[p].ev.kind = "none"
  BY <1>1, <1>2 DEF Idle, Fields, None, Ev
<1>4. DOMAIN work' = Procs /\ work'[p] = r
  BY <1>1, <1>2 DEF RepliesInv
<1>5. RepliesInv' /\ OwedInv'
  BY <1>1, <1>3, <1>4, NextEvents DEF RepliesInv, OwedInv
<1>6. QueueInv'
  BY <1>1, QueueTaken DEF QueueInv
<1>7. PICK t : t = Tail(queue)
  OBVIOUS
<1>8. /\ Latest(queue, dig) => \/ Latest(t, dig)
                               \/ /\ Unanswered(t)
                                  /\ Head(queue).kind = "Acquires" /\ Head(queue).scan = dig
      /\ Unanswered(queue) => Unanswered(t) /\ Head(queue).kind # "Acquires"
  BY <1>1, <1>7, LatestTaken DEF QueueInv
<1>9. /\ (Latest(queue, dig)' <=> Latest(t, dig))
      /\ (Unanswered(queue)' <=> Unanswered(t))
  BY <1>1, <1>7 DEF Latest, Unanswered
<1>10. LastWord'
  BY <1>1, <1>3, <1>4, <1>8, <1>9 DEF LastWord
<1>11. QED BY <1>5, <1>6, <1>10

\* An answer of the digitiser enters its model.
LEMMA DigitiserHeard ==
  ASSUME FollowedInv, NEW p, Procs = {p}, Acquires(p)
  PROVE  FollowedInv'
<1>. USE DEF FollowedInv
<1>1. /\ work[p].ev.kind = "Acquires" /\ scanning' = work[p].ev.scan
      /\ UNCHANGED <<dig, owed, queue>>
      /\ Return(p, Answered(AcquireTimers, work[p].ev.scan), {}, {}, LookAgain)
  BY DEF Acquires, Handles
<1>2. LookAgain.kind # "Acquires"
  BY NextEvents DEF LookAgain, ObsEvents
<1>3. PICK next : next = LookAgain
  OBVIOUS
<1>4. PICK r : r = [ev |-> None, stop |-> Answered(AcquireTimers, work[p].ev.scan),
                    start |-> {} \cup Retry({}), msgs |-> {}, next |-> next]
  OBVIOUS
<1>5. DOMAIN r = Fields /\ r.ev.kind = "none" /\ r.next.kind # "Acquires"
  BY <1>2, <1>3, <1>4 DEF Fields, None, Ev
<1>6. DOMAIN work' = Procs /\ work'[p] = r
  BY <1>1, <1>3, <1>4 DEF Return, RepliesInv
<1>7. QueueInv' /\ OwedInv' /\ RepliesInv'
  BY <1>1, <1>5, <1>6 DEF QueueInv, OwedInv, RepliesInv
<1>8. LastWord'
  BY <1>1, <1>5, <1>6 DEF LastWord, Latest, Unanswered
<1>9. QED BY <1>7, <1>8

\* Timers and transitions are performed.
LEMMA Performed ==
  ASSUME FollowedInv, NEW p, Procs = {p}, PerformTimers(p) \/ PerformTransition(p)
  PROVE  FollowedInv'
<1>1. UNCHANGED <<dig, owed, scanning>>
  BY DEF PerformTimers, PerformTransition, devices
<1>2. DOMAIN work = Procs /\ DOMAIN work[p] = Fields /\ work[p].next.kind # "Acquires"
  BY DEF FollowedInv, RepliesInv
<1>3. queue' = queue \/ \E e : queue' = Append(queue, e) /\ e.kind # "Acquires"
  BY <1>2 DEF PerformTimers, PerformTransition
<1>4. PICK r : /\ work' = [work EXCEPT ![p] = r]
               /\ \/ r = [work[p] EXCEPT !.stop = {}, !.start = {}]
                  \/ r = [work[p] EXCEPT !.next = None]
  BY DEF PerformTimers, PerformTransition
<1>5. DOMAIN r = Fields /\ r.ev = work[p].ev /\ r.next.kind # "Acquires"
  BY <1>2, <1>4, NextEvents DEF Fields
<1>6. DOMAIN work' = Procs /\ work'[p] = r
  BY <1>2, <1>4
<1>7. QED BY <1>1, <1>3, <1>5, <1>6, NothingSaid

\* Mutual: the digitiser is told, and owes the answer last.
LEMMA DigitiserTold ==
  ASSUME FollowedInv, NEW p, Procs = {p}, PerformMessages(p)
  PROVE  FollowedInv'
<1>. USE DEF FollowedInv
<1>1. /\ work' = [work EXCEPT ![p].msgs = {}] /\ UNCHANGED <<queue, scanning>>
  BY DEF PerformMessages
<1>2. DOMAIN work = Procs /\ DOMAIN work[p] = Fields /\ work[p].next.kind # "Acquires"
  BY DEF RepliesInv
<1>3. PICK r : r = [work[p] EXCEPT !.msgs = {}]
  OBVIOUS
<1>4. DOMAIN r = Fields /\ r.ev = work[p].ev /\ r.next.kind # "Acquires"
  BY <1>2, <1>3 DEF Fields
<1>5. DOMAIN work' = Procs /\ work'[p] = r
  BY <1>1, <1>2, <1>3
<1>6. CASE UNCHANGED <<dig, owed>>
  BY <1>1, <1>4, <1>5, <1>6, NothingSaid
<1>7. CASE \E s : /\ dig' = s
                  /\ \/ owed # <<>> /\ Last(owed) = s /\ owed' = owed
                     \/ owed' = Append(owed, s)
  <2>1. PICK s : /\ dig' = s
                 /\ \/ owed # <<>> /\ Last(owed) = s /\ owed' = owed
                    \/ owed' = Append(owed, s)
    BY <1>7
  <2>2. owed' # <<>> /\ Last(owed)' = s /\ OwedInv'
    <3>1. CASE owed # <<>> /\ Last(owed) = s /\ owed' = owed
      BY <3>1 DEF OwedInv, Last
    <3>2. CASE owed' = Append(owed, s)
      <4>1. PICK S : S = Range(owed) \cup {s}
        OBVIOUS
      <4>2. owed \in Seq(S)
        BY <4>1, Range(owed) \subseteq S DEF OwedInv
      <4>3. /\ Len(owed') = Len(owed) + 1 /\ Len(owed) \in Nat
            /\ owed'[Len(owed) + 1] = s /\ owed' # <<>>
        BY <3>2, <4>1, <4>2
      <4>4. OwedInv'
        BY <3>2, QueueAppended DEF OwedInv
      <4>5. QED BY <4>3, <4>4 DEF Last
    <3>3. QED BY <2>1, <3>1, <3>2
  <2>3. QueueInv' /\ RepliesInv'
    BY <1>1, <1>4, <1>5 DEF QueueInv, RepliesInv
  <2>4. LastWord'
    BY <2>1, <2>2 DEF LastWord
  <2>5. QED BY <2>2, <2>3, <2>4
<1>8. QED BY <1>6, <1>7 DEF PerformMessages

\* Time, the other devices, other observations and the operator.
LEMMA Unheard ==
  ASSUME FollowedInv, NEW p, Procs = {p},
         \/ \E t \in Timers : TimerFires(t)
         \/ BlockPasses \/ SlewEnds \/ DeviceAnswers \/ DeviceProgress \/ DeviceFails
         \/ \E s \in Scans : SdpReports(s)
         \/ \E kind \in FaultKinds : Reported(kind)
         \/ OtherReleases
  PROVE  FollowedInv'
<1>1. UNCHANGED <<dig, owed, scanning, work>>
  BY DEF TimerFires, BlockPasses, SlewEnds, DeviceAnswers, DeviceProgress, DeviceFails,
         SdpReports, Reported, OtherReleases, Arrives, devices, digitiser
<1>2. \A t \in Timers : t.kind # "Acquires"
  BY DEF Timers, Ev, About, TimerKinds, ObsTimers, ConfigTimers, AcquireTimers
<1>3. queue' = queue \/ \E e : queue' = Append(queue, e) /\ e.kind # "Acquires"
  <2>1. CASE \E t \in Timers : TimerFires(t)
    BY <1>2, <2>1 DEF TimerFires, Arrives
  <2>2. CASE BlockPasses \/ SlewEnds
    BY <2>2 DEF BlockPasses, SlewEnds
  <2>3. CASE \/ DeviceAnswers \/ DeviceProgress \/ \E s \in Scans : SdpReports(s)
    <3>1. \A k, s : About(k, s).kind = k
      BY DEF About
    <3>2. \/ queue' = Append(queue, About("Applied", asked))
          \/ queue' = Append(queue, About("Progress", asked))
          \/ \E s \in Scans : queue' = Append(queue, About("ScanComplete", s))
      BY <2>3 DEF DeviceAnswers, DeviceProgress, SdpReports, Arrives
    <3>3. QED BY <3>1, <3>2
  <2>4. CASE \/ DeviceFails \/ OtherReleases \/ \E kind \in FaultKinds : Reported(kind)
    <3>1. \A k : Ev(k).kind = k
      BY DEF Ev
    <3>2. \/ queue' = queue
          \/ \E k \in {"ErrorMsg", "DigError", "OperatorReset", "ASSIGN_RESOURCES"} :
                queue' = Append(queue, Ev(k))
      BY <2>4 DEF DeviceFails, Reported, OtherReleases, Arrives
    <3>3. QED BY <3>1, <3>2
  <2>5. QED BY <2>1, <2>2, <2>3, <2>4
<1>4. DOMAIN work = Procs /\ DOMAIN work[p] = Fields /\ work[p].next.kind # "Acquires"
  BY DEF FollowedInv, RepliesInv
<1>5. PICK r : r = work'[p]
  OBVIOUS
<1>6. QED BY <1>1, <1>3, <1>4, <1>5, NothingSaid

\* The digitiser answers the request that has waited longest, and no answer is lost.
LEMMA DigitiserAnswered ==
  ASSUME FollowedInv, NEW p, Procs = {p}, "RequestLost" \notin Faults, DigitiserAnswers
  PROVE  FollowedInv'
<1>. USE DEF FollowedInv
<1>1. /\ owed # <<>> /\ owed' = Tail(owed)
      /\ queue' = Append(queue, About("Acquires", Head(owed)))
      /\ UNCHANGED <<dig, scanning, work>>
  BY DEF DigitiserAnswers, Fault, Arrives
<1>2. QueueInv' /\ RepliesInv'
  BY <1>1, QueueAppended DEF QueueInv, RepliesInv
<1>3. OwedInv'
  BY <1>1, QueueTaken DEF OwedInv
<1>4. PICK t : t = Tail(owed)
  OBVIOUS
<1>5. PICK S : S = Range(owed)
  OBVIOUS
<1>6. /\ t \in Seq(S) /\ Len(t) = Len(owed) - 1 /\ \A i \in 1..Len(t) : t[i] = owed[i + 1]
      /\ owed \in Seq(S)
  BY <1>1, <1>4, <1>5, HeadTailProperties DEF OwedInv
<1>7. Len(owed) \in Nat \ {0} /\ Head(owed) = owed[1] /\ owed[Len(owed)] = dig
  BY <1>1, <1>6 DEF LastWord, Last
<1>8. CASE Len(owed) = 1
  <2>1. About("Acquires", Head(owed)).kind = "Acquires"
        /\ About("Acquires", Head(owed)).scan = dig
    BY <1>7, <1>8 DEF About
  <2>2. PICK a : a = Append(queue, About("Acquires", Head(owed)))
    OBVIOUS
  <2>3. Latest(a, dig)
    BY <2>1, <2>2, LatestAppended DEF QueueInv
  <2>4. Latest(queue, dig)'
    BY <1>1, <2>2, <2>3 DEF Latest
  <2>5. owed' = <<>>
    BY <1>1, <1>4, <1>6, <1>8
  <2>6. LastWord'
    BY <1>1, <2>4, <2>5 DEF LastWord
  <2>7. QED BY <1>2, <1>3, <2>6
<1>9. CASE Len(owed) # 1
  <2>1. t # <<>> /\ t[Len(t)] = dig
    <3>1. Len(t) \in 1..Len(t) /\ Len(t) + 1 = Len(owed)
      BY <1>6, <1>7, <1>9
    <3>2. QED BY <1>6, <1>7, <3>1
  <2>2. LastWord'
    BY <1>1, <1>4, <2>1 DEF LastWord, Last
  <2>3. QED BY <1>2, <1>3, <2>2
<1>10. QED BY <1>8, <1>9

\* Initially the digitiser is stopped and believed to be.
LEMMA FollowingStarts == Init => FollowedInv
<1>. SUFFICES ASSUME Init PROVE FollowedInv
  OBVIOUS
<1>1. /\ queue = <<Ev("START")>> /\ owed = <<>> /\ scanning = 0 /\ dig = 0
      /\ work = [p \in Procs |-> Idle]
  BY DEF Init
<1>2. Range(queue) = {Ev("START")}
  BY <1>1 DEF Range
<1>3. QueueInv /\ OwedInv
  BY <1>1, <1>2 DEF QueueInv, OwedInv
<1>4. RepliesInv
  BY <1>1, NextEvents DEF RepliesInv, Idle, Fields
<1>5. LastWord
  BY <1>1 DEF LastWord, Unanswered, Idle, None, Ev
<1>6. QED BY <1>3, <1>4, <1>5 DEF FollowedInv

\* When all requests are answered and worked off, the model the workflow decides by says
\* what the digitiser does (start_obs_scanning, stop_obs_scanning), whatever was sent
\* again, aborted or reset meanwhile.  With one processor, and when no answer of the
\* digitiser is lost.
THEOREM DigitiserFollowed ==
  ASSUME NEW p, Procs = {p}, "RequestLost" \notin Faults
  PROVE  Spec => []ModelFollowsDigitiser
<1>1. ASSUME FollowedInv, [Next]_vars PROVE FollowedInv'
  <2>1. CASE UNCHANGED vars
    BY <1>1, <2>1 DEF vars, FollowedInv, QueueInv, OwedInv, RepliesInv, LastWord, Latest,
                      Unanswered
  <2>2. CASE Process(p)
    BY <1>1, <2>2, Steered, Reacted, TakenOver, DigitiserHeard, Performed, DigitiserTold
    DEF Process
  <2>3. CASE DigitiserAnswers
    BY <1>1, <2>3, DigitiserAnswered
  <2>4. CASE Next /\ ~Process(p) /\ ~DigitiserAnswers
    BY <1>1, <2>4, Unheard DEF Next
  <2>5. QED BY <1>1, <2>1, <2>2, <2>3, <2>4
<1>2. FollowedInv => ModelFollowsDigitiser
  <2>1. SUFFICES ASSUME FollowedInv, queue = <<>>, work[p] = Idle, owed = <<>>
                 PROVE  scanning = dig
    BY DEF ModelFollowsDigitiser, Quiet
  <2>2. QED BY <2>1 DEF FollowedInv, LastWord, Latest, Idle, None, Ev
<1>3. QED BY FollowingStarts, <1>1, <1>2, PTL DEF Spec

-----------------------------------------------------------------------------
(* The life cycle: no release overtakes a configuration.                     *)

\* An event of a kind is queued, in hand or about to be queued.
Awaiting(k) ==
    \/ \E i \in DOMAIN queue : queue[i].kind = k
    \/ \E p \in Procs : work[p].ev.kind = k \/ work[p].next.kind = k

\* No configuration is asked for behind a release.
OrderInv ==
    /\ \A i, j \in DOMAIN queue :
          (i < j /\ queue[i].kind = "RELEASE_RESOURCES") => queue[j].kind # "CONFIGURE_RESOURCES"
    /\ \A p \in Procs : \A i \in DOMAIN queue :
          /\ work[p].ev.kind = "RELEASE_RESOURCES" => queue[i].kind # "CONFIGURE_RESOURCES"
          /\ queue[i].kind = "RELEASE_RESOURCES" => work[p].next.kind # "CONFIGURE_RESOURCES"

\* A release is for an observation that is complete, or that was aborted.
ReleaseInv ==
    Awaiting("RELEASE_RESOURCES") =>
        /\ obs_state # "EMPTY"
        /\ complete = Scans \/
             /\ block # "running" /\ obs_state \in {"ABORTED", "IDLE"} /\ OrderInv
             /\ obs_state = "IDLE" => ~Awaiting("CONFIGURE_RESOURCES")

\* What the events that arrive say.
ArrivalInv ==
    /\ Awaiting("obs_abort_timer") => block # "running"
    /\ ~Awaiting("RESET") /\ ~Awaiting("OperatorReset")
    /\ \A i \in DOMAIN queue : queue[i].kind = "ScanComplete" => queue[i].scan \in Scans
    /\ \A p \in Procs : /\ work[p].ev.kind = "ScanComplete" => work[p].ev.scan \in Scans
                        /\ work[p].next.kind # "ScanComplete"

\* Scans and states.
LifeTypes == complete \subseteq Scans /\ obs_state \in States

\* The inductive invariant behind LifecycleSpec.
LifeInv == QueueInv /\ HandsInv /\ LifeTypes /\ ReleaseInv /\ ArrivalInv

\* A handler and what it returns.
LEMMA LifeHandled ==
  ASSUME LifeInv, NEW p, Procs = {p}, NEW r, DOMAIN r = Fields, r.ev = None,
         work' = [work EXCEPT ![p] = r], UNCHANGED <<queue, block>>, work[p].ev # None,
         obs_state' \in States, complete' \subseteq Scans,
         complete \subseteq complete' \/ obs_state = "EMPTY",
         r.next.kind \notin {"RESET", "OperatorReset", "obs_abort_timer", "ScanComplete"},
         r.next.kind = "RELEASE_RESOURCES" =>
            /\ obs_state' # "EMPTY"
            /\ complete' = Scans \/ (block # "running" /\ obs_state' = "ABORTED"),
         r.next.kind = "CONFIGURE_RESOURCES" =>
            block = "running" \/ obs_state' \notin {"ABORTED", "IDLE"},
         obs_state' = obs_state \/ obs_state' # "EMPTY",
         obs_state = "ABORTED" => \/ obs_state' = "ABORTED"
                                  \/ /\ obs_state' = "IDLE" /\ r.next = None
                                     /\ work[p].ev.kind = "RELEASE_RESOURCES",
         (obs_state = "IDLE" /\ work[p].ev.kind # "CONFIGURE_RESOURCES") =>
            obs_state' \in {"IDLE", "ABORTED"}
  PROVE  LifeInv'
<1>. USE DEF LifeInv
<1>1. DOMAIN work' = Procs /\ work'[p] = r /\ work[p].next = None
  BY DEF HandsInv
<1>2. r.ev.kind = "none" /\ work[p].next.kind = "none"
  BY <1>1 DEF None, Ev
<1>3. QueueInv' /\ HandsInv' /\ LifeTypes'
  BY <1>1 DEF QueueInv, HandsInv, LifeTypes
<1>4. ArrivalInv'
  BY <1>1, <1>2 DEF ArrivalInv, Awaiting
<1>5. ReleaseInv'
  <2>1. CASE \E i \in DOMAIN queue : queue[i].kind = "RELEASE_RESOURCES"
    <3>1. Awaiting("RELEASE_RESOURCES") /\ obs_state # "EMPTY" /\ obs_state' # "EMPTY"
      BY <2>1 DEF Awaiting, ReleaseInv
    <3>2. CASE complete = Scans
      <4>1. complete' = Scans
        BY <3>1, <3>2
      <4>2. QED BY <3>1, <4>1 DEF ReleaseInv
    <3>3. CASE complete # Scans
      <4>1. /\ block # "running" /\ obs_state \in {"ABORTED", "IDLE"} /\ OrderInv
            /\ obs_state = "IDLE" => ~Awaiting("CONFIGURE_RESOURCES")
        BY <3>1, <3>3 DEF ReleaseInv
      <4>2. obs_state' \in {"ABORTED", "IDLE"}
        BY <4>1 DEF Awaiting
      <4>3. r.next.kind # "CONFIGURE_RESOURCES"
        BY <4>1, <4>2
      <4>4. OrderInv'
        BY <1>1, <1>2, <4>1, <4>3 DEF OrderInv
      <4>5. obs_state' = "IDLE" => ~Awaiting("CONFIGURE_RESOURCES")'
        <5>1. obs_state' = "IDLE" => \A i \in DOMAIN queue : queue[i].kind # "CONFIGURE_RESOURCES"
          BY <4>1 DEF OrderInv, Awaiting
        <5>2. QED BY <1>1, <1>2, <4>3, <5>1 DEF Awaiting
      <4>6. QED BY <3>1, <4>1, <4>2, <4>4, <4>5 DEF ReleaseInv
    <3>4. QED BY <3>2, <3>3
  <2>2. CASE /\ \A i \in DOMAIN queue : queue[i].kind # "RELEASE_RESOURCES"
             /\ r.next.kind = "RELEASE_RESOURCES"
    <3>1. OrderInv'
      BY <1>1, <1>2, <2>2 DEF OrderInv
    <3>2. QED BY <2>2, <3>1 DEF ReleaseInv
  <2>3. CASE /\ \A i \in DOMAIN queue : queue[i].kind # "RELEASE_RESOURCES"
             /\ r.next.kind # "RELEASE_RESOURCES"
    <3>1. ~Awaiting("RELEASE_RESOURCES")'
      BY <1>1, <1>2, <2>3 DEF Awaiting
    <3>2. QED BY <3>1 DEF ReleaseInv
  <2>4. QED BY <2>1, <2>2, <2>3
<1>6. QED BY <1>3, <1>4, <1>5

\* Something arrives.
LEMMA LifeArrived ==
  ASSUME LifeInv, NEW e, queue' = Append(queue, e), UNCHANGED <<obs, work, block>>,
         e.kind \notin {"RELEASE_RESOURCES", "CONFIGURE_RESOURCES", "RESET", "OperatorReset"},
         e.kind = "obs_abort_timer" => block # "running",
         e.kind = "ScanComplete" => e.scan \in Scans
  PROVE  LifeInv'
<1>. USE DEF LifeInv
<1>1. PICK S : S = Range(queue) \cup {e}
  OBVIOUS
<1>2. queue \in Seq(S)
  BY <1>1, Range(queue) \subseteq S DEF QueueInv
<1>3. /\ Len(queue) \in Nat /\ DOMAIN queue = 1..Len(queue)
      /\ DOMAIN queue' = 1..(Len(queue) + 1)
      /\ \A i \in 1..Len(queue) : queue'[i] = queue[i]
      /\ queue'[Len(queue) + 1] = e
  BY <1>1, <1>2
<1>4. \A i \in DOMAIN queue' : \/ i \in DOMAIN queue /\ queue'[i] = queue[i]
                               \/ i \notin DOMAIN queue /\ queue'[i] = e
  BY <1>3
<1>5. QueueInv' /\ HandsInv' /\ LifeTypes'
  BY QueueAppended DEF QueueInv, HandsInv, LifeTypes, obs
<1>6. \A k : Awaiting(k)' => Awaiting(k) \/ e.kind = k
  BY <1>4 DEF Awaiting
<1>7. ArrivalInv'
  BY <1>4, <1>6 DEF ArrivalInv
<1>8. OrderInv => OrderInv'
  <2>1. \A i, j \in DOMAIN queue' : i < j => i \in DOMAIN queue
    BY <1>3
  <2>2. QED BY <1>4, <2>1 DEF OrderInv
<1>9. ReleaseInv'
  BY <1>6, <1>8 DEF ReleaseInv, obs
<1>10. QED BY <1>5, <1>7, <1>9

\* A set of numbers that is not empty has a least one.
LEMMA LeastOf ==
  ASSUME NEW S, S \subseteq Nat, S # {}
  PROVE  \E s \in S : \A t \in S : s <= t
<1>1. PICK R : R = {x \in Nat \X Nat : x[1] < x[2]}
  OBVIOUS
<1>2. IsWellFoundedOn(R, Nat)
  <2>1. R = OpToRel(<, Nat)
    BY <1>1 DEF OpToRel
  <2>2. QED BY <2>1, NatLessThanWellFounded
<1>3. PICK s \in S : \A t \in S : <<t, s>> \notin R
  BY <1>2, WFMin
<1>4. ASSUME NEW t \in S PROVE s <= t
  <2>1. s \in Nat /\ t \in Nat /\ ~(t < s)
    <3>1. PICK x : x = <<t, s>>
      OBVIOUS
    <3>2. x \in Nat \X Nat /\ x[1] = t /\ x[2] = s /\ x \notin R
      BY <1>3, <3>1
    <3>3. QED BY <1>1, <3>2
  <2>2. QED BY <2>1
<1>5. QED BY <1>4

\* set_next_tgt_scan finds an open scan as long as there is one.
LEMMA NextScanIsOpen ==
  ASSUME complete \subseteq Scans
  PROVE  IF complete = Scans THEN NextScan \notin Scans ELSE NextScan \in Scans
<1>1. PICK open : open = Scans \ complete
  OBVIOUS
<1>2. CASE open = {}
  <2>1. NextScan = NScans + 1 /\ complete = Scans
    BY <1>1, <1>2 DEF NextScan
  <2>2. QED BY <2>1, NScansAssumption DEF Scans
<1>3. CASE open # {}
  <2>1. \E s \in open : \A t \in open : s <= t
    <3>1. open \subseteq Nat
      BY <1>1 DEF Scans
    <3>2. QED BY <1>3, <3>1, LeastOf
  <2>2. NextScan \in open
    <3>1. NextScan = CHOOSE s \in open : \A t \in open : s <= t
      BY <1>1, <1>3 DEF NextScan
    <3>2. QED BY <2>1, <3>1
  <2>3. QED BY <1>1, <2>2
<1>4. QED BY <1>2, <1>3

\* The same for an action given by its parts.
LEMMA LifeReturned ==
  ASSUME LifeInv, NEW p, Procs = {p}, NEW stop, NEW start, NEW msgs, NEW next,
         Return(p, stop, start, msgs, next), UNCHANGED <<queue, block>>, work[p].ev # None,
         obs_state' \in States, complete' \subseteq Scans,
         complete \subseteq complete' \/ obs_state = "EMPTY",
         next.kind \notin {"RESET", "OperatorReset", "obs_abort_timer", "ScanComplete"},
         next.kind = "RELEASE_RESOURCES" =>
            /\ obs_state' # "EMPTY"
            /\ complete' = Scans \/ (block # "running" /\ obs_state' = "ABORTED"),
         next.kind = "CONFIGURE_RESOURCES" =>
            block = "running" \/ obs_state' \notin {"ABORTED", "IDLE"},
         obs_state' = obs_state \/ obs_state' # "EMPTY",
         obs_state = "ABORTED" => \/ obs_state' = "ABORTED"
                                  \/ /\ obs_state' = "IDLE" /\ next = None
                                     /\ work[p].ev.kind = "RELEASE_RESOURCES",
         (obs_state = "IDLE" /\ work[p].ev.kind # "CONFIGURE_RESOURCES") =>
            obs_state' \in {"IDLE", "ABORTED"}
  PROVE  LifeInv'
<1>1. PICK r : r = [ev |-> None, stop |-> stop, start |-> start \cup Retry(msgs), msgs |-> msgs,
                    next |-> next]
  OBVIOUS
<1>2. DOMAIN r = Fields /\ r.ev = None /\ r.next = next
  BY <1>1 DEF Fields
<1>3. work' = [work EXCEPT ![p] = r]
  BY <1>1 DEF Return
<1>4. QED BY <1>2, <1>3, LifeHandled

\* A step of the life cycle, or a stutter.
Stride == [Lifecycle!Next]_(Lifecycle!vars)

\* Handlers that leave the observation as it is.
LEMMA LifeKept ==
  ASSUME LifeInv, NEW p, Procs = {p}, UNCHANGED <<obs_state, complete, queue, block>>,
         work[p].ev.kind \in ObsEvents \cup OtherEvents \cup TimerKinds,
         NEW stop, NEW start, NEW msgs, NEW next, Return(p, stop, start, msgs, next),
         \/ next.kind \in {"none", "ABORT", "SCAN_ENDED"}
         \/ /\ next.kind = "CONFIGURE_RESOURCES"
            /\ block = "running" \/ obs_state = "CONFIGURING"
         \/ next.kind = "RELEASE_RESOURCES" /\ block # "running" /\ obs_state = "ABORTED"
  PROVE  LifeInv' /\ Stride
<1>1. work[p].ev # None
  BY SomethingInHand
<1>2. obs_state \in States /\ complete \subseteq Scans
  BY DEF LifeInv, LifeTypes
<1>3. LifeInv'
  BY <1>1, <1>2, LifeReturned
<1>4. QED BY <1>3 DEF Stride, Lifecycle!vars

\* Refused transitions, waiting for resources, timers and messages: a stutter.
LEMMA LifeWaits ==
  ASSUME LifeInv, NEW p, Procs = {p},
         \/ Ignore(p) \/ AssignResources(p) \/ Expired(p) \/ Applied(p) \/ Acquires(p)
         \/ ErrorMsg(p) \/ DigError(p)
  PROVE  LifeInv' /\ Stride
<1>1. UNCHANGED <<obs_state, complete, queue, block>>
  BY DEF Ignore, AssignResources, Expired, Applied, Acquires, ErrorMsg, DigError, obs
<1>2. work[p].ev.kind \in ObsEvents \cup OtherEvents \cup TimerKinds
  BY DEF Ignore, AssignResources, Expired, Applied, Acquires, ErrorMsg, DigError, Accepted,
         Handles, ObsEvents, OtherEvents, TimerKinds
<1>3. \A k : Ev(k).kind = k
  BY DEF Ev
<1>4. \E stop, start, msgs, next :
         /\ Return(p, stop, start, msgs, next)
         /\ \/ next.kind \in {"none", "ABORT", "SCAN_ENDED"}
            \/ /\ next.kind = "CONFIGURE_RESOURCES"
               /\ block = "running" \/ obs_state = "CONFIGURING"
            \/ next.kind = "RELEASE_RESOURCES" /\ block # "running" /\ obs_state = "ABORTED"
  <2>1. CASE Ignore(p) \/ ErrorMsg(p) \/ DigError(p)
    BY <1>3, <2>1 DEF Ignore, ErrorMsg, DigError, None
  <2>2. CASE AssignResources(p)
    BY <1>3, <2>2 DEF AssignResources, None
  <2>3. CASE Applied(p) \/ Acquires(p)
    BY <1>3, <2>3 DEF Applied, Acquires, LookAgain, None
  <2>4. CASE Expired(p)
    <3>1. CASE Handles(p, "obs_abort_timer") /\ obs_state = "ABORTED"
      <4>1. block # "running"
        BY <3>1 DEF Handles, LifeInv, ArrivalInv, Awaiting
      <4>2. Return(p, {}, {}, {}, Ev("RELEASE_RESOURCES"))
        BY <2>4, <3>1 DEF Expired, Handles
      <4>3. QED BY <1>3, <3>1, <4>1, <4>2
    <3>2. CASE ~(Handles(p, "obs_abort_timer") /\ obs_state = "ABORTED")
      BY <1>3, <2>4, <3>2 DEF Expired, None
    <3>3. QED BY <3>1, <3>2
  <2>5. QED BY <2>1, <2>2, <2>3, <2>4
<1>5. QED BY <1>1, <1>2, <1>4, LifeKept

\* A request sent again or given up: a stutter.
LEMMA LifeRetries ==
  ASSUME LifeInv, NEW p, Procs = {p}, RequestTimedOut(p)
  PROVE  LifeInv' /\ Stride
<1>1. /\ UNCHANGED <<obs_state, complete, queue, block>>
      /\ work[p].ev.kind \in ObsEvents \cup OtherEvents \cup TimerKinds
  BY DEF RequestTimedOut, Handles, TimerKinds, ConfigTimers, AcquireTimers, obs
<1>2. CASE Handles(p, "config_retry") \/ Handles(p, "acquire_retry")
  <2>1. PICK start, msgs, r : /\ r = [Idle EXCEPT !.start = start, !.msgs = msgs]
                              /\ work' = [work EXCEPT ![p] = r]
    <3>1. CASE Handles(p, "config_retry")
      BY <1>2, <3>1, Zenon DEF RequestTimedOut, Handles
    <3>2. CASE Handles(p, "acquire_retry")
      BY <1>2, <3>2, Zenon DEF RequestTimedOut, Handles
    <3>3. QED BY <1>2, <3>1, <3>2
  <2>2. DOMAIN r = Fields /\ r.ev = None /\ r.next = None /\ r.next.kind = "none"
    BY <2>1 DEF Idle, Fields, None, Ev
  <2>3. work[p].ev # None /\ obs_state \in States /\ complete \subseteq Scans
    BY <1>1, SomethingInHand DEF LifeInv, LifeTypes
  <2>4. LifeInv'
    BY <1>1, <2>1, <2>2, <2>3, LifeHandled
  <2>5. QED BY <1>1, <2>4 DEF Stride, Lifecycle!vars
<1>3. CASE ~(Handles(p, "config_retry") \/ Handles(p, "acquire_retry"))
  <2>1. \E next : Return(p, {}, {}, {}, next) /\ next.kind \in {"none", "ABORT"}
    BY <1>3 DEF RequestTimedOut, None, Ev
  <2>2. QED BY <1>1, <2>1, LifeKept
<1>4. QED BY <1>2, <1>3

\* START maps to StartOver.
LEMMA LifeStarts ==
  ASSUME LifeInv, NEW p, Procs = {p}, Start(p)
  PROVE  LifeInv' /\ Stride
<1>1. /\ UNCHANGED <<queue, block>> /\ obs_state = "EMPTY" /\ obs_state' = "IDLE"
      /\ complete' = {} /\ Return(p, {}, {}, {}, Ev("ASSIGN_RESOURCES"))
      /\ work[p].ev.kind = "START" /\ obs_state' \in States
  BY DEF Start, Accepted, Handles, Accepts, States
<1>2. work[p].ev # None /\ Ev("ASSIGN_RESOURCES").kind = "ASSIGN_RESOURCES"
  BY <1>1 DEF None, Ev
<1>3. LifeInv'
  BY <1>1, <1>2, LifeReturned
<1>4. QED BY <1>1, <1>3 DEF Stride, Lifecycle!Next, Lifecycle!StartOver

\* RELEASE_RESOURCES maps to Release, or to a stutter in IDLE.
LEMMA LifeReleases ==
  ASSUME LifeInv, NEW p, Procs = {p}, ReleaseResources(p)
  PROVE  LifeInv' /\ Stride
<1>1. /\ UNCHANGED <<queue, block, complete>> /\ obs_state \in {"IDLE", "READY", "ABORTED"}
      /\ obs_state' = "IDLE" /\ Return(p, {}, {}, {}, None)
      /\ work[p].ev.kind = "RELEASE_RESOURCES" /\ obs_state' \in States
  BY DEF ReleaseResources, Accepted, Handles, Accepts, States
<1>2. work[p].ev # None /\ None.kind = "none" /\ complete \subseteq Scans
  BY <1>1 DEF None, Ev, LifeInv, LifeTypes
<1>3. LifeInv'
  BY <1>1, <1>2, LifeReturned
<1>4. complete = Scans \/ obs_state \in {"ABORTED", "IDLE"}
  BY <1>1 DEF LifeInv, ReleaseInv, Awaiting
<1>5. Stride
  BY <1>1, <1>4 DEF Stride, Lifecycle!Next, Lifecycle!Release, Lifecycle!vars
<1>6. QED BY <1>3, <1>5

\* CONFIGURE_RESOURCES maps to Configure.
LEMMA LifeConfigures ==
  ASSUME LifeInv, NEW p, Procs = {p}, ConfigureResources(p)
  PROVE  LifeInv' /\ Stride
<1>1. /\ UNCHANGED <<queue, block, complete>>
      /\ obs_state \in {"IDLE", "CONFIGURING", "READY"} /\ obs_state' = "CONFIGURING"
      /\ work[p].ev.kind = "CONFIGURE_RESOURCES" /\ obs_state' \in States
  BY DEF ConfigureResources, Accepted, Handles, Accepts, States, Active
<1>2. work[p].ev # None /\ complete \subseteq Scans
  BY <1>1 DEF None, Ev, LifeInv, LifeTypes
<1>3. \E stop, start, msgs, next : /\ Return(p, stop, start, msgs, next)
                                   /\ next.kind \in {"READY", "none"}
  <2>1. Ev("READY").kind = "READY" /\ None.kind = "none"
    BY DEF Ev, None
  <2>2. QED BY <2>1 DEF ConfigureResources
<1>4. LifeInv'
  BY <1>1, <1>2, <1>3, LifeReturned
<1>5. QED BY <1>1, <1>4 DEF Stride, Lifecycle!Next, Lifecycle!Configure

\* READY and the end of a scan map to MakeReady, SCAN_STARTED to Scan.
LEMMA LifeScans ==
  ASSUME LifeInv, NEW p, Procs = {p}, Ready(p) \/ ScanStarted(p) \/ ScanDone(p)
  PROVE  LifeInv' /\ Stride
<1>1. /\ UNCHANGED <<queue, block, complete>> /\ complete \subseteq Scans
      /\ obs_state' \in {"READY", "SCANNING"} /\ obs_state' \in States
      /\ obs_state \in Active
      /\ obs_state' = "SCANNING" => obs_state \in {"CONFIGURING", "READY"}
      /\ work[p].ev.kind \in ObsEvents
  BY DEF Ready, ScanStarted, ScanDone, Accepted, Handles, Accepts, States, Active, ObsEvents,
         LifeInv, LifeTypes
<1>2. work[p].ev # None
  BY <1>1, SomethingInHand
<1>3. \E stop, start, msgs, next :
         /\ Return(p, stop, start, msgs, next)
         /\ \/ next.kind \in {"none", "ABORT", "SCAN_STARTED", "CONFIGURE_RESOURCES"}
            \/ next.kind = "RELEASE_RESOURCES" /\ complete = Scans
  <2>1. \A k : Ev(k).kind = k
    BY DEF Ev
  <2>2. CASE Ready(p) \/ ScanStarted(p)
    BY <2>1, <2>2 DEF Ready, ScanStarted, None
  <2>3. CASE ScanDone(p)
    <3>1. NextScan \notin Scans => complete = Scans
      BY <1>1, NextScanIsOpen
    <3>2. QED BY <2>1, <2>3, <3>1 DEF ScanDone
  <2>4. QED BY <2>2, <2>3
<1>4. obs_state \notin {"EMPTY", "IDLE", "ABORTED"}
  BY <1>1 DEF Active
<1>5. LifeInv'
  BY <1>1, <1>2, <1>3, <1>4, LifeReturned
<1>6. Stride
  BY <1>1
  DEF Stride, Lifecycle!Next, Lifecycle!MakeReady, Lifecycle!Scan, Lifecycle!Engaged, Active
<1>7. QED BY <1>5, <1>6

\* ABORT maps to Abort.
LEMMA LifeAborts ==
  ASSUME LifeInv, NEW p, Procs = {p}, Abort(p)
  PROVE  LifeInv' /\ Stride
<1>1. /\ UNCHANGED <<queue, block, complete>> /\ complete \subseteq Scans
      /\ obs_state' = "ABORTED" /\ obs_state' \in States
      /\ work[p].ev.kind = "ABORT"
      /\ \E stop, start, msgs : Return(p, stop, start, msgs, None)
  BY DEF Abort, Accepted, Handles, States, LifeInv, LifeTypes
<1>2. work[p].ev # None /\ None.kind = "none"
  BY <1>1 DEF None, Ev
<1>3. LifeInv'
  BY <1>1, <1>2, LifeReturned
<1>4. QED BY <1>1, <1>3 DEF Stride, Lifecycle!Next, Lifecycle!Abort

\* The report of a scan maps to CompleteScan.
LEMMA LifeCompletes ==
  ASSUME LifeInv, NEW p, Procs = {p}, ScanComplete(p)
  PROVE  LifeInv' /\ Stride
<1>1. /\ UNCHANGED <<queue, block, obs_state>> /\ complete' = complete \cup {work[p].ev.scan}
      /\ Return(p, {}, {}, {}, Ev("SCAN_COMPLETED")) /\ work[p].ev.kind = "ScanComplete"
  BY DEF ScanComplete, Handles
<1>2. work[p].ev.scan \in Scans /\ complete \subseteq Scans /\ obs_state \in States
  BY <1>1 DEF LifeInv, ArrivalInv, LifeTypes
<1>3. work[p].ev # None /\ Ev("SCAN_COMPLETED").kind = "SCAN_COMPLETED"
  BY <1>1 DEF None, Ev
<1>4. LifeInv'
  BY <1>1, <1>2, <1>3, LifeReturned
<1>5. QED BY <1>1, <1>2, <1>4 DEF Stride, Lifecycle!Next, Lifecycle!CompleteScan

\* Nobody resets the observation.
LEMMA NoReset ==
  ASSUME LifeInv, NEW p, Procs = {p}, Reset(p) \/ OperatorReset(p)
  PROVE  FALSE
BY DEF Reset, OperatorReset, Accepted, Handles, LifeInv, ArrivalInv, Awaiting

\* What is queued and in hand only moves on.
LEMMA LifeTaken ==
  ASSUME LifeInv, NEW p, Procs = {p}, Take(p)
  PROVE  LifeInv' /\ Stride
<1>. USE DEF LifeInv
<1>1. /\ work[p] = Idle /\ queue # <<>> /\ queue' = Tail(queue)
      /\ work' = [work EXCEPT ![p].ev = Head(queue)]
      /\ UNCHANGED <<obs_state, complete, block>>
  BY DEF Take, obs
<1>2. PICK r : r = [work[p] EXCEPT !.ev = Head(queue)]
  OBVIOUS
<1>3. /\ DOMAIN r = Fields /\ r.ev = Head(queue)
      /\ r.stop = {} /\ r.start = {} /\ r.next = None /\ None.kind = "none"
  BY <1>1, <1>2 DEF Idle, Fields, None, Ev
<1>4. DOMAIN work' = Procs /\ work'[p] = r
  BY <1>1, <1>2 DEF HandsInv
<1>5. PICK t : t = Tail(queue)
  OBVIOUS
<1>6. PICK S : S = Range(queue)
  OBVIOUS
<1>7. /\ t \in Seq(S) /\ Len(t) = Len(queue) - 1 /\ \A i \in 1..Len(t) : t[i] = queue[i + 1]
  BY <1>1, <1>5, <1>6, HeadTailProperties DEF QueueInv
<1>8. /\ 1 \in DOMAIN queue /\ Head(queue) = queue[1]
      /\ \A i \in DOMAIN t : i \in Nat \ {0} /\ i + 1 \in DOMAIN queue /\ t[i] = queue[i + 1]
  BY <1>1, <1>6, <1>7, SMTT(30) DEF QueueInv
<1>9. /\ 1 \in DOMAIN queue /\ r.ev = queue[1]
      /\ \A i \in DOMAIN queue' : i \in Nat \ {0} /\ i + 1 \in DOMAIN queue
                                  /\ queue'[i] = queue[i + 1]
  BY <1>1, <1>3, <1>5, <1>8
<1>10. QueueInv' /\ HandsInv' /\ LifeTypes'
  BY <1>1, <1>3, <1>4, QueueTaken DEF QueueInv, HandsInv, LifeTypes
<1>11. \A k : Awaiting(k)' => Awaiting(k) \/ k = "none"
  BY <1>3, <1>4, <1>9 DEF Awaiting
<1>12. ArrivalInv'
  BY <1>1, <1>3, <1>4, <1>9, <1>11 DEF ArrivalInv
<1>13. OrderInv => OrderInv'
  <2>1. ASSUME OrderInv, NEW i \in DOMAIN queue', NEW j \in DOMAIN queue',
               i < j, queue'[i].kind = "RELEASE_RESOURCES"
        PROVE  queue'[j].kind # "CONFIGURE_RESOURCES"
    <3>1. i + 1 < j + 1
      BY <1>9, <2>1
    <3>2. QED BY <1>9, <2>1, <3>1 DEF OrderInv
  <2>2. ASSUME OrderInv, NEW i \in DOMAIN queue', r.ev.kind = "RELEASE_RESOURCES"
        PROVE  queue'[i].kind # "CONFIGURE_RESOURCES"
    <3>1. 1 < i + 1
      BY <1>9
    <3>2. QED BY <1>9, <2>2, <3>1 DEF OrderInv
  <2>3. QED BY <1>3, <1>4, <2>1, <2>2 DEF OrderInv
<1>14. ReleaseInv'
  BY <1>1, <1>11, <1>13 DEF ReleaseInv
<1>15. QED BY <1>1, <1>10, <1>12, <1>14 DEF Stride, Lifecycle!vars

\* Performing timers and messages: a stutter.
LEMMA LifePerforms ==
  ASSUME LifeInv, NEW p, Procs = {p}, PerformTimers(p) \/ PerformMessages(p)
  PROVE  LifeInv' /\ Stride
<1>. USE DEF LifeInv
<1>1. UNCHANGED <<obs_state, complete, block, queue>>
  BY DEF PerformTimers, PerformMessages, obs
<1>2. PICK r : /\ work' = [work EXCEPT ![p] = r]
               /\ \/ r = [work[p] EXCEPT !.stop = {}, !.start = {}]
                  \/ r = [work[p] EXCEPT !.msgs = {}]
  BY DEF PerformTimers, PerformMessages
<1>3. /\ DOMAIN r = Fields /\ r.ev = work[p].ev /\ r.next = work[p].next
      /\ r.stop \in {{}, work[p].stop} /\ r.start \in {{}, work[p].start}
  BY <1>2 DEF HandsInv, Fields
<1>4. DOMAIN work' = Procs /\ work'[p] = r
  BY <1>2 DEF HandsInv
<1>5. QueueInv' /\ HandsInv' /\ LifeTypes'
  BY <1>1, <1>3, <1>4 DEF QueueInv, HandsInv, LifeTypes
<1>6. \A k : Awaiting(k)' <=> Awaiting(k)
  BY <1>1, <1>3, <1>4 DEF Awaiting
<1>7. ArrivalInv'
  BY <1>1, <1>3, <1>4, <1>6 DEF ArrivalInv
<1>8. OrderInv => OrderInv'
  BY <1>1, <1>3, <1>4 DEF OrderInv
<1>9. ReleaseInv'
  BY <1>1, <1>6, <1>8 DEF ReleaseInv
<1>10. QED BY <1>1, <1>5, <1>7, <1>9 DEF Stride, Lifecycle!vars

\* A transition joins the queue: a stutter.
LEMMA LifeQueues ==
  ASSUME LifeInv, NEW p, Procs = {p}, PerformTransition(p)
  PROVE  LifeInv' /\ Stride
<1>. USE DEF LifeInv
<1>1. /\ work' = [work EXCEPT ![p].next = None] /\ queue' = Append(queue, work[p].next)
      /\ UNCHANGED <<obs_state, complete, block>> /\ work[p].next # None
  BY DEF PerformTransition, obs
<1>2. PICK e : e = work[p].next
  OBVIOUS
<1>3. PICK r : r = [work[p] EXCEPT !.next = None]
  OBVIOUS
<1>4. /\ DOMAIN r = Fields /\ r.ev = None /\ work[p].ev = None /\ r.next = None
      /\ None.kind = "none"
  BY <1>1, <1>3 DEF HandsInv, Fields, None, Ev
<1>5. DOMAIN work' = Procs /\ work'[p] = r
  BY <1>1, <1>3 DEF HandsInv
<1>6. PICK S : S = Range(queue) \cup {e}
  OBVIOUS
<1>7. queue \in Seq(S)
  BY <1>6, Range(queue) \subseteq S DEF QueueInv
<1>8. /\ Len(queue) \in Nat /\ DOMAIN queue = 1..Len(queue)
      /\ DOMAIN queue' = 1..(Len(queue) + 1)
      /\ \A i \in 1..Len(queue) : queue'[i] = queue[i]
      /\ queue'[Len(queue) + 1] = e
  BY <1>1, <1>2, <1>6, <1>7
<1>9. /\ \A i \in DOMAIN queue' : \/ i \in DOMAIN queue /\ queue'[i] = queue[i]
                                  \/ i \notin DOMAIN queue /\ queue'[i] = e
      /\ \A i, j \in DOMAIN queue' : i < j => i \in DOMAIN queue
  BY <1>8
<1>10. QueueInv' /\ HandsInv' /\ LifeTypes'
  BY <1>1, <1>4, <1>5, QueueAppended DEF QueueInv, HandsInv, LifeTypes
<1>11. \A k : Awaiting(k)' => Awaiting(k)
  BY <1>2, <1>4, <1>5, <1>9 DEF Awaiting
<1>12. ArrivalInv'
  BY <1>1, <1>2, <1>4, <1>5, <1>9, <1>11 DEF ArrivalInv
<1>13. OrderInv => OrderInv'
  BY <1>2, <1>4, <1>5, <1>9 DEF OrderInv
<1>14. ReleaseInv'
  BY <1>1, <1>11, <1>13 DEF ReleaseInv
<1>15. QED BY <1>1, <1>10, <1>12, <1>14 DEF Stride, Lifecycle!vars

\* Time, the devices and other observations; nobody resets.
LEMMA LifeSurrounded ==
  ASSUME LifeInv, NEW p, Procs = {p}, "OperatorReset" \notin Faults, Next, ~Process(p)
  PROVE  LifeInv' /\ Stride
<1>1. \/ \E t \in Timers : TimerFires(t)
      \/ BlockPasses \/ SlewEnds \/ DeviceAnswers \/ DigitiserAnswers \/ DeviceProgress
      \/ DeviceFails
      \/ \E s \in Scans : SdpReports(s)
      \/ \E kind \in FaultKinds : Reported(kind)
      \/ OtherReleases
  BY DEF Next
<1>2. CASE BlockPasses \/ UNCHANGED <<queue, block>>
  <2>1. UNCHANGED <<obs_state, complete, queue, work>> \/ ~(BlockPasses \/ SlewEnds)
    BY DEF BlockPasses, SlewEnds, obs
  <2>2. UNCHANGED <<obs_state, complete, queue, work>>
    BY <1>1, <1>2, <2>1
    DEF BlockPasses, SlewEnds, DeviceAnswers, DigitiserAnswers, DeviceProgress, DeviceFails,
        SdpReports, Reported, OtherReleases, TimerFires, Arrives, obs
  <2>3. block' = block \/ block' # "running"
    BY <1>2 DEF BlockPasses
  <2>4. \A k : Awaiting(k)' <=> Awaiting(k)
    BY <2>2 DEF Awaiting
  <2>5. LifeInv'
    BY <2>2, <2>3, <2>4
    DEF LifeInv, QueueInv, HandsInv, LifeTypes, ReleaseInv, ArrivalInv, OrderInv
  <2>6. QED BY <2>2, <2>5 DEF Stride, Lifecycle!vars
<1>3. CASE ~BlockPasses /\ ~(UNCHANGED <<queue, block>>)
  <2>1. UNCHANGED <<obs, work, block>>
    BY <1>1, <1>3 DEF SlewEnds, DeviceAnswers, DigitiserAnswers, DeviceProgress, DeviceFails,
         SdpReports, Reported, OtherReleases, TimerFires, Arrives
  <2>2. \E e : /\ queue' = Append(queue, e)
               /\ e.kind \notin {"RELEASE_RESOURCES", "CONFIGURE_RESOURCES", "RESET",
                                 "OperatorReset"}
               /\ e.kind = "obs_abort_timer" => block # "running"
               /\ e.kind = "ScanComplete" => e.scan \in Scans
    <3>1. \A k, s : /\ Ev(k).kind = k /\ About(k, s).kind = k /\ About(k, s).scan = s
      BY DEF Ev, About
    <3>2. CASE \E t \in Timers : TimerFires(t)
      <4>1. PICK t \in Timers : TimerFires(t)
        BY <3>2
      <4>2. queue' = Append(queue, t) /\ (t.kind = "obs_abort_timer" => block # "running")
        BY <4>1 DEF TimerFires, Arrives
      <4>3. t.kind \in TimerKinds
        BY <3>1 DEF Timers, TimerKinds
      <4>4. QED BY <4>2, <4>3 DEF TimerKinds, ObsTimers, ConfigTimers, AcquireTimers
    <3>3. CASE DeviceAnswers \/ DeviceProgress \/ DigitiserAnswers
      <4>1. \E k \in {"Applied", "Progress", "Acquires"} :
               \E s : queue' = Append(queue, About(k, s))
        BY <1>3, <2>1, <3>3 DEF DeviceAnswers, DeviceProgress, DigitiserAnswers, Arrives
      <4>2. QED BY <3>1, <4>1
    <3>4. CASE \E s \in Scans : SdpReports(s)
      <4>1. PICK s \in Scans : queue' = Append(queue, About("ScanComplete", s))
        BY <3>4 DEF SdpReports, Arrives
      <4>2. /\ About("ScanComplete", s).kind = "ScanComplete"
            /\ About("ScanComplete", s).scan \in Scans
        BY <3>1
      <4>3. QED BY <4>1, <4>2
    <3>5. CASE DeviceFails \/ OtherReleases \/ \E kind \in FaultKinds : Reported(kind)
      <4>1. \E k \in {"ErrorMsg", "DigError", "ASSIGN_RESOURCES"} : queue' = Append(queue, Ev(k))
        BY <1>3, <2>1, <3>5 DEF DeviceFails, OtherReleases, Reported, Arrives, Fault
      <4>2. QED BY <3>1, <4>1
    <3>6. ~SlewEnds
      BY <1>3 DEF SlewEnds
    <3>7. QED BY <1>1, <1>3, <3>2, <3>3, <3>4, <3>5, <3>6
  <2>3. LifeInv'
    BY <2>1, <2>2, LifeArrived
  <2>4. QED BY <2>1, <2>3 DEF Stride, Lifecycle!vars, obs
<1>4. QED BY <1>2, <1>3

\* Initial states map to initial states.
LEMMA LifeBegins == Init => LifeInv /\ Lifecycle!Init
<1>. SUFFICES ASSUME Init PROVE LifeInv /\ Lifecycle!Init
  OBVIOUS
<1>1. /\ queue = <<Ev("START")>> /\ obs_state = "EMPTY" /\ complete = {} /\ block = "running"
      /\ work = [p \in Procs |-> Idle]
  BY DEF Init
<1>2. Range(queue) = {Ev("START")}
  BY <1>1 DEF Range
<1>3. QueueInv
  BY <1>1, <1>2 DEF QueueInv
<1>4. HandsInv
  BY <1>1 DEF HandsInv, Idle, Fields
<1>5. \A k : Awaiting(k) => k \in {"START", "none"}
  BY <1>1 DEF Awaiting, Idle, None, Ev
<1>6. LifeTypes /\ ReleaseInv
  BY <1>1, <1>5 DEF LifeTypes, ReleaseInv, States
<1>7. ArrivalInv
  BY <1>1, <1>5 DEF ArrivalInv, Idle, None, Ev
<1>8. QED BY <1>1, <1>3, <1>4, <1>6, <1>7 DEF LifeInv, Lifecycle!Init

\* The workflow implements the life cycle: whatever times out, fails or is reported late,
\* an observation enters SCANNING only from READY or CONFIGURING, is released only when it
\* is complete or was aborted, and keeps its completed scans (allowed_transitions of
\* models/obs.py).  With one processor and no operator reset.
THEOREM LifecycleKept ==
  ASSUME NEW p, Procs = {p}, "OperatorReset" \notin Faults
  PROVE  Spec => LifecycleSpec
<1>1. LifeInv /\ [Next]_vars => LifeInv' /\ Stride
  <2>1. SUFFICES ASSUME LifeInv, [Next]_vars PROVE LifeInv' /\ Stride
    OBVIOUS
  <2>2. CASE UNCHANGED vars
    BY <2>1, <2>2 DEF vars, obs, LifeInv, QueueInv, HandsInv, LifeTypes, ReleaseInv, ArrivalInv,
                      OrderInv, Awaiting, Stride, Lifecycle!vars
  <2>3. CASE Process(p)
    BY <2>1, <2>3, LifeWaits, LifeRetries, LifeStarts, LifeReleases, LifeConfigures, LifeScans,
       LifeAborts, LifeCompletes, NoReset, LifeTaken, LifePerforms, LifeQueues
    DEF Process
  <2>4. CASE Next /\ ~Process(p)
    BY <2>1, <2>4, LifeSurrounded
  <2>5. QED BY <2>1, <2>2, <2>3, <2>4
<1>2. QED BY LifeBegins, <1>1, PTL DEF Spec, LifecycleSpec, Lifecycle!Spec, Stride

-----------------------------------------------------------------------------
(* The pointing: the inductive invariant.                                    *)

Pointing == {"READY", "TRACK", "SCAN"}

DishFields == {"target", "mode", "state", "acq", "at"}

\* A dish that points at a target has been found there.
SeesTarget(d) == (d.target # 0 /\ d.state \in Pointing) => d.target \in confirmed

\* The acquisition of its target goes with it.
IsThere(d) == /\ d.target \in DOMAIN aims
              /\ d.acq = Actual(d.target) /\ d.at = PlaceOf(d.target)

\* What is asked of the dish is asked for the scan at hand.
OfThisScan(r) == r.asks = "mode" \/ (r.asks = "target" /\ r.target = aim)

RequestTypes == [asks : {"mode", "target"}, target : Nat]

\* The observation.
ScanInv ==
    /\ aims \in AimLists /\ aim \in DOMAIN aims
    /\ obsState \in {"CONFIGURING", "SCANNING", "COMPLETED", "ABORTED"}
    /\ DOMAIN recorded = DOMAIN aims

\* Requests, and the timers of those that are not answered yet, are the scan's own.
RequestInv ==
    /\ waiting \in Seq([request : RequestTypes, timer : {"retry", "final", "stopped"}])
    /\ requests \subseteq [n : Nat \ {0}, copy : {1, 2}, request : RequestTypes]
    /\ \A n \in DOMAIN waiting : waiting[n].timer # "stopped" => OfThisScan(waiting[n].request)
    /\ \A q \in requests : OfThisScan(q.request)

\* A mount that moves, or is about to, goes to the place of the scan; one that was last
\* seen there is there and stays.
MountInv ==
    /\ antenna \in {0, goal} \/ goal = PlaceOf(aim)
    /\ dish.at = PlaceOf(aim) => antenna = dish.at /\ goal = dish.at

\* The dish while nobody holds its lock.
FreeInv ==
    setting = NoRequest =>
        /\ SeesTarget(dish)
        /\ dish.target # 0 =>
              /\ dish.state \in Pointing =>
                    /\ antenna = PlaceOf(dish.target) /\ goal = PlaceOf(dish.target)
                    /\ dish.at = PlaceOf(dish.target)
              /\ dish.state = "READY" => dish.acq = Actual(dish.target)
              /\ dish.state = "SLEW" => goal = PlaceOf(dish.target)

\* The model of the dish.
DishTypes ==
    /\ DOMAIN dish = DishFields
    /\ dish.target \in {0} \cup DOMAIN aims

\* A target that is being set is the scan's.
SettingInv ==
    setting # NoRequest =>
        /\ setting.request.target = aim
        /\ dish.target = aim /\ dish.state = "READY"

\* What a handler says after the lock was as it says when it released it.
ReleasedInv ==
    \A r \in releasing : r.acquired =>
        /\ r.left.target = r.target /\ r.target \in confirmed /\ IsThere(r.left)

\* Messages to the Telescope Manager.
AnswersInv ==
    \A m \in answers :
        /\ m.says \in {"mode", "target", "error", "advice"}
        /\ m.says = "advice" => DOMAIN m.dish = DishFields
        /\ (m.says = "target" /\ m.acquired) => m.target \in confirmed
        /\ (m.says = "advice" /\ ~torn) =>
              SeesTarget(m.dish) /\ (m.obs # NoObs => IsThere(m.dish))

\* What the Telescope Manager believes.
PictureInv == DOMAIN picture = DishFields /\ (~torn => SeesTarget(picture))

SightInv ==
    /\ ScanInv /\ RequestInv /\ DishTypes /\ MountInv /\ FreeInv /\ SettingInv
    /\ ReleasedInv /\ AnswersInv /\ PictureInv /\ TargetIsSeen

-----------------------------------------------------------------------------
(* What the actions leave alone.                                            *)

\* Targets and their places, from the assumption on the lists.
LEMMA AimTypes ==
  ASSUME ScanInv
  PROVE  /\ aims \in Seq(Aims) /\ DOMAIN aims = 1..Len(aims) /\ aim \in Nat \ {0}
         /\ \A k \in DOMAIN aims : /\ k \in Nat \ {0} /\ PlaceOf(k) \in Nat \ {0}
                                   /\ aims[k].pointing \in Followings
                                   /\ PointingOf[aims[k].pointing] \in Pointing
<1>1. aims \in Seq(Aims)
  BY AcquisitionAssumption DEF ScanInv
<1>2. DOMAIN aims = 1..Len(aims) /\ Len(aims) \in Nat
  BY <1>1
<1>3. ASSUME NEW k \in DOMAIN aims
      PROVE  /\ k \in Nat \ {0} /\ PlaceOf(k) \in Nat \ {0}
             /\ aims[k].pointing \in Followings
  <2>1. aims[k] \in Aims /\ k \in Nat \ {0}
    BY <1>1, <1>2
  <2>2. QED BY <2>1 DEF Aims, PlaceOf
<1>4. \A p \in Followings : PointingOf[p] \in Pointing
  BY DEF Followings, PointingOf, Pointing
<1>5. QED BY <1>1, <1>2, <1>3, <1>4 DEF ScanInv

\* Nothing happens to the dish.
LEMMA DishKept ==
  ASSUME DishTypes, MountInv, FreeInv, SettingInv,
         UNCHANGED <<aims, aim, dish, setting, antenna, goal, confirmed>>
  PROVE  DishTypes' /\ MountInv' /\ FreeInv' /\ SettingInv'
BY DEF DishTypes, MountInv, FreeInv, SettingInv, SeesTarget, PlaceOf

\* No message is added.
LEMMA MessagesKept ==
  ASSUME ReleasedInv, AnswersInv, releasing' \subseteq releasing, answers' \subseteq answers,
         UNCHANGED aims, confirmed \subseteq confirmed', torn => torn'
  PROVE  ReleasedInv' /\ AnswersInv'
BY DEF ReleasedInv, AnswersInv, SeesTarget, IsThere, PlaceOf

\* The picture is left alone.
LEMMA PictureKept ==
  ASSUME PictureInv, UNCHANGED picture, confirmed \subseteq confirmed', torn => torn'
  PROVE  PictureInv'
BY DEF PictureInv, SeesTarget

\* No scan begins and nothing is recorded.
LEMMA SightKept ==
  ASSUME TargetIsSeen, UNCHANGED <<aims, aim, recorded>>, confirmed \subseteq confirmed',
         torn => torn',
         obsState' = obsState \/ obsState' # "SCANNING"
  PROVE  TargetIsSeen'
BY DEF TargetIsSeen, SkyIsSeen, AcquisitionIsActual, PlaceOf

\* No request is added.
LEMMA RequestsKept ==
  ASSUME RequestInv, UNCHANGED <<waiting, aim>>, requests' \subseteq requests
  PROVE  RequestInv'
BY DEF RequestInv, OfThisScan

\* What the Dish Manager does leaves the observation, its requests and the picture alone.
LEMMA OthersKept ==
  ASSUME ScanInv, RequestInv, PictureInv, TargetIsSeen,
         UNCHANGED <<obsVars, waiting, picture>>, requests' \subseteq requests,
         confirmed \subseteq confirmed', torn => torn'
  PROVE  ScanInv' /\ RequestInv' /\ PictureInv' /\ TargetIsSeen'
<1>1. UNCHANGED <<aims, aim, recorded, obsState>>
  BY DEF obsVars
<1>2. QED BY <1>1, RequestsKept, PictureKept, SightKept DEF ScanInv

\* The members of a sequence.
LEMMA MemberOfSeq ==
  ASSUME NEW S, NEW s \in Seq(S), NEW i \in DOMAIN s
  PROVE  s[i] \in S
BY DOMAIN s = 1..Len(s)

-----------------------------------------------------------------------------
(* The Observation Execution Tool.                                          *)

\* The review of a configuration (configure_resources) begins a scan of the sky only when
\* the picture has its target in its pointing state.
LEMMA Reviewed ==
  ASSUME SightInv, NEW others \in BOOLEAN, ReviewConfiguration(others)
  PROVE  SightInv'
<1>. USE DEF SightInv
<1>1. UNCHANGED <<aims, aim, recorded, timeouts, answers, dish, setting, releasing, antenna,
                  goal, confirmed, picture, torn>>
  BY DEF ReviewConfiguration, dishVars, historyVars
<1>2. /\ DishTypes' /\ MountInv' /\ FreeInv' /\ SettingInv'
      /\ ReleasedInv' /\ AnswersInv' /\ PictureInv'
  BY <1>1, DishKept, MessagesKept, PictureKept
<1>3. CASE picture.target # aim /\ TimersActive
  <2>1. UNCHANGED <<requests, waiting, obsState>>
    BY <1>3 DEF ReviewConfiguration
  <2>2. ScanInv' /\ RequestInv' /\ TargetIsSeen'
    BY <1>1, <2>1, RequestsKept, SightKept DEF ScanInv
  <2>3. QED BY <1>2, <2>2
<1>4. CASE picture.target # aim /\ ~TimersActive
  <2>1. PICK e : e = [request |-> Request, timer |-> "retry"]
    OBVIOUS
  <2>2. PICK q : q = [n |-> Len(waiting'), copy |-> 1, request |-> Request]
    OBVIOUS
  <2>3. /\ waiting' = Append(waiting, e) /\ requests' = requests \cup {q} /\ obsState' = obsState
    BY <1>4, <2>1, <2>2 DEF ReviewConfiguration
  <2>4. Request \in RequestTypes /\ OfThisScan(Request)
    BY AimTypes DEF Request, RequestTypes, OfThisScan
  <2>5. e \in [request : RequestTypes, timer : {"retry", "final", "stopped"}]
    BY <2>1, <2>4
  <2>6. waiting \in Seq([request : RequestTypes, timer : {"retry", "final", "stopped"}])
    BY DEF RequestInv
  <2>7. /\ waiting' \in Seq([request : RequestTypes, timer : {"retry", "final", "stopped"}])
        /\ Len(waiting') = Len(waiting) + 1 /\ DOMAIN waiting' = 1..(Len(waiting) + 1)
        /\ DOMAIN waiting = 1..Len(waiting) /\ Len(waiting) \in Nat
        /\ \A n \in 1..Len(waiting) : waiting'[n] = waiting[n]
        /\ waiting'[Len(waiting) + 1] = e
    BY <2>3, <2>5, <2>6
  <2>8. q \in [n : Nat \ {0}, copy : {1, 2}, request : RequestTypes] /\ q.request = Request
    BY <2>2, <2>4, <2>7
  <2>9. \A n \in DOMAIN waiting' : n \in DOMAIN waiting \/ n = Len(waiting) + 1
    BY <2>7
  <2>10. \A n \in DOMAIN waiting' :
          waiting'[n].timer # "stopped" => OfThisScan(waiting'[n].request)
    BY <2>1, <2>4, <2>7, <2>9 DEF RequestInv
  <2>11. \A r : OfThisScan(r)' <=> OfThisScan(r)
    BY <1>1 DEF OfThisScan
  <2>12. RequestInv'
    BY <2>3, <2>4, <2>7, <2>8, <2>10, <2>11 DEF RequestInv
  <2>13. ScanInv' /\ TargetIsSeen'
    BY <1>1, <2>3, SightKept DEF ScanInv
  <2>14. QED BY <1>2, <2>12, <2>13
<1>5. CASE picture.target = aim
  <2>1. /\ UNCHANGED <<requests, waiting>>
        /\ obsState' = IF others /\ PointingSuffices THEN "SCANNING" ELSE obsState
    BY <1>5 DEF ReviewConfiguration
  <2>2. RequestInv' /\ ScanInv'
    BY <1>1, <2>1, RequestsKept DEF ScanInv
  <2>3. CASE PointingSuffices /\ aims[aim].feed = "sky" /\ ~torn
    <3>1. picture.state \in Pointing
      BY <2>3, AimTypes DEF PointingSuffices, IsOnTarget, ScanInv
    <3>2. aim \in confirmed
      BY <1>5, <2>3, <3>1, AimTypes DEF PictureInv, SeesTarget
    <3>3. TargetIsSeen'
      BY <1>1, <3>2 DEF TargetIsSeen, SkyIsSeen, AcquisitionIsActual, PlaceOf
    <3>4. QED BY <1>2, <2>2, <3>3
  <2>4. CASE ~PointingSuffices
    BY <1>1, <1>2, <2>1, <2>2, <2>4, SightKept
  <2>5. CASE aims[aim].feed # "sky" \/ torn
    <3>1. TargetIsSeen'
      BY <1>1, <2>5 DEF TargetIsSeen, SkyIsSeen, AcquisitionIsActual, PlaceOf
    <3>2. QED BY <1>2, <2>2, <3>1
  <2>6. QED BY <2>3, <2>4, <2>5
<1>6. QED BY <1>3, <1>4, <1>5

\* An answer of the digitiser or the Science Data Processor disturbs nothing.
LEMMA Progressed ==
  ASSUME SightInv, OthersProgress
  PROVE  SightInv'
<1>1. UNCHANGED <<aims, aim, recorded, obsState, answers, dish, setting, releasing, antenna,
                  goal, confirmed, picture, torn, waiting, requests>>
  BY DEF OthersProgress, dishVars, historyVars, requestVars, netVars
<1>2. QED BY <1>1, DishKept, MessagesKept, PictureKept, RequestsKept, SightKept
          DEF SightInv, ScanInv

\* At the end of a scan no request is left, and the mount is where it was told to be.
LEMMA ScanEnded ==
  ASSUME SightInv, EndScan
  PROVE  SightInv'
<1>. USE DEF SightInv
<1>1. /\ UNCHANGED <<aims, recorded, answers, dish, setting, releasing, antenna, goal,
                     confirmed, picture, torn, waiting, requests>>
      /\ obsState' \in {"COMPLETED", "CONFIGURING"}
      /\ ~TimersActive /\ requests = {} /\ setting = NoRequest
      /\ antenna \in {0, goal} /\ dish.at = antenna
  BY DEF EndScan, dishVars, historyVars, requestVars, netVars
<1>2. aim' \in DOMAIN aims
  <2>1. aim = Len(aims) \/ aim + 1 \in 1..Len(aims)
    BY AimTypes DEF ScanInv
  <2>2. QED BY <2>1, AimTypes DEF EndScan, ScanInv
<1>3. ScanInv'
  BY <1>1, <1>2 DEF ScanInv
<1>4. RequestInv'
  BY <1>1 DEF RequestInv, TimersActive
<1>5. MountInv'
  <2>1. PlaceOf(aim)' = PlaceOf(aim') /\ PlaceOf(aim') # 0
    BY <1>1, <1>2, AimTypes DEF PlaceOf
  <2>2. QED BY <1>1, <2>1 DEF MountInv
<1>6. DishTypes' /\ FreeInv' /\ SettingInv'
  BY <1>1 DEF DishTypes, FreeInv, SettingInv, SeesTarget, PlaceOf
<1>7. ReleasedInv' /\ AnswersInv' /\ PictureInv'
  BY <1>1, MessagesKept, PictureKept
<1>8. TargetIsSeen'
  BY <1>1 DEF TargetIsSeen, SkyIsSeen, AcquisitionIsActual, PlaceOf
<1>9. QED BY <1>3, <1>4, <1>5, <1>6, <1>7, <1>8

\* A timer sends the request again, or gives up.
LEMMA Retried ==
  ASSUME SightInv, NEW n \in DOMAIN waiting, RetryRequest(n) \/ RequestFails(n)
  PROVE  SightInv'
<1>. USE DEF SightInv
<1>1. /\ UNCHANGED <<aims, aim, recorded, answers, dish, setting, releasing, antenna, goal,
                     confirmed, picture, torn>>
      /\ obsState' = obsState \/ obsState' = "ABORTED"
  BY DEF RetryRequest, RequestFails, dishVars, historyVars, obsVars, netVars
<1>2. PICK t \in {"final", "stopped"} : waiting' = [waiting EXCEPT ![n].timer = t]
  BY DEF RetryRequest, RequestFails
<1>3. /\ waiting[n].timer # "stopped"
      /\ requests' = requests
           \/ requests' = requests \cup {[n |-> n, copy |-> 2, request |-> waiting[n].request]}
  BY DEF RetryRequest, RequestFails, netVars
<1>4. /\ waiting \in Seq([request : RequestTypes, timer : {"retry", "final", "stopped"}])
      /\ n \in Nat \ {0}
  BY DEF RequestInv
<1>5. waiting[n] \in [request : RequestTypes, timer : {"retry", "final", "stopped"}]
  <2>1. PICK S : S = [request : RequestTypes, timer : {"retry", "final", "stopped"}]
    OBVIOUS
  <2>2. waiting \in Seq(S)
    BY <1>4, <2>1
  <2>3. waiting[n] \in S
    BY <2>2, MemberOfSeq
  <2>4. QED BY <2>1, <2>3
<1>6. /\ waiting' \in Seq([request : RequestTypes, timer : {"retry", "final", "stopped"}])
      /\ DOMAIN waiting' = DOMAIN waiting
      /\ \A i \in DOMAIN waiting : waiting'[i].request = waiting[i].request
      /\ \A i \in DOMAIN waiting : i # n => waiting'[i] = waiting[i]
  <2>1. PICK e : e = [waiting[n] EXCEPT !.timer = t]
    OBVIOUS
  <2>2. /\ e \in [request : RequestTypes, timer : {"retry", "final", "stopped"}]
        /\ e.request = waiting[n].request
    BY <1>5, <2>1
  <2>3. waiting' = [waiting EXCEPT ![n] = e]
    BY <1>2, <2>1
  <2>4. QED BY <1>4, <2>2, <2>3
<1>7. OfThisScan(waiting[n].request)
  BY <1>3 DEF RequestInv
<1>8. RequestInv'
  <2>1. \A r : OfThisScan(r)' <=> OfThisScan(r)
    BY <1>1 DEF OfThisScan
  <2>2. \A i \in DOMAIN waiting' :
          waiting'[i].timer # "stopped" => OfThisScan(waiting'[i].request)
    BY <1>6, <1>7 DEF RequestInv
  <2>3. PICK q : q = [n |-> n, copy |-> 2, request |-> waiting[n].request]
    OBVIOUS
  <2>4. q \in [n : Nat \ {0}, copy : {1, 2}, request : RequestTypes] /\ OfThisScan(q.request)
    BY <1>4, <1>5, <1>7, <2>3
  <2>5. requests' \subseteq requests \cup {q}
    BY <1>3, <2>3
  <2>6. QED BY <1>6, <2>1, <2>2, <2>4, <2>5 DEF RequestInv
<1>9. ScanInv' /\ TargetIsSeen'
  BY <1>1, SightKept DEF ScanInv
<1>10. QED BY <1>1, <1>8, <1>9, DishKept, MessagesKept, PictureKept

-----------------------------------------------------------------------------
(* The Dish Manager.                                                        *)

\* The configuration mode takes the dish out of every pointing state.
LEMMA ModeHandled ==
  ASSUME SightInv, NEW q, HandleMode(q)
  PROVE  SightInv'
<1>. USE DEF SightInv
<1>1. /\ UNCHANGED <<obsVars, waiting, picture, aims, aim, setting, releasing, antenna, goal,
                     confirmed, torn>>
      /\ requests' \subseteq requests /\ setting = NoRequest
      /\ dish' = [dish EXCEPT !.mode = "CONFIG", !.state = "UNKNOWN"]
      /\ answers' = answers \cup {Reply(q.n, "mode", 0, FALSE)}
  BY DEF HandleMode, DishLockFree, requestVars, historyVars, obsVars
<1>2. DOMAIN dish = DishFields
  BY DEF DishTypes
<1>3. /\ DOMAIN dish' = DishFields
      /\ dish'.target = dish.target /\ dish'.state = "UNKNOWN" /\ dish'.at = dish.at
  BY <1>1, <1>2 DEF DishFields
<1>4. DishTypes' /\ MountInv' /\ FreeInv' /\ SettingInv'
  BY <1>1, <1>3 DEF DishTypes, MountInv, FreeInv, SettingInv, SeesTarget, PlaceOf, Pointing
<1>5. ReleasedInv'
  BY <1>1 DEF ReleasedInv, IsThere, PlaceOf
<1>6. AnswersInv'
  BY <1>1 DEF AnswersInv, SeesTarget, IsThere, PlaceOf, Reply
<1>7. QED BY <1>1, <1>4, <1>5, <1>6, OthersKept

\* A refused target leaves the dish without one.
LEMMA TargetRefused ==
  ASSUME SightInv, NEW q, RefuseTarget(q)
  PROVE  SightInv'
<1>. USE DEF SightInv
<1>1. /\ UNCHANGED <<obsVars, waiting, picture, aims, aim, setting, releasing, antenna, goal,
                     confirmed, torn>>
      /\ requests' \subseteq requests /\ setting = NoRequest
      /\ dish' = [dish EXCEPT !.target = 0]
      /\ answers' = answers \cup {Reply(q.n, "error", 0, FALSE)}
  BY DEF RefuseTarget, DishLockFree, requestVars, historyVars, obsVars
<1>2. DOMAIN dish = DishFields
  BY DEF DishTypes
<1>3. /\ DOMAIN dish' = DishFields
      /\ dish'.target = 0 /\ dish'.at = dish.at
  BY <1>1, <1>2 DEF DishFields
<1>4. DishTypes' /\ MountInv' /\ FreeInv' /\ SettingInv'
  BY <1>1, <1>3 DEF DishTypes, MountInv, FreeInv, SettingInv, SeesTarget, PlaceOf
<1>5. ReleasedInv'
  BY <1>1 DEF ReleasedInv, IsThere, PlaceOf
<1>6. AnswersInv'
  BY <1>1 DEF AnswersInv, SeesTarget, IsThere, PlaceOf, Reply
<1>7. QED BY <1>1, <1>4, <1>5, <1>6, OthersKept

\* Under the lock the model is ready before the dish is: the mount stands where it is.
LEMMA TargetBegun ==
  ASSUME SightInv, NEW q \in requests, BeginTarget(q)
  PROVE  SightInv'
<1>. USE DEF SightInv
<1>1. /\ UNCHANGED <<obsVars, waiting, picture, aims, aim, answers, releasing, antenna,
                     confirmed, torn>>
      /\ requests' \subseteq requests
      /\ setting' = q /\ goal' = antenna /\ q.request.asks = "target"
      /\ dish' = [dish EXCEPT !.target = q.request.target, !.acq = NoTime, !.mode = "OPERATE",
                              !.state = "READY"]
  BY DEF BeginTarget, requestVars, historyVars, obsVars
<1>2. q # NoRequest
  <2>1. q.n # 0
    BY DEF RequestInv
  <2>2. QED BY <2>1 DEF NoRequest
<1>3. q.request.target = aim
  BY <1>1 DEF RequestInv, OfThisScan
<1>4. DOMAIN dish = DishFields
  BY DEF DishTypes
<1>5. /\ DOMAIN dish' = DishFields
      /\ dish'.target = aim /\ dish'.state = "READY" /\ dish'.at = dish.at
  BY <1>1, <1>3, <1>4 DEF DishFields
<1>6. DishTypes' /\ MountInv'
  BY <1>1, <1>5 DEF DishTypes, MountInv, PlaceOf, ScanInv
<1>7. FreeInv' /\ SettingInv'
  BY <1>1, <1>2, <1>3, <1>5 DEF FreeInv, SettingInv
<1>8. ReleasedInv' /\ AnswersInv'
  BY <1>1, MessagesKept
<1>9. QED BY <1>1, <1>6, <1>7, <1>8, OthersKept

\* What the release of the lock leaves, acquired or not.
LEMMA Released ==
  ASSUME ReleasedInv, NEW q, NEW left, DOMAIN left = DishFields,
         left.target = q.request.target, UNCHANGED aims, confirmed \subseteq confirmed',
         left.state = "READY" => IsThere(left)' /\ left.target \in confirmed',
         Release(q, left)
  PROVE  /\ ReleasedInv' /\ setting' = NoRequest
         /\ DOMAIN dish' = DishFields
         /\ dish'.target = left.target /\ dish'.state = left.state /\ dish'.at = left.at
         /\ left.state = "READY" => dish' = left
<1>1. /\ dish' = IF left.state = "READY" THEN left
                 ELSE [left EXCEPT !.acq = Estimate(q.request.target)]
      /\ setting' = NoRequest
      /\ releasing' = releasing \cup {[n |-> q.n, copy |-> q.copy, target |-> q.request.target,
                                       acquired |-> left.state = "READY", left |-> dish']}
  BY DEF Release
<1>2. /\ DOMAIN dish' = DishFields
      /\ dish'.target = left.target /\ dish'.state = left.state /\ dish'.at = left.at
      /\ left.state = "READY" => dish' = left
  BY <1>1 DEF DishFields
<1>3. PICK r : r = [n |-> q.n, copy |-> q.copy, target |-> q.request.target,
                    acquired |-> left.state = "READY", left |-> dish']
  OBVIOUS
<1>4. r.target = left.target /\ (r.acquired <=> left.state = "READY") /\ r.left = dish'
  BY <1>3
<1>5. r.acquired => r.left.target = r.target /\ r.target \in confirmed' /\ IsThere(r.left)'
  BY <1>2, <1>4 DEF IsThere
<1>6. ReleasedInv'
  BY <1>1, <1>3, <1>5 DEF ReleasedInv, IsThere, PlaceOf
<1>7. QED BY <1>1, <1>2, <1>6

\* A duplicate is answered with what the dish is by then.
LEMMA DuplicateHandled ==
  ASSUME SightInv, NEW q \in requests, HandleDuplicate(q)
  PROVE  SightInv'
<1>. USE DEF SightInv
<1>1. /\ UNCHANGED <<obsVars, waiting, picture, aims, aim, answers, antenna, goal,
                     confirmed, torn>>
      /\ requests' \subseteq requests /\ setting = NoRequest
      /\ dish.target = q.request.target /\ q.request.target = aim
      /\ Release(q, dish)
  BY DEF HandleDuplicate, DishLockFree, requestVars, historyVars, obsVars, RequestInv, OfThisScan
<1>2. DOMAIN dish = DishFields /\ aim # 0 /\ aim \in DOMAIN aims
  BY AimTypes DEF DishTypes, ScanInv
<1>3. PICK left : left = dish
  OBVIOUS
<1>4. left.state = "READY" => IsThere(left)' /\ left.target \in confirmed'
  BY <1>1, <1>2, <1>3 DEF FreeInv, SeesTarget, Pointing, IsThere, PlaceOf
<1>5. /\ ReleasedInv' /\ setting' = NoRequest
      /\ DOMAIN dish' = DishFields
      /\ dish'.target = left.target /\ dish'.state = left.state /\ dish'.at = left.at
      /\ left.state = "READY" => dish' = left
  BY <1>1, <1>2, <1>3, <1>4, Released
<1>6. DishTypes' /\ MountInv' /\ FreeInv' /\ SettingInv'
  BY <1>1, <1>3, <1>5 DEF DishTypes, MountInv, FreeInv, SettingInv, SeesTarget, PlaceOf
<1>7. AnswersInv'
  BY <1>1 DEF AnswersInv, SeesTarget, IsThere, PlaceOf
<1>8. QED BY <1>1, <1>5, <1>6, <1>7, OthersKept

\* The dish is at its target, or begins to slew there.
LEMMA TargetFinished ==
  ASSUME SightInv, FinishTarget
  PROVE  SightInv'
<1>. USE DEF SightInv
<1>1. /\ UNCHANGED <<obsVars, waiting, requests, picture, aims, aim, answers, antenna, torn>>
      /\ setting # NoRequest
  BY DEF FinishTarget, DishLockFree, requestVars, netVars, historyVars, obsVars
<1>2. /\ DOMAIN dish = DishFields /\ aim # 0 /\ aim \in DOMAIN aims
      /\ setting.request.target = aim /\ dish.target = aim /\ dish.state = "READY"
      /\ PlaceOf(aim) # 0
  BY <1>1, AimTypes DEF DishTypes, ScanInv, SettingInv
<1>3. CASE dish.at = PlaceOf(aim)
  <2>1. PICK left : left = [dish EXCEPT !.acq = Actual(aim)]
    OBVIOUS
  <2>2. Release(setting, left) /\ confirmed' = confirmed \cup {aim} /\ goal' = goal
    BY <1>2, <1>3, <2>1 DEF FinishTarget
  <2>3. /\ DOMAIN left = DishFields /\ left.target = aim /\ left.state = "READY"
        /\ left.at = dish.at /\ left.acq = Actual(aim)
    BY <1>2, <2>1 DEF DishFields
  <2>4. IsThere(left)' /\ aim \in confirmed'
    BY <1>1, <1>2, <1>3, <2>2, <2>3 DEF IsThere, PlaceOf
  <2>5. ReleasedInv' /\ setting' = NoRequest /\ dish' = left
    BY <1>1, <1>2, <2>2, <2>3, <2>4, Released
  <2>6. antenna = PlaceOf(aim) /\ goal = PlaceOf(aim)
    BY <1>3 DEF MountInv
  <2>7. DishTypes' /\ MountInv' /\ FreeInv' /\ SettingInv'
    BY <1>1, <1>2, <1>3, <2>2, <2>3, <2>5, <2>6
    DEF DishTypes, MountInv, FreeInv, SettingInv, SeesTarget, PlaceOf
  <2>8. AnswersInv'
    BY <1>1, <2>2 DEF AnswersInv, SeesTarget, IsThere, PlaceOf
  <2>9. QED BY <1>1, <2>2, <2>5, <2>7, <2>8, OthersKept
<1>4. CASE dish.at # PlaceOf(aim)
  <2>1. PICK left : left = [dish EXCEPT !.state = "SLEW"]
    OBVIOUS
  <2>2. Release(setting, left) /\ confirmed' = confirmed /\ goal' = PlaceOf(aim)
    BY <1>2, <1>4, <2>1 DEF FinishTarget
  <2>3. /\ DOMAIN left = DishFields /\ left.target = aim /\ left.state = "SLEW"
        /\ left.at = dish.at
    BY <1>2, <2>1 DEF DishFields
  <2>4. /\ ReleasedInv' /\ setting' = NoRequest /\ DOMAIN dish' = DishFields
        /\ dish'.target = aim /\ dish'.state = "SLEW" /\ dish'.at = dish.at
    BY <1>1, <1>2, <2>2, <2>3, Released
  <2>5. DishTypes' /\ MountInv' /\ SettingInv'
    BY <1>1, <1>2, <1>4, <2>2, <2>4 DEF DishTypes, MountInv, SettingInv, PlaceOf
  <2>6. FreeInv'
    BY <1>1, <2>2, <2>4 DEF FreeInv, SeesTarget, PlaceOf, Pointing
  <2>7. AnswersInv'
    BY <1>1, <2>2 DEF AnswersInv, SeesTarget, IsThere, PlaceOf
  <2>8. QED BY <1>1, <2>2, <2>4, <2>5, <2>6, <2>7, OthersKept
<1>5. QED BY <1>3, <1>4

\* A slew that fails leaves the dish without a target.
LEMMA SlewFailed ==
  ASSUME SightInv, SlewFails
  PROVE  SightInv'
<1>. USE DEF SightInv
<1>1. /\ UNCHANGED <<obsVars, waiting, picture, aims, aim, requests, releasing, antenna, goal,
                     confirmed, torn>>
      /\ setting' = NoRequest
      /\ dish' = [dish EXCEPT !.mode = "UNKNOWN", !.state = "UNKNOWN", !.target = 0]
      /\ answers' = answers \cup {Reply(setting.n, "error", 0, FALSE)}
  BY DEF SlewFails, requestVars, historyVars, obsVars
<1>2. DOMAIN dish = DishFields
  BY DEF DishTypes
<1>3. /\ DOMAIN dish' = DishFields
      /\ dish'.target = 0 /\ dish'.at = dish.at
  BY <1>1, <1>2 DEF DishFields
<1>4. DishTypes' /\ MountInv' /\ FreeInv' /\ SettingInv'
  BY <1>1, <1>3 DEF DishTypes, MountInv, FreeInv, SettingInv, SeesTarget, PlaceOf
<1>5. ReleasedInv'
  BY <1>1 DEF ReleasedInv, IsThere, PlaceOf
<1>6. AnswersInv'
  BY <1>1 DEF AnswersInv, SeesTarget, IsThere, PlaceOf, Reply
<1>7. QED BY <1>1, <1>4, <1>5, <1>6, OthersKept

\* The answer says what was so under the lock, and the advice what is so now: they differ
\* only if the dish was handled meanwhile.
LEMMA TargetAnswered ==
  ASSUME SightInv, NEW r \in releasing, AnswerTarget(r)
  PROVE  SightInv'
<1>. USE DEF SightInv
<1>1. /\ UNCHANGED <<obsVars, waiting, picture, aims, aim, requests, dish, setting, antenna,
                     goal, confirmed>>
      /\ releasing' \subseteq releasing
      /\ torn' = (torn \/ (r.acquired /\ dish # r.left))
      /\ answers' = answers \cup {Reply(r.n, "target", r.target, r.acquired)}
                            \cup (IF r.acquired THEN {Advice(dish, r.target)} ELSE {})
  BY DEF AnswerTarget, requestVars, obsVars
<1>2. torn => torn'
  BY <1>1
<1>3. PICK a : a = Reply(r.n, "target", r.target, r.acquired)
  OBVIOUS
<1>4. PICK b : b = Advice(dish, r.target)
  OBVIOUS
<1>5. /\ answers' \subseteq answers \cup {a, b}
      /\ b \in answers' \ answers => (r.acquired \/ b = a)
  BY <1>1, <1>3, <1>4
<1>6. a.says = "target" /\ a.target = r.target /\ a.acquired = r.acquired
  BY <1>3 DEF Reply
<1>7. b.says = "advice" /\ b.dish = dish /\ b.obs = r.target
  BY <1>4 DEF Advice
<1>8. r.acquired => r.target \in confirmed' /\ r.left.target = r.target /\ IsThere(r.left)'
  BY <1>1 DEF ReleasedInv, IsThere, PlaceOf
<1>9. (r.acquired /\ ~torn') => SeesTarget(dish)' /\ IsThere(dish)'
  BY <1>1, <1>8 DEF SeesTarget, IsThere, PlaceOf
<1>10. \A m \in answers' \ answers :
          /\ m.says \in {"mode", "target", "error", "advice"}
          /\ m.says = "advice" => DOMAIN m.dish = DishFields
          /\ (m.says = "target" /\ m.acquired) => m.target \in confirmed'
          /\ (m.says = "advice" /\ ~torn') => SeesTarget(m.dish)' /\ IsThere(m.dish)'
  <2>1. TAKE m \in answers' \ answers
  <2>2. CASE m = a
    BY <1>6, <1>8, <2>2
  <2>3. CASE m = b /\ m # a
    <3>1. r.acquired
      BY <1>5, <2>1, <2>3
    <3>2. DOMAIN dish = DishFields
      BY DEF DishTypes
    <3>3. dish' = dish
      BY <1>1
    <3>4. QED BY <1>7, <1>9, <2>3, <3>1, <3>2, <3>3 DEF SeesTarget, IsThere, PlaceOf
  <2>4. QED BY <1>5, <2>1, <2>2, <2>3
<1>11. AnswersInv'
  BY <1>1, <1>2, <1>10 DEF AnswersInv, SeesTarget, IsThere, PlaceOf
<1>12. ReleasedInv'
  BY <1>1 DEF ReleasedInv, IsThere, PlaceOf
<1>13. QED BY <1>1, <1>2, <1>11, <1>12, DishKept, OthersKept

\* A periodic report is about a dish whose lock is free, or it is torn.
LEMMA StatusReported ==
  ASSUME SightInv, ReportStatus
  PROVE  SightInv'
<1>. USE DEF SightInv
<1>1. /\ UNCHANGED <<obsVars, waiting, picture, aims, aim, requests, dish, setting, releasing,
                     antenna, goal, confirmed>>
      /\ answers' = answers \cup {Advice(dish, NoObs)}
      /\ torn' = (torn \/ setting # NoRequest)
  BY DEF ReportStatus, DishLockFree, requestVars, obsVars, dishVars
<1>2. torn => torn'
  BY <1>1
<1>3. PICK b : b = Advice(dish, NoObs)
  OBVIOUS
<1>4. b.says = "advice" /\ b.dish = dish /\ b.obs = NoObs
  BY <1>3 DEF Advice
<1>5. ~torn' => SeesTarget(dish)'
  BY <1>1 DEF FreeInv, SeesTarget
<1>6. AnswersInv'
  <2>1. DOMAIN b.dish = DishFields
    BY <1>4 DEF DishTypes
  <2>2. ~torn' => SeesTarget(b.dish)'
    BY <1>1, <1>4, <1>5 DEF SeesTarget
  <2>3. answers' = answers \cup {b}
    BY <1>1, <1>3
  <2>4. QED BY <1>1, <1>2, <1>4, <2>1, <2>2, <2>3 DEF AnswersInv, SeesTarget, IsThere, PlaceOf
<1>7. ReleasedInv'
  BY <1>1 DEF ReleasedInv, IsThere, PlaceOf
<1>8. QED BY <1>1, <1>2, <1>6, <1>7, DishKept, OthersKept

\* A mount that moves was not seen at the place of the scan, nor in a pointing state.
LEMMA MountMoved ==
  ASSUME SightInv, MountMoves \/ MountArrives
  PROVE  SightInv'
<1>. USE DEF SightInv
<1>1. /\ UNCHANGED <<obsVars, waiting, picture, aims, aim, requests, answers, dish, setting,
                     releasing, goal, confirmed, torn>>
      /\ \/ antenna \notin {0, goal} /\ antenna' = 0
         \/ antenna = 0 /\ goal # 0 /\ antenna' = goal
  BY DEF MountMoves, MountArrives, requestVars, netVars, historyVars, obsVars
<1>2. PlaceOf(aim) # 0 /\ \A k \in DOMAIN aims : PlaceOf(k) # 0
  BY AimTypes DEF ScanInv
<1>3. MountInv'
  BY <1>1, <1>2 DEF MountInv, PlaceOf
<1>4. FreeInv'
  <2>1. SUFFICES ASSUME setting = NoRequest
                 PROVE  /\ SeesTarget(dish)'
                        /\ dish.target # 0 =>
                             /\ dish.state \in Pointing =>
                                  /\ antenna' = PlaceOf(dish.target) /\ goal = PlaceOf(dish.target)
                                  /\ dish.at = PlaceOf(dish.target)
                             /\ dish.state = "READY" => dish.acq = Actual(dish.target)
                             /\ dish.state = "SLEW" => goal = PlaceOf(dish.target)
    BY <1>1 DEF FreeInv, PlaceOf
  <2>2. SeesTarget(dish)'
    BY <1>1, <2>1 DEF FreeInv, SeesTarget
  <2>3. dish.target # 0 => PlaceOf(dish.target) # 0
    BY <1>2 DEF DishTypes
  <2>4. QED BY <1>1, <2>1, <2>2, <2>3 DEF FreeInv
<1>5. DishTypes' /\ SettingInv'
  BY <1>1 DEF DishTypes, SettingInv
<1>6. ReleasedInv' /\ AnswersInv'
  BY <1>1, MessagesKept
<1>7. QED BY <1>1, <1>3, <1>4, <1>5, <1>6, OthersKept

\* What the poll makes of a reading.
LEMMA SeenFields ==
  ASSUME DOMAIN dish = DishFields, NEW reading, NEW seen, seen = Seen(reading)
  PROVE  /\ DOMAIN seen = DishFields /\ seen.target = dish.target /\ seen.mode = dish.mode
         /\ seen.at = reading
         /\ \/ /\ dish.state = "SLEW" /\ reading = dish.at /\ reading = goal
               /\ seen.state = "READY" /\ seen.acq = Actual(dish.target)
            \/ seen.state = "UNKNOWN" /\ seen.acq = dish.acq
            \/ seen.state = dish.state /\ seen.acq = dish.acq
<1>1. PICK here : here = [dish EXCEPT !.at = reading]
  OBVIOUS
<1>2. /\ DOMAIN here = DishFields /\ here.target = dish.target /\ here.mode = dish.mode
      /\ here.at = reading /\ here.state = dish.state /\ here.acq = dish.acq
  BY <1>1 DEF DishFields
<1>3. \/ /\ dish.state = "SLEW" /\ reading = dish.at /\ reading = goal
         /\ seen = [here EXCEPT !.state = "READY", !.acq = Actual(dish.target)]
      \/ seen = [here EXCEPT !.state = "UNKNOWN"]
      \/ seen = here
  BY <1>1 DEF Seen
<1>4. QED BY <1>2, <1>3 DEF DishFields

\* A slew ends where the mount was told to go; the poll confirms it and follows the target.
LEMMA DishPolled ==
  ASSUME SightInv, PollDish
  PROVE  SightInv'
<1>. USE DEF SightInv
<1>1. PICK seen : seen = Seen(antenna)
  OBVIOUS
<1>2. PICK told \in BOOLEAN :
         told <=> /\ dish.target # 0 /\ seen.state = "READY"
                  /\ aims[dish.target].pointing # "drift" \/ dish.state = "SLEW"
  OBVIOUS
<1>3. PICK polled : polled = IF told /\ seen.mode = "OPERATE"
                  THEN [seen EXCEPT !.state = PointingOf[aims[dish.target].pointing]] ELSE seen
  OBVIOUS
<1>4. /\ UNCHANGED <<obsVars, waiting, picture, aims, aim, requests, setting, releasing, antenna,
                     goal, torn>>
      /\ setting = NoRequest /\ dish' = polled
      /\ answers' = IF told THEN answers \cup {Advice(polled, dish.target)} ELSE answers
      /\ confirmed' = IF dish.state = "SLEW" /\ seen.state = "READY"
                      THEN confirmed \cup {dish.target} ELSE confirmed
  BY <1>1, <1>2, <1>3 DEF PollDish, DishLockFree, requestVars, historyVars, obsVars
<1>5. PICK k : k = dish.target
  OBVIOUS
<1>6. DOMAIN dish = DishFields /\ (k # 0 => k \in DOMAIN aims)
  BY <1>5 DEF DishTypes
<1>7. /\ DOMAIN seen = DishFields /\ seen.target = k /\ seen.at = antenna
      /\ \/ /\ dish.state = "SLEW" /\ antenna = dish.at /\ antenna = goal
            /\ seen.state = "READY" /\ seen.acq = Actual(k)
         \/ seen.state = "UNKNOWN" /\ seen.acq = dish.acq
         \/ seen.state = dish.state /\ seen.acq = dish.acq
  BY <1>1, <1>5, <1>6, SeenFields
<1>8. /\ DOMAIN polled = DishFields /\ polled.target = k /\ polled.at = antenna
      /\ polled.acq = seen.acq
      /\ \/ polled.state = seen.state
         \/ told /\ polled.state = PointingOf[aims[k].pointing]
  BY <1>3, <1>5, <1>7 DEF DishFields
<1>9. k # 0 => /\ PointingOf[aims[k].pointing] \in Pointing
               /\ PointingOf[aims[k].pointing] = "READY" => aims[k].pointing = "drift"
  BY <1>6, AimTypes DEF PointingOf, Followings
<1>10. k # 0 => /\ polled.state \in Pointing => seen.state \in Pointing
                /\ polled.state = "READY" => seen.state = "READY"
                /\ polled.state = "SLEW" => seen.state = "SLEW"
  BY <1>2, <1>5, <1>8, <1>9 DEF Pointing
\* A dish that is seen to be ready is where its target is.
<1>11. (k # 0 /\ seen.state \in Pointing) =>
          /\ antenna = PlaceOf(k) /\ goal = PlaceOf(k) /\ k \in confirmed'
          /\ seen.state = "READY" => seen.acq = Actual(k)
  <2>1. SUFFICES ASSUME k # 0, seen.state \in Pointing
                 PROVE  /\ antenna = PlaceOf(k) /\ goal = PlaceOf(k) /\ k \in confirmed'
                        /\ seen.state = "READY" => seen.acq = Actual(k)
    OBVIOUS
  <2>2. CASE /\ dish.state = "SLEW" /\ antenna = goal
             /\ seen.state = "READY" /\ seen.acq = Actual(k)
    BY <1>4, <1>5, <2>1, <2>2 DEF FreeInv
  <2>3. CASE seen.state = dish.state /\ seen.acq = dish.acq
    <3>1. dish.state # "SLEW"
      BY <2>1, <2>3 DEF Pointing
    <3>2. QED BY <1>4, <1>5, <2>1, <2>3, <3>1 DEF FreeInv, SeesTarget
  <2>4. QED BY <1>7, <2>1, <2>2, <2>3 DEF Pointing
<1>12. SeesTarget(polled)'
  BY <1>8, <1>10, <1>11 DEF SeesTarget
<1>13. FreeInv'
  <2>1. k # 0 =>
           /\ polled.state \in Pointing => antenna = PlaceOf(k) /\ goal = PlaceOf(k)
           /\ polled.state = "READY" => polled.acq = Actual(k)
           /\ polled.state = "SLEW" => goal = PlaceOf(k)
    <3>1. (k # 0 /\ seen.state = "SLEW") => goal = PlaceOf(k)
      BY <1>4, <1>5, <1>7 DEF FreeInv
    <3>2. QED BY <1>8, <1>10, <1>11, <3>1 DEF Pointing
  <2>2. dish' = polled /\ antenna' = antenna /\ goal' = goal /\ PlaceOf(k)' = PlaceOf(k)
    BY <1>4 DEF PlaceOf
  <2>3. SeesTarget(dish)'
    BY <1>12, <2>2 DEF SeesTarget
  <2>4. QED BY <1>8, <2>1, <2>2, <2>3 DEF FreeInv, PlaceOf
<1>14. MountInv'
  <2>1. PlaceOf(aim) # 0
    BY AimTypes DEF ScanInv
  <2>2. QED BY <1>4, <1>8, <2>1 DEF MountInv, PlaceOf
<1>15. DishTypes' /\ SettingInv'
  BY <1>4, <1>5, <1>8 DEF DishTypes, SettingInv
<1>16. ReleasedInv'
  BY <1>4 DEF ReleasedInv, IsThere, PlaceOf
<1>17. AnswersInv'
  <2>1. confirmed \subseteq confirmed'
    BY <1>4
  <2>2. CASE ~told
    BY <1>4, <2>1, <2>2 DEF AnswersInv, SeesTarget, IsThere, PlaceOf
  <2>3. CASE told
    <3>1. PICK b : b = Advice(polled, dish.target)
      OBVIOUS
    <3>2. b.says = "advice" /\ b.dish = polled
      BY <3>1 DEF Advice
    <3>3. k # 0 /\ seen.state = "READY"
      BY <1>2, <1>5, <2>3
    <3>4. IsThere(polled)'
      BY <1>4, <1>6, <1>8, <1>11, <3>3 DEF IsThere, PlaceOf, Pointing
    <3>5. IsThere(b.dish)' /\ SeesTarget(b.dish)'
      BY <1>12, <3>2, <3>4 DEF IsThere, SeesTarget, PlaceOf
    <3>6. answers' = answers \cup {b}
      BY <1>4, <2>3, <3>1
    <3>7. QED BY <1>4, <1>8, <2>1, <3>2, <3>5, <3>6
              DEF AnswersInv, SeesTarget, IsThere, PlaceOf
  <2>4. QED BY <2>2, <2>3
<1>18. confirmed \subseteq confirmed'
  BY <1>4
<1>19. QED BY <1>4, <1>13, <1>14, <1>15, <1>16, <1>17, <1>18, OthersKept

-----------------------------------------------------------------------------
(* The Telescope Manager.                                                   *)

\* An answer, an advice or an error becomes the picture, and the record of the scan.
LEMMA AnswerProcessed ==
  ASSUME SightInv, NEW m \in answers, ProcessDmMsg(m)
  PROVE  SightInv'
<1>. USE DEF SightInv
<1>1. /\ UNCHANGED <<aims, aim, requests, dish, setting, releasing, antenna, goal, confirmed,
                     torn>>
      /\ answers' \subseteq answers
      /\ picture' = Pictured(m) /\ recorded' = SetTgtAcquisition(m)
      /\ obsState' = obsState \/ obsState' = "ABORTED"
      /\ waiting' = [n \in DOMAIN waiting |->
                       IF n = m.n THEN [waiting[n] EXCEPT !.timer = "stopped"] ELSE waiting[n]]
  BY DEF ProcessDmMsg, dishVars, historyVars
<1>2. DishTypes' /\ MountInv' /\ FreeInv' /\ SettingInv' /\ ReleasedInv' /\ AnswersInv'
  BY <1>1, DishKept, MessagesKept
<1>3. m.says \in {"mode", "target", "error", "advice"}
  BY DEF AnswersInv
<1>4. DOMAIN picture = DishFields
  BY DEF PictureInv
<1>5. PictureInv'
  <2>1. CASE m.says = "mode"
    <3>1. picture' = [picture EXCEPT !.mode = "CONFIG"]
      BY <1>1, <2>1 DEF Pictured
    <3>2. /\ DOMAIN picture' = DishFields /\ picture'.target = picture.target
          /\ picture'.state = picture.state
      BY <1>4, <3>1 DEF DishFields
    <3>3. QED BY <1>1, <3>2 DEF PictureInv, SeesTarget
  <2>2. CASE m.says = "error"
    <3>1. picture' = [picture EXCEPT !.mode = "UNKNOWN"]
      BY <1>1, <2>2 DEF Pictured
    <3>2. /\ DOMAIN picture' = DishFields /\ picture'.target = picture.target
          /\ picture'.state = picture.state
      BY <1>4, <3>1 DEF DishFields
    <3>3. QED BY <1>1, <3>2 DEF PictureInv, SeesTarget
  <2>3. CASE m.says = "target"
    <3>1. picture' = Pointed(m)
      BY <1>1, <2>3 DEF Pictured
    <3>2. /\ DOMAIN picture' = DishFields /\ picture'.target = m.target
          /\ m.acquired \/ picture'.state = "UNKNOWN"
      BY <1>4, <3>1 DEF DishFields, Pointed
    <3>3. m.acquired => m.target \in confirmed
      BY <2>3 DEF AnswersInv
    <3>4. QED BY <1>1, <3>2, <3>3 DEF PictureInv, SeesTarget, Pointing
  <2>4. CASE m.says = "advice"
    <3>1. picture' = m.dish
      BY <1>1, <2>4 DEF Pictured
    <3>2. DOMAIN m.dish = DishFields /\ (~torn => SeesTarget(m.dish))
      BY <2>4 DEF AnswersInv
    <3>3. QED BY <1>1, <3>1, <3>2 DEF PictureInv, SeesTarget
  <2>5. QED BY <1>3, <2>1, <2>2, <2>3, <2>4
<1>6. RequestInv'
  <2>1. PICK S : S = [request : RequestTypes, timer : {"retry", "final", "stopped"}]
    OBVIOUS
  <2>2. waiting \in Seq(S) /\ DOMAIN waiting = 1..Len(waiting) /\ Len(waiting) \in Nat
    BY <2>1 DEF RequestInv
  <2>3. ASSUME NEW n \in DOMAIN waiting
        PROVE  /\ waiting'[n] \in S /\ waiting'[n].request = waiting[n].request
               /\ waiting'[n].timer # "stopped" => waiting[n].timer # "stopped"
    <3>1. waiting[n] \in S
      BY <2>2, MemberOfSeq
    <3>2. waiting'[n] = waiting[n] \/ waiting'[n] = [waiting[n] EXCEPT !.timer = "stopped"]
      BY <1>1
    <3>3. QED BY <2>1, <3>1, <3>2
  <2>4. DOMAIN waiting' = 1..Len(waiting)
    BY <1>1, <2>2
  <2>5. waiting' \in Seq(S)
    <3>1. waiting' = [n \in 1..Len(waiting) |-> waiting'[n]]
      BY <1>1, <2>2
    <3>2. \A n \in 1..Len(waiting) : waiting'[n] \in S
      BY <2>2, <2>3
    <3>3. QED BY <2>2, <3>1, <3>2
  <2>6. \A r : OfThisScan(r)' <=> OfThisScan(r)
    BY <1>1 DEF OfThisScan
  <2>7. \A n \in DOMAIN waiting' :
          waiting'[n].timer # "stopped" => OfThisScan(waiting'[n].request)
    BY <2>2, <2>3, <2>4 DEF RequestInv
  <2>8. QED BY <1>1, <2>1, <2>5, <2>6, <2>7 DEF RequestInv
<1>7. recorded' = recorded \/
         /\ m.says = "advice" /\ m.obs # NoObs /\ m.dish.target # 0
         /\ recorded' = [recorded EXCEPT ![m.dish.target] = [acq |-> m.dish.acq,
                                                             at |-> m.dish.at]]
  <2>1. Acquisition(m).acq # NoTime => m.obs # NoObs
    BY DEF Acquisition, NotYet
  <2>2. QED BY <1>1, <2>1 DEF SetTgtAcquisition, Acquisition
<1>8. ScanInv'
  BY <1>1, <1>7 DEF ScanInv
<1>9. AcquisitionIsActual'
  <2>1. SUFFICES ASSUME ~torn, NEW k \in DOMAIN recorded, recorded'[k] # NotYet
                 PROVE  recorded'[k] = [acq |-> Actual(k), at |-> PlaceOf(k)]
    BY <1>1, <1>8 DEF AcquisitionIsActual, PlaceOf, ScanInv
  <2>2. CASE recorded'[k] = recorded[k]
    BY <2>1, <2>2 DEF TargetIsSeen, AcquisitionIsActual
  <2>3. CASE recorded'[k] # recorded[k]
    <3>1. /\ k = m.dish.target /\ m.says = "advice" /\ m.obs # NoObs
          /\ recorded'[k] = [acq |-> m.dish.acq, at |-> m.dish.at]
      BY <1>7, <2>1, <2>3
    <3>2. IsThere(m.dish)
      BY <2>1, <3>1 DEF AnswersInv
    <3>3. QED BY <3>1, <3>2 DEF IsThere
  <2>4. QED BY <2>2, <2>3
<1>10. SkyIsSeen'
  BY <1>1 DEF TargetIsSeen, SkyIsSeen
<1>11. QED BY <1>1, <1>2, <1>5, <1>6, <1>8, <1>9, <1>10 DEF TargetIsSeen

-----------------------------------------------------------------------------
(* The theorems.                                                            *)

\* The invariant holds at the start.
LEMMA SightStarts == AcquisitionInit => SightInv
<1>. SUFFICES ASSUME AcquisitionInit PROVE SightInv
  OBVIOUS
<1>1. aims \in Seq(Aims) /\ aims # <<>> /\ DOMAIN aims = 1..Len(aims) /\ Len(aims) \in Nat
  BY AcquisitionAssumption DEF AcquisitionInit
<1>2. 1 \in DOMAIN aims
  BY <1>1
<1>3. ScanInv
  BY <1>2 DEF AcquisitionInit, ScanInv
<1>4. RequestInv
  BY DEF AcquisitionInit, RequestInv
<1>5. DishTypes /\ MountInv /\ FreeInv
  BY DEF AcquisitionInit, DishTypes, MountInv, FreeInv, SeesTarget, Unpointed, DishFields
<1>6. SettingInv /\ ReleasedInv /\ AnswersInv /\ PictureInv
  BY DEF AcquisitionInit, SettingInv, ReleasedInv, AnswersInv, PictureInv, SeesTarget, Unpointed,
         DishFields
<1>7. TargetIsSeen
  BY DEF AcquisitionInit, TargetIsSeen, SkyIsSeen, AcquisitionIsActual
<1>8. QED BY <1>3, <1>4, <1>5, <1>6, <1>7 DEF SightInv

\* Every step keeps it.
LEMMA SightIsKept == SightInv /\ [AcquisitionNext]_acquisitionVars => SightInv'
<1>. SUFFICES ASSUME SightInv, [AcquisitionNext]_acquisitionVars PROVE SightInv'
  OBVIOUS
<1>1. CASE UNCHANGED acquisitionVars
  <2>1. UNCHANGED <<aims, aim, recorded, obsState, answers, dish, setting, releasing, antenna,
                    goal, confirmed, picture, torn, waiting, requests>>
    BY <1>1 DEF acquisitionVars, obsVars, dishVars, historyVars, requestVars, netVars
  <2>2. QED BY <2>1, DishKept, MessagesKept, PictureKept, RequestsKept, SightKept
            DEF SightInv, ScanInv
<1>2. CASE AcquisitionNext
  BY <1>2, Reviewed, Progressed, ScanEnded, Retried, ModeHandled, DuplicateHandled,
     TargetRefused, TargetBegun, TargetFinished, SlewFailed, StatusReported, MountMoved,
     DishPolled, TargetAnswered, AnswerProcessed
  DEF AcquisitionNext
<1>3. QED BY <1>1, <1>2

\* Sightings travel with their targets (driver.py:1025-1036, dm.py:546, tm.py:531-545).
THEOREM SightInvariant == AcquisitionInit /\ [][AcquisitionNext]_acquisitionVars => []SightInv
BY SightStarts, SightIsKept, PTL

\* A scan of the sky begins only when the dish was found at its target, and the acquisition
\* on record is the actual one of the scan's own target (is_on_target and
\* configure_resources of oet.py, _set_tgt_acquisition of tm.py).
THEOREM TargetsAreSeen == AcquisitionInit /\ [][AcquisitionNext]_acquisitionVars => []TargetIsSeen
<1>1. SightInv => TargetIsSeen
  BY DEF SightInv
<1>2. QED BY SightInvariant, <1>1, PTL

-----------------------------------------------------------------------------
(* The schedule: what is to come is waited for.                              *)

\* r is what is left of q without its element i.
Without(r, q, i) ==
    Len(r) = Len(q) - 1 /\ \A j \in 1..Len(r) : r[j] = IF j < i THEN q[j] ELSE q[j + 1]

\* What is left of a sequence when one element has been removed.
LEMMA ElementRemoved ==
  ASSUME NEW S, NEW q \in Seq(S), NEW i \in DOMAIN q, NEW r, r = RemoveAt(q, i)
  PROVE  r \in Seq(S) /\ Without(r, q, i)
<1>1. Len(q) \in Nat /\ i \in 1..Len(q) /\ \A j \in 1..Len(q) : q[j] \in S
  OBVIOUS
<1>2. PICK a : a = SubSeq(q, 1, i - 1)
  OBVIOUS
<1>3. PICK b : b = SubSeq(q, i + 1, Len(q))
  OBVIOUS
<1>4. a \in Seq(S) /\ Len(a) = i - 1 /\ \A j \in 1..(i - 1) : a[j] = q[j]
  <2>1. 1 \in Int /\ i - 1 \in Int /\ \A j \in 1..(i - 1) : q[j] \in S
    BY <1>1
  <2>2. /\ SubSeq(q, 1, i - 1) \in Seq(S)
        /\ Len(SubSeq(q, 1, i - 1)) = IF 1 <= i - 1 THEN i - 1 - 1 + 1 ELSE 0
        /\ \A j \in 1..(i - 1 - 1 + 1) : SubSeq(q, 1, i - 1)[j] = q[1 + j - 1]
    BY <2>1, SubSeqProperties
  <2>3. \A j \in 1..(i - 1) : 1 + j - 1 = j
    OBVIOUS
  <2>4. QED BY <1>1, <1>2, <2>2, <2>3
<1>5. b \in Seq(S) /\ Len(b) = Len(q) - i /\ \A j \in 1..(Len(q) - i) : b[j] = q[i + j]
  <2>1. i + 1 \in Int /\ Len(q) \in Int /\ \A j \in (i + 1)..Len(q) : q[j] \in S
    BY <1>1
  <2>2. /\ SubSeq(q, i + 1, Len(q)) \in Seq(S)
        /\ Len(SubSeq(q, i + 1, Len(q))) = IF i + 1 <= Len(q) THEN Len(q) - (i + 1) + 1 ELSE 0
        /\ \A j \in 1..(Len(q) - (i + 1) + 1) : SubSeq(q, i + 1, Len(q))[j] = q[i + 1 + j - 1]
    BY <2>1, SubSeqProperties
  <2>3. \A j \in 1..(Len(q) - i) : i + 1 + j - 1 = i + j
    BY <1>1
  <2>4. QED BY <1>1, <1>3, <2>2, <2>3
<1>6. r = a \o b
  BY <1>2, <1>3 DEF RemoveAt
<1>7. /\ r \in Seq(S) /\ Len(r) = Len(a) + Len(b)
      /\ \A j \in 1..(Len(a) + Len(b)) : r[j] = IF j <= Len(a) THEN a[j] ELSE b[j - Len(a)]
  <2>1. /\ a \o b \in Seq(S) /\ Len(a \o b) = Len(a) + Len(b)
        /\ \A j \in 1..(Len(a) + Len(b)) :
              (a \o b)[j] = IF j <= Len(a) THEN a[j] ELSE b[j - Len(a)]
    BY <1>4, <1>5, ConcatProperties, Zenon
  <2>2. QED BY <1>6, <2>1, Zenon
<1>8. Len(r) = Len(q) - 1
  BY <1>1, <1>4, <1>5, <1>7
<1>9. ASSUME NEW j \in 1..Len(r) PROVE r[j] = IF j < i THEN q[j] ELSE q[j + 1]
  <2>1. CASE j < i
    BY <1>1, <1>4, <1>5, <1>7, <1>8, <2>1
  <2>2. CASE ~(j < i)
    <3>1. r[j] = b[j - (i - 1)]
      BY <1>1, <1>4, <1>5, <1>7, <1>8, <2>2
    <3>2. j - (i - 1) \in 1..(Len(q) - i) /\ i + (j - (i - 1)) = j + 1
      BY <1>1, <1>8, <2>2
    <3>3. QED BY <1>5, <2>2, <3>1, <3>2
  <2>3. QED BY <2>1, <2>2
<1>10. QED BY <1>7, <1>8, <1>9 DEF Without

\* A finite set as a sequence has the members of the set.
LEMMA SequenceOfSet ==
  ASSUME NEW S, IsFiniteSet(S)
  PROVE  SetToSeq(S) \in Seq(S) /\ Range(SetToSeq(S)) = S
<1>1. PICK n \in Nat : n = Cardinality(S)
  BY FS_CardinalityType
<1>2. PICK f : f \in Bijection(1..n, S)
  BY <1>1, FS_CardinalityType DEF ExistsBijection
<1>3. f \in [1..n -> S] /\ IsInjective(f)
  BY <1>2 DEF Bijection, Injection, IsInjective
<1>4. PICK g : g = SetToSeq(S)
  OBVIOUS
<1>5. g \in [1..n -> S] /\ IsInjective(g)
  BY <1>1, <1>3, <1>4 DEF SetToSeq
<1>6. g \in Injection(1..n, S)
  BY <1>5 DEF Injection, IsInjective
<1>7. Cardinality(1..n) = n
  BY FS_Interval
<1>8. g \in Surjection(1..n, S)
  BY <1>1, <1>6, <1>7, FS_Injection
<1>9. Range(g) = S
  BY <1>5, <1>8 DEF Surjection, Range
<1>10. g \in Seq(S)
  BY <1>5
<1>11. QED BY <1>4, <1>9, <1>10

\* An observation of the archive and an event of the queue.
Observation == [id : STRING, start : Int, end : Int, begun : BOOLEAN]

ScheduleEvent ==
    [is : {"config"}, sheet : Sheets] \cup [is : {"timer"}] \cup [is : {"start"}, obs : Nat]

Walking == [at : {"look", "compare", "append"}, index : Nat \ {0}, offers : Seq(Nat)]
Changing == [at : {"change"}, index : Nat \ {0}, offers : Seq(Nat), offer : SUBSET Nat]
Deciding == [at : {"decide"}, merged : BOOLEAN]
Performing == [at : {"perform"}, starts : SUBSET Nat, next : Int]
Beginning == [at : {"start"}, obs : Nat]
Hand == [at : {"free"}] \cup Walking \cup Changing \cup Deciding \cup Performing \cup Beginning

ScheduleTypes ==
    /\ now \in Nat /\ timer \in Int
    /\ objects \in Seq(Observation)
    /\ obs_list \in Seq(DOMAIN objects)
    /\ inbox \in Seq(ScheduleEvent)
    /\ hands \in [Workers -> Hand]
    /\ cut \in BOOLEAN /\ crossed \in BOOLEAN

\* What the handlers hold are observations that have been made.
Known(h) ==
    /\ h.at \in {"look", "change", "compare", "append"} =>
           Range(h.offers) \subseteq DOMAIN objects
    /\ h.at = "change" => h.offer \subseteq DOMAIN objects
    /\ h.at = "append" => h.index \in DOMAIN h.offers
    /\ h.at = "perform" => IsFiniteSet(h.starts) /\ h.starts \subseteq DOMAIN objects
    /\ h.at = "start" => h.obs \in DOMAIN objects

HandsKnown == \A w \in Workers : Known(hands[w])
EventsKnown == \A e \in Range(inbox) : e.is = "start" => e.obs \in DOMAIN objects

ScheduleTypeInv == ScheduleTypes /\ HandsKnown /\ EventsKnown

\* One worker goes on to something else.
LEMMA GoesOn ==
  ASSUME ScheduleTypeInv, NEW w \in Workers, NEW h \in Hand, Known(h), Goes(w, h),
         UNCHANGED objects
  PROVE  /\ hands' \in [Workers -> Hand] /\ HandsKnown'
         /\ hands'[w] = h /\ \A v \in Workers \ {w} : hands'[v] = hands[v]
<1>1. hands \in [Workers -> Hand]
  BY DEF ScheduleTypeInv, ScheduleTypes
<1>2. hands' = [hands EXCEPT ![w] = h]
  BY DEF Goes
<1>3. /\ hands' \in [Workers -> Hand] /\ hands'[w] = h
      /\ \A v \in Workers \ {w} : hands'[v] = hands[v]
  BY <1>1, <1>2
<1>4. \A v \in Workers : hands'[v] = h \/ hands'[v] = hands[v]
  BY <1>3
<1>5. \A v \in Workers : Known(hands'[v])
  BY <1>4 DEF ScheduleTypeInv, HandsKnown
<1>6. ASSUME NEW v \in Workers PROVE Known(hands[v])'
  BY <1>5 DEF Known
<1>7. QED BY <1>3, <1>6 DEF HandsKnown

\* An event has arrived.
LEMMA EventArrives ==
  ASSUME ScheduleTypeInv, NEW e \in ScheduleEvent, e.is # "start", inbox' = Append(inbox, e),
         UNCHANGED objects
  PROVE  inbox' \in Seq(ScheduleEvent) /\ Range(inbox') = Range(inbox) \cup {e} /\ EventsKnown'
<1>1. inbox \in Seq(ScheduleEvent) /\ inbox \in Seq(Range(inbox))
  BY SeqOfRange DEF ScheduleTypeInv, ScheduleTypes
<1>2. inbox' \in Seq(ScheduleEvent)
  BY <1>1
<1>3. Range(inbox') = Range(inbox) \cup {e}
  BY <1>1, QueueAppended
<1>4. QED BY <1>2, <1>3 DEF ScheduleTypeInv, EventsKnown

\* The first event has been taken.
LEMMA EventTaken ==
  ASSUME ScheduleTypeInv, NEW w \in Workers, NEW is, Taken(w, is), UNCHANGED objects
  PROVE  /\ inbox' \in Seq(ScheduleEvent) /\ Range(inbox) = Range(inbox') \cup {Head(inbox)}
         /\ EventsKnown' /\ Head(inbox) \in ScheduleEvent /\ Head(inbox).is = is
<1>1. inbox \in Seq(ScheduleEvent) /\ inbox \in Seq(Range(inbox)) /\ inbox # <<>>
  BY SeqOfRange DEF ScheduleTypeInv, ScheduleTypes, Taken
<1>2. inbox' = Tail(inbox) /\ Head(inbox).is = is
  BY DEF Taken
<1>3. inbox' \in Seq(ScheduleEvent) /\ Head(inbox) \in ScheduleEvent
  BY <1>1, <1>2, HeadTailProperties
<1>4. Range(inbox) = Range(inbox') \cup {Head(inbox)}
  BY <1>1, <1>2, QueueTaken
<1>5. QED BY <1>2, <1>3, <1>4 DEF ScheduleTypeInv, EventsKnown

\* A handler goes on with its next observation.
LEMMA WalksOn ==
  ASSUME NEW h \in Walking, NEW i \in Nat \ {0}, NEW at \in {"look", "compare", "append"},
         NEW g, g = [h EXCEPT !.at = at, !.index = i]
  PROVE  g \in Walking /\ g.at = at /\ g.index = i /\ g.offers = h.offers
<1>1. DOMAIN h = {"at", "index", "offers"} /\ h.offers \in Seq(Nat)
  BY DEF Walking
<1>2. DOMAIN g = {"at", "index", "offers"} /\ g.at = at /\ g.index = i /\ g.offers = h.offers
  BY <1>1
<1>3. g = [at |-> at, index |-> i, offers |-> h.offers]
  BY <1>2
<1>4. QED BY <1>1, <1>2, <1>3 DEF Walking

\* What a worker has in hand is told by what it is at.
LEMMA HandsTell ==
  ASSUME NEW h \in Hand
  PROVE  /\ h.at \in {"look", "compare", "append"} => h \in Walking
         /\ h.at = "change" => h \in Changing
         /\ h.at = "decide" => h \in Deciding
         /\ h.at = "perform" => h \in Performing
         /\ h.at = "start" => h \in Beginning
BY DEF Hand, Walking, Changing, Deciding, Performing, Beginning

\* The schedule begins with nothing delivered and every worker free.
LEMMA TypesBegin == ScheduleInit => ScheduleTypeInv
<1>. SUFFICES ASSUME ScheduleInit PROVE ScheduleTypeInv
  OBVIOUS
<1>1. hands = [w \in Workers |-> Free] /\ Free = [at |-> "free"] /\ Free \in Hand
  BY DEF ScheduleInit, Free, Hand
<1>2. objects = <<>> /\ obs_list = <<>> /\ inbox = <<>> /\ Range(inbox) = {}
  BY DEF ScheduleInit, Range
<1>3. \A S : <<>> \in Seq(S)
  OBVIOUS
<1>4. now \in Nat /\ timer \in Int /\ cut \in BOOLEAN /\ crossed \in BOOLEAN
  <2>1. now = 0 /\ timer = -1
    BY DEF ScheduleInit, NoTimer
  <2>2. cut = FALSE /\ crossed = FALSE
    BY DEF ScheduleInit
  <2>3. cut \in BOOLEAN /\ crossed \in BOOLEAN
    BY <2>2, Zenon
  <2>4. now \in Nat /\ timer \in Int
    BY <2>1
  <2>5. QED BY <2>3, <2>4, Zenon
<1>5. HandsKnown
  BY <1>1 DEF HandsKnown, Known
<1>6. /\ objects \in Seq(Observation) /\ inbox \in Seq(ScheduleEvent)
      /\ obs_list \in Seq(DOMAIN objects)
  BY <1>2, <1>3
<1>7. ScheduleTypes
  BY <1>1, <1>4, <1>6 DEF ScheduleTypes
<1>8. EventsKnown
  BY <1>2 DEF EventsKnown
<1>9. QED BY <1>5, <1>7, <1>8 DEF ScheduleTypeInv

\* The surroundings.
LEMMA ArrivalTyped ==
  ASSUME ScheduleTypeInv, Tick \/ PollDesign \/ ReceiveWebhook \/ TimerDue
  PROVE  ScheduleTypeInv'
<1>1. UNCHANGED <<objects, obs_list, hands, cut, crossed>>
  BY DEF Tick, PollDesign, ReceiveWebhook, TimerDue
<1>2. HandsKnown'
  <2>1. \A v \in Workers : Known(hands[v])
    BY DEF ScheduleTypeInv, HandsKnown
  <2>2. ASSUME NEW v \in Workers PROVE Known(hands[v])'
    BY <1>1, <2>1 DEF Known
  <2>3. QED BY <2>2 DEF HandsKnown
<1>3. CASE Tick
  <2>1. now' \in Nat /\ UNCHANGED <<timer, inbox>>
    BY <1>3 DEF Tick, ScheduleTypeInv, ScheduleTypes
  <2>2. EventsKnown'
    BY <1>1, <2>1 DEF ScheduleTypeInv, EventsKnown
  <2>3. ScheduleTypes'
    BY <1>1, <2>1 DEF ScheduleTypeInv, ScheduleTypes
  <2>4. QED BY <1>2, <2>2, <2>3 DEF ScheduleTypeInv
<1>4. CASE PollDesign \/ ReceiveWebhook
  <2>1. PICK sheet \in Sheets : PutDesign(sheet) /\ UNCHANGED <<now, timer>>
    BY <1>4 DEF PollDesign, ReceiveWebhook
  <2>2. PICK e : e = [is |-> "config", sheet |-> sheet]
    OBVIOUS
  <2>3. e \in ScheduleEvent /\ e.is # "start" /\ inbox' = Append(inbox, e)
    BY <2>1, <2>2 DEF PutDesign, ScheduleEvent
  <2>4. inbox' \in Seq(ScheduleEvent) /\ EventsKnown'
    BY <1>1, <2>3, EventArrives
  <2>5. QED BY <1>1, <1>2, <2>1, <2>4 DEF ScheduleTypeInv, ScheduleTypes
<1>5. CASE TimerDue
  <2>1. PICK e : e = [is |-> "timer"]
    OBVIOUS
  <2>2. e \in ScheduleEvent /\ e.is # "start" /\ inbox' = Append(inbox, e)
    BY <1>5, <2>1 DEF TimerDue, ScheduleEvent
  <2>3. inbox' \in Seq(ScheduleEvent) /\ EventsKnown'
    BY <1>1, <2>2, EventArrives
  <2>4. timer' \in Int /\ UNCHANGED now
    BY <1>5 DEF TimerDue, NoTimer
  <2>5. QED BY <1>1, <1>2, <2>3, <2>4 DEF ScheduleTypeInv, ScheduleTypes
<1>6. QED BY <1>3, <1>4, <1>5

\* A step of a handler that only changes what its worker has in hand.
LEMMA HandTyped ==
  ASSUME ScheduleTypeInv, NEW w \in Workers, NEW h \in Hand, Known(h), Goes(w, h),
         UNCHANGED <<now, objects, obs_list, inbox, timer, cut, crossed>>
  PROVE  ScheduleTypeInv'
<1>1. hands' \in [Workers -> Hand] /\ HandsKnown'
  BY GoesOn
<1>2. QED BY <1>1 DEF ScheduleTypeInv, ScheduleTypes, EventsKnown

\* One round of the merging: on, to a change, or to the comparison.
LEMMA LookTyped ==
  ASSUME ScheduleTypeInv, NEW w \in Workers, Look(w)
  PROVE  /\ ScheduleTypeInv'
         /\ hands'[w].at \in {"look", "compare", "change"}
         /\ hands'[w].at = "change" =>
              /\ hands'[w].index \in DOMAIN obs_list
              /\ \A n \in hands'[w].offer : Same(n, obs_list[hands'[w].index])
         /\ \A v \in Workers \ {w} : hands'[v] = hands[v]
<1>1. PICK h \in Hand : h = hands[w]
  BY DEF ScheduleTypeInv, ScheduleTypes
<1>2. h \in Walking /\ h.at = "look" /\ Known(h)
  BY <1>1, HandsTell DEF Look, ScheduleTypeInv, HandsKnown
<1>3. h.index \in Nat \ {0} /\ h.offers \in Seq(Nat) /\ Range(h.offers) \subseteq DOMAIN objects
  BY <1>2 DEF Walking, Known
<1>4. UNCHANGED <<now, objects, obs_list, inbox, timer, cut, crossed>>
  BY DEF Look
<1>5. CASE h.index > Len(obs_list)
  <2>1. PICK g : g = [h EXCEPT !.at = "compare", !.index = 1]
    OBVIOUS
  <2>2. g \in Walking /\ g.at = "compare" /\ g.offers = h.offers
    <3>1. DOMAIN h = {"at", "index", "offers"}
      BY <1>2 DEF Walking
    <3>2. /\ DOMAIN g = {"at", "index", "offers"} /\ g.at = "compare" /\ g.index = 1
          /\ g.offers = h.offers
      BY <2>1, <3>1
    <3>3. g = [at |-> "compare", index |-> 1, offers |-> h.offers]
      BY <2>1, <3>2
    <3>4. QED BY <1>3, <3>2, <3>3 DEF Walking
  <2>3. g \in Hand /\ Known(g)
    BY <1>3, <2>2 DEF Hand, Known
  <2>4. Goes(w, g)
    BY <1>1, <1>5, <2>1 DEF Look
  <2>5. ScheduleTypeInv' /\ hands'[w] = g /\ \A v \in Workers \ {w} : hands'[v] = hands[v]
    BY <1>4, <2>3, <2>4, HandTyped, GoesOn
  <2>6. QED BY <2>2, <2>5
<1>6. CASE ~(h.index > Len(obs_list)) /\ Object(obs_list[h.index]).begun
  <2>0. PICK i \in Nat \ {0} : i = h.index + 1
    BY <1>3
  <2>1. PICK g : g = [h EXCEPT !.index = i]
    OBVIOUS
  <2>2. DOMAIN h = {"at", "index", "offers"}
    BY <1>2 DEF Walking
  <2>3. /\ DOMAIN g = {"at", "index", "offers"} /\ g.at = "look" /\ g.index = i
        /\ g.offers = h.offers
    BY <1>2, <2>1, <2>2
  <2>4. g = [at |-> "look", index |-> i, offers |-> h.offers]
    BY <2>1, <2>3
  <2>5. g \in Walking /\ g.at = "look"
    BY <1>3, <2>4 DEF Walking
  <2>6. g \in Hand /\ Known(g)
    BY <1>3, <2>3, <2>5 DEF Hand, Known
  <2>7. Goes(w, g)
    BY <1>1, <1>6, <2>0, <2>1 DEF Look
  <2>8. ScheduleTypeInv' /\ hands'[w] = g /\ \A v \in Workers \ {w} : hands'[v] = hands[v]
    BY <1>4, <2>6, <2>7, HandTyped, GoesOn
  <2>9. QED BY <2>5, <2>8
<1>7. CASE ~(h.index > Len(obs_list)) /\ ~Object(obs_list[h.index]).begun
  <2>1. PICK g : g = [at |-> "change", index |-> h.index, offers |-> h.offers,
                      offer |-> {n \in Range(h.offers) : Same(n, obs_list[h.index])}]
    OBVIOUS
  <2>2. Range(h.offers) \subseteq Nat
    BY <1>3, RangeOfSeq
  <2>3. g \in Changing /\ g.at = "change"
    BY <1>3, <2>1, <2>2 DEF Changing
  <2>4. g \in Hand /\ Known(g)
    <3>1. g.offer \subseteq Range(h.offers) /\ g.offers = h.offers
      BY <2>1
    <3>2. QED BY <1>3, <2>3, <3>1 DEF Hand, Known
  <2>5. Goes(w, g)
    BY <1>1, <1>7, <2>1 DEF Look
  <2>6. ScheduleTypeInv' /\ hands'[w] = g /\ \A v \in Workers \ {w} : hands'[v] = hands[v]
    BY <1>4, <2>4, <2>5, HandTyped, GoesOn
  <2>7. g.index \in DOMAIN obs_list
    <3>1. obs_list \in Seq(DOMAIN objects)
      BY DEF ScheduleTypeInv, ScheduleTypes
    <3>2. Len(obs_list) \in Nat /\ DOMAIN obs_list = 1..Len(obs_list)
      BY <3>1
    <3>3. g.index = h.index
      BY <2>1
    <3>4. QED BY <1>3, <1>7, <3>2, <3>3
  <2>8. \A n \in g.offer : Same(n, obs_list[g.index])
    BY <2>1
  <2>9. QED BY <2>3, <2>6, <2>7, <2>8
<1>8. QED BY <1>5, <1>6, <1>7

\* A replacement or a removal; without a failure the merging goes on.
LEMMA ChangeTyped ==
  ASSUME ScheduleTypeInv, NEW w \in Workers, Change(w)
  PROVE  /\ ScheduleTypeInv'
         /\ hands'[w].at \in {"look", "free"} /\ \A v \in Workers \ {w} : hands'[v] = hands[v]
         /\ hands'[w].at = "free" => hands[w].index > Len(obs_list)
<1>1. PICK h \in Hand : h = hands[w]
  BY DEF ScheduleTypeInv, ScheduleTypes
<1>2. h \in Changing /\ h.at = "change" /\ Known(h)
  BY <1>1, HandsTell DEF Change, ScheduleTypeInv, HandsKnown
<1>3. /\ h.index \in Nat \ {0} /\ h.offers \in Seq(Nat) /\ h.offer \subseteq DOMAIN objects
      /\ Range(h.offers) \subseteq DOMAIN objects
  BY <1>2 DEF Changing, Known
<1>4. UNCHANGED <<now, objects, snapshot, inbox, timer, configs, cut>>
  BY DEF Change
<1>5. /\ obs_list \in Seq(DOMAIN objects) /\ Len(obs_list) \in Nat
      /\ DOMAIN obs_list = 1..Len(obs_list)
  <2>1. obs_list \in Seq(DOMAIN objects)
    BY DEF ScheduleTypeInv, ScheduleTypes
  <2>2. QED BY <2>1
<1>6. CASE h.index > Len(obs_list)
  <2>1. PICK g : g = Free
    OBVIOUS
  <2>2. Goes(w, g) /\ UNCHANGED <<obs_list, crossed>>
    BY <1>1, <1>6, <2>1 DEF Change
  <2>3. g \in Hand /\ Known(g) /\ g.at = "free"
    BY <2>1 DEF Free, Hand, Known
  <2>4. ScheduleTypeInv' /\ hands'[w] = g /\ \A v \in Workers \ {w} : hands'[v] = hands[v]
    BY <1>4, <2>2, <2>3, HandTyped, GoesOn
  <2>5. QED BY <1>1, <1>6, <2>3, <2>4
<1>7. CASE ~(h.index > Len(obs_list))
  <2>1. PICK g : g = [at |-> "look", index |-> h.index + 1, offers |-> h.offers]
    OBVIOUS
  <2>2. Goes(w, g)
    BY <1>1, <1>7, <2>1 DEF Change
  <2>3. g \in Walking /\ g.at = "look" /\ g.offers = h.offers
    BY <1>3, <2>1 DEF Walking
  <2>4. g \in Hand /\ Known(g)
    BY <1>3, <2>3 DEF Hand, Known
  <2>5. /\ hands' \in [Workers -> Hand] /\ HandsKnown'
        /\ hands'[w] = g /\ \A v \in Workers \ {w} : hands'[v] = hands[v]
    BY <1>4, <2>2, <2>4, GoesOn
  <2>6. h.index \in DOMAIN obs_list
    BY <1>3, <1>5, <1>7
  <2>7. obs_list' \in Seq(DOMAIN objects)
    <3>1. CASE h.offer = {}
      <4>1. PICK r : r = RemoveAt(obs_list, h.index)
        OBVIOUS
      <4>2. obs_list' = r
        BY <1>1, <1>7, <3>1, <4>1 DEF Change
      <4>3. QED BY <1>5, <2>6, <4>1, <4>2, ElementRemoved
    <3>2. CASE h.offer # {}
      <4>1. PICK n \in DOMAIN objects : n = CHOOSE m \in h.offer : TRUE
        BY <1>3, <3>2
      <4>2. obs_list' = [obs_list EXCEPT ![h.index] = n]
        BY <1>1, <1>7, <3>2, <4>1 DEF Change
      <4>3. QED BY <1>5, <2>6, <4>2, ExceptSeq
    <3>3. QED BY <3>1, <3>2
  <2>8. EventsKnown'
    BY <1>4 DEF ScheduleTypeInv, EventsKnown
  <2>9. crossed' \in BOOLEAN
    BY <1>1, <1>7 DEF Change
  <2>10. ScheduleTypes'
    BY <1>4, <2>5, <2>7, <2>9 DEF ScheduleTypeInv, ScheduleTypes
  <2>11. QED BY <2>3, <2>5, <2>8, <2>10 DEF ScheduleTypeInv
<1>8. QED BY <1>6, <1>7

\* One round of the comparison: on, to an addition, or to the decision.
LEMMA CompareTyped ==
  ASSUME ScheduleTypeInv, NEW w \in Workers, Compare(w)
  PROVE  /\ ScheduleTypeInv'
         /\ hands'[w].at \in {"compare", "append", "decide"}
         /\ \A v \in Workers \ {w} : hands'[v] = hands[v]
         /\ hands'[w].at = "append" =>
              /\ hands'[w].offers = hands[w].offers /\ hands'[w].index = hands[w].index
              /\ \A n \in Range(obs_list) : ~Same(n, hands'[w].offers[hands'[w].index])
<1>1. PICK h \in Hand : h = hands[w]
  BY DEF ScheduleTypeInv, ScheduleTypes
<1>2. h \in Walking /\ h.at = "compare" /\ Known(h)
  BY <1>1, HandsTell DEF Compare, ScheduleTypeInv, HandsKnown
<1>3. h.index \in Nat \ {0} /\ h.offers \in Seq(Nat) /\ Range(h.offers) \subseteq DOMAIN objects
  BY <1>2 DEF Walking, Known
<1>4. UNCHANGED <<now, objects, obs_list, inbox, timer, cut, crossed>>
  BY DEF Compare
<1>5. DOMAIN h = {"at", "index", "offers"}
  BY <1>2 DEF Walking
<1>6. CASE h.index > Len(h.offers)
  <2>1. PICK g : g = [at |-> "decide", merged |-> TRUE]
    OBVIOUS
  <2>2. g \in Hand /\ Known(g) /\ g.at = "decide"
    BY <2>1 DEF Hand, Deciding, Known
  <2>3. Goes(w, g)
    BY <1>1, <1>6, <2>1 DEF Compare
  <2>4. ScheduleTypeInv' /\ hands'[w] = g /\ \A v \in Workers \ {w} : hands'[v] = hands[v]
    BY <1>4, <2>2, <2>3, HandTyped, GoesOn
  <2>5. QED BY <2>2, <2>4
<1>7. CASE ~(h.index > Len(h.offers)) /\ \E n \in Range(obs_list) : Same(n, h.offers[h.index])
  <2>0. PICK i \in Nat \ {0} : i = h.index + 1
    BY <1>3
  <2>1. PICK g : g = [h EXCEPT !.index = i]
    OBVIOUS
  <2>2. /\ DOMAIN g = {"at", "index", "offers"} /\ g.at = "compare" /\ g.index = i
        /\ g.offers = h.offers
    BY <1>2, <1>5, <2>1
  <2>3. g = [at |-> "compare", index |-> i, offers |-> h.offers]
    BY <2>1, <2>2
  <2>4. g \in Walking /\ g.at = "compare"
    BY <1>3, <2>2, <2>3 DEF Walking
  <2>5. g \in Hand /\ Known(g)
    BY <1>3, <2>2, <2>4 DEF Hand, Known
  <2>6. Goes(w, g)
    BY <1>1, <1>7, <2>0, <2>1 DEF Compare
  <2>7. ScheduleTypeInv' /\ hands'[w] = g /\ \A v \in Workers \ {w} : hands'[v] = hands[v]
    BY <1>4, <2>5, <2>6, HandTyped, GoesOn
  <2>8. QED BY <2>4, <2>7
<1>8. CASE ~(h.index > Len(h.offers)) /\ ~\E n \in Range(obs_list) : Same(n, h.offers[h.index])
  <2>1. PICK g : g = [h EXCEPT !.at = "append"]
    OBVIOUS
  <2>2. /\ DOMAIN g = {"at", "index", "offers"} /\ g.at = "append" /\ g.index = h.index
        /\ g.offers = h.offers
    BY <1>5, <2>1
  <2>3. g = [at |-> "append", index |-> h.index, offers |-> h.offers]
    BY <2>1, <2>2
  <2>4. g \in Walking
    BY <1>3, <2>3 DEF Walking
  <2>5. g.index \in DOMAIN g.offers
    BY <1>3, <1>8, <2>2
  <2>6. g \in Hand /\ Known(g)
    BY <1>3, <2>2, <2>4, <2>5 DEF Hand, Known
  <2>7. Goes(w, g)
    BY <1>1, <1>8, <2>1 DEF Compare
  <2>8. ScheduleTypeInv' /\ hands'[w] = g /\ \A v \in Workers \ {w} : hands'[v] = hands[v]
    BY <1>4, <2>6, <2>7, HandTyped, GoesOn
  <2>9. \A n \in Range(obs_list) : ~Same(n, g.offers[g.index])
    BY <1>8, <2>2
  <2>10. QED BY <1>1, <2>2, <2>8, <2>9
<1>9. QED BY <1>6, <1>7, <1>8

\* An observation of the design is added to the archive.
LEMMA AppendTyped ==
  ASSUME ScheduleTypeInv, NEW w \in Workers, AppendOffer(w)
  PROVE  /\ ScheduleTypeInv' /\ hands'[w].at = "compare"
         /\ \A v \in Workers \ {w} : hands'[v] = hands[v]
         /\ hands[w].offers[hands[w].index] \in DOMAIN objects
         /\ obs_list' = Append(obs_list, hands[w].offers[hands[w].index])
<1>1. PICK h \in Hand : h = hands[w]
  BY DEF ScheduleTypeInv, ScheduleTypes
<1>2. h \in Walking /\ h.at = "append" /\ Known(h)
  BY <1>1, HandsTell DEF AppendOffer, ScheduleTypeInv, HandsKnown
<1>3. /\ h.index \in Nat \ {0} /\ h.offers \in Seq(Nat)
      /\ Range(h.offers) \subseteq DOMAIN objects
      /\ h.index \in DOMAIN h.offers
  BY <1>2 DEF Walking, Known
<1>4. UNCHANGED <<now, objects, inbox, timer, cut, crossed>>
  BY DEF AppendOffer
<1>5. PICK n \in DOMAIN objects : n = h.offers[h.index]
  BY <1>3 DEF Range
<1>6. obs_list' = Append(obs_list, n)
  BY <1>1, <1>5 DEF AppendOffer
<1>7. obs_list' \in Seq(DOMAIN objects)
  BY <1>6 DEF ScheduleTypeInv, ScheduleTypes
<1>8. PICK i \in Nat \ {0} : i = h.index + 1
  BY <1>3
<1>9. PICK g : g = [h EXCEPT !.at = "compare", !.index = i]
  OBVIOUS
<1>10. DOMAIN h = {"at", "index", "offers"}
  BY <1>2 DEF Walking
<1>11. /\ DOMAIN g = {"at", "index", "offers"} /\ g.at = "compare" /\ g.index = i
       /\ g.offers = h.offers
  BY <1>9, <1>10
<1>12. g = [at |-> "compare", index |-> i, offers |-> h.offers]
  BY <1>9, <1>11
<1>13. g \in Walking
  BY <1>3, <1>12 DEF Walking
<1>14. g \in Hand /\ Known(g)
  BY <1>3, <1>11, <1>13 DEF Hand, Known
<1>15. Goes(w, g)
  BY <1>1, <1>8, <1>9 DEF AppendOffer
<1>16. /\ hands' \in [Workers -> Hand] /\ HandsKnown'
       /\ hands'[w] = g /\ \A v \in Workers \ {w} : hands'[v] = hands[v]
  BY <1>4, <1>14, <1>15, GoesOn
<1>17. EventsKnown'
  BY <1>4 DEF ScheduleTypeInv, EventsKnown
<1>18. ScheduleTypes'
  BY <1>4, <1>7, <1>16 DEF ScheduleTypeInv, ScheduleTypes
<1>19. QED BY <1>1, <1>5, <1>6, <1>11, <1>16, <1>17, <1>18 DEF ScheduleTypeInv

\* One worker goes on to something else, and more is known than before.
LEMMA GoesOnWithMore ==
  ASSUME ScheduleTypeInv, NEW w \in Workers, NEW h \in Hand, Known(h)', Goes(w, h),
         DOMAIN objects \subseteq DOMAIN objects'
  PROVE  /\ hands' \in [Workers -> Hand] /\ HandsKnown'
         /\ hands'[w] = h /\ \A v \in Workers \ {w} : hands'[v] = hands[v]
<1>1. hands \in [Workers -> Hand]
  BY DEF ScheduleTypeInv, ScheduleTypes
<1>2. hands' = [hands EXCEPT ![w] = h]
  BY DEF Goes
<1>3. /\ hands' \in [Workers -> Hand] /\ hands'[w] = h
      /\ \A v \in Workers \ {w} : hands'[v] = hands[v]
  BY <1>1, <1>2
<1>4. ASSUME NEW v \in Workers PROVE Known(hands[v])'
  <2>1. CASE v = w
    <3>1. hands'[v] = h
      BY <1>3, <2>1
    <3>2. QED BY <3>1 DEF Known
  <2>2. CASE v # w
    <3>1. PICK g : g = hands[v]
      OBVIOUS
    <3>2. Known(g) /\ hands'[v] = g
      BY <1>3, <2>2, <3>1 DEF ScheduleTypeInv, HandsKnown
    <3>3. QED BY <3>2 DEF Known
  <2>3. QED BY <2>1, <2>2
<1>5. QED BY <1>3, <1>4 DEF HandsKnown

\* The smallest of a set of numbers.
LEMMA MinOf ==
  ASSUME NEW S, S \subseteq Nat, S # {}
  PROVE  Min(S) \in S /\ \A t \in S : Min(S) <= t
BY LeastOf DEF Min

\* c is b behind a.
Behind(c, a, b) ==
    /\ Len(c) = Len(a) + Len(b)
    /\ \A n \in 1..(Len(a) + Len(b)) : c[n] = IF n <= Len(a) THEN a[n] ELSE b[n - Len(a)]

\* Two sequences, one behind the other.
LEMMA Joined ==
  ASSUME NEW S, NEW a \in Seq(S), NEW b \in Seq(S), NEW c, c = a \o b
  PROVE  c \in Seq(S) /\ Behind(c, a, b)
<1>1. /\ a \o b \in Seq(S) /\ Len(a \o b) = Len(a) + Len(b)
      /\ \A n \in 1..(Len(a) + Len(b)) : (a \o b)[n] = IF n <= Len(a) THEN a[n] ELSE b[n - Len(a)]
  BY ConcatProperties, Zenon
<1>2. QED BY <1>1, Zenon DEF Behind

Design == [id : STRING, start : Int, end : Int]

\* A design is taken up: its observations are made behind the others.
LEMMA TakeConfigTyped ==
  ASSUME ScheduleTypeInv, NEW w \in Workers, TakeConfig(w)
  PROVE  /\ ScheduleTypeInv' /\ hands'[w].at = "look"
         /\ \A v \in Workers \ {w} : hands'[v] = hands[v]
         /\ DOMAIN objects \subseteq DOMAIN objects'
         /\ \A n \in DOMAIN objects : objects'[n] = objects[n]
         /\ \A n \in DOMAIN objects' \ DOMAIN objects : ~objects'[n].begun
<1>1. Taken(w, "config") /\ UNCHANGED <<now, obs_list, snapshot, timer, configs, cut>>
  BY DEF TakeConfig
<1>2. Head(inbox) \in ScheduleEvent /\ Head(inbox).is = "config"
  <2>1. inbox \in Seq(ScheduleEvent) /\ inbox # <<>> /\ Head(inbox).is = "config"
    BY <1>1 DEF ScheduleTypeInv, ScheduleTypes, Taken
  <2>2. QED BY <2>1, HeadTailProperties
<1>3. PICK sheet \in Sheets : sheet = Head(inbox).sheet
  BY <1>2 DEF ScheduleEvent
<1>4. sheet \in Seq(Design) /\ Len(sheet) \in Nat /\ DOMAIN sheet = 1..Len(sheet)
  <2>1. sheet \in Seq(Design)
    BY ScheduleAssumption, Zenon DEF Design
  <2>2. QED BY <2>1
<1>5. objects \in Seq(Observation) /\ Len(objects) \in Nat /\ DOMAIN objects = 1..Len(objects)
  <2>1. objects \in Seq(Observation)
    BY DEF ScheduleTypeInv, ScheduleTypes
  <2>2. QED BY <2>1
<1>6. PICK made : made = [i \in DOMAIN sheet |->
            [id |-> sheet[i].id, start |-> sheet[i].start, end |-> sheet[i].end, begun |-> FALSE]]
  OBVIOUS
<1>7. /\ made \in Seq(Observation) /\ Len(made) = Len(sheet)
      /\ \A i \in 1..Len(sheet) : made[i].begun = FALSE
  <2>1. ASSUME NEW i \in 1..Len(sheet) PROVE made[i] \in Observation /\ made[i].begun = FALSE
    <3>1. PICK s \in Design : s = sheet[i]
      BY <1>4
    <3>2. made[i] = [id |-> s.id, start |-> s.start, end |-> s.end, begun |-> FALSE]
      BY <1>4, <1>6, <3>1
    <3>3. s.id \in STRING /\ s.start \in Int /\ s.end \in Int
      BY DEF Design
    <3>4. QED BY <3>2, <3>3 DEF Observation
  <2>2. made = [i \in 1..Len(sheet) |-> made[i]]
    BY <1>4, <1>6
  <2>3. \A i \in 1..Len(sheet) : made[i] \in Observation
    BY <2>1
  <2>4. made \in Seq(Observation) /\ Len(made) = Len(sheet)
    BY <1>4, <2>2, <2>3
  <2>5. QED BY <2>1, <2>4, Zenon
<1>8. objects' = objects \o made
  BY <1>3, <1>6 DEF TakeConfig
<1>9. /\ objects' \in Seq(Observation) /\ Len(objects') = Len(objects) + Len(sheet)
      /\ \A n \in 1..(Len(objects) + Len(sheet)) :
            objects'[n] = IF n <= Len(objects) THEN objects[n] ELSE made[n - Len(objects)]
  <2>1. Len(made) = Len(sheet)
    BY <1>7
  <2>2. /\ objects' \in Seq(Observation) /\ Len(objects') = Len(objects) + Len(made)
        /\ \A n \in 1..(Len(objects) + Len(made)) :
            objects'[n] = IF n <= Len(objects) THEN objects[n] ELSE made[n - Len(objects)]
    <3>1. objects' \in Seq(Observation) /\ Behind(objects', objects, made)
      BY <1>5, <1>7, <1>8, Joined
    <3>2. QED BY <3>1, Zenon DEF Behind
  <2>3. QED BY <2>1, <2>2, Zenon
<1>10. /\ DOMAIN objects' = 1..(Len(objects) + Len(sheet))
       /\ DOMAIN objects \subseteq DOMAIN objects'
  BY <1>4, <1>5, <1>9
<1>11. \A n \in DOMAIN objects : objects'[n] = objects[n]
  BY <1>4, <1>5, <1>9
<1>12. ASSUME NEW n \in DOMAIN objects' \ DOMAIN objects PROVE ~objects'[n].begun
  <2>1. /\ n \in 1..(Len(objects) + Len(sheet)) /\ ~(n <= Len(objects))
        /\ n - Len(objects) \in 1..Len(sheet)
    BY <1>4, <1>5, <1>10
  <2>2. QED BY <1>7, <1>9, <2>1
<1>13. PICK offers : offers = [i \in DOMAIN sheet |-> Len(objects) + i]
  OBVIOUS
<1>14. offers \in Seq(Nat) /\ Range(offers) \subseteq DOMAIN objects'
  <2>1. \A i \in 1..Len(sheet) : /\ offers[i] \in Nat
                                 /\ offers[i] \in 1..(Len(objects) + Len(sheet))
    BY <1>4, <1>5, <1>13
  <2>2. offers = [i \in 1..Len(sheet) |-> offers[i]] /\ DOMAIN offers = 1..Len(sheet)
    BY <1>4, <1>13
  <2>3. offers \in Seq(Nat)
    BY <1>4, <2>1, <2>2
  <2>4. QED BY <1>10, <2>1, <2>2, <2>3 DEF Range
<1>15. PICK g : g = [at |-> "look", index |-> 1, offers |-> offers]
  OBVIOUS
<1>16. g \in Walking /\ g.at = "look" /\ g.offers = offers
  BY <1>14, <1>15 DEF Walking
<1>17. g \in Hand /\ Known(g)'
  BY <1>14, <1>16 DEF Hand, Known
<1>18. Goes(w, g)
  BY <1>3, <1>13, <1>15 DEF TakeConfig
<1>19. /\ hands' \in [Workers -> Hand] /\ HandsKnown'
       /\ hands'[w] = g /\ \A v \in Workers \ {w} : hands'[v] = hands[v]
  BY <1>10, <1>17, <1>18, GoesOnWithMore
<1>20. inbox' \in Seq(ScheduleEvent) /\ EventsKnown'
  <2>1. inbox \in Seq(ScheduleEvent) /\ inbox \in Seq(Range(inbox)) /\ inbox # <<>>
        /\ inbox' = Tail(inbox)
    BY <1>1, SeqOfRange DEF ScheduleTypeInv, ScheduleTypes, Taken
  <2>2. inbox' \in Seq(ScheduleEvent)
    BY <2>1, HeadTailProperties
  <2>3. Range(inbox') \subseteq Range(inbox)
    BY <2>1, QueueTaken
  <2>4. QED BY <1>10, <2>2, <2>3 DEF ScheduleTypeInv, EventsKnown
<1>21. obs_list' \in Seq(DOMAIN objects')
  BY <1>1, <1>10, SeqMonotonic DEF ScheduleTypeInv, ScheduleTypes
<1>22. crossed' \in BOOLEAN
  BY DEF TakeConfig
<1>23. ScheduleTypes'
  BY <1>1, <1>9, <1>19, <1>20, <1>21, <1>22 DEF ScheduleTypeInv, ScheduleTypes
<1>24. QED BY <1>10, <1>11, <1>12, <1>16, <1>19, <1>20, <1>23 DEF ScheduleTypeInv

\* A timer or a start is taken up.
LEMMA TakeEventTyped ==
  ASSUME ScheduleTypeInv, NEW w \in Workers, TakeTimer(w) \/ TakeStart(w)
  PROVE  /\ ScheduleTypeInv' /\ Range(inbox) = Range(inbox') \cup {Head(inbox)}
         /\ Head(inbox) \in Range(inbox) /\ Head(inbox) \in ScheduleEvent
         /\ TakeTimer(w) => Head(inbox).is = "timer" /\ hands'[w].at = "decide"
         /\ TakeStart(w) => /\ Head(inbox).is = "start"
                            /\ hands'[w].at = "start" /\ hands'[w].obs = Head(inbox).obs
         /\ \A v \in Workers \ {w} : hands'[v] = hands[v]
<1>1. UNCHANGED <<now, objects, obs_list, snapshot, timer, configs, cut, crossed>>
  BY DEF TakeTimer, TakeStart
<1>2. PICK is \in {"timer", "start"} : Taken(w, is) /\ (TakeTimer(w) => is = "timer")
                                     /\ (TakeStart(w) => is = "start")
  BY DEF TakeTimer, TakeStart, Taken
<1>3. /\ inbox' \in Seq(ScheduleEvent) /\ Range(inbox) = Range(inbox') \cup {Head(inbox)}
      /\ EventsKnown' /\ Head(inbox) \in ScheduleEvent /\ Head(inbox).is = is
  BY <1>1, <1>2, EventTaken
<1>4. PICK g : g = IF is = "timer" THEN [at |-> "decide", merged |-> FALSE]
                   ELSE [at |-> "start", obs |-> Head(inbox).obs]
  OBVIOUS
<1>5. Goes(w, g)
  BY <1>2, <1>4 DEF TakeTimer, TakeStart
<1>6. g \in Hand /\ Known(g)
  <2>1. CASE is = "timer"
    BY <1>4, <2>1 DEF Hand, Deciding, Known
  <2>2. CASE is = "start"
    <3>1. Head(inbox).obs \in DOMAIN objects /\ Head(inbox).obs \in Nat
      BY <1>3, <2>2 DEF ScheduleTypeInv, EventsKnown, ScheduleEvent
    <3>2. g = [at |-> "start", obs |-> Head(inbox).obs]
      BY <1>4, <2>2
    <3>3. QED BY <3>1, <3>2 DEF Hand, Beginning, Known
  <2>3. QED BY <2>1, <2>2
<1>7. /\ hands' \in [Workers -> Hand] /\ HandsKnown'
      /\ hands'[w] = g /\ \A v \in Workers \ {w} : hands'[v] = hands[v]
  BY <1>1, <1>5, <1>6, GoesOn
<1>8. ScheduleTypeInv'
  BY <1>1, <1>3, <1>7 DEF ScheduleTypeInv, ScheduleTypes
<1>9. TakeTimer(w) => hands'[w].at = "decide"
  BY <1>2, <1>4, <1>7
<1>10. TakeStart(w) => hands'[w].at = "start" /\ hands'[w].obs = Head(inbox).obs
  BY <1>2, <1>4, <1>7
<1>11. QED BY <1>2, <1>3, <1>7, <1>8, <1>9, <1>10

\* An observation begins; nothing else about the observations changes.
LEMMA BeginTyped ==
  ASSUME ScheduleTypeInv, NEW w \in Workers, Begin(w)
  PROVE  /\ ScheduleTypeInv' /\ hands'[w].at = "free"
         /\ \A v \in Workers \ {w} : hands'[v] = hands[v]
         /\ hands[w].obs \in DOMAIN objects /\ DOMAIN objects' = DOMAIN objects
         /\ \A n \in DOMAIN objects :
                /\ objects'[n].id = objects[n].id
                /\ objects'[n].start = objects[n].start
                /\ objects'[n].end = objects[n].end
                /\ objects'[n].begun <=> (objects[n].begun \/ n = hands[w].obs)
<1>1. UNCHANGED <<now, obs_list, snapshot, inbox, timer, configs, cut, crossed>>
  BY DEF Begin
<1>2. PICK o : o = hands[w].obs
  OBVIOUS
<1>3. o \in DOMAIN objects
  BY <1>2 DEF Begin, ScheduleTypeInv, HandsKnown, Known
<1>4. objects \in Seq(Observation) /\ DOMAIN objects = 1..Len(objects) /\ Len(objects) \in Nat
  <2>1. objects \in Seq(Observation)
    BY DEF ScheduleTypeInv, ScheduleTypes
  <2>2. QED BY <2>1
<1>5. PICK r : r = [objects[o] EXCEPT !.begun = TRUE]
  OBVIOUS
<1>6. objects[o] \in Observation
  BY <1>3, <1>4
<1>7. /\ DOMAIN r = {"id", "start", "end", "begun"}
      /\ r.id = objects[o].id /\ r.start = objects[o].start
      /\ r.end = objects[o].end /\ r.begun = TRUE
  BY <1>5, <1>6 DEF Observation
<1>8. r = [id |-> objects[o].id, start |-> objects[o].start, end |-> objects[o].end,
           begun |-> TRUE]
  BY <1>5, <1>7
<1>9. r \in Observation
  BY <1>6, <1>8 DEF Observation
<1>10. objects' = [objects EXCEPT ![o] = r]
  BY <1>2, <1>5 DEF Begin
<1>11. /\ objects' \in Seq(Observation) /\ DOMAIN objects' = DOMAIN objects
       /\ objects'[o] = r /\ \A n \in DOMAIN objects : n # o => objects'[n] = objects[n]
  BY <1>3, <1>4, <1>9, <1>10
<1>12. PICK g : g = Free
  OBVIOUS
<1>13. g \in Hand /\ Known(g)' /\ g.at = "free" /\ Goes(w, g)
  BY <1>12 DEF Free, Hand, Known, Begin
<1>14. /\ hands' \in [Workers -> Hand] /\ HandsKnown'
       /\ hands'[w] = g /\ \A v \in Workers \ {w} : hands'[v] = hands[v]
  BY <1>11, <1>13, GoesOnWithMore
<1>15. EventsKnown'
  BY <1>1, <1>11 DEF ScheduleTypeInv, EventsKnown
<1>16. ScheduleTypes'
  BY <1>1, <1>11, <1>14 DEF ScheduleTypeInv, ScheduleTypes
<1>17. ASSUME NEW n \in DOMAIN objects
       PROVE  /\ objects'[n].id = objects[n].id /\ objects'[n].start = objects[n].start
              /\ objects'[n].end = objects[n].end
              /\ objects'[n].begun <=> (objects[n].begun \/ n = o)
  <2>1. CASE n = o
    BY <1>7, <1>11, <2>1
  <2>2. CASE n # o
    BY <1>11, <2>2
  <2>3. QED BY <2>1, <2>2
<1>18. QED BY <1>2, <1>3, <1>11, <1>13, <1>14, <1>15, <1>16, <1>17 DEF ScheduleTypeInv

DueNow == {n \in Range(obs_list) : Due(n)}
Future ==
    {n \in Range(obs_list) : /\ ~Object(n).begun /\ Object(n).start > now
                             /\ ~\E m \in DueNow : Same(n, m)}

\* A decision: what is due is started, and the next one to come is timed
\* unless the decision is cut short.
LEMMA DecideTyped ==
  ASSUME ScheduleTypeInv, NEW w \in Workers, Decide(w)
  PROVE  /\ ScheduleTypeInv' /\ hands'[w].at = "perform" /\ hands'[w].starts = DueNow
         /\ hands'[w].next = NoTimer \/ hands'[w].next > now
         /\ cut' \/ \A n \in Future : /\ hands'[w].next # NoTimer
                                      /\ hands'[w].next <= Object(n).start
         /\ \A v \in Workers \ {w} : hands'[v] = hands[v]
<1>1. UNCHANGED <<now, objects, obs_list, snapshot, inbox, timer, configs>>
  BY DEF Decide
<1>2. PICK merged : merged = hands[w].merged
  OBVIOUS
<1>3. PICK next : next = IF ReturnsEarly(merged, DueNow) \/ Future = {} THEN NoTimer
                         ELSE Min({Object(n).start : n \in Future})
  OBVIOUS
<1>4. PICK g : g = [at |-> "perform", starts |-> DueNow, next |-> next]
  OBVIOUS
<1>5. Goes(w, g) /\ cut' = (merged /\ DueNow # {})
  BY <1>2, <1>3, <1>4, Zenon DEF Decide, DueNow, Future
<1>6. /\ objects \in Seq(Observation) /\ DOMAIN objects = 1..Len(objects) /\ Len(objects) \in Nat
      /\ obs_list \in Seq(DOMAIN objects) /\ now \in Nat
  <2>1. objects \in Seq(Observation) /\ obs_list \in Seq(DOMAIN objects) /\ now \in Nat
    BY DEF ScheduleTypeInv, ScheduleTypes
  <2>2. QED BY <2>1
<1>7. Range(obs_list) \subseteq DOMAIN objects
  BY <1>6, RangeOfSeq
<1>8. DueNow \subseteq DOMAIN objects /\ Future \subseteq DOMAIN objects
  BY <1>7 DEF DueNow, Future
<1>9. IsFiniteSet(DueNow) /\ DueNow \subseteq Nat
  <2>1. IsFiniteSet(1..Len(objects))
    BY <1>6, FS_Interval
  <2>2. IsFiniteSet(DueNow)
    BY <1>6, <1>8, <2>1, FS_Subset
  <2>3. QED BY <1>6, <1>8, <2>2
<1>10. \A n \in Future : Object(n).start \in Int /\ Object(n).start > now
  <2>1. \A n \in DOMAIN objects : objects[n] \in Observation
    BY <1>6
  <2>2. \A n \in DOMAIN objects : objects[n].start \in Int
    BY <2>1 DEF Observation
  <2>3. QED BY <1>8, <2>2 DEF Future, Object
<1>11. /\ next \in Int
       /\ next = NoTimer \/ next > now
       /\ ReturnsEarly(merged, DueNow)
          \/ \A n \in Future : next # NoTimer /\ next <= Object(n).start
  <2>1. CASE ReturnsEarly(merged, DueNow) \/ Future = {}
    <3>1. next = -1
      BY <1>3, <2>1 DEF NoTimer
    <3>2. QED BY <2>1, <3>1 DEF NoTimer
  <2>2. CASE ~(ReturnsEarly(merged, DueNow) \/ Future = {})
    <3>1. PICK S : S = {Object(n).start : n \in Future}
      OBVIOUS
    <3>2. next = Min(S)
      BY <1>3, <2>2, <3>1
    <3>3. S \subseteq Nat /\ S # {}
      BY <1>6, <1>10, <2>2, <3>1
    <3>4. next \in S /\ \A t \in S : next <= t
      BY <3>2, <3>3, MinOf
    <3>5. \A n \in Future : Object(n).start \in S
      BY <3>1
    <3>6. next \in Int /\ next > now
      BY <1>10, <3>1, <3>3, <3>4
    <3>7. next # NoTimer
      BY <1>6, <3>6 DEF NoTimer
    <3>8. QED BY <3>4, <3>5, <3>6, <3>7
  <2>3. QED BY <2>1, <2>2
<1>12. g \in Performing /\ g.at = "perform" /\ g.starts = DueNow /\ g.next = next
  BY <1>4, <1>9, <1>11 DEF Performing
<1>13. g \in Hand /\ Known(g)
  BY <1>8, <1>9, <1>12 DEF Hand, Known
<1>14. /\ hands' \in [Workers -> Hand] /\ HandsKnown'
       /\ hands'[w] = g /\ \A v \in Workers \ {w} : hands'[v] = hands[v]
  BY <1>1, <1>5, <1>13, GoesOn
<1>15. EventsKnown'
  BY <1>1 DEF ScheduleTypeInv, EventsKnown
<1>16. cut' \in BOOLEAN
  <2>1. hands[w] \in Hand /\ hands[w].at = "decide"
    BY DEF Decide, ScheduleTypeInv, ScheduleTypes
  <2>2. hands[w] \in Deciding
    BY <2>1, HandsTell
  <2>3. merged \in BOOLEAN
    BY <1>2, <2>2 DEF Deciding
  <2>4. QED BY <1>5, <2>3
<1>17. crossed' \in BOOLEAN
  BY DEF Decide
<1>18. ScheduleTypes'
  BY <1>1, <1>14, <1>16, <1>17 DEF ScheduleTypeInv, ScheduleTypes
<1>19. cut' \/ \A n \in Future : next # NoTimer /\ next <= Object(n).start
  BY <1>5, <1>11 DEF ReturnsEarly
<1>20. QED BY <1>11, <1>12, <1>14, <1>15, <1>18, <1>19 DEF ScheduleTypeInv

\* The events that start what is due.
LEMMA StartsQueued ==
  ASSUME NEW S, IsFiniteSet(S), S \subseteq Nat,
         NEW q, q = SetToSeq({[is |-> "start", obs |-> n] : n \in S})
  PROVE  q \in Seq(ScheduleEvent) /\ Range(q) = {[is |-> "start", obs |-> n] : n \in S}
<1>1. PICK T : T = {[is |-> "start", obs |-> n] : n \in S}
  OBVIOUS
<1>2. PICK f : f = [n \in S |-> [is |-> "start", obs |-> n]]
  OBVIOUS
<1>3. f \in Surjection(S, T)
  BY <1>1, <1>2 DEF Surjection
<1>4. IsFiniteSet(T)
  BY <1>3, FS_Surjection
<1>5. q \in Seq(T) /\ Range(q) = T
  BY <1>1, <1>4, SequenceOfSet
<1>6. T \subseteq ScheduleEvent
  BY <1>1 DEF ScheduleEvent
<1>7. q \in Seq(ScheduleEvent)
  BY <1>5, <1>6, SeqMonotonic
<1>8. QED BY <1>1, <1>5, <1>7

\* The larger of two numbers.
LEMMA MaxOfTwo ==
  ASSUME NEW a \in Int, NEW b \in Int
  PROVE  Max({a, b}) = IF a >= b THEN a ELSE b
<1>1. PICK m \in {a, b} : m = IF a >= b THEN a ELSE b
  OBVIOUS
<1>2. \A y \in {a, b} : m >= y
  BY <1>1
<1>3. ASSUME NEW x \in {a, b}, \A y \in {a, b} : x >= y PROVE x = m
  BY <1>1, <1>2, <1>3
<1>4. QED BY <1>1, <1>2, <1>3 DEF Max

\* What has been decided is done.
LEMMA PerformTyped ==
  ASSUME ScheduleTypeInv, NEW w \in Workers, Perform(w)
  PROVE  /\ ScheduleTypeInv' /\ hands'[w].at = "free"
         /\ \A v \in Workers \ {w} : hands'[v] = hands[v]
         /\ Range(inbox') =
                Range(inbox) \cup {[is |-> "start", obs |-> n] : n \in hands[w].starts}
         /\ hands[w].next = NoTimer => timer' = timer
         /\ hands[w].next > now => timer' # NoTimer /\ timer' <= hands[w].next
<1>1. UNCHANGED <<now, objects, obs_list, snapshot, configs, cut, crossed>>
  BY DEF Perform
<1>2. PICK h \in Hand : h = hands[w]
  BY DEF ScheduleTypeInv, ScheduleTypes
<1>3. h \in Performing /\ h.at = "perform" /\ Known(h)
  BY <1>2, HandsTell DEF Perform, ScheduleTypeInv, HandsKnown
<1>4. /\ h.starts \subseteq Nat /\ IsFiniteSet(h.starts) /\ h.starts \subseteq DOMAIN objects
      /\ h.next \in Int
  BY <1>3 DEF Performing, Known
<1>5. now \in Nat /\ timer \in Int /\ inbox \in Seq(ScheduleEvent)
  BY DEF ScheduleTypeInv, ScheduleTypes
<1>6. PICK next \in Int : next = h.next
  BY <1>4
<1>7. /\ timer' \in Int
      /\ next = NoTimer => timer' = timer
      /\ next > now => timer' # NoTimer /\ timer' <= next
  <2>1. CASE next = NoTimer
    <3>1. timer' = timer
      BY <1>2, <1>6, <2>1 DEF Perform
    <3>2. QED BY <1>5, <2>1, <3>1 DEF NoTimer
  <2>2. CASE next # NoTimer
    <3>1. PICK m : m = Max({now, next - 1})
      OBVIOUS
    <3>2. timer' \in {next, m}
      BY <1>2, <1>6, <2>2, <3>1 DEF Perform
    <3>3. m = IF now >= next - 1 THEN now ELSE next - 1
      BY <1>5, <3>1, MaxOfTwo
    <3>4. QED BY <1>5, <2>2, <3>2, <3>3 DEF NoTimer
  <2>3. QED BY <2>1, <2>2
<1>8. PICK q : q = SetToSeq({[is |-> "start", obs |-> n] : n \in h.starts})
  OBVIOUS
<1>9. q \in Seq(ScheduleEvent) /\ Range(q) = {[is |-> "start", obs |-> n] : n \in h.starts}
  BY <1>4, <1>8, StartsQueued
<1>10. inbox' = inbox \o q
  BY <1>2, <1>8 DEF Perform
<1>11. inbox' \in Seq(ScheduleEvent) /\ Range(inbox') = Range(inbox) \cup Range(q)
  <2>1. /\ inbox' \in Seq(ScheduleEvent) /\ Len(inbox') = Len(inbox) + Len(q)
        /\ \A n \in 1..(Len(inbox) + Len(q)) :
              inbox'[n] = IF n <= Len(inbox) THEN inbox[n] ELSE q[n - Len(inbox)]
    <3>1. inbox' \in Seq(ScheduleEvent) /\ Behind(inbox', inbox, q)
      BY <1>5, <1>9, <1>10, Joined
    <3>2. QED BY <3>1, Zenon DEF Behind
  <2>2. /\ Len(inbox) \in Nat /\ Len(q) \in Nat /\ DOMAIN inbox = 1..Len(inbox)
        /\ DOMAIN q = 1..Len(q) /\ DOMAIN inbox' = 1..(Len(inbox) + Len(q))
    BY <1>5, <1>9, <2>1
  <2>3. ASSUME NEW n \in 1..(Len(inbox) + Len(q)) PROVE inbox'[n] \in Range(inbox) \cup Range(q)
    <3>1. CASE n <= Len(inbox)
      BY <2>1, <2>2, <3>1 DEF Range
    <3>2. CASE ~(n <= Len(inbox))
      <4>1. n - Len(inbox) \in 1..Len(q)
        BY <2>2, <3>2
      <4>2. inbox'[n] = q[n - Len(inbox)]
        BY <2>1, <3>2
      <4>3. QED BY <2>2, <4>1, <4>2 DEF Range
    <3>3. QED BY <3>1, <3>2
  <2>4. ASSUME NEW n \in 1..Len(inbox) PROVE inbox[n] \in Range(inbox')
    <3>1. n \in 1..(Len(inbox) + Len(q)) /\ inbox'[n] = inbox[n]
      BY <2>1, <2>2
    <3>2. QED BY <2>2, <3>1 DEF Range
  <2>5. ASSUME NEW n \in 1..Len(q) PROVE q[n] \in Range(inbox')
    <3>1. PICK k : k = Len(inbox) + n
      OBVIOUS
    <3>2. k \in 1..(Len(inbox) + Len(q)) /\ ~(k <= Len(inbox)) /\ k - Len(inbox) = n
      BY <2>2, <3>1
    <3>3. inbox'[k] = q[n]
      BY <2>1, <3>2
    <3>4. QED BY <2>2, <3>2, <3>3 DEF Range
  <2>6. Range(inbox') \subseteq Range(inbox) \cup Range(q)
    BY <2>2, <2>3 DEF Range
  <2>7. Range(inbox) \subseteq Range(inbox')
    BY <2>2, <2>4 DEF Range
  <2>8. Range(q) \subseteq Range(inbox')
    <3>1. ASSUME NEW e \in Range(q) PROVE e \in Range(inbox')
      <4>1. PICK n \in DOMAIN q : e = q[n]
        BY DEF Range
      <4>2. QED BY <2>2, <2>5, <4>1
    <3>2. QED BY <3>1
  <2>9. QED BY <2>1, <2>6, <2>7, <2>8
<1>12. EventsKnown'
  <2>1. \A e \in Range(q) : e.obs \in DOMAIN objects
    BY <1>4, <1>9
  <2>2. QED BY <1>1, <1>11, <2>1 DEF ScheduleTypeInv, EventsKnown
<1>13. PICK g : g = Free
  OBVIOUS
<1>14. g \in Hand /\ Known(g) /\ g.at = "free" /\ Goes(w, g)
  BY <1>13 DEF Free, Hand, Known, Perform
<1>15. /\ hands' \in [Workers -> Hand] /\ HandsKnown'
       /\ hands'[w] = g /\ \A v \in Workers \ {w} : hands'[v] = hands[v]
  BY <1>1, <1>14, GoesOn
<1>16. ScheduleTypes'
  BY <1>1, <1>7, <1>11, <1>15 DEF ScheduleTypeInv, ScheduleTypes
<1>17. QED BY <1>2, <1>6, <1>7, <1>9, <1>11, <1>12, <1>14, <1>15, <1>16 DEF ScheduleTypeInv

\* One design is merged at a time, and one decision performed.
OneAtATime ==
    \A v, w \in Workers :
        \/ Merging(v) /\ Merging(w)
        \/ hands[v].at = "perform" /\ hands[w].at = "perform"
        => v = w

\* An observation that has begun, or is about to, is in the archive.
StartedStays ==
    \A n \in DOMAIN objects : Object(n).begun \/ Starting(n) => n \in Range(obs_list)

\* No observation is in the archive twice.
Distinct == \A i, j \in DOMAIN obs_list : Same(obs_list[i], obs_list[j]) => i = j

\* What a merging handler has read still holds when it acts on it.
ChangeHolds(h) ==
    h.at = "change" => /\ h.index \in DOMAIN obs_list
                       /\ \A n \in h.offer : Same(n, obs_list[h.index])
AppendHolds(h) ==
    h.at = "append" => \A n \in Range(obs_list) : ~Same(n, h.offers[h.index])

MergeInv == \A w \in Workers : ChangeHolds(hands[w]) /\ AppendHolds(hands[w])

\* Somebody will decide what to start and what to wait for.
DecisionComes ==
    \/ \E e \in Range(inbox) : e.is \in {"config", "timer"}
    \/ \E w \in Workers : Merging(w) \/ hands[w].at = "decide"

\* An observation to come is cared for with a timer due at that time.
Cared(n, time) ==
    DecisionComes \/ cut \/ Starting(n) \/ (time # NoTimer /\ time <= Object(n).start)

NonePerforms == \A w \in Workers : hands[w].at # "perform"

Ahead(w) ==
    hands[w].at = "perform" =>
        /\ hands[w].next = NoTimer \/ hands[w].next > now
        /\ \A n \in Awaited : Cared(n, hands[w].next)

TimedInv ==
    /\ NonePerforms => \A n \in Awaited : Cared(n, timer)
    /\ \A w \in Workers : Ahead(w)

KeptInv == OneAtATime /\ StartedStays /\ Distinct /\ MergeInv /\ TimedInv

\* What happened to one worker; nothing happened to the others.
OnlyHand(w) == \A v \in Workers \ {w} : hands'[v] = hands[v]

\* As long as a decision is to come, everything is cared for.
LEMMA DecisionKeeps ==
  ASSUME TimedInv, DecisionComes', UNCHANGED now, NEW w \in Workers, OnlyHand(w),
         hands'[w].at = "perform" => hands'[w] = hands[w]
  PROVE  TimedInv'
<1>1. \A n : \A time : Cared(n, time)'
  BY DEF Cared
<1>2. ASSUME NEW v \in Workers PROVE Ahead(v)'
  <2>1. CASE hands'[v].at = "perform"
    <3>1. hands'[v] = hands[v]
      BY <2>1 DEF OnlyHand
    <3>2. hands[v].next = NoTimer \/ hands[v].next > now
      BY <2>1, <3>1 DEF TimedInv, Ahead
    <3>3. hands'[v].next = NoTimer \/ hands'[v].next > now'
      BY <3>1, <3>2
    <3>4. QED BY <1>1, <3>3 DEF Ahead
  <2>2. CASE hands'[v].at # "perform"
    BY <2>2 DEF Ahead
  <2>3. QED BY <2>1, <2>2
<1>3. QED BY <1>1, <1>2 DEF TimedInv

\* A worker that takes up neither merging nor performing keeps them apart.
LEMMA OneKept ==
  ASSUME OneAtATime, NEW w \in Workers, OnlyHand(w),
         Merging(w)' => Merging(w) \/ \A v \in Workers : ~Merging(v),
         hands'[w].at = "perform" => \A v \in Workers : hands[v].at # "perform"
  PROVE  OneAtATime'
<1>1. \A v \in Workers \ {w} : Merging(v)' <=> Merging(v)
  BY DEF OnlyHand, Merging
<1>2. \A v \in Workers \ {w} : hands'[v].at = hands[v].at
  BY DEF OnlyHand
<1>3. ASSUME NEW u \in Workers, NEW v \in Workers, Merging(u)', Merging(v)' PROVE u = v
  BY <1>1, <1>3 DEF OneAtATime
<1>4. ASSUME NEW u \in Workers, NEW v \in Workers, hands'[u].at = "perform",
             hands'[v].at = "perform"
      PROVE  u = v
  BY <1>2, <1>4 DEF OneAtATime
<1>5. QED BY <1>3, <1>4 DEF OneAtATime

\* The archive and the observations' identities are as they were.
Alike ==
    /\ DOMAIN objects \subseteq DOMAIN objects'
    /\ \A n \in DOMAIN objects : objects'[n].id = objects[n].id

\* Where the archive is as it was, no observation is in it twice.
LEMMA DistinctKept ==
  ASSUME ScheduleTypeInv, Distinct, Alike, UNCHANGED obs_list
  PROVE  Distinct'
<1>1. \A i \in DOMAIN obs_list : obs_list[i] \in DOMAIN objects
  BY DEF ScheduleTypeInv, ScheduleTypes
<1>2. \A i, j \in DOMAIN obs_list :
          Same(obs_list[i], obs_list[j])' <=> Same(obs_list[i], obs_list[j])
  BY <1>1 DEF Alike, Same, Object
<1>3. QED BY <1>2 DEF Distinct

\* What the others have read holds where the archive is as it was.
LEMMA MergeKept ==
  ASSUME ScheduleTypeInv, MergeInv, Alike, UNCHANGED obs_list, NEW w \in Workers, OnlyHand(w),
         (ChangeHolds(hands[w]) /\ AppendHolds(hands[w]))'
  PROVE  MergeInv'
<1>1. \A i \in DOMAIN obs_list : obs_list[i] \in DOMAIN objects
  BY DEF ScheduleTypeInv, ScheduleTypes
<1>2. Range(obs_list) \subseteq DOMAIN objects
  BY <1>1 DEF Range
<1>3. \A n, m \in DOMAIN objects : Same(n, m)' <=> Same(n, m)
  BY DEF Alike, Same, Object
<1>4. ASSUME NEW v \in Workers \ {w} PROVE (ChangeHolds(hands[v]) /\ AppendHolds(hands[v]))'
  <2>1. PICK h : h = hands[v]
    OBVIOUS
  <2>2. hands'[v] = h
    BY <2>1 DEF OnlyHand
  <2>3. Known(h) /\ ChangeHolds(h) /\ AppendHolds(h)
    BY <2>1 DEF ScheduleTypeInv, HandsKnown, MergeInv
  <2>4. ChangeHolds(h)'
    <3>1. CASE h.at = "change"
      <4>1. h.offer \subseteq DOMAIN objects /\ h.index \in DOMAIN obs_list
        BY <2>3, <3>1 DEF Known, ChangeHolds
      <4>2. QED BY <1>1, <1>3, <2>3, <4>1 DEF ChangeHolds
    <3>2. CASE h.at # "change"
      BY <3>2 DEF ChangeHolds
    <3>3. QED BY <3>1, <3>2
  <2>5. AppendHolds(h)'
    <3>1. CASE h.at = "append"
      <4>1. h.offers[h.index] \in DOMAIN objects
        BY <2>3, <3>1 DEF Known, Range
      <4>2. QED BY <1>2, <1>3, <2>3, <4>1 DEF AppendHolds
    <3>2. CASE h.at # "append"
      BY <3>2 DEF AppendHolds
    <3>3. QED BY <3>1, <3>2
  <2>6. QED BY <2>2, <2>4, <2>5
<1>5. QED BY <1>4 DEF MergeInv

\* Who was starting is starting still, and nobody else is.
LEMMA StartedKept ==
  ASSUME StartedStays, Range(obs_list) \subseteq Range(obs_list'),
         \A n \in DOMAIN objects' :
            objects'[n].begun \/ Starting(n)' =>
                \/ n \in DOMAIN objects /\ (Object(n).begun \/ Starting(n))
                \/ n \in Range(obs_list)
  PROVE  StartedStays'
<1>1. ASSUME NEW n \in DOMAIN objects', Object(n)'.begun \/ Starting(n)'
      PROVE  n \in Range(obs_list')
  <2>1. objects'[n].begun \/ Starting(n)'
    BY <1>1 DEF Object
  <2>2. n \in Range(obs_list)
    BY <2>1 DEF StartedStays
  <2>3. QED BY <2>2
<1>2. QED BY <1>1 DEF StartedStays

\* Who is starting is an observation that has been made.
LEMMA StartingKnown ==
  ASSUME ScheduleTypeInv, NEW n, Starting(n)
  PROVE  n \in DOMAIN objects
<1>1. CASE [is |-> "start", obs |-> n] \in Range(inbox)
  <2>1. PICK e \in Range(inbox) : e = [is |-> "start", obs |-> n]
    BY <1>1
  <2>2. QED BY <2>1 DEF ScheduleTypeInv, EventsKnown
<1>2. CASE \E w \in Workers : \/ hands[w].at = "start" /\ hands[w].obs = n
                              \/ hands[w].at = "perform" /\ n \in hands[w].starts
  BY <1>2 DEF ScheduleTypeInv, HandsKnown, Known
<1>3. QED BY <1>1, <1>2 DEF Starting

\* The starts of the queue are as they were.
SameStarts ==
    \A n : [is |-> "start", obs |-> n] \in Range(inbox')
           <=> [is |-> "start", obs |-> n] \in Range(inbox)

\* A worker that neither starts nor performs starts nothing.
LEMMA StartingSame ==
  ASSUME SameStarts, NEW w \in Workers, OnlyHand(w),
         hands[w].at \notin {"start", "perform"}, hands'[w].at \notin {"start", "perform"}
  PROVE  \A n : Starting(n)' <=> Starting(n)
<1>1. \A v \in Workers \ {w} : hands'[v] = hands[v]
  BY DEF OnlyHand
<1>2. ASSUME NEW n PROVE Starting(n)' <=> Starting(n)
  <2>1. (\E v \in Workers : \/ hands[v].at = "start" /\ hands[v].obs = n
                            \/ hands[v].at = "perform" /\ n \in hands[v].starts)
        <=> (\E v \in Workers : \/ hands'[v].at = "start" /\ hands'[v].obs = n
                                \/ hands'[v].at = "perform" /\ n \in hands'[v].starts)
    <3>1. ASSUME NEW v \in Workers
          PROVE (\/ hands[v].at = "start" /\ hands[v].obs = n
                 \/ hands[v].at = "perform" /\ n \in hands[v].starts)
                <=> (\/ hands'[v].at = "start" /\ hands'[v].obs = n
                     \/ hands'[v].at = "perform" /\ n \in hands'[v].starts)
      <4>1. CASE v = w
        BY <4>1
      <4>2. CASE v # w
        BY <1>1, <4>2
      <4>3. QED BY <4>1, <4>2
    <3>2. QED BY <3>1
  <2>2. [is |-> "start", obs |-> n] \in Range(inbox')
        <=> [is |-> "start", obs |-> n] \in Range(inbox)
    BY DEF SameStarts
  <2>3. QED BY <2>1, <2>2 DEF Starting
<1>3. QED BY <1>2

\* The surroundings: time passes, a design arrives, the timer is due.
LEMMA TickKept ==
  ASSUME ScheduleTypeInv, KeptInv, Tick
  PROVE  KeptInv'
<1>1. UNCHANGED <<objects, obs_list, snapshot, inbox, hands, timer, configs, cut, crossed>>
  BY DEF Tick
<1>2. NonePerforms /\ now' = now + 1 /\ now \in Nat
  BY DEF Tick, NonePerforms, ScheduleTypeInv, ScheduleTypes
<1>3. OneAtATime' /\ Distinct' /\ MergeInv'
  BY <1>1 DEF KeptInv, OneAtATime, Distinct, MergeInv, Merging, Same, Object, ChangeHolds,
              AppendHolds
<1>4. \A n : Starting(n)' <=> Starting(n)
  BY <1>1 DEF Starting
<1>5. StartedStays'
  BY <1>1, <1>4 DEF KeptInv, StartedStays, Object
<1>6. DecisionComes' <=> DecisionComes
  BY <1>1 DEF DecisionComes, Merging
<1>7. \A n : Cared(n, timer)' <=> Cared(n, timer)
  BY <1>1, <1>4, <1>6 DEF Cared, Object
<1>8. Awaited' \subseteq Awaited
  <2>1. obs_list \in Seq(DOMAIN objects) /\ objects \in Seq(Observation)
    BY DEF ScheduleTypeInv, ScheduleTypes
  <2>2. /\ Range(obs_list) \subseteq DOMAIN objects
        /\ \A n \in DOMAIN objects : objects[n] \in Observation
    BY <2>1, RangeOfSeq
  <2>3. \A n \in Range(obs_list) : objects[n].end \in Int
    BY <2>2 DEF Observation
  <2>4. QED BY <1>1, <1>2, <2>3 DEF Awaited, Object
<1>9. \A n \in Awaited' : Cared(n, timer)'
  BY <1>2, <1>7, <1>8 DEF KeptInv, TimedInv
<1>10. \A v \in Workers : Ahead(v)'
  BY <1>1, <1>2 DEF NonePerforms, Ahead
<1>11. TimedInv'
  BY <1>9, <1>10 DEF TimedInv
<1>12. QED BY <1>3, <1>5, <1>11 DEF KeptInv

\* A design or the timer's event comes into the queue.
LEMMA ArrivalKept ==
  ASSUME ScheduleTypeInv, KeptInv, PollDesign \/ ReceiveWebhook \/ TimerDue
  PROVE  KeptInv'
<1>1. UNCHANGED <<now, objects, obs_list, hands, cut, crossed>>
  BY DEF PollDesign, ReceiveWebhook, TimerDue
<1>2. PICK e \in ScheduleEvent : /\ e.is \in {"config", "timer"} /\ inbox' = Append(inbox, e)
                                 /\ Range(inbox') = Range(inbox) \cup {e}
  <2>1. ASSUME NEW e \in ScheduleEvent, e.is \in {"config", "timer"}, inbox' = Append(inbox, e)
        PROVE  Range(inbox') = Range(inbox) \cup {e}
    BY <1>1, <2>1, EventArrives
  <2>2. CASE PollDesign \/ ReceiveWebhook
    <3>1. PICK sheet \in Sheets : PutDesign(sheet)
      BY <2>2 DEF PollDesign, ReceiveWebhook
    <3>2. PICK e : e = [is |-> "config", sheet |-> sheet]
      OBVIOUS
    <3>3. e \in ScheduleEvent /\ e.is = "config"
      BY <3>2 DEF ScheduleEvent
    <3>4. inbox' = Append(inbox, e)
      BY <3>1, <3>2 DEF PutDesign
    <3>5. QED BY <2>1, <3>3, <3>4
  <2>3. CASE TimerDue
    <3>1. PICK e : e = [is |-> "timer"]
      OBVIOUS
    <3>2. e \in ScheduleEvent /\ e.is = "timer"
      BY <3>1 DEF ScheduleEvent
    <3>3. inbox' = Append(inbox, e)
      BY <2>3, <3>1 DEF TimerDue
    <3>4. QED BY <2>1, <3>2, <3>3
  <2>4. QED BY <2>2, <2>3
<1>3. OneAtATime' /\ Distinct' /\ MergeInv'
  BY <1>1 DEF KeptInv, OneAtATime, Distinct, MergeInv, Merging, Same, Object, ChangeHolds,
              AppendHolds
<1>4. \A n : Starting(n)' <=> Starting(n)
  <2>1. \A n : [is |-> "start", obs |-> n] # e
    BY <1>2
  <2>2. QED BY <1>1, <1>2, <2>1 DEF Starting
<1>5. StartedStays'
  BY <1>1, <1>4 DEF KeptInv, StartedStays, Object
<1>6. DecisionComes'
  BY <1>2 DEF DecisionComes
<1>7. \A n : \A time : Cared(n, time)'
  BY <1>6 DEF Cared
<1>8. ASSUME NEW v \in Workers PROVE Ahead(v)'
  <2>1. Ahead(v)
    BY DEF KeptInv, TimedInv
  <2>2. QED BY <1>1, <1>7, <2>1 DEF Ahead
<1>9. QED BY <1>3, <1>5, <1>7, <1>8 DEF KeptInv, TimedInv

\* A step of the merging that reads: to the next observation, to a change, to
\* an addition, or to the decision.
LEMMA ReadingKept ==
  ASSUME ScheduleTypeInv, KeptInv, NEW w \in Workers, Look(w) \/ Compare(w)
  PROVE  KeptInv'
<1>1. UNCHANGED <<now, objects, obs_list, snapshot, inbox, timer, configs, cut, crossed>>
  BY DEF Look, Compare
<1>2. /\ Merging(w) /\ hands[w].at \notin {"start", "perform"}
  BY DEF Look, Compare, Merging
<1>3. /\ OnlyHand(w) /\ hands'[w].at \in {"look", "change", "compare", "append", "decide"}
      /\ ChangeHolds(hands'[w])
      /\ AppendHolds(hands'[w])
  <2>1. CASE Look(w)
    BY <2>1, LookTyped DEF OnlyHand, ChangeHolds, AppendHolds
  <2>2. CASE Compare(w)
    BY <2>2, CompareTyped DEF OnlyHand, ChangeHolds, AppendHolds
  <2>3. QED BY <2>1, <2>2
<1>4. OneAtATime'
  BY <1>2, <1>3, OneKept DEF KeptInv
<1>5. Alike
  BY <1>1 DEF Alike
<1>6. Distinct'
  BY <1>1, <1>5, DistinctKept DEF KeptInv
<1>7. (ChangeHolds(hands[w]) /\ AppendHolds(hands[w]))'
  <2>1. PICK g : g = hands'[w]
    OBVIOUS
  <2>2. ChangeHolds(g) /\ AppendHolds(g)
    BY <1>3, <2>1
  <2>3. ChangeHolds(g)' /\ AppendHolds(g)'
    BY <1>1, <2>2 DEF ChangeHolds, AppendHolds, Same, Object
  <2>4. QED BY <2>1, <2>3
<1>8. MergeInv'
  BY <1>1, <1>3, <1>5, <1>7, MergeKept DEF KeptInv
<1>9. \A n : Starting(n)' <=> Starting(n)
  BY <1>1, <1>2, <1>3, StartingSame DEF SameStarts
<1>10. StartedStays'
  BY <1>1, <1>9 DEF KeptInv, StartedStays, Object
<1>11. DecisionComes'
  BY <1>3 DEF DecisionComes, Merging
<1>12. TimedInv'
  BY <1>1, <1>3, <1>11, DecisionKeeps DEF KeptInv
<1>13. QED BY <1>4, <1>6, <1>8, <1>10, <1>12 DEF KeptInv

\* The hands that do not merge hold nothing that the archive could contradict.
LEMMA OthersMerge ==
  ASSUME OneAtATime, NEW w \in Workers, Merging(w), OnlyHand(w),
         hands'[w].at \notin {"change", "append"}
  PROVE  MergeInv'
<1>1. ASSUME NEW v \in Workers PROVE (ChangeHolds(hands[v]) /\ AppendHolds(hands[v]))'
  <2>1. CASE v = w
    BY <2>1 DEF ChangeHolds, AppendHolds
  <2>2. CASE v # w
    <3>1. ~Merging(v) /\ hands'[v] = hands[v]
      BY <2>2 DEF OneAtATime, OnlyHand
    <3>2. QED BY <3>1 DEF Merging, ChangeHolds, AppendHolds
  <2>3. QED BY <2>1, <2>2
<1>2. QED BY <1>1 DEF MergeInv

\* What is appended was not there.
LEMMA AppendKept ==
  ASSUME ScheduleTypeInv, KeptInv, NEW w \in Workers, AppendOffer(w)
  PROVE  KeptInv'
<1>1. UNCHANGED <<now, objects, snapshot, inbox, timer, configs, cut, crossed>>
  BY DEF AppendOffer
<1>2. PICK o : o = hands[w].offers[hands[w].index]
  OBVIOUS
<1>3. /\ OnlyHand(w) /\ hands'[w].at = "compare" /\ obs_list' = Append(obs_list, o)
      /\ hands[w].at = "append" /\ Merging(w)
  BY <1>2, AppendTyped DEF OnlyHand, AppendOffer, Merging
<1>4. obs_list \in Seq(DOMAIN objects)
  BY DEF ScheduleTypeInv, ScheduleTypes
<1>5. Range(obs_list') = Range(obs_list) \cup {o}
  <2>1. obs_list \in Seq(Range(obs_list))
    BY <1>4, SeqOfRange
  <2>2. QED BY <1>3, <2>1, QueueAppended
<1>6. \A n \in Range(obs_list) : ~Same(n, o)
  BY <1>2, <1>3 DEF KeptInv, MergeInv, AppendHolds
<1>7. OneAtATime'
  BY <1>3, OneKept DEF KeptInv
<1>8. Distinct'
  <2>1. /\ Len(obs_list) \in Nat /\ DOMAIN obs_list = 1..Len(obs_list)
        /\ DOMAIN obs_list' = 1..(Len(obs_list) + 1)
        /\ obs_list'[Len(obs_list) + 1] = o
        /\ \A i \in 1..Len(obs_list) : obs_list'[i] = obs_list[i]
    BY <1>3, <1>4
  <2>2. \A i \in 1..Len(obs_list) : ~Same(obs_list[i], o) /\ ~Same(o, obs_list[i])
    <3>1. \A i \in 1..Len(obs_list) : obs_list[i] \in Range(obs_list)
      BY <2>1 DEF Range
    <3>2. QED BY <1>6, <3>1 DEF Same
  <2>3. \A n, m : Same(n, m)' <=> Same(n, m)
    BY <1>1 DEF Same, Object
  <2>4. ASSUME NEW i \in DOMAIN obs_list', NEW j \in DOMAIN obs_list',
               Same(obs_list'[i], obs_list'[j])
        PROVE  i = j
    <3>1. CASE i \in 1..Len(obs_list) /\ j \in 1..Len(obs_list)
      BY <2>1, <2>4, <3>1 DEF KeptInv, Distinct
    <3>2. CASE i = Len(obs_list) + 1 /\ j \in 1..Len(obs_list)
      BY <2>1, <2>2, <2>4, <3>2
    <3>3. CASE j = Len(obs_list) + 1 /\ i \in 1..Len(obs_list)
      BY <2>1, <2>2, <2>4, <3>3
    <3>4. CASE i = Len(obs_list) + 1 /\ j = Len(obs_list) + 1
      BY <3>4
    <3>5. QED BY <2>1, <3>1, <3>2, <3>3, <3>4
  <2>5. QED BY <2>3, <2>4 DEF Distinct
<1>9. MergeInv'
  BY <1>3, OthersMerge DEF KeptInv
<1>10. \A n : Starting(n)' <=> Starting(n)
  BY <1>1, <1>3, StartingSame DEF SameStarts
<1>11. StartedStays'
  BY <1>1, <1>5, <1>10 DEF KeptInv, StartedStays, Object
<1>12. DecisionComes'
  BY <1>3 DEF DecisionComes, Merging
<1>13. TimedInv'
  BY <1>1, <1>3, <1>12, DecisionKeeps DEF KeptInv
<1>14. QED BY <1>7, <1>8, <1>9, <1>11, <1>13 DEF KeptInv

\* What is replaced or removed has not begun and is not starting.
LEMMA ChangeKept ==
  ASSUME ScheduleTypeInv, KeptInv, NEW w \in Workers, Change(w), ~crossed'
  PROVE  KeptInv'
<1>1. UNCHANGED <<now, objects, snapshot, inbox, timer, configs, cut>>
  BY DEF Change
<1>2. PICK h : h = hands[w]
  OBVIOUS
<1>3. h.at = "change" /\ Merging(w)
  BY <1>2 DEF Change, Merging
<1>4. /\ obs_list \in Seq(DOMAIN objects) /\ Len(obs_list) \in Nat
      /\ DOMAIN obs_list = 1..Len(obs_list)
  <2>1. obs_list \in Seq(DOMAIN objects)
    BY DEF ScheduleTypeInv, ScheduleTypes
  <2>2. QED BY <2>1
<1>5. PICK i \in 1..Len(obs_list) : i = h.index
  <2>1. ChangeHolds(h)
    BY <1>2 DEF KeptInv, MergeInv
  <2>2. h.index \in 1..Len(obs_list)
    BY <1>3, <1>4, <2>1 DEF ChangeHolds
  <2>3. QED BY <2>2
<1>6. OnlyHand(w) /\ hands'[w].at = "look"
  BY <1>2, <1>4, <1>5, ChangeTyped DEF OnlyHand
<1>7. PICK o : o = obs_list[i]
  OBVIOUS
<1>8. ~Object(o).begun /\ ~Starting(o)
  <2>1. ~(h.index > Len(obs_list)) /\ obs_list[h.index] = o
    BY <1>4, <1>5, <1>7
  <2>2. crossed' = (crossed \/ Object(obs_list[h.index]).begun \/ Starting(obs_list[h.index]))
    BY <1>2, <2>1, Zenon DEF Change
  <2>3. QED BY <2>1, <2>2, Zenon
<1>9. OneAtATime'
  BY <1>3, <1>6, OneKept DEF KeptInv
<1>10. MergeInv'
  BY <1>3, <1>6, OthersMerge DEF KeptInv
<1>11. \A n : Starting(n)' <=> Starting(n)
  BY <1>1, <1>2, <1>3, <1>6, StartingSame DEF SameStarts
<1>12. \A n, m : Same(n, m)' <=> Same(n, m)
  BY <1>1 DEF Same, Object
<1>13. \A j, k \in 1..Len(obs_list) : Same(obs_list[j], obs_list[k]) => j = k
  BY <1>4 DEF KeptInv, Distinct
<1>14. Distinct' /\ \A j \in 1..Len(obs_list) : j = i \/ obs_list[j] \in Range(obs_list')
  <2>1. CASE h.offer = {}
    <3>1. PICK r : r = RemoveAt(obs_list, i)
      OBVIOUS
    <3>2. obs_list' = r
      BY <1>2, <1>4, <1>5, <2>1, <3>1 DEF Change
    <3>3. /\ r \in Seq(DOMAIN objects) /\ Len(r) = Len(obs_list) - 1
          /\ \A j \in 1..Len(r) : r[j] = IF j < i THEN obs_list[j] ELSE obs_list[j + 1]
      <4>1. i \in DOMAIN obs_list
        BY <1>4
      <4>2. obs_list \in Seq(DOMAIN objects)
        BY <1>4
      <4>3. r \in Seq(DOMAIN objects) /\ Without(r, obs_list, i)
        BY <3>1, <4>1, <4>2, ElementRemoved
      <4>4. QED BY <4>3 DEF Without
    <3>4. DOMAIN r = 1..(Len(obs_list) - 1)
      BY <3>3
    <3>5. ASSUME NEW j \in DOMAIN r, NEW k \in DOMAIN r, Same(r[j], r[k]) PROVE j = k
      <4>1. PICK a \in 1..Len(obs_list) : a = IF j < i THEN j ELSE j + 1
        BY <1>4, <3>4
      <4>2. PICK b \in 1..Len(obs_list) : b = IF k < i THEN k ELSE k + 1
        BY <1>4, <3>4
      <4>3. r[j] = obs_list[a] /\ r[k] = obs_list[b]
        BY <3>3, <3>4, <4>1, <4>2
      <4>4. a = b
        BY <1>13, <3>5, <4>3
      <4>5. QED BY <3>4, <4>1, <4>2, <4>4
    <3>6. ASSUME NEW j \in 1..Len(obs_list), j # i PROVE obs_list[j] \in Range(r)
      <4>1. PICK k \in 1..(Len(obs_list) - 1) : k = IF j < i THEN j ELSE j - 1
        BY <1>4, <3>6
      <4>2. r[k] = obs_list[j]
        BY <1>4, <3>3, <3>6, <4>1
      <4>3. QED BY <3>4, <4>2 DEF Range
    <3>7. QED BY <1>12, <3>2, <3>5, <3>6 DEF Distinct
  <2>2. CASE h.offer # {}
    <3>1. PICK n \in h.offer : n = CHOOSE m \in h.offer : TRUE
      BY <2>2
    <3>2. obs_list' = [obs_list EXCEPT ![i] = n]
      BY <1>2, <1>4, <1>5, <2>2, <3>1 DEF Change
    <3>3. /\ DOMAIN obs_list' = 1..Len(obs_list) /\ obs_list'[i] = n
          /\ \A j \in 1..Len(obs_list) : j # i => obs_list'[j] = obs_list[j]
      BY <1>4, <3>2
    <3>4. Same(n, o)
      BY <1>2, <1>3, <1>5, <1>7, <3>1 DEF KeptInv, MergeInv, ChangeHolds
    <3>5. \A j \in 1..Len(obs_list) : Object(obs_list'[j]).id = Object(obs_list[j]).id
      <4>1. Object(n).id = Object(obs_list[i]).id
        BY <1>7, <3>4 DEF Same
      <4>2. QED BY <3>3, <4>1
    <3>6. ASSUME NEW j \in 1..Len(obs_list), NEW k \in 1..Len(obs_list),
                 Same(obs_list'[j], obs_list'[k])
          PROVE  j = k
      <4>1. Same(obs_list[j], obs_list[k])
        BY <3>5, <3>6 DEF Same
      <4>2. QED BY <1>13, <4>1
    <3>7. ASSUME NEW j \in 1..Len(obs_list), j # i PROVE obs_list[j] \in Range(obs_list')
      BY <3>3, <3>7 DEF Range
    <3>8. QED BY <1>12, <3>3, <3>6, <3>7 DEF Distinct
  <2>3. QED BY <2>1, <2>2
<1>15. StartedStays'
  <2>1. ASSUME NEW n \in DOMAIN objects, objects[n].begun \/ Starting(n)
        PROVE  n \in Range(obs_list')
    <3>1. n \in Range(obs_list) /\ n # o
      BY <1>8, <2>1 DEF KeptInv, StartedStays, Object
    <3>2. PICK j \in 1..Len(obs_list) : n = obs_list[j]
      BY <1>4, <3>1 DEF Range
    <3>3. QED BY <1>7, <1>14, <3>1, <3>2
  <2>2. QED BY <1>1, <1>11, <2>1 DEF StartedStays, Object
<1>16. DecisionComes'
  BY <1>6 DEF DecisionComes, Merging
<1>17. TimedInv'
  BY <1>1, <1>6, <1>16, DecisionKeeps DEF KeptInv
<1>18. QED BY <1>9, <1>10, <1>14, <1>15, <1>17 DEF KeptInv

\* A design is taken up when none is being merged.
LEMMA TakeConfigKept ==
  ASSUME ScheduleTypeInv, KeptInv, NEW w \in Workers, TakeConfig(w), ~crossed'
  PROVE  KeptInv'
<1>1. UNCHANGED <<now, obs_list, snapshot, timer, configs, cut>> /\ Taken(w, "config")
  BY DEF TakeConfig
<1>2. \A v \in Workers : ~Merging(v)
  BY DEF TakeConfig
<1>3. /\ OnlyHand(w) /\ hands'[w].at = "look"
      /\ DOMAIN objects \subseteq DOMAIN objects'
      /\ \A n \in DOMAIN objects : objects'[n] = objects[n]
      /\ \A n \in DOMAIN objects' \ DOMAIN objects : ~objects'[n].begun
  BY TakeConfigTyped DEF OnlyHand
<1>4. hands[w].at = "free"
  BY <1>1 DEF Taken, Free
<1>5. OneAtATime'
  BY <1>2, <1>3, OneKept DEF KeptInv
<1>6. Alike
  BY <1>3 DEF Alike
<1>7. Distinct'
  BY <1>1, <1>6, DistinctKept DEF KeptInv
<1>8. MergeInv'
  <2>1. (ChangeHolds(hands[w]) /\ AppendHolds(hands[w]))'
    BY <1>3 DEF ChangeHolds, AppendHolds
  <2>2. QED BY <1>1, <1>3, <1>6, <2>1, MergeKept DEF KeptInv
<1>9. SameStarts
  <2>1. inbox \in Seq(Range(inbox)) /\ inbox # <<>> /\ inbox' = Tail(inbox)
    BY <1>1, SeqOfRange DEF ScheduleTypeInv, ScheduleTypes, Taken
  <2>2. Range(inbox) = Range(inbox') \cup {Head(inbox)}
    BY <2>1, QueueTaken
  <2>3. Head(inbox).is = "config"
    BY <1>1 DEF Taken
  <2>4. QED BY <2>2, <2>3 DEF SameStarts
<1>10. \A n : Starting(n)' <=> Starting(n)
  BY <1>3, <1>4, <1>9, StartingSame
<1>11. StartedStays'
  <2>1. ASSUME NEW n \in DOMAIN objects', objects'[n].begun \/ Starting(n)'
        PROVE  n \in DOMAIN objects /\ (Object(n).begun \/ Starting(n))
    <3>1. n \in DOMAIN objects
      BY <1>3, <1>10, <2>1, StartingKnown
    <3>2. QED BY <1>3, <1>10, <2>1, <3>1 DEF Object
  <2>2. QED BY <1>1, <2>1, StartedKept DEF KeptInv
<1>12. DecisionComes'
  BY <1>3 DEF DecisionComes, Merging
<1>13. TimedInv'
  BY <1>1, <1>3, <1>12, DecisionKeeps DEF KeptInv
<1>14. QED BY <1>5, <1>7, <1>8, <1>11, <1>13 DEF KeptInv

\* A start or a timer is taken up.
LEMMA TakeEventKept ==
  ASSUME ScheduleTypeInv, KeptInv, NEW w \in Workers, TakeTimer(w) \/ TakeStart(w)
  PROVE  KeptInv'
<1>1. UNCHANGED <<now, objects, obs_list, snapshot, timer, configs, cut, crossed>>
  BY DEF TakeTimer, TakeStart
<1>2. hands[w].at = "free"
  BY DEF TakeTimer, TakeStart, Taken, Free
<1>3. PICK e \in ScheduleEvent : e = Head(inbox)
  BY TakeEventTyped
<1>4. /\ OnlyHand(w) /\ Range(inbox) = Range(inbox') \cup {e} /\ e \in Range(inbox)
      /\ TakeTimer(w) => e.is = "timer" /\ hands'[w].at = "decide"
      /\ TakeStart(w) => e.is = "start" /\ hands'[w].at = "start" /\ hands'[w].obs = e.obs
  BY <1>3, TakeEventTyped DEF OnlyHand
<1>5. OneAtATime'
  <2>1. ~Merging(w)' /\ hands'[w].at # "perform"
    BY <1>4 DEF Merging
  <2>2. QED BY <1>4, <2>1, OneKept DEF KeptInv
<1>6. Alike
  BY <1>1 DEF Alike
<1>7. Distinct'
  BY <1>1, <1>6, DistinctKept DEF KeptInv
<1>8. MergeInv'
  <2>1. (ChangeHolds(hands[w]) /\ AppendHolds(hands[w]))'
    BY <1>4 DEF ChangeHolds, AppendHolds
  <2>2. QED BY <1>1, <1>4, <1>6, <2>1, MergeKept DEF KeptInv
<1>9. ASSUME NEW n PROVE Starting(n)' <=> Starting(n)
  <2>1. CASE TakeTimer(w)
    <3>1. SameStarts
      BY <1>4, <2>1 DEF SameStarts
    <3>2. QED BY <1>2, <1>4, <2>1, <3>1, StartingSame
  <2>2. CASE TakeStart(w)
    <3>1. e.is = "start" /\ hands'[w].at = "start" /\ hands'[w].obs = e.obs
      BY <1>4, <2>2
    <3>2. e = [is |-> "start", obs |-> e.obs]
      BY <3>1 DEF ScheduleEvent
    <3>3. (\E v \in Workers : \/ hands'[v].at = "start" /\ hands'[v].obs = n
                              \/ hands'[v].at = "perform" /\ n \in hands'[v].starts)
          <=> \/ n = e.obs
              \/ \E v \in Workers : \/ hands[v].at = "start" /\ hands[v].obs = n
                                    \/ hands[v].at = "perform" /\ n \in hands[v].starts
      BY <1>2, <1>4, <3>1 DEF OnlyHand
    <3>4. [is |-> "start", obs |-> n] \in Range(inbox)
          <=> n = e.obs \/ [is |-> "start", obs |-> n] \in Range(inbox')
      <4>1. [is |-> "start", obs |-> n] = e <=> n = e.obs
        BY <3>2
      <4>2. QED BY <1>4, <4>1
    <3>5. QED BY <3>3, <3>4 DEF Starting
  <2>3. QED BY <2>1, <2>2
<1>10. StartedStays'
  BY <1>1, <1>9 DEF KeptInv, StartedStays, Object
<1>11. CASE TakeTimer(w)
  <2>1. DecisionComes'
    BY <1>4, <1>11 DEF DecisionComes
  <2>2. TimedInv'
    BY <1>1, <1>4, <1>11, <2>1, DecisionKeeps DEF KeptInv
  <2>3. QED BY <1>5, <1>7, <1>8, <1>10, <2>2 DEF KeptInv
<1>12. CASE TakeStart(w)
  <2>1. hands'[w].at = "start" /\ e.is = "start"
    BY <1>4, <1>12
  <2>2. DecisionComes => DecisionComes'
    <3>1. ASSUME NEW d \in Range(inbox), d.is \in {"config", "timer"} PROVE d \in Range(inbox')
      BY <1>4, <2>1, <3>1
    <3>2. ASSUME NEW v \in Workers, Merging(v) \/ hands[v].at = "decide"
          PROVE Merging(v)' \/ hands'[v].at = "decide"
      <4>1. v # w
        BY <1>2, <3>2 DEF Merging
      <4>2. hands'[v] = hands[v]
        BY <1>4, <4>1 DEF OnlyHand
      <4>3. QED BY <3>2, <4>2 DEF Merging
    <3>3. QED BY <3>1, <3>2 DEF DecisionComes
  <2>3. \A n : \A time : Cared(n, time) => Cared(n, time)'
    BY <1>1, <1>9, <2>2 DEF Cared, Object
  <2>4. Awaited' = Awaited
    BY <1>1 DEF Awaited, Object
  <2>5. NonePerforms' => NonePerforms
    BY <1>2, <1>4 DEF NonePerforms, OnlyHand
  <2>6. ASSUME NEW v \in Workers PROVE Ahead(v)'
    <3>1. CASE v = w
      BY <2>1, <3>1 DEF Ahead
    <3>2. CASE v # w
      <4>1. hands'[v] = hands[v] /\ Ahead(v)
        BY <1>4, <3>2 DEF OnlyHand, KeptInv, TimedInv
      <4>2. QED BY <1>1, <2>3, <2>4, <4>1 DEF Ahead
    <3>3. QED BY <3>1, <3>2
  <2>7. TimedInv'
    BY <1>1, <2>3, <2>4, <2>5, <2>6 DEF KeptInv, TimedInv
  <2>8. QED BY <1>5, <1>7, <1>8, <1>10, <2>7 DEF KeptInv
<1>13. QED BY <1>11, <1>12

\* An observation begins.
LEMMA BeginKept ==
  ASSUME ScheduleTypeInv, KeptInv, NEW w \in Workers, Begin(w)
  PROVE  KeptInv'
<1>1. UNCHANGED <<now, obs_list, snapshot, inbox, timer, configs, cut, crossed>>
      /\ hands[w].at = "start"
  BY DEF Begin
<1>2. PICK o : o = hands[w].obs
  OBVIOUS
<1>3. /\ OnlyHand(w) /\ hands'[w].at = "free" /\ o \in DOMAIN objects
      /\ DOMAIN objects' = DOMAIN objects
      /\ \A n \in DOMAIN objects : /\ objects'[n].id = objects[n].id
                                   /\ objects'[n].start = objects[n].start
                                   /\ objects'[n].end = objects[n].end
                                   /\ objects'[n].begun <=> (objects[n].begun \/ n = o)
  BY <1>2, BeginTyped DEF OnlyHand
<1>4. OneAtATime'
  <2>1. ~Merging(w)' /\ hands'[w].at # "perform"
    BY <1>3 DEF Merging
  <2>2. QED BY <1>3, <2>1, OneKept DEF KeptInv
<1>5. Alike
  BY <1>3 DEF Alike
<1>6. Distinct'
  BY <1>1, <1>5, DistinctKept DEF KeptInv
<1>7. MergeInv'
  <2>1. (ChangeHolds(hands[w]) /\ AppendHolds(hands[w]))'
    BY <1>3 DEF ChangeHolds, AppendHolds
  <2>2. QED BY <1>1, <1>3, <1>5, <2>1, MergeKept DEF KeptInv
<1>8. Starting(o)
  BY <1>1, <1>2 DEF Starting
<1>9. \A n : (Starting(n)' => Starting(n)) /\ (Starting(n) => n = o \/ Starting(n)')
  BY <1>1, <1>2, <1>3 DEF Starting, OnlyHand
<1>10. StartedStays'
  <2>1. ASSUME NEW n \in DOMAIN objects', objects'[n].begun \/ Starting(n)'
        PROVE  n \in DOMAIN objects /\ (Object(n).begun \/ Starting(n))
    BY <1>3, <1>8, <1>9, <2>1 DEF Object
  <2>2. QED BY <1>1, <2>1, StartedKept DEF KeptInv
<1>11. DecisionComes => DecisionComes'
  <2>1. ASSUME NEW v \in Workers, Merging(v) \/ hands[v].at = "decide"
        PROVE Merging(v)' \/ hands'[v].at = "decide"
    <3>1. v # w
      BY <1>1, <2>1 DEF Merging
    <3>2. hands'[v] = hands[v]
      BY <1>3, <3>1 DEF OnlyHand
    <3>3. QED BY <2>1, <3>2 DEF Merging
  <2>2. QED BY <1>1, <2>1 DEF DecisionComes
<1>12. Awaited' \subseteq Awaited /\ o \notin Awaited' /\ Awaited \subseteq DOMAIN objects
  <2>1. Range(obs_list) \subseteq DOMAIN objects
    BY RangeOfSeq DEF ScheduleTypeInv, ScheduleTypes
  <2>2. QED BY <1>1, <1>3, <2>1 DEF Awaited, Object
<1>13. ASSUME NEW n \in Awaited', NEW time, Cared(n, time) PROVE Cared(n, time)'
  BY <1>1, <1>3, <1>9, <1>11, <1>12, <1>13 DEF Cared, Object
<1>14. NonePerforms' => NonePerforms
  BY <1>1, <1>3 DEF NonePerforms, OnlyHand
<1>15. ASSUME NEW v \in Workers PROVE Ahead(v)'
  <2>1. CASE v = w
    BY <1>3, <2>1 DEF Ahead
  <2>2. CASE v # w
    <3>1. hands'[v] = hands[v] /\ Ahead(v)
      BY <1>3, <2>2 DEF OnlyHand, KeptInv, TimedInv
    <3>2. QED BY <1>1, <1>12, <1>13, <3>1 DEF Ahead
  <2>3. QED BY <2>1, <2>2
<1>16. TimedInv'
  BY <1>1, <1>12, <1>13, <1>14, <1>15 DEF KeptInv, TimedInv
<1>17. QED BY <1>4, <1>6, <1>7, <1>10, <1>16 DEF KeptInv

\* What is awaited is due now, or comes later and is not a twin of what is due.
LEMMA AwaitedIsDueOrAhead ==
  ASSUME ScheduleTypeInv, Distinct, NEW n \in Awaited
  PROVE  n \in DueNow \/ n \in Future
<1>1. n \in Range(obs_list) /\ ~Object(n).begun /\ Object(n).end > now
  BY DEF Awaited
<1>2. obs_list \in Seq(DOMAIN objects) /\ objects \in Seq(Observation) /\ now \in Nat
  BY DEF ScheduleTypeInv, ScheduleTypes
<1>3. n \in DOMAIN objects /\ objects[n] \in Observation
  <2>1. n \in DOMAIN objects
    BY <1>1, <1>2, RangeOfSeq
  <2>2. QED BY <1>2, <2>1
<1>4. Object(n).start \in Int
  BY <1>3 DEF Observation, Object
<1>5. CASE Object(n).start <= now
  BY <1>1, <1>5 DEF DueNow, Due
<1>6. CASE ~(Object(n).start <= now)
  <2>1. ASSUME NEW m \in DueNow, Same(n, m) PROVE FALSE
    <3>1. m \in Range(obs_list) /\ Object(m).start <= now
      BY DEF DueNow, Due
    <3>2. PICK i \in DOMAIN obs_list : n = obs_list[i]
      BY <1>1 DEF Range
    <3>3. PICK j \in DOMAIN obs_list : m = obs_list[j]
      BY <3>1 DEF Range
    <3>4. i = j
      BY <2>1, <3>2, <3>3 DEF Distinct
    <3>5. QED BY <1>6, <3>1, <3>2, <3>3, <3>4
  <2>2. Object(n).start > now
    BY <1>2, <1>4, <1>6
  <2>3. QED BY <1>1, <2>1, <2>2 DEF Future
<1>7. QED BY <1>5, <1>6

\* What is to be started and what is timed next have been decided.
LEMMA DecideKept ==
  ASSUME ScheduleTypeInv, KeptInv, NEW w \in Workers, Decide(w), ~crossed'
  PROVE  KeptInv'
<1>1. UNCHANGED <<now, objects, obs_list, snapshot, inbox, timer, configs>>
      /\ hands[w].at = "decide"
  BY DEF Decide
<1>2. NonePerforms
  BY DEF Decide, NonePerforms
<1>3. PICK next : next = hands'[w].next
  OBVIOUS
<1>4. /\ OnlyHand(w) /\ hands'[w].at = "perform" /\ hands'[w].starts = DueNow
      /\ next = NoTimer \/ next > now
      /\ cut' \/ \A n \in Future : next # NoTimer /\ next <= Object(n).start
  BY <1>3, DecideTyped DEF OnlyHand
<1>5. OneAtATime'
  <2>1. ~Merging(w)'
    BY <1>4 DEF Merging
  <2>2. QED BY <1>2, <1>4, <2>1, OneKept DEF KeptInv, NonePerforms
<1>6. Alike
  BY <1>1 DEF Alike
<1>7. Distinct'
  BY <1>1, <1>6, DistinctKept DEF KeptInv
<1>8. MergeInv'
  <2>1. (ChangeHolds(hands[w]) /\ AppendHolds(hands[w]))'
    BY <1>4 DEF ChangeHolds, AppendHolds
  <2>2. QED BY <1>1, <1>4, <1>6, <2>1, MergeKept DEF KeptInv
<1>9. \A n : Starting(n)' <=> Starting(n) \/ n \in DueNow
  BY <1>1, <1>4 DEF Starting, OnlyHand
<1>10. StartedStays'
  <2>1. DueNow \subseteq Range(obs_list)
    BY DEF DueNow
  <2>2. ASSUME NEW n \in DOMAIN objects', objects'[n].begun \/ Starting(n)'
        PROVE  \/ n \in DOMAIN objects /\ (Object(n).begun \/ Starting(n))
               \/ n \in Range(obs_list)
    BY <1>1, <1>9, <2>1, <2>2 DEF Object
  <2>3. QED BY <1>1, <2>2, StartedKept DEF KeptInv
<1>11. Awaited' = Awaited
  BY <1>1 DEF Awaited, Object
<1>12. ASSUME NEW n \in Awaited PROVE Cared(n, next)'
  <2>1. CASE n \in DueNow
    BY <1>9, <2>1 DEF Cared
  <2>2. CASE n \in Future
    BY <1>1, <1>4, <2>2 DEF Cared, Object
  <2>3. QED BY <2>1, <2>2, AwaitedIsDueOrAhead DEF KeptInv
<1>13. ASSUME NEW v \in Workers PROVE Ahead(v)'
  <2>1. CASE v = w
    BY <1>1, <1>3, <1>4, <1>11, <1>12, <2>1 DEF Ahead
  <2>2. CASE v # w
    <3>1. hands'[v].at # "perform"
      BY <1>2, <1>4, <2>2 DEF OnlyHand, NonePerforms
    <3>2. QED BY <3>1 DEF Ahead
  <2>3. QED BY <2>1, <2>2
<1>14. TimedInv'
  BY <1>4, <1>13 DEF TimedInv, NonePerforms
<1>15. QED BY <1>5, <1>7, <1>8, <1>10, <1>14 DEF KeptInv

\* The decision is carried out.
LEMMA PerformKept ==
  ASSUME ScheduleTypeInv, KeptInv, NEW w \in Workers, Perform(w)
  PROVE  KeptInv'
<1>1. UNCHANGED <<now, objects, obs_list, snapshot, configs, cut, crossed>>
      /\ hands[w].at = "perform"
  BY DEF Perform
<1>2. PICK next : next = hands[w].next
  OBVIOUS
<1>3. PICK starts : starts = hands[w].starts
  OBVIOUS
<1>4. /\ OnlyHand(w) /\ hands'[w].at = "free"
      /\ Range(inbox') = Range(inbox) \cup {[is |-> "start", obs |-> n] : n \in starts}
      /\ next = NoTimer => timer' = timer
      /\ next > now => timer' # NoTimer /\ timer' <= next
  BY <1>2, <1>3, PerformTyped DEF OnlyHand
<1>5. /\ OneAtATime'
      /\ \A v \in Workers \ {w} : hands[v].at # "perform"
  <2>1. ~Merging(w)' /\ hands'[w].at # "perform"
    BY <1>4 DEF Merging
  <2>2. QED BY <1>1, <1>4, <2>1, OneKept DEF KeptInv, OneAtATime
<1>6. Alike
  BY <1>1 DEF Alike
<1>7. Distinct'
  BY <1>1, <1>6, DistinctKept DEF KeptInv
<1>8. MergeInv'
  <2>1. (ChangeHolds(hands[w]) /\ AppendHolds(hands[w]))'
    BY <1>4 DEF ChangeHolds, AppendHolds
  <2>2. QED BY <1>1, <1>4, <1>6, <2>1, MergeKept DEF KeptInv
<1>9. ASSUME NEW n PROVE Starting(n)' <=> Starting(n)
  <2>1. [is |-> "start", obs |-> n] \in Range(inbox')
        <=> [is |-> "start", obs |-> n] \in Range(inbox) \/ n \in starts
    BY <1>4
  <2>2. (\E v \in Workers : \/ hands[v].at = "start" /\ hands[v].obs = n
                            \/ hands[v].at = "perform" /\ n \in hands[v].starts)
        <=> \/ n \in starts
            \/ \E v \in Workers : \/ hands'[v].at = "start" /\ hands'[v].obs = n
                                  \/ hands'[v].at = "perform" /\ n \in hands'[v].starts
    BY <1>1, <1>3, <1>4, <1>5 DEF OnlyHand
  <2>3. QED BY <2>1, <2>2 DEF Starting
<1>10. StartedStays'
  BY <1>1, <1>9 DEF KeptInv, StartedStays, Object
<1>11. DecisionComes => DecisionComes'
  <2>1. ASSUME NEW v \in Workers, Merging(v) \/ hands[v].at = "decide"
        PROVE Merging(v)' \/ hands'[v].at = "decide"
    <3>1. v # w
      BY <1>1, <2>1 DEF Merging
    <3>2. hands'[v] = hands[v]
      BY <1>4, <3>1 DEF OnlyHand
    <3>3. QED BY <2>1, <3>2 DEF Merging
  <2>2. QED BY <1>4, <2>1 DEF DecisionComes
<1>12. Awaited' = Awaited
  BY <1>1 DEF Awaited, Object
<1>13. /\ next = NoTimer \/ next > now
       /\ \A n \in Awaited : Cared(n, next)
  BY <1>1, <1>2 DEF KeptInv, TimedInv, Ahead
<1>14. ASSUME NEW n \in Awaited PROVE Cared(n, timer)'
  <2>1. CASE next = NoTimer
    <3>1. DecisionComes \/ cut \/ Starting(n)
      BY <1>13, <2>1 DEF Cared
    <3>2. QED BY <1>1, <1>9, <1>11, <3>1 DEF Cared
  <2>2. CASE next # NoTimer
    <3>1. DecisionComes \/ cut \/ Starting(n) \/ next <= Object(n).start
      BY <1>13 DEF Cared
    <3>2. CASE next <= Object(n).start
      <4>1. timer' # NoTimer /\ timer' <= next
        BY <1>4, <1>13, <2>2
      <4>2. next \in Int /\ timer' \in Int /\ Object(n).start \in Int
        <5>1. hands[w] \in Hand /\ timer' \in Int
          BY PerformTyped DEF ScheduleTypeInv, ScheduleTypes
        <5>2. next \in Int
          BY <1>1, <1>2, <5>1, HandsTell DEF Performing
        <5>3. n \in DOMAIN objects /\ objects[n] \in Observation
          <6>1. obs_list \in Seq(DOMAIN objects) /\ objects \in Seq(Observation)
            BY DEF ScheduleTypeInv, ScheduleTypes
          <6>2. n \in DOMAIN objects
            BY <6>1, RangeOfSeq DEF Awaited
          <6>3. QED BY <6>1, <6>2
        <5>4. QED BY <5>1, <5>2, <5>3 DEF Observation, Object
      <4>3. timer' # NoTimer /\ timer' <= Object(n).start
        BY <3>2, <4>1, <4>2
      <4>4. QED BY <1>1, <4>3 DEF Cared, Object
    <3>3. CASE DecisionComes \/ cut \/ Starting(n)
      BY <1>1, <1>9, <1>11, <3>3 DEF Cared
    <3>4. QED BY <3>1, <3>2, <3>3
  <2>3. QED BY <2>1, <2>2
<1>15. ASSUME NEW v \in Workers PROVE hands'[v].at # "perform"
  <2>1. CASE v = w
    BY <1>4, <2>1
  <2>2. CASE v # w
    BY <1>4, <1>5, <2>2 DEF OnlyHand
  <2>3. QED BY <2>1, <2>2
<1>16. TimedInv'
  BY <1>12, <1>14, <1>15 DEF TimedInv, Ahead
<1>17. QED BY <1>5, <1>7, <1>8, <1>10, <1>16 DEF KeptInv

-----------------------------------------------------------------------------
ScheduleInv == ScheduleTypeInv /\ (crossed \/ KeptInv)

\* The inductive invariant of the schedule.
THEOREM ScheduleInvariant == ScheduleSpec => []ScheduleInv
<1>1. ScheduleInit => ScheduleInv
  <2>. SUFFICES ASSUME ScheduleInit PROVE ScheduleInv
    OBVIOUS
  <2>1. ScheduleTypeInv
    BY TypesBegin
  <2>2. /\ objects = <<>> /\ obs_list = <<>> /\ inbox = <<>>
        /\ \A w \in Workers : hands[w].at = "free"
    BY DEF ScheduleInit, Free
  <2>3. DOMAIN objects = {} /\ DOMAIN obs_list = {} /\ Range(obs_list) = {}
    BY <2>2 DEF Range
  <2>4. OneAtATime /\ StartedStays /\ Distinct
    BY <2>2, <2>3 DEF OneAtATime, Merging, StartedStays, Distinct
  <2>5. MergeInv
    BY <2>2 DEF MergeInv, ChangeHolds, AppendHolds
  <2>6. Awaited = {}
    BY <2>3 DEF Awaited
  <2>7. TimedInv
    BY <2>2, <2>6 DEF TimedInv, Ahead
  <2>8. QED BY <2>1, <2>4, <2>5, <2>7 DEF ScheduleInv, KeptInv
<1>2. ScheduleInv /\ [ScheduleNext]_scheduleVars => ScheduleInv'
  <2>. SUFFICES ASSUME ScheduleInv, [ScheduleNext]_scheduleVars PROVE ScheduleInv'
    OBVIOUS
  <2>1. ScheduleTypeInv /\ (crossed \/ KeptInv)
    BY DEF ScheduleInv
  <2>2. CASE Tick \/ PollDesign \/ ReceiveWebhook \/ TimerDue
    <3>1. crossed' = crossed
      BY <2>2 DEF Tick, PollDesign, ReceiveWebhook, TimerDue
    <3>2. ScheduleTypeInv'
      BY <2>1, <2>2, ArrivalTyped
    <3>3. KeptInv => KeptInv'
      BY <2>1, <2>2, TickKept, ArrivalKept
    <3>4. QED BY <2>1, <3>1, <3>2, <3>3 DEF ScheduleInv
  <2>3. ASSUME NEW w \in Workers, Look(w) \/ Compare(w) PROVE ScheduleInv'
    <3>1. crossed' = crossed
      BY <2>3 DEF Look, Compare
    <3>2. ScheduleTypeInv'
      BY <2>1, <2>3, LookTyped, CompareTyped
    <3>3. KeptInv => KeptInv'
      BY <2>1, <2>3, ReadingKept
    <3>4. QED BY <2>1, <3>1, <3>2, <3>3 DEF ScheduleInv
  <2>4. ASSUME NEW w \in Workers, Change(w) PROVE ScheduleInv'
    <3>1. crossed => crossed'
      BY <2>4 DEF Change
    <3>2. ScheduleTypeInv'
      BY <2>1, <2>4, ChangeTyped
    <3>3. KeptInv => crossed' \/ KeptInv'
      BY <2>1, <2>4, ChangeKept
    <3>4. QED BY <2>1, <3>1, <3>2, <3>3 DEF ScheduleInv
  <2>5. ASSUME NEW w \in Workers, AppendOffer(w) PROVE ScheduleInv'
    <3>1. crossed' = crossed
      BY <2>5 DEF AppendOffer
    <3>2. ScheduleTypeInv'
      BY <2>1, <2>5, AppendTyped
    <3>3. KeptInv => KeptInv'
      BY <2>1, <2>5, AppendKept
    <3>4. QED BY <2>1, <3>1, <3>2, <3>3 DEF ScheduleInv
  <2>6. ASSUME NEW w \in Workers, TakeConfig(w) PROVE ScheduleInv'
    <3>1. crossed => crossed'
      BY <2>6 DEF TakeConfig
    <3>2. ScheduleTypeInv'
      BY <2>1, <2>6, TakeConfigTyped
    <3>3. KeptInv => crossed' \/ KeptInv'
      BY <2>1, <2>6, TakeConfigKept
    <3>4. QED BY <2>1, <3>1, <3>2, <3>3 DEF ScheduleInv
  <2>7. ASSUME NEW w \in Workers, TakeTimer(w) \/ TakeStart(w) PROVE ScheduleInv'
    <3>1. crossed' = crossed
      BY <2>7 DEF TakeTimer, TakeStart
    <3>2. ScheduleTypeInv'
      BY <2>1, <2>7, TakeEventTyped
    <3>3. KeptInv => KeptInv'
      BY <2>1, <2>7, TakeEventKept
    <3>4. QED BY <2>1, <3>1, <3>2, <3>3 DEF ScheduleInv
  <2>8. ASSUME NEW w \in Workers, Decide(w) PROVE ScheduleInv'
    <3>1. crossed => crossed'
      BY <2>8 DEF Decide
    <3>2. ScheduleTypeInv'
      BY <2>1, <2>8, DecideTyped
    <3>3. KeptInv => crossed' \/ KeptInv'
      BY <2>1, <2>8, DecideKept
    <3>4. QED BY <2>1, <3>1, <3>2, <3>3 DEF ScheduleInv
  <2>9. ASSUME NEW w \in Workers, Perform(w) PROVE ScheduleInv'
    <3>1. crossed' = crossed
      BY <2>9 DEF Perform
    <3>2. ScheduleTypeInv'
      BY <2>1, <2>9, PerformTyped
    <3>3. KeptInv => KeptInv'
      BY <2>1, <2>9, PerformKept
    <3>4. QED BY <2>1, <3>1, <3>2, <3>3 DEF ScheduleInv
  <2>10. ASSUME NEW w \in Workers, Begin(w) PROVE ScheduleInv'
    <3>1. crossed' = crossed
      BY <2>10 DEF Begin
    <3>2. ScheduleTypeInv'
      BY <2>1, <2>10, BeginTyped
    <3>3. KeptInv => KeptInv'
      BY <2>1, <2>10, BeginKept
    <3>4. QED BY <2>1, <3>1, <3>2, <3>3 DEF ScheduleInv
  <2>11. CASE UNCHANGED scheduleVars
    <3>1. UNCHANGED <<now, objects, obs_list, snapshot, inbox, hands, timer, configs, cut,
                      crossed>>
      BY <2>11 DEF scheduleVars
    <3>2. ScheduleTypeInv' <=> ScheduleTypeInv
      BY <3>1 DEF ScheduleTypeInv, ScheduleTypes, HandsKnown, Known, EventsKnown
    <3>3. (OneAtATime' <=> OneAtATime) /\ (Distinct' <=> Distinct) /\ (MergeInv' <=> MergeInv)
      BY <3>1 DEF OneAtATime, Distinct, MergeInv, Merging, Same, Object, ChangeHolds, AppendHolds
    <3>4. \A n : Starting(n)' <=> Starting(n)
      BY <3>1 DEF Starting
    <3>5. StartedStays' <=> StartedStays
      BY <3>1, <3>4 DEF StartedStays, Object
    <3>6. DecisionComes' <=> DecisionComes
      BY <3>1 DEF DecisionComes, Merging
    <3>7. \A n : \A time : Cared(n, time)' <=> Cared(n, time)
      BY <3>1, <3>4, <3>6 DEF Cared, Object
    <3>8. Awaited' = Awaited
      BY <3>1 DEF Awaited, Object
    <3>9. TimedInv' <=> TimedInv
      BY <3>1, <3>7, <3>8 DEF TimedInv, NonePerforms, Ahead
    <3>10. KeptInv' <=> KeptInv
      BY <3>3, <3>5, <3>9 DEF KeptInv
    <3>11. QED BY <2>1, <3>1, <3>2, <3>10 DEF ScheduleInv
  <2>12. QED BY <2>2, <2>3, <2>4, <2>5, <2>6, <2>7, <2>8, <2>9, <2>10, <2>11 DEF ScheduleNext
<1>3. QED BY <1>1, <1>2, PTL DEF ScheduleSpec

\* As long as no two designs are merged at once and none replaces an
\* observation that is being started, one that has begun stays in the archive,
\* none is there twice, and when all is handled whatever is to come is timed.
THEOREM ScheduleKept == ScheduleSpec => []ScheduleIsKept
<1>1. ScheduleInv => ScheduleIsKept
  <2>. SUFFICES ASSUME ScheduleInv, ~crossed PROVE ScheduleIsKept
    BY DEF ScheduleIsKept
  <2>1. KeptInv
    BY DEF ScheduleInv
  <2>2. \A n \in DOMAIN objects : Object(n).begun => n \in Range(obs_list)
    BY <2>1 DEF KeptInv, StartedStays
  <2>3. \A i, j \in DOMAIN obs_list : Same(obs_list[i], obs_list[j]) => i = j
    BY <2>1 DEF KeptInv, Distinct
  <2>4. ASSUME AllHandled, ~cut, NEW n \in Awaited PROVE Timed(n)
    <3>1. inbox = <<>> /\ \A w \in Workers : hands[w].at = "free"
      BY <2>4 DEF AllHandled, Free
    <3>2. Cared(n, timer)
      BY <2>1, <3>1 DEF KeptInv, TimedInv, NonePerforms
    <3>3. Range(inbox) = {}
      BY <3>1 DEF Range
    <3>4. ~DecisionComes /\ ~Starting(n)
      BY <3>1, <3>3 DEF DecisionComes, Merging, Starting
    <3>5. QED BY <2>4, <3>2, <3>4 DEF Cared, Timed
  <2>5. QED BY <2>2, <2>3, <2>4 DEF ScheduleIsKept
<1>2. QED BY <1>1, ScheduleInvariant, PTL
=============================================================================
