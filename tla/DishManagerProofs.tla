-------------------------- MODULE DishManagerProofs --------------------------
(***************************************************************************)
(* Proofs about DishManager and DishDriver for every grid, every bound,    *)
(* every set of commands and every error an exchange may raise.  What is   *)
(* promised of a dish (Good) is kept by each operation of the driver, for  *)
(* each way it can end; the manager's handlers only choose the operation.  *)
(* Three facts carry it:                                                   *)
(*   - a stop forgets the acknowledged position before it is sent, so that *)
(*     nothing is compared with afterwards, however the stop ends;         *)
(*   - a dish whose mount may have been told something else is left in     *)
(*     mode UNKNOWN, out of which every way but SHUTDOWN stops first;      *)
(*   - a dish that is not operational does not move (Able), which is why   *)
(*     the emergency stop may forget where it was expected.                *)
(* The log of its pointing (DailyLogs) shares no state with it.            *)
(***************************************************************************)
EXTENDS DishManager, DailyLogs, DataLemmas

Moving == {"SLEW", "TRACK", "SCAN"}

\* SuppressionIsSound and PointingIsHonest of any dish, and that none moves that may not.
Sound(d) == d.mode \notin {"UNKNOWN", "SHUTDOWN"} /\ d.cache # Nowhere => d.goal = d.cache
Honest(d) == d.pointing \in Moving => d.goal = d.desired
Able(d) == d.pointing \in Moving => d.capability \in Operational

Good(d) == d \in Dishes /\ Sound(d) /\ Honest(d) /\ Able(d)

\* What an operation makes of the mount's orders: none but by an operational dish.
Inhibits(d, e) == /\ e.capability = d.capability
                  /\ d.capability \notin Operational => e.goal \in {d.goal, Nowhere}

\* What nothing but an exchange changes, and what a failed one leaves alone.
SameButMount(d, e) ==
  /\ e.mode = d.mode /\ e.pointing = d.pointing /\ e.capability = d.capability
  /\ e.target = d.target /\ e.desired = d.desired /\ e.seen = d.seen /\ e.alarm = d.alarm
  /\ e.failures = d.failures /\ e.at = d.at
SameButFaults(d, e) == SameButMount(d, e) /\ e.goal = d.goal /\ e.cache = d.cache

-----------------------------------------------------------------------------
(* Outcomes *)

\* What a call ends with.
Outcomes == [dish : Dishes, err : {"none", "XBase"} \cup Errors]

LEMMA StowIsPosition == StowAltAz \in Positions
BY GridAssumption DEF StowAltAz, Positions

LEMMA ErrorsAreNamed == "none" \notin Errors
BY ErrorsAssumption

LEMMA ExchangeOutcomes ==
  ASSUME NEW d \in Dishes, NEW b \in Dishes, b.faults = d.faults,
         NEW o \in Exchange(d, b)
  PROVE  /\ o \in Outcomes
         /\ SameButFaults(d, o.dish) \/ SameButFaults(b, o.dish)
         /\ IF o.err = "none" THEN o.dish = b ELSE o.err \in Errors
<1>1. CASE o \in Done(b)
  BY <1>1 DEF Done, SameButFaults, SameButMount, Outcomes
<1>2. ASSUME NEW e \in {d, b}, NEW x \in Errors, d.faults > 0,
             o = [dish |-> [e EXCEPT !.faults = @ - 1], err |-> x]
      PROVE  /\ o \in Outcomes /\ o.err \in Errors
             /\ SameButFaults(d, o.dish) \/ SameButFaults(b, o.dish)
  <2>1. e \in Dishes /\ e.faults - 1 \in Nat
    BY <1>2 DEF Dishes
  <2>2. o.dish = [e EXCEPT !.faults = e.faults - 1] /\ o.err = x
    BY <1>2
  <2>3. o.dish \in Dishes /\ SameButFaults(e, o.dish)
    BY <2>1, <2>2 DEF Dishes, SameButFaults, SameButMount
  <2>4. o \in Outcomes
    BY <1>2, <2>2, <2>3 DEF Outcomes
  <2>5. QED BY <2>2, <2>3, <2>4
<1>3. QED BY <1>1, <1>2, ErrorsAreNamed DEF Exchange, Done, Raise

LEMMA SetAltAzOutcomes ==
  ASSUME NEW d \in Dishes, NEW p \in Positions, NEW o \in SetAltAz(d, p)
  PROVE  /\ o \in Outcomes /\ SameButMount(d, o.dish)
         /\ o.dish.goal \in {d.goal, p}
         /\ IF o.err = "none"
            THEN o.dish.cache = p /\ o.dish.goal = (IF d.cache = p THEN d.goal ELSE p)
            ELSE o.err \in Errors
<1> DEFINE b == [d EXCEPT !.goal = p]
<1>1. /\ b \in Dishes /\ b.faults = d.faults
      /\ SameButMount(d, b) /\ b.goal = p
  BY DEF Dishes, SameButMount
<1>2. CASE d.cache = p
  <2>1. o = [dish |-> d, err |-> "none"]
    BY <1>2 DEF SetAltAz, Then, Done
  <2>2. o.dish = d /\ o.err = "none"
    BY <2>1
  <2>3. QED BY <2>1, <2>2, <1>2 DEF SameButMount, Outcomes
<1>3. CASE d.cache # p
  <2>1. PICK r \in Exchange(d, b) :
          IF r.err = "none" THEN o \in Done([r.dish EXCEPT !.cache = p]) ELSE o = r
    BY <1>3 DEF SetAltAz, Then
  <2>2. /\ r \in Outcomes
        /\ SameButFaults(d, r.dish) \/ SameButFaults(b, r.dish)
        /\ IF r.err = "none" THEN r.dish = b ELSE r.err \in Errors
    <3> HIDE DEF b
    <3>1. QED BY <1>1, ExchangeOutcomes
  <2>3. CASE r.err = "none"
    <3>1. o = [dish |-> [b EXCEPT !.cache = p], err |-> "none"]
      BY <2>1, <2>2, <2>3 DEF Done
    <3>2. o.err = "none" /\ o.dish = [b EXCEPT !.cache = p]
      BY <3>1
    <3>3. o.dish \in Dishes /\ SameButMount(b, o.dish) /\ o.dish.cache = p /\ o.dish.goal = b.goal
      <4> HIDE DEF b
      <4>1. QED BY <3>2, <1>1 DEF Dishes, SameButMount
    <3>4. o \in Outcomes
      BY <3>1, <3>2, <3>3 DEF Outcomes
    <3>5. QED BY <3>2, <3>3, <3>4, <1>1, <1>3 DEF SameButMount
  <2>4. CASE r.err # "none"
    BY <2>1, <2>2, <2>4, <1>1 DEF SameButMount, SameButFaults
  <2>5. QED BY <2>3, <2>4
<1>4. QED BY <1>2, <1>3

LEMMA CountFailureKeeps ==
  ASSUME NEW d \in Dishes
  PROVE  /\ CountFailure(d) \in Dishes
         /\ \E n \in 0..FailedAt : CountFailure(d) = [d EXCEPT !.failures = n]
<1> DEFINE n == IF d.failures < FailedAt THEN d.failures + 1 ELSE d.failures
<1>1. n \in 0..FailedAt
  BY FailedAssumption DEF Dishes
<1>2. CountFailure(d) = [d EXCEPT !.failures = n]
  BY DEF CountFailure
<1>3. QED BY <1>1, <1>2 DEF Dishes

LEMMA LoseTrackKeeps ==
  ASSUME NEW d \in Dishes
  PROVE  /\ LoseTrack(d) \in Dishes
         /\ LoseTrack(d).mode = "UNKNOWN" /\ LoseTrack(d).pointing = "UNKNOWN"
         /\ LoseTrack(d).capability = d.capability
         /\ LoseTrack(d).goal = d.goal /\ LoseTrack(d).cache = d.cache
<1>1. PICK n \in 0..FailedAt : CountFailure(d) = [d EXCEPT !.failures = n]
  BY CountFailureKeeps
<1>2. CountFailure(d) \in Dishes
  BY CountFailureKeeps
<1>3. QED BY <1>1, <1>2, ZenonT(60) DEF LoseTrack, Dishes, Modes, PointingStates

\* An except clause changes the dish and keeps the error.
LEMMA ExceptKeepsError ==
  ASSUME NEW o \in Outcomes, NEW d \in Dishes
  PROVE  /\ [o EXCEPT !.dish = d] \in Outcomes
         /\ [o EXCEPT !.dish = d].dish = d /\ [o EXCEPT !.dish = d].err = o.err
BY DEF Outcomes

LEMMA AssignModeOutcomes ==
  ASSUME NEW d \in Dishes, NEW m \in Modes, NEW o \in AssignMode(d, m)
  PROVE  /\ o \in Outcomes
         /\ IF o.err = "none" THEN o.dish = [d EXCEPT !.mode = m] /\ m \in ModeTransitions[d.mode]
            ELSE o.dish = d /\ o.err = "XBase"
<1>1. [d EXCEPT !.mode = m] \in Dishes
  BY DEF Dishes
<1>2. o = [dish |-> [d EXCEPT !.mode = m], err |-> "none"] \/ o = [dish |-> d, err |-> "XBase"]
  BY DEF AssignMode, Done, Raise
<1>3. QED BY <1>1, <1>2 DEF AssignMode, Done, Raise, Outcomes

LEMMA AssignCapabilityOutcomes ==
  ASSUME NEW d \in Dishes, NEW c \in Capabilities, NEW o \in AssignCapability(d, c)
  PROVE  /\ o \in Outcomes
         /\ IF o.err = "none" THEN o.dish = [d EXCEPT !.capability = c]
            ELSE o.dish = d /\ o.err = "XBase"
<1>1. [d EXCEPT !.capability = c] \in Dishes
  BY DEF Dishes
<1>2. o = [dish |-> [d EXCEPT !.capability = c], err |-> "none"] \/ o = [dish |-> d, err |-> "XBase"]
  BY DEF AssignCapability, Done, Raise
<1>3. QED BY <1>1, <1>2 DEF AssignCapability, Done, Raise, Outcomes

LEMMA StopMountOutcomes ==
  ASSUME NEW d \in Dishes, NEW o \in StopMount(d)
  PROVE  /\ o \in Outcomes /\ SameButMount(d, o.dish)
         /\ o.dish.goal \in {d.goal, Nowhere} /\ o.dish.cache = Nowhere
<1> DEFINE a == [d EXCEPT !.cache = Nowhere]
           b == [d EXCEPT !.cache = Nowhere, !.goal = Nowhere]
<1>1. /\ a \in Dishes /\ b \in Dishes /\ b.faults = a.faults
      /\ SameButMount(d, a) /\ a.goal = d.goal /\ a.cache = Nowhere
      /\ SameButMount(d, b) /\ b.goal = Nowhere /\ b.cache = Nowhere
  BY DEF Dishes, SameButMount
<1>2. o \in Exchange(a, b)
  BY DEF StopMount
<1>3. o \in Outcomes /\ (SameButFaults(a, o.dish) \/ SameButFaults(b, o.dish))
  <2> HIDE DEF a, b
  <2>1. QED BY <1>1, <1>2, ExchangeOutcomes
<1>4. QED BY <1>1, <1>3 DEF SameButFaults, SameButMount

\* However a stop ends, nothing is compared with the old position any more.
LEMMA StopOutcomes ==
  ASSUME NEW d \in Dishes, NEW o \in Stop(d)
  PROVE  /\ o \in Outcomes /\ o.dish.capability = d.capability
         /\ o.dish.goal \in {d.goal, Nowhere} /\ o.dish.cache = Nowhere
         /\ IF o.err = "none"
            THEN /\ o.dish.pointing = "READY" /\ o.dish.mode = d.mode
                 /\ o.dish.seen = d.seen /\ o.dish.alarm = d.alarm /\ o.dish.target = d.target
            ELSE o.dish.pointing = "UNKNOWN" /\ o.dish.mode = "UNKNOWN"
<1>1. PICK r \in StopMount(d) :
        LET s == IF r.err = "none" THEN r ELSE [r EXCEPT !.dish = LoseTrack(r.dish)]
        IN  IF s.err = "none" THEN o \in Done([s.dish EXCEPT !.pointing = "READY"]) ELSE o = s
  BY DEF Stop, Then, Except
<1>2. /\ r \in Outcomes /\ r.dish \in Dishes /\ SameButMount(d, r.dish)
      /\ r.dish.goal \in {d.goal, Nowhere} /\ r.dish.cache = Nowhere
  BY StopMountOutcomes DEF Outcomes
<1>3. CASE r.err = "none"
  <2>1. o = [dish |-> [r.dish EXCEPT !.pointing = "READY"], err |-> "none"]
    BY <1>1, <1>3 DEF Done
  <2>2. [r.dish EXCEPT !.pointing = "READY"] \in Dishes
    BY <1>2 DEF Dishes, PointingStates
  <2>3. o \in Outcomes /\ o.err = "none" /\ o.dish = [r.dish EXCEPT !.pointing = "READY"]
    BY <2>1, <2>2 DEF Outcomes
  <2>4. QED BY <1>2, <2>3 DEF SameButMount, Dishes
<1>4. CASE r.err # "none"
  <2>1. LoseTrack(r.dish) \in Dishes
    BY <1>2, LoseTrackKeeps
  <2>2. o \in Outcomes /\ o.dish = LoseTrack(r.dish) /\ o.err = r.err
    <3>1. /\ [r EXCEPT !.dish = LoseTrack(r.dish)] \in Outcomes
          /\ [r EXCEPT !.dish = LoseTrack(r.dish)].dish = LoseTrack(r.dish)
          /\ [r EXCEPT !.dish = LoseTrack(r.dish)].err = r.err
      BY <1>2, <2>1, ExceptKeepsError
    <3>2. QED BY <1>1, <1>4, <3>1
  <2>3. /\ o.dish.mode = "UNKNOWN" /\ o.dish.pointing = "UNKNOWN"
        /\ o.dish.capability = r.dish.capability
        /\ o.dish.goal = r.dish.goal /\ o.dish.cache = r.dish.cache
    BY <1>2, <2>2, LoseTrackKeeps
  <2>4. QED BY <1>2, <1>4, <2>2, <2>3 DEF SameButMount
<1>5. QED BY <1>3, <1>4

LEMMA PointMountOutcomes ==
  ASSUME NEW d \in Dishes, NEW p \in Positions, NEW o \in PointMount(d, p)
  PROVE  /\ o \in Outcomes /\ SameButMount(d, o.dish)
         /\ o.dish.goal \in {d.goal, p}
         /\ o.err = "none" =>
              o.dish.cache = p /\ o.dish.goal = (IF d.cache = p THEN d.goal ELSE p)
<1>1. PICK r \in Exchange(d, d) : IF r.err = "none" THEN o \in SetAltAz(r.dish, p) ELSE o = r
  BY DEF PointMount, Then
<1>2. /\ r \in Outcomes /\ SameButFaults(d, r.dish)
      /\ IF r.err = "none" THEN r.dish = d ELSE r.err \in Errors
  BY ExchangeOutcomes
<1>3. CASE r.err = "none"
  <2>1. o \in SetAltAz(d, p)
    BY <1>1, <1>2, <1>3
  <2>2. QED BY <2>1, SetAltAzOutcomes, ErrorsAreNamed
<1>4. CASE r.err # "none"
  BY <1>1, <1>2, <1>4 DEF SameButFaults
<1>5. QED BY <1>3, <1>4

-----------------------------------------------------------------------------
(* Movement *)

Safe(d, o) == o \in Outcomes /\ Good(o.dish) /\ Inhibits(d, o.dish)

LEMMA SomewhereIsNotNowhere == Nowhere \notin Positions
BY DEF Nowhere, Positions

LEMMA UnchangedIsSafe ==
  ASSUME NEW d, Good(d), NEW x \in {"none", "XBase"}
  PROVE  Safe(d, [dish |-> d, err |-> x])
BY DEF Safe, Outcomes, Inhibits, Good

\* A dish that lost track is good, whatever has become of its mount.
LEMMA LostIsGood ==
  ASSUME NEW d \in Dishes
  PROVE  Good(LoseTrack(d))
BY LoseTrackKeeps DEF Good, Sound, Honest, Able, Moving

LEMMA StopIsSafe ==
  ASSUME NEW d \in Dishes, NEW o \in Stop(d)
  PROVE  Safe(d, o)
<1>1. o.dish \in Dishes /\ o \in Outcomes
  BY StopOutcomes DEF Outcomes
<1>2. o.dish.pointing \notin Moving /\ o.dish.cache = Nowhere
  BY StopOutcomes DEF Moving
<1>3. Inhibits(d, o.dish)
  BY StopOutcomes DEF Inhibits
<1>4. QED BY <1>1, <1>2, <1>3 DEF Safe, Good, Sound, Honest, Able

\* What the mount was told to, or already does, is where the dish is expected.
LEMMA PointedIsGood ==
  ASSUME NEW d, Good(d), d.mode = "OPERATE", d.capability \in Operational,
         NEW p \in Positions,
         NEW e \in Dishes, e.desired = p, e.capability = d.capability, e.cache = p,
         e.goal = IF d.cache = p THEN d.goal ELSE p
  PROVE  Good(e)
BY SomewhereIsNotNowhere DEF Good, Sound, Honest, Able

LEMMA LostIsSafe ==
  ASSUME NEW d, NEW r \in Outcomes, r.dish.capability = d.capability,
         d.capability \notin Operational => r.dish.goal \in {d.goal, Nowhere},
         NEW o, o = [r EXCEPT !.dish = LoseTrack(r.dish)]
  PROVE  Safe(d, o) /\ o.err = r.err
<1>1. /\ LoseTrack(r.dish) \in Dishes
      /\ LoseTrack(r.dish).capability = r.dish.capability
      /\ LoseTrack(r.dish).goal = r.dish.goal
      /\ Good(LoseTrack(r.dish))
  BY LoseTrackKeeps, LostIsGood DEF Outcomes
<1>2. o \in Outcomes /\ o.dish = LoseTrack(r.dish) /\ o.err = r.err
  BY <1>1, ExceptKeepsError
<1>3. QED BY <1>1, <1>2 DEF Safe, Inhibits

LEMMA OrderedIsSafe ==
  ASSUME NEW d, d.capability \in Operational,
         NEW f, Good(f), f.capability = d.capability,
         NEW o, o = [dish |-> f, err |-> "none"]
  PROVE  Safe(d, o) /\ o.err = "none" /\ o.dish = f
BY DEF Safe, Inhibits, Outcomes, Good

\* What follows a safe operation is safe.
LEMMA SafeAfter ==
  ASSUME NEW d, NEW e, Inhibits(d, e), NEW o, Safe(e, o)
  PROVE  Safe(d, o)
BY DEF Safe, Inhibits

LEMMA SlewIsSafe ==
  ASSUME NEW d, Good(d), NEW p \in Positions, NEW o \in Slew(d, p)
  PROVE  Safe(d, o)
<1> DEFINE b == [d EXCEPT !.desired = p]
<1>1. d \in Dishes /\ b \in Dishes
  BY DEF Good, Dishes
<1>2. CASE d.capability \notin Operational \/ d.mode # "OPERATE" \/ d.pointing # "READY"
  <2>1. o = [dish |-> d, err |-> "XBase"]
    BY <1>2 DEF Slew, Raise
  <2>2. QED BY <2>1, UnchangedIsSafe
<1>3. CASE ~(d.capability \notin Operational \/ d.mode # "OPERATE" \/ d.pointing # "READY")
  <2>0. d.capability \in Operational /\ d.mode = "OPERATE" /\ d.pointing = "READY"
    BY <1>3
  <2>1. Good(b) /\ b.capability = d.capability /\ b.mode = "OPERATE"
    BY <1>1, <2>0 DEF Good, Sound, Honest, Able, Moving, Dishes
  <2>2. CASE d.seen = p
    <3>1. o = [dish |-> b, err |-> "none"]
      BY <1>3, <2>2 DEF Slew, Done
    <3>2. QED BY <2>0, <2>1, <3>1, OrderedIsSafe
  <2>3. CASE d.seen # p
    <3>1. PICK r \in PointMount(b, p) :
            LET x == IF r.err = "none" THEN r ELSE [r EXCEPT !.dish = LoseTrack(r.dish)]
            IN  IF x.err = "none" THEN o \in Done([x.dish EXCEPT !.pointing = "SLEW"]) ELSE o = x
      BY <1>3, <2>3 DEF Slew, Then, Except
    <3>2. /\ r \in Outcomes /\ r.dish \in Dishes /\ SameButMount(b, r.dish)
          /\ r.dish.goal \in {b.goal, p}
          /\ r.err = "none" =>
               r.dish.cache = p /\ r.dish.goal = (IF b.cache = p THEN b.goal ELSE p)
      <4> HIDE DEF b
      <4>1. QED BY <1>1, PointMountOutcomes DEF Outcomes
    <3>3. CASE r.err = "none"
      <4>1. o = [dish |-> [r.dish EXCEPT !.pointing = "SLEW"], err |-> "none"]
        BY <3>1, <3>3 DEF Done
      <4>2. o.dish = [r.dish EXCEPT !.pointing = "SLEW"]
        BY <4>1
      <4>3. /\ o.dish \in Dishes /\ o.dish.goal = r.dish.goal /\ o.dish.cache = r.dish.cache
            /\ o.dish.desired = r.dish.desired /\ o.dish.capability = r.dish.capability
        BY <4>2, <3>2 DEF Dishes, PointingStates
      <4>4. r.dish.desired = b.desired /\ b.desired = p /\ r.dish.capability = b.capability
        BY <3>2, <1>1 DEF SameButMount, Dishes
      <4>5. Good(o.dish) /\ o.dish.capability = d.capability
        <5> HIDE DEF b
        <5>1. /\ o.dish.desired = p /\ o.dish.capability = b.capability
              /\ o.dish.cache = p /\ o.dish.goal = IF b.cache = p THEN b.goal ELSE p
          BY <3>2, <3>3, <4>3, <4>4
        <5>2. Good(o.dish)
          BY <2>0, <2>1, <4>3, <5>1, PointedIsGood
        <5>3. QED BY <5>1, <5>2, <2>1
      <4>6. QED BY <2>0, <4>1, <4>2, <4>5, OrderedIsSafe
    <3>4. CASE r.err # "none"
      <4>1. o = [r EXCEPT !.dish = LoseTrack(r.dish)]
        <5>1. [r EXCEPT !.dish = LoseTrack(r.dish)].err = r.err
          BY <3>2 DEF Outcomes
        <5>2. QED BY <3>1, <3>4, <5>1
      <4>2. r.dish.capability = d.capability
        BY <3>2, <2>1 DEF SameButMount
      <4>3. QED BY <2>0, <3>2, <4>1, <4>2, LostIsSafe
    <3>5. QED BY <3>3, <3>4
  <2>4. QED BY <2>2, <2>3
<1>4. QED BY <1>2, <1>3

LEMMA FollowIsSafe ==
  ASSUME NEW d, Good(d), NEW p \in Positions, NEW o \in Follow(d, p)
  PROVE  Safe(d, o)
<1> DEFINE moving == IF d.target = "track" THEN "TRACK" ELSE "SCAN"
<1>1. d \in Dishes /\ moving \in PointingStates
  BY DEF Good, PointingStates
<1>2. CASE d.capability \notin Operational \/ d.mode # "OPERATE" \/ d.pointing \notin {"READY", moving}
  <2>1. o = [dish |-> d, err |-> "XBase"]
    BY <1>2 DEF Follow, Raise
  <2>2. QED BY <2>1, UnchangedIsSafe
<1>3. CASE ~(d.capability \notin Operational \/ d.mode # "OPERATE" \/ d.pointing \notin {"READY", moving})
  <2>1. d.capability \in Operational /\ d.mode = "OPERATE"
    BY <1>3
  <2>2. PICK r \in PointMount(d, p) :
          LET x == IF r.err = "none" THEN r ELSE [r EXCEPT !.dish = LoseTrack(r.dish)]
          IN  IF x.err = "none"
              THEN o \in Done([x.dish EXCEPT !.desired = p, !.pointing = moving]) ELSE o = x
    BY <1>3, ZenonT(60) DEF Follow, Then, Except
  <2>3. /\ r \in Outcomes /\ r.dish \in Dishes /\ SameButMount(d, r.dish)
        /\ r.err = "none" =>
             r.dish.cache = p /\ r.dish.goal = (IF d.cache = p THEN d.goal ELSE p)
    BY <1>1, PointMountOutcomes DEF Outcomes
  <2>4. CASE r.err = "none"
    <3> DEFINE f == [r.dish EXCEPT !.desired = p, !.pointing = moving]
    <3>1. o = [dish |-> f, err |-> "none"]
      BY <2>2, <2>4 DEF Done
    <3>2. /\ f \in Dishes /\ f.desired = p /\ f.capability = r.dish.capability
          /\ f.cache = r.dish.cache /\ f.goal = r.dish.goal
      <4> HIDE DEF moving
      <4>1. QED BY <1>1, <2>3 DEF Dishes
    <3>3. /\ f.capability = d.capability /\ f.cache = p
           /\ f.goal = IF d.cache = p THEN d.goal ELSE p
      <4> HIDE DEF f
      <4>1. QED BY <2>3, <2>4, <3>2 DEF SameButMount
    <3>4. Good(f)
      <4> HIDE DEF f
      <4>1. QED BY <2>1, <3>2, <3>3, PointedIsGood
    <3>5. QED BY <2>1, <3>1, <3>3, <3>4, OrderedIsSafe
  <2>5. CASE r.err # "none"
    <3>1. [r EXCEPT !.dish = LoseTrack(r.dish)].err = r.err
      BY <2>3 DEF Outcomes
    <3>2. o = [r EXCEPT !.dish = LoseTrack(r.dish)]
      BY <2>2, <2>5, <3>1
    <3>3. QED BY <2>1, <2>3, <3>2, LostIsSafe DEF SameButMount
  <2>6. QED BY <2>4, <2>5
<1>4. QED BY <1>2, <1>3

\* A poll that fails, or is not expected, changes no order.
LEMMA PollIsSafe ==
  ASSUME NEW d, Good(d), NEW o \in GetCurrentAltAz(d)
  PROVE  Safe(d, o)
<1>1. d \in Dishes
  BY DEF Good
<1>2. PICK r \in Exchange(d, d) :
        LET x == IF r.err = "none" THEN r ELSE [r EXCEPT !.dish = CountFailure(r.dish)]
            ok == [x.dish EXCEPT !.failures = 0, !.seen = x.dish.at]
        IN  IF x.err = "none"
            THEN \/ o \in Done(ok) \/ o \in Raise(ok, "XBase")
                 \/ \E s \in {"READY", "UNKNOWN"} : o \in Done([ok EXCEPT !.pointing = s])
            ELSE o = x
  BY ZenonT(60) DEF GetCurrentAltAz, Then, Except
<1>3. /\ r \in Outcomes /\ r.dish \in Dishes /\ SameButFaults(d, r.dish)
      /\ r.err = "none" => r.dish = d
  BY <1>1, ExchangeOutcomes, ErrorsAreNamed DEF Outcomes
<1>4. CASE r.err = "none"
  <2> DEFINE ok == [d EXCEPT !.failures = 0, !.seen = d.at]
  <2>1. Good(ok) /\ ok \in Dishes /\ ok.goal = d.goal /\ ok.capability = d.capability
    <3>1. d.at \in Positions \cup {Nowhere} /\ 0 \in 0..FailedAt
      BY <1>1, FailedAssumption DEF Dishes
    <3>2. ok \in Dishes
      BY <1>1, <3>1 DEF Dishes
    <3>3. /\ ok.mode = d.mode /\ ok.pointing = d.pointing /\ ok.capability = d.capability
          /\ ok.cache = d.cache /\ ok.goal = d.goal /\ ok.desired = d.desired
      BY <1>1 DEF Dishes
    <3>4. QED BY <3>2, <3>3 DEF Good, Sound, Honest, Able
  <2>2. \/ o = [dish |-> ok, err |-> "none"] \/ o = [dish |-> ok, err |-> "XBase"]
        \/ \E s \in {"READY", "UNKNOWN"} : o = [dish |-> [ok EXCEPT !.pointing = s], err |-> "none"]
    BY <1>2, <1>3, <1>4 DEF Done, Raise
  <2> HIDE DEF ok
  <2>3. ASSUME NEW s \in {"READY", "UNKNOWN"}
        PROVE  Safe(d, [dish |-> [ok EXCEPT !.pointing = s], err |-> "none"])
    <3> DEFINE e == [ok EXCEPT !.pointing = s]
    <3>1. /\ e \in Dishes /\ e.mode = ok.mode /\ e.pointing = s /\ e.capability = ok.capability
          /\ e.cache = ok.cache /\ e.goal = ok.goal /\ e.desired = ok.desired
      BY <2>1 DEF Dishes, PointingStates
    <3>2. Safe(d, [dish |-> e, err |-> "none"])
      <4> HIDE DEF e
      <4>1. Good(e)
        BY <2>1, <3>1 DEF Good, Sound, Honest, Able, Moving
      <4>2. QED BY <2>1, <3>1, <4>1 DEF Safe, Inhibits, Outcomes
    <3>3. QED BY <3>2
  <2>4. ASSUME NEW x \in {"none", "XBase"}
        PROVE  Safe(d, [dish |-> ok, err |-> x])
    BY <2>1 DEF Safe, Inhibits, Outcomes
  <2>5. QED BY <2>2, <2>3, <2>4
<1>5. CASE r.err # "none"
  <2>1. PICK n \in 0..FailedAt : CountFailure(r.dish) = [r.dish EXCEPT !.failures = n]
    BY <1>3, CountFailureKeeps
  <2>2. /\ CountFailure(r.dish) \in Dishes
        /\ SameButFaults([d EXCEPT !.failures = n], CountFailure(r.dish))
    BY <1>1, <1>3, <2>1, CountFailureKeeps DEF SameButFaults, SameButMount, Dishes
  <2>3. /\ [r EXCEPT !.dish = CountFailure(r.dish)] \in Outcomes
        /\ [r EXCEPT !.dish = CountFailure(r.dish)].dish = CountFailure(r.dish)
        /\ [r EXCEPT !.dish = CountFailure(r.dish)].err = r.err
    BY <1>3, <2>2, ExceptKeepsError
  <2>4. o \in Outcomes /\ o.dish = CountFailure(r.dish)
    BY <1>2, <1>5, <2>3
  <2>5. /\ o.dish.mode = d.mode /\ o.dish.cache = d.cache /\ o.dish.goal = d.goal
        /\ o.dish.pointing = d.pointing /\ o.dish.desired = d.desired
        /\ o.dish.capability = d.capability
    BY <1>1, <2>2, <2>4 DEF SameButFaults, SameButMount, Dishes
  <2>6. QED BY <2>2, <2>4, <2>5 DEF Safe, Inhibits, Good, Sound, Honest, Able
<1>6. QED BY <1>4, <1>5

-----------------------------------------------------------------------------
(* Modes *)

LEMMA ClearTargetIsGood ==
  ASSUME NEW d, Good(d)
  PROVE  /\ Good(ClearTarget(d)) /\ ClearTarget(d).mode = d.mode
         /\ ClearTarget(d).capability = d.capability /\ ClearTarget(d).goal = d.goal
         /\ ClearTarget(d).pointing = d.pointing
<1>1. d \in Dishes
  BY DEF Good
<1>2. /\ ClearTarget(d) \in Dishes
      /\ ClearTarget(d).mode = d.mode /\ ClearTarget(d).pointing = d.pointing
      /\ ClearTarget(d).capability = d.capability /\ ClearTarget(d).desired = d.desired
      /\ ClearTarget(d).cache = d.cache /\ ClearTarget(d).goal = d.goal
  BY <1>1 DEF ClearTarget, Dishes
<1>3. QED BY <1>2 DEF Good, Sound, Honest, Able

\* A change of mode is good if the position compared with is the mount's, or none.
LEMMA AssignModeIsGood ==
  ASSUME NEW d \in Dishes, Honest(d), Able(d), NEW m \in Modes,
         m \in {"UNKNOWN", "SHUTDOWN"} \/ d.cache = Nowhere \/ d.goal = d.cache,
         Sound(d), NEW o \in AssignMode(d, m)
  PROVE  /\ Safe(d, o) /\ o.dish.goal = d.goal /\ o.dish.cache = d.cache
         /\ o.dish.pointing = d.pointing /\ o.dish.desired = d.desired
         /\ o.err = "none" => o.dish.mode = m
<1>1. o \in Outcomes /\ o.dish \in {d, [d EXCEPT !.mode = m]}
      /\ (o.err = "none" => o.dish = [d EXCEPT !.mode = m])
  BY AssignModeOutcomes
<1>2. LET e == [d EXCEPT !.mode = m]
      IN  /\ e \in Dishes /\ e.mode = m /\ e.pointing = d.pointing
          /\ e.capability = d.capability /\ e.desired = d.desired
          /\ e.cache = d.cache /\ e.goal = d.goal
  BY DEF Dishes
<1>3. QED BY <1>1, <1>2 DEF Safe, Good, Sound, Honest, Able, Inhibits

\* After a stop any mode is good.
LEMMA StoppedAssignsMode ==
  ASSUME NEW d \in Dishes, d.cache = Nowhere, d.pointing \notin Moving,
         NEW m \in Modes, NEW o \in AssignMode(d, m)
  PROVE  Safe(d, o) /\ o.dish.goal = d.goal
BY AssignModeIsGood DEF Sound, Honest, Able

\* A dish that stows has stopped first.
LEMMA SetStowIsSafe ==
  ASSUME NEW d, Good(d), NEW o \in SetStow(d)
  PROVE  Safe(d, o) /\ (o.err = "none" => o.dish.mode = "STOW")
<1> DEFINE Parked(e) == IF e.alarm /\ e.seen # Nowhere THEN <<StowAltAz[1], e.seen[2]>> ELSE StowAltAz
           Told(e) == [e EXCEPT !.desired = Parked(e)]
<1>1. CASE d.capability \notin Operational
  <2>1. o = [dish |-> d, err |-> "XBase"]
    BY <1>1 DEF SetStow, Raise
  <2>2. QED BY <2>1, UnchangedIsSafe
<1>2. CASE d.capability \in Operational
  <2>1. PICK r \in Stop(ClearTarget(d)) :
          IF r.err # "none" THEN o = r
          ELSE IF r.dish.seen = Parked(r.dish)
          THEN o \in AssignMode(Told(r.dish), "STOW")
          ELSE o \in Then(Except(SetAltAz(Told(r.dish), Parked(r.dish)), LoseTrack), LAMBDA g :
                     Then(AssignMode(g, "STOW"), LAMBDA h : Done([h EXCEPT !.pointing = "SLEW"])))
    BY <1>2 DEF SetStow, Then
  <2> DEFINE e == r.dish  p == Parked(e)  f == Told(e)
  <2>2. /\ r \in Outcomes /\ e \in Dishes /\ e.capability = d.capability
        /\ Safe(ClearTarget(d), r)
        /\ r.err = "none" => e.pointing = "READY" /\ e.cache = Nowhere
    <3>1. ClearTarget(d) \in Dishes /\ ClearTarget(d).capability = d.capability
      BY ClearTargetIsGood DEF Good
    <3>2. QED BY <3>1, StopOutcomes, StopIsSafe DEF Outcomes
  <2>3. CASE r.err # "none"
    BY <1>2, <2>1, <2>2, <2>3 DEF Safe, Inhibits
  <2>4. CASE r.err = "none"
    <3>1. p \in Positions
      BY <2>2, StowIsPosition DEF Dishes, Positions, StowAltAz, Nowhere
    <3>2. /\ f \in Dishes /\ f.desired = p /\ f.capability = d.capability
          /\ f.cache = Nowhere /\ f.pointing = "READY"
      <4> HIDE DEF p
      <4>1. f = [e EXCEPT !.desired = p]
        BY DEF p
      <4>2. QED BY <2>2, <2>4, <3>1, <4>1 DEF Dishes
    <3>3. CASE e.seen = p
      <4>1. o \in AssignMode(f, "STOW")
        BY <2>1, <2>4, <3>3
      <4> HIDE DEF f
      <4>2. "STOW" \in Modes /\ "READY" \notin Moving
        BY DEF Modes, Moving
      <4>3. Safe(f, o)
        BY <3>2, <4>1, <4>2, StoppedAssignsMode
      <4>4. o.err = "none" => o.dish.mode = "STOW"
        <5>1. o.err = "none" => o.dish = [f EXCEPT !.mode = "STOW"]
          BY <3>2, <4>1, <4>2, AssignModeOutcomes
        <5>2. [f EXCEPT !.mode = "STOW"].mode = "STOW"
          BY <3>2 DEF Dishes
        <5>3. QED BY <5>1, <5>2
      <4>5. QED BY <1>2, <3>2, <4>3, <4>4 DEF Safe, Inhibits
    <3>4. CASE e.seen # p
      <4>1. o \in Then(Except(SetAltAz(f, p), LoseTrack), LAMBDA g :
                     Then(AssignMode(g, "STOW"), LAMBDA h : Done([h EXCEPT !.pointing = "SLEW"])))
        BY <2>1, <2>4, <3>4
      <4> HIDE DEF f, p
      <4>2. PICK x \in Except(SetAltAz(f, p), LoseTrack) :
              IF x.err = "none"
              THEN o \in Then(AssignMode(x.dish, "STOW"), LAMBDA h : Done([h EXCEPT !.pointing = "SLEW"]))
              ELSE o = x
        BY <4>1 DEF Then
      <4>3. PICK s \in SetAltAz(f, p) :
               x = IF s.err = "none" THEN s ELSE [s EXCEPT !.dish = LoseTrack(s.dish)]
        BY <4>2 DEF Except
      <4>4. /\ s \in Outcomes /\ s.dish \in Dishes /\ SameButMount(f, s.dish)
            /\ s.err = "none" => s.dish.cache = p /\ s.dish.goal = p
        BY <3>1, <3>2, SetAltAzOutcomes, SomewhereIsNotNowhere DEF Outcomes
      <4>5. s.dish.desired = p /\ s.dish.pointing = "READY" /\ s.dish.capability = d.capability
        BY <3>2, <4>4 DEF SameButMount
      <4>6. CASE s.err # "none"
        <5>1. [s EXCEPT !.dish = LoseTrack(s.dish)].err = s.err
          BY <4>4 DEF Outcomes
        <5>2. o = [s EXCEPT !.dish = LoseTrack(s.dish)]
          BY <4>2, <4>3, <4>6, <5>1
        <5>3. QED BY <1>2, <4>4, <4>5, <4>6, <5>2, LostIsSafe
      <4>7. CASE s.err = "none"
        <5>1. PICK t \in AssignMode(s.dish, "STOW") :
                IF t.err = "none" THEN o \in Done([t.dish EXCEPT !.pointing = "SLEW"]) ELSE o = t
          BY <4>2, <4>3, <4>7 DEF Then
        <5>2. /\ Safe(s.dish, t) /\ t.dish.goal = p /\ t.dish.desired = p
              /\ t.dish.capability = d.capability
              /\ t.err = "none" => t.dish.mode = "STOW"
          <6>1. Sound(s.dish) /\ Honest(s.dish) /\ Able(s.dish) /\ "STOW" \in Modes
            BY <4>4, <4>5, <4>7 DEF Sound, Honest, Able, Moving, Modes
          <6>2. QED BY <4>4, <4>5, <4>7, <6>1, AssignModeIsGood DEF Safe, Inhibits
        <5>3. CASE t.err # "none"
          BY <1>2, <4>5, <5>1, <5>2, <5>3 DEF Safe, Inhibits
        <5>4. CASE t.err = "none"
          <6> DEFINE h == [t.dish EXCEPT !.pointing = "SLEW"]
          <6>1. t.dish \in Dishes /\ Sound(t.dish)
            BY <5>2 DEF Safe, Good
          <6>2. /\ h \in Dishes /\ h.mode = "STOW" /\ h.goal = p /\ h.desired = p
                /\ h.cache = t.dish.cache /\ h.capability = d.capability
            BY <5>2, <5>4, <6>1 DEF Dishes, PointingStates
          <6>3. o = [dish |-> h, err |-> "none"]
            BY <5>1, <5>4 DEF Done
          <6>4. Good(h)
            <7> HIDE DEF h
            <7>1. QED BY <1>2, <5>2, <5>4, <6>1, <6>2 DEF Good, Sound, Honest, Able
          <6>5. QED BY <1>2, <6>2, <6>3, <6>4, OrderedIsSafe
        <5>5. QED BY <5>3, <5>4
      <4>8. QED BY <4>6, <4>7
    <3>5. QED BY <3>3, <3>4
  <2>5. QED BY <2>3, <2>4
<1>3. QED BY <1>1, <1>2

\* However an attempt to stop ends: nothing is compared with, and no movement believed in.
Stopped(d, o) == /\ o \in Outcomes /\ Inhibits(d, o.dish)
                 /\ o.dish.cache = Nowhere /\ o.dish.pointing \notin Moving
                 /\ o.dish.goal \in {d.goal, Nowhere}

LEMMA StopStops ==
  ASSUME NEW d \in Dishes, NEW o \in Stop(d)
  PROVE  Stopped(d, o)
BY StopOutcomes DEF Stopped, Inhibits, Moving

LEMMA StoppedIsSafe ==
  ASSUME NEW d, NEW o, Stopped(d, o)
  PROVE  Safe(d, o)
BY DEF Stopped, Safe, Good, Sound, Honest, Able, Outcomes

LEMMA StoppedChangesMode ==
  ASSUME NEW d, NEW x, Stopped(d, x), NEW m \in Modes, NEW o \in AssignMode(x.dish, m)
  PROVE  Safe(d, o) /\ o.dish.goal \in {d.goal, Nowhere}
<1>1. x.dish \in Dishes
  BY DEF Stopped, Outcomes
<1>2. Safe(x.dish, o) /\ o.dish.goal = x.dish.goal
  BY <1>1, StoppedAssignsMode DEF Stopped
<1>3. QED BY <1>2, SafeAfter DEF Stopped

\* The except clauses of SetStartup and SetStandby.
LEMMA CountedStops ==
  ASSUME NEW d, NEW s, Stopped(d, s), NEW o,
         \/ o = [s EXCEPT !.dish = [CountFailure(s.dish) EXCEPT !.mode = "UNKNOWN"]]
         \/ o = [s EXCEPT !.dish = [CountFailure(s.dish) EXCEPT !.mode = "UNKNOWN",
                                                                !.pointing = "READY"]]
  PROVE  Stopped(d, o) /\ o.err = s.err
<1>1. s \in Outcomes /\ s.dish \in Dishes
  BY DEF Stopped, Outcomes
<1>2. PICK n \in 0..FailedAt : CountFailure(s.dish) = [s.dish EXCEPT !.failures = n]
  BY <1>1, CountFailureKeeps
<1> DEFINE c == CountFailure(s.dish)
           e == [c EXCEPT !.mode = "UNKNOWN"]
           f == [c EXCEPT !.mode = "UNKNOWN", !.pointing = "READY"]
<1>3. /\ c \in Dishes /\ c.pointing = s.dish.pointing /\ c.cache = s.dish.cache
      /\ c.goal = s.dish.goal /\ c.capability = s.dish.capability
  BY <1>1, <1>2, CountFailureKeeps DEF Dishes
<1>4. ASSUME NEW h \in {e, f}, o = [s EXCEPT !.dish = h]
      PROVE  Stopped(d, o) /\ o.err = s.err
  <2>1. /\ h \in Dishes /\ h.pointing \in {c.pointing, "READY"} /\ h.cache = c.cache
        /\ h.goal = c.goal /\ h.capability = c.capability
    <3> HIDE DEF c
    <3>1. QED BY <1>3, <1>4, ZenonT(60) DEF Dishes, Modes, PointingStates
  <2>2. o \in Outcomes /\ o.dish = h /\ o.err = s.err
    BY <1>1, <1>4, <2>1, ExceptKeepsError
  <2>3. QED BY <1>3, <2>1, <2>2 DEF Stopped, Inhibits, Moving
<1>5. QED BY <1>4

LEMMA SetStandbyIsSafe ==
  ASSUME NEW d \in Dishes, NEW o \in SetStandby(d)
  PROVE  Safe(d, o) /\ o.dish.goal \in {d.goal, Nowhere}
<1>1. PICK x \in Except(Stop(d), LAMBDA e : [CountFailure(e) EXCEPT !.mode = "UNKNOWN",
                                                                  !.pointing = "READY"]) :
        IF x.err = "none" THEN o \in AssignMode(x.dish, "STANDBY_FP") ELSE o = x
  BY DEF SetStandby, Then
<1>2. PICK s \in Stop(d) :
        x = IF s.err = "none" THEN s
            ELSE [s EXCEPT !.dish = [CountFailure(s.dish) EXCEPT !.mode = "UNKNOWN",
                                                                 !.pointing = "READY"]]
  BY <1>1 DEF Except
<1>3. Stopped(d, x)
  BY <1>2, StopStops, CountedStops
<1>4. "STANDBY_FP" \in Modes
  BY DEF Modes
<1>5. QED BY <1>1, <1>3, <1>4, StoppedIsSafe, StoppedChangesMode DEF Stopped

LEMMA SetStartupIsSafe ==
  ASSUME NEW d, Good(d), NEW o \in SetStartup(d)
  PROVE  Safe(d, o)
<1> DEFINE Lost(f) == [CountFailure(f) EXCEPT !.mode = "UNKNOWN"]
<1>1. PICK r \in AssignMode(d, "STARTUP") :
        IF r.err = "none"
        THEN o \in Then(Except(Stop([r.dish EXCEPT !.pointing = "UNKNOWN"]), Lost),
                        LAMBDA f : AssignMode(f, "STANDBY_FP"))
        ELSE o = r
  BY DEF SetStartup, Then
<1>2. d \in Dishes /\ "STARTUP" \in Modes /\ "STANDBY_FP" \in Modes /\ "UNKNOWN" \in PointingStates
  BY DEF Good, Modes, PointingStates
<1>3. /\ r \in Outcomes
      /\ IF r.err = "none" THEN r.dish = [d EXCEPT !.mode = "STARTUP"] ELSE r.dish = d
  BY <1>2, AssignModeOutcomes
<1>4. CASE r.err # "none"
  BY <1>1, <1>3, <1>4 DEF Safe, Inhibits
<1>5. CASE r.err = "none"
  <2> DEFINE g == [r.dish EXCEPT !.pointing = "UNKNOWN"]
  <2>1. g \in Dishes /\ Inhibits(d, g)
    BY <1>2, <1>3, <1>5 DEF Dishes, Inhibits
  <2>2. o \in Then(Except(Stop(g), Lost), LAMBDA f : AssignMode(f, "STANDBY_FP"))
    BY <1>1, <1>5
  <2> HIDE DEF g
  <2>3. PICK x \in Except(Stop(g), Lost) :
          IF x.err = "none" THEN o \in AssignMode(x.dish, "STANDBY_FP") ELSE o = x
    BY <2>2 DEF Then
  <2>4. PICK s \in Stop(g) :
          x = IF s.err = "none" THEN s
              ELSE [s EXCEPT !.dish = [CountFailure(s.dish) EXCEPT !.mode = "UNKNOWN"]]
    BY <2>3 DEF Except
  <2>5. Stopped(g, x)
    BY <2>1, <2>4, StopStops, CountedStops
  <2>6. Safe(g, o)
    BY <1>2, <2>3, <2>5, StoppedIsSafe, StoppedChangesMode
  <2>7. QED BY <2>1, <2>6, SafeAfter
<1>6. QED BY <1>4, <1>5

\* A dish that has changed its mode, and of whose movement nothing is known.
LEMMA UnknownIsSafe ==
  ASSUME NEW d, NEW x, Safe(d, x), NEW o, o = [dish |-> [x.dish EXCEPT !.pointing = "UNKNOWN"], err |-> "none"]
  PROVE  Safe(d, o)
<1> DEFINE e == [x.dish EXCEPT !.pointing = "UNKNOWN"]
<1>1. Good(x.dish) /\ x.dish \in Dishes
  BY DEF Safe, Good
<1>2. /\ e \in Dishes /\ e.pointing = "UNKNOWN" /\ e.mode = x.dish.mode
      /\ e.capability = x.dish.capability /\ e.goal = x.dish.goal /\ e.cache = x.dish.cache
  BY <1>1 DEF Dishes, PointingStates
<1>3. o \in Outcomes /\ o.dish = e
  BY <1>2 DEF Outcomes
<1>4. QED BY <1>1, <1>2, <1>3 DEF Safe, Good, Sound, Honest, Able, Moving, Inhibits

\* The last steps of SetShutdown, SetMaintenance and SetConfig.
LEMMA ModeThenUnknownIsSafe ==
  ASSUME NEW d, NEW x, Safe(d, x), NEW m \in Modes,
         m = "SHUTDOWN" \/ x.dish.mode \notin {"UNKNOWN", "SHUTDOWN"} \/ m \notin ModeTransitions[x.dish.mode],
         NEW o \in Then(AssignMode(x.dish, m), LAMBDA f : Done([f EXCEPT !.pointing = "UNKNOWN"]))
  PROVE  Safe(d, o)
<1>1. PICK t \in AssignMode(x.dish, m) :
        IF t.err = "none" THEN o \in Done([t.dish EXCEPT !.pointing = "UNKNOWN"]) ELSE o = t
  BY DEF Then
<1>2. Good(x.dish) /\ x.dish \in Dishes
  BY DEF Safe, Good
<1>3. Safe(x.dish, t)
  <2>1. CASE m \notin ModeTransitions[x.dish.mode]
    <3>1. t \in Outcomes /\ t.dish = x.dish
      BY <1>2, <2>1, AssignModeOutcomes
    <3>2. QED BY <1>2, <3>1 DEF Safe, Inhibits
  <2>2. CASE m = "SHUTDOWN" \/ x.dish.mode \notin {"UNKNOWN", "SHUTDOWN"}
    BY <1>2, <2>2, AssignModeIsGood DEF Good, Sound
  <2>3. QED BY <2>1, <2>2
<1>4. Safe(d, t)
  BY <1>3, SafeAfter DEF Safe
<1>5. CASE t.err # "none"
  BY <1>1, <1>4, <1>5
<1>6. CASE t.err = "none"
  BY <1>1, <1>4, <1>6, UnknownIsSafe DEF Done
<1>7. QED BY <1>5, <1>6

LEMMA SetShutdownIsSafe ==
  ASSUME NEW d, Good(d), NEW o \in SetShutdown(d)
  PROVE  Safe(d, o)
<1>1. PICK x \in IF d.mode \in {"STANDBY_FP", "CONFIG", "OPERATE"} THEN SetStow(d) ELSE Done(d) :
        IF x.err = "none"
        THEN o \in Then(AssignMode(x.dish, "SHUTDOWN"), LAMBDA f : Done([f EXCEPT !.pointing = "UNKNOWN"]))
        ELSE o = x
  BY DEF SetShutdown, Then
<1>2. Safe(d, x)
  BY <1>1, SetStowIsSafe, UnchangedIsSafe DEF Done
<1>3. "SHUTDOWN" \in Modes
  BY DEF Modes
<1>4. QED BY <1>1, <1>2, <1>3, ModeThenUnknownIsSafe

LEMMA SetMaintenanceIsSafe ==
  ASSUME NEW d, Good(d), NEW o \in SetMaintenance(d)
  PROVE  Safe(d, o)
<1>1. PICK x \in SetStow(d) :
        IF x.err = "none"
        THEN o \in Then(AssignMode(x.dish, "MAINTENANCE"), LAMBDA f : Done([f EXCEPT !.pointing = "UNKNOWN"]))
        ELSE o = x
  BY DEF SetMaintenance, Then
<1>2. Safe(d, x) /\ (x.err = "none" => x.dish.mode = "STOW")
  BY SetStowIsSafe
<1>3. "MAINTENANCE" \in Modes
  BY DEF Modes
<1>4. QED BY <1>1, <1>2, <1>3, ModeThenUnknownIsSafe

\* A dish whose state is unknown cannot be configured.
LEMMA SetConfigIsSafe ==
  ASSUME NEW d, Good(d), NEW o \in SetConfig(d)
  PROVE  Safe(d, o)
<1>1. CASE d.capability \notin Operational \cup {"CONFIGURING"}
  <2>1. o = [dish |-> d, err |-> "XBase"]
    BY <1>1 DEF SetConfig, Raise
  <2>2. QED BY <2>1, UnchangedIsSafe
<1>2. CASE d.capability \in Operational \cup {"CONFIGURING"}
  <2> DEFINE x == [dish |-> d, err |-> "none"]
  <2>1. o \in Then(AssignMode(x.dish, "CONFIG"), LAMBDA f : Done([f EXCEPT !.pointing = "UNKNOWN"]))
    BY <1>2 DEF SetConfig
  <2>2. Safe(d, x) /\ x.dish = d
    BY UnchangedIsSafe
  <2>3. "CONFIG" \in Modes /\ (d.mode \in {"UNKNOWN", "SHUTDOWN"} => "CONFIG" \notin ModeTransitions[d.mode])
    BY DEF Modes, ModeTransitions
  <2> HIDE DEF x
  <2>4. QED BY <2>1, <2>2, <2>3, ModeThenUnknownIsSafe
<1>3. QED BY <1>1, <1>2

LEMMA SetOperateIsSafe ==
  ASSUME NEW d, Good(d), NEW where \in [Targets -> Positions], NEW o \in SetOperate(d, where)
  PROVE  Safe(d, o)
<1>1. CASE d.capability \notin Operational
  <2>1. o = [dish |-> d, err |-> "XBase"]
    BY <1>1 DEF SetOperate, Raise
  <2>2. QED BY <2>1, UnchangedIsSafe
<1>2. CASE d.capability \in Operational
  <2>1. PICK t \in AssignMode(d, "OPERATE") :
          LET f == [t.dish EXCEPT !.pointing = "READY"]
          IN  IF t.err # "none" THEN o = t
              ELSE IF f.target = "none" THEN o \in Done(f) ELSE o \in Slew(f, where[f.target])
    BY <1>2 DEF SetOperate, Then
  <2>2. d \in Dishes /\ "OPERATE" \in Modes /\ "READY" \in PointingStates
    BY DEF Good, Modes, PointingStates
  <2>3. /\ t \in Outcomes
        /\ IF t.err = "none"
           THEN t.dish = [d EXCEPT !.mode = "OPERATE"] /\ "OPERATE" \in ModeTransitions[d.mode]
           ELSE t.dish = d
    BY <2>2, AssignModeOutcomes
  <2>4. CASE t.err # "none"
    BY <2>1, <2>3, <2>4 DEF Safe, Inhibits
  <2>5. CASE t.err = "none"
    <3> DEFINE f == [t.dish EXCEPT !.pointing = "READY"]
    <3>1. d.mode \notin {"UNKNOWN", "SHUTDOWN"}
      BY <2>3, <2>5 DEF ModeTransitions, Modes
    <3>2. /\ f \in Dishes /\ f.pointing = "READY" /\ f.mode = "OPERATE"
          /\ f.capability = d.capability /\ f.cache = d.cache /\ f.goal = d.goal
      BY <2>2, <2>3, <2>5 DEF Dishes
    <3>3. IF f.target = "none" THEN o = [dish |-> f, err |-> "none"]
          ELSE o \in Slew(f, where[f.target])
      BY <2>1, <2>5 DEF Done
    <3> HIDE DEF f
    <3>4. Good(f)
      BY <3>1, <3>2 DEF Good, Sound, Honest, Able, Moving
    <3>5. CASE f.target = "none"
      BY <1>2, <3>2, <3>3, <3>4, <3>5, OrderedIsSafe
    <3>6. CASE f.target # "none"
      <4>1. where[f.target] \in Positions
        BY <3>2, <3>6 DEF Dishes
      <4>2. Safe(f, o)
        BY <3>3, <3>4, <3>6, <4>1, SlewIsSafe
      <4>3. QED BY <1>2, <3>2, <4>2 DEF Safe, Inhibits
    <3>7. QED BY <3>5, <3>6
  <2>6. QED BY <2>4, <2>5
<1>3. QED BY <1>1, <1>2

LEMMA SetDishModeIsSafe ==
  ASSUME NEW d, Good(d), NEW m, NEW where \in [Targets -> Positions],
         NEW o \in SetDishMode(d, m, where)
  PROVE  Safe(d, o)
<1>1. CASE d.capability \in {"UNAVAILABLE", "UNKNOWN"}
  <2>1. o = [dish |-> d, err |-> "XBase"]
    BY <1>1 DEF SetDishMode, Raise
  <2>2. QED BY <2>1, UnchangedIsSafe
<1>2. CASE d.capability \notin {"UNAVAILABLE", "UNKNOWN"}
  <2>1. \/ o \in SetStartup(d) \/ o \in SetStandby(d) \/ o \in SetShutdown(d) \/ o \in SetStow(d)
        \/ o \in SetMaintenance(d) \/ o \in SetConfig(d) \/ o \in SetOperate(d, where)
        \/ o = [dish |-> d, err |-> "none"]
    BY <1>2 DEF SetDishMode, Done
  <2>2. d \in Dishes
    BY DEF Good
  <2>3. QED BY <2>1, <2>2, SetStartupIsSafe, SetStandbyIsSafe, SetShutdownIsSafe, SetStowIsSafe,
               SetMaintenanceIsSafe, SetConfigIsSafe, SetOperateIsSafe, UnchangedIsSafe
<1>3. QED BY <1>1, <1>2

-----------------------------------------------------------------------------
(* Capability and target *)

\* SetCapability changes what Inhibits keeps: this is what is left of it.
Restrains(d, e) == d.capability \notin Operational => e.goal \in {d.goal, Nowhere}

LEMMA SetCapabilityIsGood ==
  ASSUME NEW d, Good(d), NEW c \in Capabilities, NEW o \in SetCapability(d, c)
  PROVE  /\ o \in Outcomes /\ Good(o.dish) /\ Restrains(d, o.dish)
         /\ c \notin Operational => o.dish.pointing \notin Moving
<1>1. PICK r \in IF d.capability \in Operational /\ c \notin Operational THEN Stop(d) ELSE Done(d) :
        IF r.err = "none" THEN o \in AssignCapability(r.dish, c) ELSE o = r
  BY DEF SetCapability, Then
<1>2. /\ r \in Outcomes /\ r.dish \in Dishes /\ Good(r.dish) /\ Inhibits(d, r.dish)
      /\ c \notin Operational => r.dish.pointing \notin Moving
  <2>1. CASE d.capability \in Operational /\ c \notin Operational
    BY <1>1, <2>1, StopStops, StopIsSafe DEF Safe, Good, Stopped
  <2>2. CASE ~(d.capability \in Operational /\ c \notin Operational)
    BY <1>1, <2>2, UnchangedIsSafe DEF Done, Safe, Good, Able
  <2>3. QED BY <2>1, <2>2
<1>3. CASE r.err # "none"
  BY <1>1, <1>2, <1>3 DEF Restrains, Inhibits
<1>4. CASE r.err = "none"
  <2>1. o \in Outcomes /\ o.dish \in {r.dish, [r.dish EXCEPT !.capability = c]}
    <3>1. o \in AssignCapability(r.dish, c)
      BY <1>1, <1>4
    <3>2. QED BY <1>2, <3>1, AssignCapabilityOutcomes
  <2> DEFINE e == [r.dish EXCEPT !.capability = c]
  <2>2. /\ e \in Dishes /\ e.mode = r.dish.mode /\ e.pointing = r.dish.pointing
        /\ e.capability = c /\ e.cache = r.dish.cache /\ e.goal = r.dish.goal
        /\ e.desired = r.dish.desired
    BY <1>2 DEF Dishes
  <2>3. o.dish \in {r.dish, e}
    BY <2>1
  <2> HIDE DEF e
  <2>4. Good(e)
    BY <1>2, <2>2 DEF Good, Sound, Honest, Able
  <2>5. QED BY <1>2, <2>1, <2>2, <2>3, <2>4 DEF Restrains, Inhibits
<1>5. QED BY <1>3, <1>4

LEMMA EmergencyStopIsGood ==
  ASSUME NEW d, Good(d), NEW o \in EmergencyStop(d)
  PROVE  Good(o.dish) /\ Restrains(d, o.dish)
<1>1. PICK r \in SetCapability(d, "STANDBY") :
        o = [r EXCEPT !.dish = [ClearTarget(r.dish) EXCEPT !.desired = Nowhere, !.mode = "UNKNOWN"]]
  BY DEF EmergencyStop
<1>2. "STANDBY" \in Capabilities /\ "STANDBY" \notin Operational
  BY DEF Capabilities, Operational
<1>3. /\ r \in Outcomes /\ Good(r.dish) /\ Restrains(d, r.dish)
      /\ r.dish.pointing \notin Moving
  BY <1>2, SetCapabilityIsGood
<1> DEFINE c == ClearTarget(r.dish)
           e == [c EXCEPT !.desired = Nowhere, !.mode = "UNKNOWN"]
<1>4. Good(c) /\ c \in Dishes /\ c.goal = r.dish.goal /\ c.pointing = r.dish.pointing
  BY <1>3, ClearTargetIsGood DEF Good
<1>5. e \in Dishes /\ e.goal = c.goal /\ e.pointing = c.pointing /\ e.mode = "UNKNOWN"
  <2> HIDE DEF c
  <2>1. QED BY <1>4 DEF Dishes, Modes
<1>6. o.dish = e
  BY <1>1, <1>3, <1>5, ExceptKeepsError
<1>7. QED BY <1>3, <1>4, <1>5, <1>6 DEF Good, Sound, Honest, Able, Restrains

LEMMA SetTargetIsSafe ==
  ASSUME NEW d, Good(d), NEW t \in Targets, NEW o \in SetTarget(d, t)
  PROVE  Safe(d, o)
<1> DEFINE e == [d EXCEPT !.target = t]
<1>1. /\ e \in Dishes /\ e.mode = d.mode /\ e.pointing = d.pointing /\ e.capability = d.capability
      /\ e.cache = d.cache /\ e.goal = d.goal /\ e.desired = d.desired
  BY DEF Good, Dishes
<1>2. \/ o = [dish |-> d, err |-> "XBase"] \/ o = [dish |-> e, err |-> "none"]
      \/ o \in Stop(e)
  BY DEF SetTarget, Raise, Done
<1> HIDE DEF e
<1>3. Good(e) /\ Inhibits(d, e)
  BY <1>1 DEF Good, Sound, Honest, Able, Inhibits
<1>4. CASE o = [dish |-> d, err |-> "XBase"]
  BY <1>4, UnchangedIsSafe
<1>5. CASE o = [dish |-> e, err |-> "none"]
  BY <1>3, <1>5, UnchangedIsSafe, SafeAfter, ZenonT(60)
<1>6. CASE o \in Stop(e)
  BY <1>1, <1>3, <1>6, StopIsSafe, SafeAfter
<1>7. QED BY <1>2, <1>4, <1>5, <1>6

-----------------------------------------------------------------------------
(* The manager *)

ManagerInv == TypeOK /\ Good(dish)

\* What a handler makes of the dish.
Handled == Good(dish') /\ Restrains(dish, dish')

LEMMA SafeIsHandled ==
  ASSUME NEW o, Safe(dish, o), dish' = o.dish
  PROVE  Handled
BY DEF Safe, Handled, Inhibits, Restrains

LEMMA IntentsAreFinite == IsFiniteSet(Intents)
<1> DEFINE A == {} \cup {"standby"}  B == A \cup {"stow"}  C == B \cup {"shelter"}
           D == C \cup {"release"}  E == D \cup {"poll"}
<1>1. IsFiniteSet(A)
  BY FS_EmptySet, FS_AddElement
<1>2. IsFiniteSet(B)
  BY <1>1, FS_AddElement
<1>3. IsFiniteSet(C)
  BY <1>2, FS_AddElement
<1>4. IsFiniteSet(D)
  BY <1>3, FS_AddElement
<1>5. IsFiniteSet(E)
  BY <1>4, FS_AddElement
<1>6. Intents = E
  BY DEF Intents
<1>7. QED BY <1>5, <1>6

LEMMA BeginKeepsPending ==
  ASSUME TypeOK, NEW errands, errands = {} \/ (\E x \in Intents : errands = {x}),
         Begin(errands)
  PROVE  pending' \subseteq Intents /\ Cardinality(pending') <= NumProcs
<1>1. IsFiniteSet(Intents)
  BY IntentsAreFinite
<1>2. IsFiniteSet(pending) /\ Cardinality(pending) \in Nat /\ Cardinality(pending) < NumProcs
  BY <1>1, FS_Subset, FS_CardinalityType DEF TypeOK, Begin, Free
<1>3. CASE errands = {}
  BY <1>2, <1>3, NumProcsAssumption DEF Begin, TypeOK
<1>4. ASSUME NEW x \in Intents, errands = {x}
      PROVE  pending' \subseteq Intents /\ Cardinality(pending') <= NumProcs
  <2>1. pending' = pending \cup {x}
    BY <1>4 DEF Begin
  <2>2. Cardinality(pending \cup {x}) \in {Cardinality(pending), Cardinality(pending) + 1}
    BY <1>2, FS_AddElement
  <2>3. QED BY <1>2, <2>1, <2>2, NumProcsAssumption DEF TypeOK
<1>5. QED BY <1>3, <1>4

LEMMA FinishKeepsPending ==
  ASSUME TypeOK, NEW e \in pending,
         pending' \in {pending \ {e}, (pending \ {e}) \cup {"poll"}}
  PROVE  pending' \subseteq Intents /\ Cardinality(pending') <= NumProcs
<1>1. IsFiniteSet(pending) /\ Cardinality(pending) \in Nat /\ Cardinality(pending) <= NumProcs
  BY IntentsAreFinite, FS_Subset, FS_CardinalityType DEF TypeOK
<1>2. IsFiniteSet(pending \ {e}) /\ Cardinality(pending \ {e}) = Cardinality(pending) - 1
  BY <1>1, FS_RemoveElement
<1>3. Cardinality((pending \ {e}) \cup {"poll"})
        \in {Cardinality(pending \ {e}), Cardinality(pending \ {e}) + 1}
  BY <1>2, FS_AddElement
<1>4. /\ Cardinality(pending \ {e}) <= NumProcs
      /\ Cardinality((pending \ {e}) \cup {"poll"}) <= NumProcs
  BY <1>1, <1>2, <1>3, NumProcsAssumption
<1>5. Cardinality(pending') <= NumProcs
  BY <1>4
<1>6. QED BY <1>5 DEF TypeOK, Intents

LEMMA NewTargetIsSafe ==
  ASSUME ManagerInv, NEW t \in Targets \cup {"none"}, NEW o \in NewTarget(dish, t)
  PROVE  Safe(dish, o)
<1>1. Good(dish) /\ dish \in Dishes /\ sky \in [Targets -> Positions]
  BY DEF ManagerInv, TypeOK
<1>2. CASE t = "none"
  <2>1. o \in SetDishMode(ClearTarget(dish), "STANDBY_FP", sky)
    BY <1>2 DEF NewTarget
  <2>2. Good(ClearTarget(dish)) /\ Inhibits(dish, ClearTarget(dish))
    BY <1>1, ClearTargetIsGood DEF Inhibits
  <2>3. Safe(ClearTarget(dish), o)
    BY <1>1, <2>1, <2>2, SetDishModeIsSafe
  <2>4. QED BY <2>2, <2>3, SafeAfter
<1>3. CASE t # "none" /\ dish.target = t /\ dish.mode = "OPERATE"
  <2>1. o = [dish |-> dish, err |-> "none"]
    BY <1>3 DEF NewTarget, Done
  <2>2. QED BY <1>1, <2>1, UnchangedIsSafe
<1>4. CASE t # "none" /\ ~(dish.target = t /\ dish.mode = "OPERATE")
  <2>1. PICK r \in SetTarget(dish, t) :
          IF r.err = "none" THEN o \in SetDishMode(r.dish, "OPERATE", sky) ELSE o = r
    BY <1>4 DEF NewTarget, Then
  <2>2. Safe(dish, r)
    BY <1>1, <1>4, SetTargetIsSafe
  <2>3. CASE r.err = "none"
    <3>1. Safe(r.dish, o)
      BY <1>1, <2>1, <2>2, <2>3, SetDishModeIsSafe DEF Safe
    <3>2. QED BY <2>2, <3>1, SafeAfter DEF Safe
  <2>4. QED BY <2>1, <2>2, <2>3
<1>5. QED BY <1>2, <1>3, <1>4

LEMMA AlarmIsGood ==
  ASSUME NEW d, Good(d), NEW b \in BOOLEAN
  PROVE  Good([d EXCEPT !.alarm = b]) /\ Inhibits(d, [d EXCEPT !.alarm = b])
<1> DEFINE e == [d EXCEPT !.alarm = b]
<1>1. /\ e \in Dishes /\ e.mode = d.mode /\ e.pointing = d.pointing /\ e.capability = d.capability
      /\ e.cache = d.cache /\ e.goal = d.goal /\ e.desired = d.desired
  BY DEF Good, Dishes
<1>2. QED BY <1>1 DEF Good, Sound, Honest, Able, Inhibits

LEMMA ConfiguredIsGood ==
  ASSUME NEW d \in Dishes
  PROVE  Good(Configured(d)) /\ Configured(d).goal = d.goal
<1> DEFINE e == Configured(d)
<1>1. /\ e \in Dishes /\ e.mode = "STARTUP" /\ e.pointing = "READY" /\ e.cache = Nowhere
      /\ e.goal = d.goal
  <2>1. /\ "STARTUP" \in Modes /\ "READY" \in PointingStates /\ "OPERATE_FULL" \in Capabilities
        /\ 0 \in 0..FailedAt
    BY FailedAssumption DEF Modes, PointingStates, Capabilities
  <2>2. QED BY <2>1 DEF Configured, Dishes
<1>2. QED BY <1>1 DEF Good, Sound, Honest, Able, Moving

LEMMA PursueIsSafe ==
  ASSUME ManagerInv, NEW d, Good(d), NEW o \in Pursue(d)
  PROVE  Safe(d, o)
<1>1. CASE o \in Done(d)
  BY <1>1, UnchangedIsSafe DEF Done
<1>2. CASE d.target \in Targets /\ o \in Follow(d, sky[d.target])
  <2>1. sky[d.target] \in Positions
    BY <1>2 DEF ManagerInv, TypeOK
  <2>2. QED BY <1>2, <2>1, FollowIsSafe
<1>3. QED BY <1>1, <1>2 DEF Pursue, Targets

\* Every step leaves a good dish, and gives no order to one that must not move.
LEMMA DishIsHandled ==
  ASSUME ManagerInv, Next
  PROVE  Handled
<1>1. /\ Good(dish) /\ dish \in Dishes /\ sky \in [Targets -> Positions]
      /\ dish.at \in Positions
  BY DEF ManagerInv, TypeOK, Dishes
<1>2. CASE TmSetMode
  <2>1. PICK m \in ModeCommands : \E o \in SetDishMode(dish, m, sky) : dish' = o.dish
    BY <1>2 DEF TmSetMode, Perform
  <2>2. PICK o \in SetDishMode(dish, m, sky) : dish' = o.dish
    BY <2>1
  <2>3. QED BY <1>1, <2>2, SetDishModeIsSafe, SafeIsHandled
<1>3. CASE TmSetCapability
  <2>1. PICK c \in CapabilityCommands : \E o \in SetCapability(dish, c) : dish' = o.dish
    BY <1>3 DEF TmSetCapability, Perform
  <2>2. PICK o \in SetCapability(dish, c) : dish' = o.dish
    BY <2>1
  <2>3. c \in Capabilities
    BY CommandsAssumption
  <2>4. QED BY <1>1, <2>2, <2>3, SetCapabilityIsGood DEF Handled
<1>4. CASE TmSetTarget
  <2>1. PICK t \in TargetCommands : \E o \in NewTarget(dish, t) :
          dish' = (IF o.err = "XBase" THEN [o EXCEPT !.dish = ClearTarget(o.dish)] ELSE o).dish
    BY <1>4 DEF TmSetTarget, Perform
  <2>2. PICK o \in NewTarget(dish, t) :
          dish' = (IF o.err = "XBase" THEN [o EXCEPT !.dish = ClearTarget(o.dish)] ELSE o).dish
    BY <2>1
  <2>3. Safe(dish, o)
    BY CommandsAssumption, NewTargetIsSafe
  <2>4. /\ Good(ClearTarget(o.dish)) /\ ClearTarget(o.dish).goal = o.dish.goal
    BY <2>3, ClearTargetIsGood DEF Safe
  <2>5. dish' \in {o.dish, ClearTarget(o.dish)}
    BY <2>2, <2>3, <2>4, ExceptKeepsError DEF Safe, Good
  <2>6. QED BY <2>3, <2>4, <2>5 DEF Handled, Safe, Inhibits, Restrains
<1>5. CASE StopCommand
  <2>1. PICK o \in EmergencyStop(dish) : dish' = o.dish
    BY <1>5 DEF StopCommand, Perform
  <2>2. QED BY <1>1, <2>1, EmergencyStopIsGood DEF Handled
<1>6. CASE Resync
  <2> DEFINE fresh == Configured(dish)
  <2>1. PICK o \in IF connected THEN SetStandby(fresh) ELSE Done(fresh) : dish' = o.dish
    BY <1>6 DEF Resync, Perform
  <2>2. Good(fresh) /\ fresh \in Dishes /\ fresh.goal = dish.goal
    BY <1>1, ConfiguredIsGood DEF Good
  <2> HIDE DEF fresh
  <2>3. Safe(fresh, o) /\ o.dish.goal \in {fresh.goal, Nowhere}
    <3>1. CASE connected
      BY <2>1, <2>2, <3>1, SetStandbyIsSafe
    <3>2. CASE ~connected
      <4>1. o = [dish |-> fresh, err |-> "none"] /\ o.dish = fresh
        BY <2>1, <3>2 DEF Done
      <4>2. QED BY <2>2, <4>1, UnchangedIsSafe
    <3>3. QED BY <3>1, <3>2
  <2>4. QED BY <2>1, <2>2, <2>3 DEF Handled, Safe, Restrains
<1>7. CASE EnterStandby
  <2>1. PICK o \in SetDishMode(dish, "STANDBY_FP", sky) : dish' = o.dish
    BY <1>7 DEF EnterStandby, Perform
  <2>2. QED BY <1>1, <2>1, SetDishModeIsSafe, SafeIsHandled
<1>8. CASE EnterStow
  <2>1. PICK o \in SetDishMode(dish, "STOW", sky) : dish' = o.dish
    BY <1>8 DEF EnterStow, Perform
  <2>2. QED BY <1>1, <2>1, SetDishModeIsSafe, SafeIsHandled
<1>9. CASE Shelter
  <2> DEFINE d == [dish EXCEPT !.alarm = TRUE]
  <2>1. PICK o \in SetDishMode(d, "STOW", sky) : dish' = o.dish
    BY <1>9 DEF Shelter, Perform
  <2>2. Good(d) /\ Inhibits(dish, d)
    BY <1>1, AlarmIsGood
  <2> HIDE DEF d
  <2>3. Safe(d, o)
    BY <1>1, <2>1, <2>2, SetDishModeIsSafe
  <2>4. QED BY <2>1, <2>2, <2>3, SafeAfter, SafeIsHandled
<1>10. CASE Release
  <2> DEFINE d == [dish EXCEPT !.alarm = FALSE]
  <2>1. PICK o \in SetDishMode(d, "STANDBY_FP", sky) : dish' = o.dish
    BY <1>10 DEF Release, Cleared, Perform
  <2>2. Good(d) /\ Inhibits(dish, d)
    BY <1>1, AlarmIsGood
  <2> HIDE DEF d
  <2>3. Safe(d, o)
    BY <1>1, <2>1, <2>2, SetDishModeIsSafe
  <2>4. QED BY <2>1, <2>2, <2>3, SafeAfter, SafeIsHandled
<1>11. CASE Poll
  <2>1. PICK read \in GetCurrentAltAz(dish) :
          \E o \in IF read.err = "OSError" THEN {read} ELSE Pursue(read.dish) : dish' = o.dish
    BY <1>11 DEF Poll
  <2>2. PICK o \in IF read.err = "OSError" THEN {read} ELSE Pursue(read.dish) : dish' = o.dish
    BY <2>1
  <2>3. Safe(dish, read)
    BY <1>1, PollIsSafe
  <2>4. CASE o = read
    BY <2>2, <2>3, <2>4, SafeIsHandled
  <2>5. CASE o \in Pursue(read.dish)
    <3>1. Safe(read.dish, o)
      BY <2>3, <2>5, PursueIsSafe DEF Safe
    <3>2. QED BY <2>2, <2>3, <3>1, SafeAfter, SafeIsHandled DEF Safe
  <2>6. QED BY <2>2, <2>4, <2>5
<1>12. CASE MountMoves
  <2>1. dish.goal \in Positions
    BY <1>1, <1>12 DEF MountMoves, Dishes
  <2>2. PICK p \in {dish.at[1], dish.goal[1]} \X {dish.at[2], dish.goal[2]} :
          dish' = [dish EXCEPT !.at = p]
    BY <1>12 DEF MountMoves
  <2>3. p \in Positions
    BY <1>1, <2>1 DEF Positions
  <2>4. /\ dish' \in Dishes /\ dish'.mode = dish.mode /\ dish'.pointing = dish.pointing
        /\ dish'.capability = dish.capability /\ dish'.cache = dish.cache
        /\ dish'.goal = dish.goal /\ dish'.desired = dish.desired
    BY <1>1, <2>2, <2>3 DEF Dishes
  <2>5. QED BY <1>1, <2>4 DEF Handled, Good, Sound, Honest, Able, Restrains
<1>13. CASE TmConnected \/ TmDisconnected \/ BeginPoll \/ WeatherChanges \/ SkyTurns
  <2>1. dish' = dish
    BY <1>13 DEF TmConnected, TmDisconnected, BeginPoll, WeatherChanges, SkyTurns
  <2>2. QED BY <1>1, <2>1 DEF Handled, Restrains
<1>14. QED BY <1>2, <1>3, <1>4, <1>5, <1>6, <1>7, <1>8, <1>9, <1>10, <1>11, <1>12, <1>13
           DEF Next, Polling

\* TypeOK of everything but the dish.
LEMMA RestKeepsType ==
  ASSUME ManagerInv, Next
  PROVE  /\ sky' \in [Targets -> Positions]
         /\ pending' \subseteq Intents /\ Cardinality(pending') <= NumProcs
         /\ timer' \in {"armed", "fired", "lost"}
         /\ commands' \in 0..MaxCommands /\ changes' \in 0..MaxChanges
<1>1. TypeOK
  BY DEF ManagerInv
<1>2. /\ sky \in [Targets -> Positions] /\ pending \subseteq Intents
      /\ Cardinality(pending) <= NumProcs /\ timer \in {"armed", "fired", "lost"}
      /\ commands \in 0..MaxCommands /\ changes \in 0..MaxChanges
      /\ MaxCommands \in Nat /\ MaxChanges \in Nat
  BY <1>1, ManagerBoundsAssumption DEF TypeOK
<1>3. CASE TmSetMode \/ TmSetCapability \/ TmSetTarget \/ StopCommand
  <2>1. /\ UNCHANGED <<sky, pending, timer, changes>>
        /\ commands < MaxCommands /\ commands' = commands + 1
    BY <1>3 DEF TmSetMode, TmSetCapability, TmSetTarget, StopCommand, Command, Commanded
  <2>2. QED BY <1>2, <2>1
<1>4. CASE Resync
  <2>1. timer' \in {timer, "armed"}
    BY <1>4 DEF Resync, Perform
  <2>2. /\ UNCHANGED <<sky, pending, changes>>
        /\ commands < MaxCommands /\ commands' = commands + 1
    BY <1>4 DEF Resync, Commanded
  <2>3. QED BY <1>2, <2>1, <2>2
<1>5. CASE TmConnected \/ TmDisconnected
  <2>1. PICK errands : Begin(errands) /\ errands \in {{}, {"standby"}, {"stow"}}
    BY <1>5 DEF TmConnected, TmDisconnected
  <2>2. pending' \subseteq Intents /\ Cardinality(pending') <= NumProcs
    BY <1>1, <2>1, BeginKeepsPending DEF Intents
  <2>3. UNCHANGED <<sky, timer, changes>>
        /\ (commands' = commands \/ (commands < MaxCommands /\ commands' = commands + 1))
    BY <1>5 DEF TmConnected, TmDisconnected, Commanded
  <2>4. QED BY <1>2, <2>2, <2>3
<1>6. CASE BeginPoll
  <2>1. PICK errand \in Intents : Begin({errand})
    BY <1>6 DEF BeginPoll, Intents
  <2>2. pending' \subseteq Intents /\ Cardinality(pending') <= NumProcs
    BY <1>1, <2>1, BeginKeepsPending
  <2>3. QED BY <1>2, <1>6, <2>2 DEF BeginPoll
<1>7. CASE EnterStandby \/ EnterStow \/ Poll
  <2>1. PICK e \in pending : pending' = pending \ {e}
    BY <1>7 DEF EnterStandby, EnterStow, Poll, Finish
  <2>2. pending' \subseteq Intents /\ Cardinality(pending') <= NumProcs
    BY <1>1, <2>1, FinishKeepsPending
  <2>3. timer' \in {timer, "armed", "lost"}
    BY <1>7 DEF EnterStandby, EnterStow, Poll
  <2>4. QED BY <1>2, <1>7, <2>2, <2>3 DEF EnterStandby, EnterStow, Poll
<1>8. CASE Shelter \/ Release
  <2>1. PICK e, err : e \in {"shelter", "release"} /\ Continue(e, err)
    BY <1>8 DEF Shelter, Release, Perform
  <2>2. /\ e \in pending /\ timer' \in {timer, "lost"}
        /\ pending' \in {pending \ {e}, (pending \ {e}) \cup {"poll"}}
    BY <2>1 DEF Continue
  <2>3. pending' \subseteq Intents /\ Cardinality(pending') <= NumProcs
    BY <1>1, <2>2, FinishKeepsPending
  <2>4. QED BY <1>2, <1>8, <2>2, <2>3 DEF Shelter, Release
<1>9. CASE MountMoves \/ WeatherChanges
  <2>1. /\ UNCHANGED <<sky, pending, timer, commands>>
        /\ (changes' = changes \/ (changes < MaxChanges /\ changes' = changes + 1))
    BY <1>9 DEF MountMoves, WeatherChanges
  <2>2. QED BY <1>2, <2>1
<1>10. CASE SkyTurns
  <2>1. PICK az \in 0..MaxAz :
          sky' = [sky EXCEPT !["track"] = <<MaxAlt, az>>, !["scan"] = <<MaxAlt, az>>]
    BY <1>10 DEF SkyTurns
  <2>2. <<MaxAlt, az>> \in Positions
    BY GridAssumption DEF Positions
  <2>3. sky' \in [Targets -> Positions]
    BY <1>2, <2>1, <2>2
  <2>4. QED BY <1>2, <1>10, <2>3 DEF SkyTurns
<1>11. QED BY <1>3, <1>4, <1>5, <1>6, <1>7, <1>8, <1>9, <1>10 DEF Next, Polling

LEMMA FlagsKeepType ==
  ASSUME {connected, weather} \subseteq BOOLEAN, Next
  PROVE  {connected', weather'} \subseteq BOOLEAN
<1>1. connected' \in {connected, TRUE, FALSE}
  BY DEF Next, Polling, TmSetMode, TmSetCapability, TmSetTarget, StopCommand, Command, Resync,
         TmConnected, TmDisconnected, EnterStandby, EnterStow, BeginPoll, Shelter, Release,
         Poll, MountMoves, WeatherChanges, SkyTurns
<1>2. weather' \in {weather, ~weather}
  BY DEF Next, Polling, TmSetMode, TmSetCapability, TmSetTarget, StopCommand, Command, Resync,
         TmConnected, TmDisconnected, EnterStandby, EnterStow, BeginPoll, Shelter, Release,
         Poll, MountMoves, WeatherChanges, SkyTurns
<1>3. QED BY <1>1, <1>2

LEMMA ManagerStep == ManagerInv /\ [Next]_vars => ManagerInv'
<1>1. ASSUME ManagerInv, Next
      PROVE  ManagerInv'
  <2>1. Good(dish)' /\ dish' \in Dishes
    BY <1>1, DishIsHandled DEF Handled, Good, Sound, Honest, Able
  <2>2. {connected', weather'} \subseteq BOOLEAN
    BY <1>1, FlagsKeepType DEF ManagerInv, TypeOK
  <2>3. QED BY <1>1, <2>1, <2>2, RestKeepsType DEF ManagerInv, TypeOK
<1>2. ASSUME ManagerInv, UNCHANGED vars
      PROVE  ManagerInv'
  BY <1>2 DEF vars, ManagerInv, TypeOK, Good, Sound, Honest, Able
<1>3. QED BY <1>1, <1>2

LEMMA ManagerStart == Init => ManagerInv
<1>1. ASSUME Init
      PROVE  ManagerInv
  <2>1. PICK p \in {StowAltAz, <<MaxAlt, 0>>} :
          dish = Configured([mode |-> "STARTUP", pointing |-> "READY",
                             capability |-> "OPERATE_FULL", target |-> "none",
                             desired |-> Nowhere, seen |-> Nowhere, alarm |-> FALSE,
                             cache |-> Nowhere, failures |-> 0, goal |-> Nowhere,
                             at |-> p, faults |-> MaxFaults])
    BY <1>1 DEF Init
  <2> DEFINE d == [mode |-> "STARTUP", pointing |-> "READY",
                   capability |-> "OPERATE_FULL", target |-> "none",
                   desired |-> Nowhere, seen |-> Nowhere, alarm |-> FALSE,
                   cache |-> Nowhere, failures |-> 0, goal |-> Nowhere,
                   at |-> p, faults |-> MaxFaults]
  <2>2. /\ "STARTUP" \in Modes /\ "READY" \in PointingStates /\ "OPERATE_FULL" \in Capabilities
        /\ 0 \in 0..FailedAt /\ p \in Positions /\ MaxFaults \in Nat
    BY FailedAssumption, GridAssumption, ManagerBoundsAssumption
    DEF Modes, PointingStates, Capabilities, Positions, StowAltAz
  <2>3. d \in Dishes
    BY <2>2 DEF Dishes
  <2>4. Good(dish)
    <3> HIDE DEF d
    <3>1. dish = Configured(d)
      BY <2>1 DEF d
    <3>2. QED BY <2>3, <3>1, ConfiguredIsGood
  <2>5. sky \in [Targets -> Positions]
    BY <1>1, GridAssumption DEF Init, Positions
  <2>6. pending \subseteq Intents /\ Cardinality(pending) <= NumProcs
    BY <1>1, FS_EmptySet, NumProcsAssumption DEF Init
  <2>7. /\ timer = "armed" /\ commands \in 0..MaxCommands /\ changes \in 0..MaxChanges
    BY <1>1, ManagerBoundsAssumption DEF Init
  <2>8. {connected, weather} \subseteq BOOLEAN
    BY <1>1 DEF Init
  <2>9. QED BY <2>4, <2>5, <2>6, <2>7, <2>8 DEF ManagerInv, TypeOK, Good
<1>2. QED BY <1>1

-----------------------------------------------------------------------------
(* Theorems *)

\* The inductive invariant: in every mode but UNKNOWN and SHUTDOWN the acknowledged
\* position is the mount's, a moving dish is expected where its mount was sent, and only
\* an operational dish moves (driver.py, md01_driver.py).
THEOREM DishIsGood == Spec => []ManagerInv
<1>1. QED BY ManagerStart, ManagerStep, PTL DEF Spec

\* Every variable keeps its type, and no more handlers run than there are processors.
THEOREM ManagerTypeCorrect == Spec => []TypeOK
<1>1. ManagerInv => TypeOK
  BY DEF ManagerInv
<1>2. QED BY <1>1, DishIsGood, PTL

\* What the driver believes of its mount is so, although responses are lost, exchanges
\* are repeated or fail half way, and handlers overlap (md01_driver.py, driver.py:758).
THEOREM MountIsBelieved == Spec => []MountAgrees
<1>1. ManagerInv => MountAgrees
  BY DEF ManagerInv, Good, Sound, Honest, Moving, MountAgrees, SuppressionIsSound, PointingIsHonest
<1>2. QED BY <1>1, DishIsGood, PTL

\* A dish whose capability was taken away is never set in motion, whichever handler
\* tested it before (dm.py:312).
THEOREM InhibitedDishStays == Spec => InhibitedStays
<1>1. ASSUME ManagerInv, Next
      PROVE  dish'.goal \notin {dish.goal, Nowhere} => dish.capability \in Operational
  BY <1>1, DishIsHandled DEF Handled, Restrains
<1>2. ManagerInv /\ [Next]_vars
        => [dish'.goal \notin {dish.goal, Nowhere} => dish.capability \in Operational]_vars
  BY <1>1
<1>3. QED BY <1>2, DishIsGood, PTL DEF Spec, InhibitedStays

(***************************************************************************)
(* DailyLogs: the pointing log (dsh/dm.py, dsh/drivers/driver.py).  The    *)
(* files hold the records of their days, and what the handler takes to be  *)
(* the end of the day is the end of the day of the file without a date.    *)
(***************************************************************************)
LogValues == {"OK", "FAILED", "ACTIVE", "CLEAR", "UNKNOWN", "off", ""}
LogRecords == [time : Nat, is : {"beat", "transition", "pointing"}, value : LogValues]

TimesOf(log) == {log[i].time : i \in DOMAIN log}
OfDay(log, day) == \A i \in DOMAIN log : DayOf(log[i].time) = day
Rising(log) == \A i, j \in DOMAIN log : i < j => log[i].time < log[j].time

LogTypes ==
    /\ clock \in Nat /\ value \in LogValues
    /\ base \in Seq(LogRecords) /\ written \in Seq(LogRecords)
    /\ \A d \in DOMAIN rotated : d \in Nat /\ rotated[d] \in Seq(LogRecords)

\* The files as they are if the one without a date is renamed at midnight.
KeptTill(midnight) ==
    /\ \E t \in 0..clock : midnight = Midnight(t)
    /\ OfDay(base, DayOf(midnight - 1))
    /\ \A d \in DOMAIN rotated : d < DayOf(midnight - 1) /\ OfDay(rotated[d], d)

\* Every record is in a file, and none is from the future.
AllInFiles ==
    /\ TimesOf(written) = TimesOf(base) \cup UNION {TimesOf(rotated[d]) : d \in DOMAIN rotated}
    /\ \A t \in TimesOf(written) : t <= clock

PointingRises ==
    subject = "pointing" => Rising(base) /\ \A d \in DOMAIN rotated : Rising(rotated[d])

LogFiles == LogTypes /\ KeptTill(rollover) /\ AllInFiles /\ PointingRises

\* Days begin and end at multiples of their length.
LEMMA Days ==
  ASSUME NEW t \in Nat
  PROVE  /\ DayOf(t) \in Nat /\ Midnight(t) \in Nat /\ Midnight(t) = (DayOf(t) + 1) * Day
         /\ DayOf(t) * Day <= t /\ t < Midnight(t)
         /\ DayOf(Midnight(t) - 1) = DayOf(t)
<1>1. Day \in Nat \ {0}
  BY LogsAssumption
<1>2. PICK q \in Int, r \in 0..(Day - 1) : q = (t \div Day) /\ t = (Day * q) + r
  BY <1>1, DivMod
<1>3. q \in Nat
  <2>1. SUFFICES ASSUME q <= -1 PROVE FALSE
    BY <1>2
  <2>2. Day * q <= Day * (-1)
    BY <1>1, <1>2, <2>1
  <2>3. QED BY <1>1, <1>2, <2>2
<1>4. PICK p \in Nat : p = Day * q
  BY <1>1, <1>3
<1>5. (q + 1) * Day = p + Day /\ q * Day = p
  BY <1>1, <1>3, <1>4
<1>6. DayOf(t) = q /\ Midnight(t) = p + Day
  BY <1>2, <1>5 DEF DayOf, Midnight
<1>7. (p + Day) - 1 \in Int /\ Day - 1 \in 0..(Day - 1) /\ (p + Day) - 1 = (Day * q) + (Day - 1)
  BY <1>1, <1>4
<1>8. (((p + Day) - 1) \div Day) = q
  BY <1>1, <1>3, <1>7, DivUnique
<1>9. DayOf(Midnight(t) - 1) = q
  BY <1>6, <1>8 DEF DayOf
<1>10. q * Day <= t /\ t < p + Day
  BY <1>1, <1>2, <1>4, <1>5
<1>11. QED BY <1>1, <1>3, <1>4, <1>5, <1>6, <1>9, <1>10

\* Time goes from one day into the next.
LEMMA DaysGo ==
  ASSUME NEW t \in Nat, NEW u \in Nat
  PROVE  /\ t <= u => DayOf(t) <= DayOf(u)
         /\ u >= Midnight(t) => DayOf(t) < DayOf(u)
         /\ (t <= u /\ u < Midnight(t)) => DayOf(u) = DayOf(t)
         /\ DayOf(t) = DayOf(u) => Midnight(t) = Midnight(u)
<1>1. Day \in Nat \ {0}
  BY LogsAssumption
<1>2. PICK a \in Nat, b \in Nat : a = DayOf(t) /\ b = DayOf(u)
  BY Days
<1>3. a * Day <= t /\ t < (a + 1) * Day /\ b * Day <= u /\ u < (b + 1) * Day
  BY <1>2, Days
<1>4. Midnight(t) = (a + 1) * Day /\ Midnight(u) = (b + 1) * Day
  BY <1>2, Days
<1>5. \A m, n \in Nat : m <= n => m * Day <= n * Day
  <2>1. SUFFICES ASSUME NEW m \in Nat, NEW n \in Nat, m <= n PROVE m * Day <= n * Day
    OBVIOUS
  <2>2. PICK k \in Nat : n = m + k
    <3>1. n - m \in Nat /\ n = m + (n - m)
      BY <2>1
    <3>2. QED BY <3>1
  <2>3. (m + k) * Day = (m * Day) + (k * Day) /\ m * Day \in Nat /\ k * Day \in Nat
    BY <1>1
  <2>4. QED BY <2>2, <2>3
<1>6. a * Day \in Nat /\ (a + 1) * Day \in Nat /\ b * Day \in Nat /\ (b + 1) * Day \in Nat
  BY <1>1
<1>7. ASSUME t <= u PROVE a <= b
  <2>1. SUFFICES ASSUME b + 1 <= a PROVE FALSE
    BY <1>2
  <2>2. (b + 1) * Day <= a * Day
    BY <1>5, <2>1
  <2>3. QED BY <1>3, <1>6, <1>7, <2>2
<1>8. ASSUME u >= (a + 1) * Day PROVE a < b
  <2>1. SUFFICES ASSUME b + 1 <= a + 1 PROVE FALSE
    BY <1>2
  <2>2. (b + 1) * Day <= (a + 1) * Day
    BY <1>5, <2>1
  <2>3. QED BY <1>3, <1>6, <1>8, <2>2
<1>9. ASSUME t <= u, u < (a + 1) * Day PROVE a = b
  <2>1. a <= b
    BY <1>7, <1>9
  <2>2. SUFFICES ASSUME a + 1 <= b PROVE FALSE
    BY <2>1
  <2>3. (a + 1) * Day <= b * Day
    BY <1>5, <2>2
  <2>4. QED BY <1>3, <1>6, <1>9, <2>3
<1>10. QED BY <1>2, <1>4, <1>7, <1>8, <1>9

\* The log with one record more.
LEMMA LogGrows ==
  ASSUME NEW log \in Seq(LogRecords), NEW record \in LogRecords
  PROVE  /\ Append(log, record) \in Seq(LogRecords)
         /\ TimesOf(Append(log, record)) = TimesOf(log) \cup {record.time}
         /\ \A d : OfDay(log, d) /\ DayOf(record.time) = d => OfDay(Append(log, record), d)
         /\ (Rising(log) /\ \A t \in TimesOf(log) : t < record.time)
              => Rising(Append(log, record))
<1>1. PICK new \in Seq(LogRecords) : new = Append(log, record)
  BY AppendProperties
<1>2. /\ Len(new) = Len(log) + 1 /\ new[Len(log) + 1] = record
      /\ \A i \in 1..Len(log) : new[i] = log[i]
  BY <1>1, AppendProperties
<1>3. Len(log) \in Nat /\ DOMAIN log = 1..Len(log) /\ DOMAIN new = 1..(Len(log) + 1)
  BY <1>2
<1>4. DOMAIN new = DOMAIN log \cup {Len(log) + 1}
  BY <1>3
<1>5. TimesOf(new) = TimesOf(log) \cup {record.time}
  BY <1>2, <1>3, <1>4 DEF TimesOf
<1>6. ASSUME NEW d, OfDay(log, d), DayOf(record.time) = d PROVE OfDay(new, d)
  BY <1>2, <1>3, <1>4, <1>6 DEF OfDay
<1>7. ASSUME Rising(log), \A t \in TimesOf(log) : t < record.time PROVE Rising(new)
  <2>1. SUFFICES ASSUME NEW i \in DOMAIN new, NEW j \in DOMAIN new, i < j
                 PROVE  new[i].time < new[j].time
    BY DEF Rising
  <2>2. i \in 1..Len(log) /\ new[i] = log[i]
    BY <1>2, <1>3, <2>1
  <2>3. CASE j \in 1..Len(log)
    BY <1>2, <1>3, <1>7, <2>1, <2>2, <2>3 DEF Rising
  <2>4. CASE j = Len(log) + 1
    <3>1. log[i].time \in TimesOf(log)
      BY <1>3, <2>2 DEF TimesOf
    <3>2. QED BY <1>2, <1>7, <2>2, <2>4, <3>1
  <2>5. QED BY <1>3, <2>3, <2>4
<1>8. QED BY <1>1, <1>5, <1>6, <1>7

\* A log of one record.
LEMMA LogBegins ==
  ASSUME NEW record \in LogRecords
  PROVE  /\ <<record>> \in Seq(LogRecords) /\ TimesOf(<<record>>) = {record.time}
         /\ OfDay(<<record>>, DayOf(record.time)) /\ Rising(<<record>>)
<1>1. PICK log \in Seq(LogRecords) : log = <<record>>
  <2>1. <<>> \in Seq(LogRecords) /\ Append(<<>>, record) = <<record>>
    OBVIOUS
  <2>2. QED BY <2>1, AppendProperties
<1>2. DOMAIN log = {1} /\ log[1] = record
  BY <1>1
<1>3. TimesOf(log) = {record.time} /\ OfDay(log, DayOf(record.time)) /\ Rising(log)
  BY <1>2 DEF TimesOf, OfDay, Rising
<1>4. QED BY <1>1, <1>3

\* Times are numbers.
LEMMA TimesAre ==
  ASSUME NEW log \in Seq(LogRecords)
  PROVE  /\ TimesOf(log) \subseteq Nat
         /\ \A i \in DOMAIN log : log[i].time \in Nat /\ log[i].time \in TimesOf(log)
<1>1. \A r \in LogRecords : r.time \in Nat
  BY DEF LogRecords
<1>2. \A i \in DOMAIN log : log[i] \in LogRecords
  OBVIOUS
<1>3. QED BY <1>1, <1>2 DEF TimesOf

\* A record goes to the file of its day, whatever the handler takes for midnight, if the
\* files are those of a program that renames at that time.
LEMMA EmitKeeps ==
  ASSUME LogTypes, AllInFiles, PointingRises,
         NEW is \in {"beat", "transition", "pointing"}, NEW what \in LogValues,
         NEW midnight, KeptTill(midnight), EmitWith(is, what, midnight),
         clock' = clock, subject' = subject, value' \in LogValues,
         subject = "pointing" => \A t \in TimesOf(written) : t < clock
  PROVE  LogFiles'
<1>1. PICK record \in LogRecords : record = [time |-> clock, is |-> is, value |-> what]
  BY DEF LogTypes, LogRecords
<1>2. record.time = clock /\ clock \in Nat
  BY <1>1 DEF LogTypes
<1>3. /\ written' = Append(written, record)
      /\ clock >= midnight =>
           /\ rotated' = [d \in DOMAIN rotated \cup {DayOf(midnight - 1)} |->
                             IF d = DayOf(midnight - 1) THEN base ELSE rotated[d]]
           /\ base' = <<record>> /\ rollover' = Midnight(clock)
      /\ ~(clock >= midnight) =>
           base' = Append(base, record) /\ rollover' = midnight /\ rotated' = rotated
  BY <1>1 DEF EmitWith
<1>4. base \in Seq(LogRecords) /\ written \in Seq(LogRecords)
      /\ \A d \in DOMAIN rotated : d \in Nat /\ rotated[d] \in Seq(LogRecords)
  BY DEF LogTypes
<1>5. /\ OfDay(base, DayOf(midnight - 1))
      /\ \A d \in DOMAIN rotated : d < DayOf(midnight - 1) /\ OfDay(rotated[d], d)
  BY DEF KeptTill
<1>6. PICK start \in 0..clock : midnight = Midnight(start)
  BY DEF KeptTill
<1>7. PICK day \in Nat : day = DayOf(midnight - 1) /\ day = DayOf(start)
  BY <1>2, <1>6, Days
<1>8. written' \in Seq(LogRecords) /\ TimesOf(written') = TimesOf(written) \cup {clock}
  BY <1>2, <1>3, <1>4, LogGrows
<1>9. /\ TimesOf(written) = TimesOf(base) \cup UNION {TimesOf(rotated[d]) : d \in DOMAIN rotated}
      /\ \A t \in TimesOf(written) : t <= clock
  BY DEF AllInFiles
<1>10. subject = "pointing" => /\ Rising(base) /\ \A d \in DOMAIN rotated : Rising(rotated[d])
                               /\ \A t \in TimesOf(base) : t < clock
  BY <1>9 DEF PointingRises
<1>11. \A t \in TimesOf(written') : t <= clock'
  BY <1>2, <1>8, <1>9
<1>12. CASE clock >= midnight
  <2>1. /\ rotated' = [d \in DOMAIN rotated \cup {day} |-> IF d = day THEN base ELSE rotated[d]]
        /\ base' = <<record>> /\ rollover' = Midnight(clock)
    BY <1>3, <1>7, <1>12
  <2>2. /\ DOMAIN rotated' = DOMAIN rotated \cup {day} /\ rotated'[day] = base
        /\ \A d \in DOMAIN rotated : d # day /\ rotated'[d] = rotated[d]
    BY <1>4, <1>5, <1>7, <2>1
  <2>3. /\ base' \in Seq(LogRecords) /\ TimesOf(base') = {clock}
        /\ OfDay(base', DayOf(clock)) /\ Rising(base')
    BY <1>2, <2>1, LogBegins
  <2>4. LogTypes'
    BY <1>2, <1>4, <1>8, <2>2, <2>3 DEF LogTypes
  <2>5. day < DayOf(clock) /\ DayOf(clock) \in Nat /\ DayOf(Midnight(clock) - 1) = DayOf(clock)
    BY <1>2, <1>6, <1>7, <1>12, Days, DaysGo
  <2>6. KeptTill(rollover)'
    <3>1. clock \in 0..clock
      BY <1>2
    <3>2. ASSUME NEW d \in DOMAIN rotated' PROVE d < DayOf(clock) /\ OfDay(rotated'[d], d)
      <4>1. CASE d = day
        BY <1>5, <1>7, <2>2, <2>5, <4>1
      <4>2. CASE d # day
        <5>1. d \in DOMAIN rotated /\ rotated'[d] = rotated[d] /\ d \in Nat
          BY <1>4, <2>2, <4>2
        <5>2. d < day /\ OfDay(rotated[d], d)
          BY <1>5, <1>7, <5>1
        <5>3. QED BY <2>5, <5>1, <5>2
      <4>3. QED BY <4>1, <4>2
    <3>3. DayOf(rollover' - 1) = DayOf(clock)
      BY <2>1, <2>5
    <3>4. \E t \in 0..clock' : rollover' = Midnight(t)
      BY <2>1, <3>1
    <3>5. QED BY <2>3, <3>2, <3>3, <3>4 DEF KeptTill
  <2>7. TimesOf(written') =
          TimesOf(base') \cup UNION {TimesOf(rotated'[d]) : d \in DOMAIN rotated'}
    BY <1>8, <1>9, <2>2, <2>3
  <2>8. PointingRises'
    BY <1>10, <2>2, <2>3 DEF PointingRises
  <2>9. AllInFiles'
    BY <1>11, <2>7 DEF AllInFiles
  <2>10. QED BY <2>4, <2>6, <2>8, <2>9 DEF LogFiles
<1>13. CASE ~(clock >= midnight)
  <2>1. base' = Append(base, record) /\ rollover' = midnight /\ rotated' = rotated
    BY <1>3, <1>13
  <2>2. DayOf(clock) = day
    <3>1. Midnight(start) \in Nat
      BY <1>2, <1>6, Days
    <3>2. QED BY <1>2, <1>6, <1>7, <1>13, <3>1, DaysGo
  <2>3. /\ base' \in Seq(LogRecords) /\ TimesOf(base') = TimesOf(base) \cup {clock}
        /\ OfDay(base', day)
        /\ (subject = "pointing" => Rising(base'))
    BY <1>2, <1>4, <1>5, <1>7, <1>10, <2>1, <2>2, LogGrows
  <2>4. LogTypes'
    BY <1>2, <1>4, <1>8, <2>1, <2>3 DEF LogTypes
  <2>5. KeptTill(rollover)'
    <3>1. \E t \in 0..clock' : rollover' = Midnight(t)
      BY <1>6, <2>1
    <3>2. DayOf(rollover' - 1) = day
      BY <1>7, <2>1
    <3>3. QED BY <1>5, <1>7, <2>1, <2>3, <3>1, <3>2 DEF KeptTill
  <2>6. AllInFiles'
    BY <1>8, <1>9, <1>11, <2>1, <2>3 DEF AllInFiles
  <2>7. PointingRises'
    BY <1>10, <2>1, <2>3 DEF PointingRises
  <2>8. QED BY <2>4, <2>5, <2>6, <2>7 DEF LogFiles
<1>14. QED BY <1>12, <1>13

\* There are no files at first.
LEMMA LogsStart == LogsInit => LogFiles
<1>1. SUFFICES ASSUME LogsInit PROVE LogFiles
  OBVIOUS
<1>2. /\ clock = 0 /\ value = "off" /\ base = <<>> /\ written = <<>> /\ rollover = Day
      /\ rotated = [d \in {} |-> <<>>]
  BY <1>1 DEF LogsInit
<1>3. DOMAIN rotated = {} /\ DOMAIN base = {} /\ DOMAIN written = {}
      /\ base \in Seq(LogRecords) /\ written \in Seq(LogRecords)
  BY <1>2
<1>4. LogTypes
  BY <1>2, <1>3 DEF LogTypes, LogValues
<1>5. KeptTill(rollover)
  <2>1. Day \in Nat \ {0}
    BY LogsAssumption
  <2>2. 0 = (Day * 0) + 0 /\ 0 \in 0..(Day - 1)
    BY <2>1
  <2>3. DayOf(0) = 0
    BY <2>1, <2>2, DivUnique DEF DayOf
  <2>4. Midnight(0) = Day
    BY <2>1, <2>3 DEF Midnight
  <2>5. 0 \in 0..clock
    BY <1>2
  <2>6. QED BY <1>2, <1>3, <2>4, <2>5 DEF KeptTill, OfDay
<1>6. AllInFiles
  BY <1>3 DEF AllInFiles, TimesOf
<1>7. PointingRises
  BY <1>3 DEF PointingRises, Rising
<1>8. QED BY <1>4, <1>5, <1>6, <1>7 DEF LogFiles

\* Each step keeps the files in order; a program that starts again takes the end of the
\* day of the file it finds.
LEMMA LogsStep == LogFiles /\ [LogsNext]_logVars => LogFiles'
<1>1. SUFFICES ASSUME LogFiles, [LogsNext]_logVars PROVE LogFiles'
  OBVIOUS
<1>2. LogTypes /\ KeptTill(rollover) /\ AllInFiles /\ PointingRises
  BY <1>1 DEF LogFiles
<1>3. CASE Advance
  <2>1. /\ clock' = clock + 1 /\ subject' = subject /\ value' = value /\ base' = base
        /\ rollover' = rollover /\ rotated' = rotated /\ written' = written
    BY <1>3 DEF Advance
  <2>2. clock \in Nat /\ TimesOf(written) \subseteq Nat
    BY <1>2, TimesAre DEF LogTypes
  <2>3. LogTypes'
    BY <1>2, <2>1, <2>2 DEF LogTypes
  <2>4. \A t \in 0..clock : t \in 0..clock'
    BY <2>1, <2>2
  <2>5. KeptTill(rollover)'
    BY <1>2, <2>1, <2>4 DEF KeptTill
  <2>6. \A t \in TimesOf(written') : t <= clock'
    <3>1. \A t \in TimesOf(written) : t <= clock /\ t \in Nat
      BY <1>2, <2>2 DEF AllInFiles
    <3>2. QED BY <2>1, <2>2, <3>1
  <2>7. AllInFiles'
    BY <1>2, <2>1, <2>6 DEF AllInFiles
  <2>8. PointingRises'
    BY <1>2, <2>1 DEF PointingRises
  <2>9. QED BY <2>3, <2>5, <2>7, <2>8 DEF LogFiles
<1>4. CASE Heartbeat
  <2>1. /\ subject = "health" /\ subject' = subject /\ clock' = clock /\ value' = value
        /\ EmitWith("beat", value, rollover)
    BY <1>4 DEF Heartbeat, Emit
  <2>2. value \in LogValues
    BY <1>2 DEF LogTypes
  <2>3. QED BY <1>2, <2>1, <2>2, EmitKeeps
<1>5. CASE ChangeState
  <2>1. PICK to \in States \ {value} :
          /\ subject # "pointing" /\ subject' = subject /\ clock' = clock /\ value' = to
          /\ EmitWith("transition", to, rollover)
    BY <1>5 DEF ChangeState, Emit
  <2>2. to \in LogValues
    BY <2>1 DEF States, LogValues
  <2>3. QED BY <1>2, <2>1, <2>2, EmitKeeps
<1>6. CASE LogPointing
  <2>1. /\ subject' = subject /\ clock' = clock /\ value' = value
        /\ \A i \in DOMAIN written : written[i].time < clock
        /\ EmitWith("pointing", "", rollover)
    BY <1>6 DEF LogPointing, Emit
  <2>2. "" \in LogValues /\ value \in LogValues
    BY <1>2 DEF LogTypes, LogValues
  <2>3. \A t \in TimesOf(written) : t < clock
    BY <2>1 DEF TimesOf
  <2>4. QED BY <1>2, <2>1, <2>2, <2>3, EmitKeeps
<1>7. CASE Crash
  <2>1. /\ clock' = clock /\ subject' = subject /\ value' = value /\ base' = base
        /\ rollover' = rollover /\ rotated' = rotated /\ written' = written
    BY <1>7 DEF Crash
  <2>2. QED BY <1>2, <2>1 DEF LogFiles, LogTypes, KeptTill, AllInFiles, PointingRises
<1>8. CASE StartProgram
  <2>1. PICK last : last = IF base = <<>> THEN clock ELSE Last(base).time
    OBVIOUS
  <2>2. /\ subject' = subject /\ clock' = clock /\ value' = Fresh
        /\ IF subject = "health" THEN EmitWith("beat", Fresh, Midnight(last))
           ELSE /\ rollover' = Midnight(last) /\ base' = base /\ rotated' = rotated
                /\ written' = written
    BY <1>8, <2>1 DEF StartProgram
  <2>3. Fresh \in LogValues
    BY DEF Fresh, LogValues
  <2>4. clock \in Nat /\ base \in Seq(LogRecords)
    BY <1>2 DEF LogTypes
  <2>5. PICK start \in 0..clock : rollover = Midnight(start)
    BY <1>2 DEF KeptTill
  <2>6. DayOf(rollover - 1) = DayOf(start) /\ DayOf(start) \in Nat
    BY <2>4, <2>5, Days
  <2>7. KeptTill(Midnight(last))
    <3>1. CASE base = <<>>
      <4>1. last = clock /\ clock \in 0..clock
        BY <2>1, <2>4, <3>1
      <4>2. DayOf(Midnight(last) - 1) = DayOf(clock) /\ DayOf(clock) \in Nat
        BY <2>4, <4>1, Days
      <4>3. DayOf(start) <= DayOf(clock)
        BY <2>4, <2>5, DaysGo
      <4>4. \A d \in DOMAIN rotated : d < DayOf(clock) /\ OfDay(rotated[d], d)
        <5>1. \A d \in DOMAIN rotated : d \in Nat /\ d < DayOf(start) /\ OfDay(rotated[d], d)
          BY <1>2, <2>6 DEF KeptTill, LogTypes
        <5>2. QED BY <2>6, <4>2, <4>3, <5>1
      <4>5. OfDay(base, DayOf(clock))
        BY <3>1 DEF OfDay
      <4>6. QED BY <4>1, <4>2, <4>4, <4>5 DEF KeptTill
    <3>2. CASE base # <<>>
      <4>1. /\ Len(base) \in 1..Len(base) /\ DOMAIN base = 1..Len(base)
            /\ Last(base) = base[Len(base)]
        BY <2>4, <3>2 DEF Last
      <4>2. last = base[Len(base)].time /\ last \in Nat
        BY <2>1, <2>4, <3>2, <4>1, TimesAre
      <4>3. DayOf(last) = DayOf(start)
        BY <1>2, <2>6, <4>1, <4>2 DEF KeptTill, OfDay
      <4>4. Midnight(last) = rollover
        BY <2>4, <2>5, <4>2, <4>3, DaysGo
      <4>5. QED BY <1>2, <4>4
    <3>3. QED BY <3>1, <3>2
  <2>8. CASE subject = "health"
    BY <1>2, <2>2, <2>3, <2>7, <2>8, EmitKeeps
  <2>9. CASE subject # "health"
    <3>1. /\ rollover' = Midnight(last) /\ base' = base /\ rotated' = rotated
          /\ written' = written
      BY <2>2, <2>9
    <3>2. LogTypes'
      BY <1>2, <2>2, <2>3, <3>1 DEF LogTypes
    <3>3. KeptTill(rollover)'
      BY <2>2, <2>7, <3>1 DEF KeptTill
    <3>4. QED BY <1>2, <2>2, <3>1, <3>2, <3>3 DEF LogFiles, AllInFiles, PointingRises
  <2>10. QED BY <2>8, <2>9
<1>9. CASE UNCHANGED logVars
  <2>1. /\ clock' = clock /\ subject' = subject /\ value' = value /\ base' = base
        /\ rollover' = rollover /\ rotated' = rotated /\ written' = written
    BY <1>9 DEF logVars
  <2>2. QED BY <1>2, <2>1 DEF LogFiles, LogTypes, KeptTill, AllInFiles, PointingRises
<1>10. QED BY <1>1, <1>3, <1>4, <1>5, <1>6, <1>7, <1>8, <1>9 DEF LogsNext

\* What a query reads of a file, and the files it reads.
ReadOf(log, start) ==
    LET tail == {log[i].time : i \in {j \in DOMAIN log : log[j].time >= start}}
        close == {log[i].time : i \in {j \in DOMAIN log :
                     /\ log[j].time < start
                     /\ \A k \in DOMAIN log : k > j => log[k].time >= start}}
    IN  tail \cup close

FilesOf(start) ==
    {base} \cup {rotated[d] : d \in {e \in DOMAIN rotated : e = DayOf(start)}}

\* A query reads the records from its start on, and the last one before.
LEMMA WindowIs ==
  ASSUME NEW from \in Nat, NEW to \in Nat, from <= to
  PROVE  Window({from, to}) = UNION {ReadOf(log, from) : log \in FilesOf(from)}
<1>1. Min({from, to}) = from
  BY MinOfTwo
<1>2. ToSet(PointingLogs({from, to})) = FilesOf(from)
  <2>1. CASE DayOf(from) \in DOMAIN rotated
    <3>1. PICK a, b : a = base /\ b = rotated[DayOf(from)]
      OBVIOUS
    <3>2. PointingLogs({from, to}) = <<a>> \o <<b>>
      BY <1>1, <2>1, <3>1 DEF PointingLogs
    <3>3. ToSet(<<a>> \o <<b>>) = {a, b}
      BY DEF ToSet
    <3>4. FilesOf(from) = {a, b}
      BY <2>1, <3>1 DEF FilesOf
    <3>5. QED BY <3>2, <3>3, <3>4
  <2>2. CASE DayOf(from) \notin DOMAIN rotated
    <3>1. PICK a : a = base
      OBVIOUS
    <3>2. PointingLogs({from, to}) = <<a>> \o <<>>
      BY <1>1, <2>2, <3>1 DEF PointingLogs
    <3>3. ToSet(<<a>> \o <<>>) = {a}
      BY DEF ToSet
    <3>4. FilesOf(from) = {a}
      BY <2>2, <3>1 DEF FilesOf
    <3>5. QED BY <3>2, <3>3, <3>4
  <2>3. QED BY <2>1, <2>2
<1>3. Window({from, to}) =
        UNION {ReadOf(log, Min({from, to})) : log \in ToSet(PointingLogs({from, to}))}
  BY Zenon DEF Window, ReadOf
<1>4. QED BY <1>1, <1>2, <1>3

\* Of a file it reads nothing but its records, all from the start on, and one that
\* no other of the file comes after before the start.
LEMMA ReadIs ==
  ASSUME NEW log \in Seq(LogRecords), Rising(log), NEW start \in Nat
  PROVE  /\ ReadOf(log, start) \subseteq TimesOf(log)
         /\ \A t \in TimesOf(log) : t >= start => t \in ReadOf(log, start)
         /\ \A t \in TimesOf(log) :
              t < start /\ (\A u \in TimesOf(log) : u > t => u >= start)
                => t \in ReadOf(log, start)
<1>1. \A i \in DOMAIN log : log[i].time \in Nat /\ log[i].time \in TimesOf(log)
  BY TimesAre
<1>2. DOMAIN log \subseteq Nat
  OBVIOUS
<1>3. ReadOf(log, start) \subseteq TimesOf(log)
  BY DEF ReadOf, TimesOf
<1>4. \A t \in TimesOf(log) : t >= start => t \in ReadOf(log, start)
  BY DEF ReadOf, TimesOf
<1>5. ASSUME NEW t \in TimesOf(log), t < start, \A u \in TimesOf(log) : u > t => u >= start
      PROVE  t \in ReadOf(log, start)
  <2>1. PICK j \in DOMAIN log : t = log[j].time
    BY DEF TimesOf
  <2>2. ASSUME NEW k \in DOMAIN log, k > j PROVE log[k].time >= start
    <3>1. log[j].time < log[k].time
      BY <1>2, <2>1, <2>2 DEF Rising
    <3>2. log[k].time > t
      BY <1>1, <2>1, <3>1
    <3>3. QED BY <1>1, <1>5, <3>2
  <2>3. QED BY <1>5, <2>1, <2>2 DEF ReadOf
<1>6. QED BY <1>3, <1>4, <1>5

\* Of any samples one is nearest.
LEMMA OneIsNearest ==
  ASSUME NEW T, T \subseteq Nat, T # {}, NEW at \in Nat
  PROVE  \E t \in T : \A u \in T : Distance(at, t) <= Distance(at, u)
<1>1. \A t \in T : Distance(at, t) \in Nat
  BY DEF Distance
<1>2. PICK D : D = {Distance(at, t) : t \in T}
  OBVIOUS
<1>3. D \subseteq Nat /\ D # {}
  BY <1>1, <1>2
<1>4. PICK d \in D : \A e \in D : d <= e
  BY <1>3, LeastNumber
<1>5. QED BY <1>2, <1>4

\* What a query finds is what was sampled (DailyLogs): all of the range, and the nearest.
LEMMA PointingRead ==
  ASSUME LogFiles, subject = "pointing"
  PROVE  PointingIsTrue
<1>1. LogTypes /\ KeptTill(rollover) /\ AllInFiles /\ PointingRises
  BY DEF LogFiles
<1>2. clock \in Nat /\ Samples = TimesOf(written) /\ Samples \subseteq Nat
  BY <1>1, TimesAre DEF LogTypes, Samples, TimesOf
<1>3. SUFFICES ASSUME NEW from \in 0..clock, NEW to \in 0..clock, from <= to,
                      \A d \in DOMAIN rotated : d <= DayOf(from)
               PROVE  /\ PointingOfRange(from, to) = Samples \cap (from..to)
                      /\ \A at \in {from, to} :
                           LET near == {t \in Samples : \A u \in Samples :
                                           Distance(at, t) <= Distance(at, u)}
                           IN  (\A t \in near : DayOf(t) >= DayOf(from))
                                 => Nearest(at, {from, to}) = near
  BY DEF PointingIsTrue
<1>4. from \in Nat /\ to \in Nat /\ DayOf(from) \in Nat
  BY <1>2, Days
<1>5. PICK W : W = Window({from, to})
  OBVIOUS
<1>6. W = UNION {ReadOf(log, from) : log \in FilesOf(from)}
  BY <1>3, <1>4, <1>5, WindowIs
<1>7. /\ TimesOf(written) = TimesOf(base) \cup UNION {TimesOf(rotated[d]) : d \in DOMAIN rotated}
      /\ \A d \in DOMAIN rotated : d \in Nat /\ rotated[d] \in Seq(LogRecords)
                                   /\ OfDay(rotated[d], d) /\ Rising(rotated[d])
      /\ base \in Seq(LogRecords) /\ Rising(base)
  BY <1>1 DEF LogTypes, KeptTill, AllInFiles, PointingRises
<1>8. \A log \in FilesOf(from) : /\ log \in Seq(LogRecords) /\ Rising(log)
                                 /\ TimesOf(log) \subseteq Samples
  BY <1>2, <1>7 DEF FilesOf
<1>9. ASSUME NEW t \in Samples, t >= from \/ DayOf(t) = DayOf(from)
      PROVE  \E log \in FilesOf(from) : t \in TimesOf(log)
  <2>1. CASE t \in TimesOf(base)
    BY <2>1 DEF FilesOf
  <2>2. CASE t \notin TimesOf(base)
    <3>1. PICK d \in DOMAIN rotated : t \in TimesOf(rotated[d])
      BY <1>2, <1>7, <2>2
    <3>2. DayOf(t) = d /\ d \in Nat /\ d <= DayOf(from)
      BY <1>3, <1>7, <3>1 DEF OfDay, TimesOf
    <3>3. d = DayOf(from)
      <4>1. t >= from => DayOf(from) <= DayOf(t)
        BY <1>2, <1>4, DaysGo
      <4>2. QED BY <1>4, <1>9, <3>2, <4>1
    <3>4. QED BY <3>1, <3>3 DEF FilesOf
  <2>3. QED BY <2>1, <2>2
<1>10. W \subseteq Samples
  BY <1>4, <1>6, <1>8, ReadIs
<1>11. ASSUME NEW t \in Samples, t >= from PROVE t \in W
  <2>1. PICK log \in FilesOf(from) : t \in TimesOf(log)
    BY <1>9, <1>11
  <2>2. t \in ReadOf(log, from)
    BY <1>4, <1>8, <1>11, <2>1, ReadIs
  <2>3. QED BY <1>6, <2>1, <2>2
<1>12. PointingOfRange(from, to) = Samples \cap (from..to)
  <2>1. PointingOfRange(from, to) = {t \in W : t \in from..to}
    BY <1>5 DEF PointingOfRange
  <2>2. \A t \in from..to : t >= from
    BY <1>4
  <2>3. QED BY <1>10, <1>11, <2>1, <2>2
<1>13. ASSUME NEW at \in {from, to}, NEW near,
              near = {t \in Samples : \A u \in Samples : Distance(at, t) <= Distance(at, u)},
              \A t \in near : DayOf(t) >= DayOf(from)
       PROVE  Nearest(at, {from, to}) = near
  <2>1. at \in Nat /\ at >= from
    BY <1>3, <1>4
  <2>2. Nearest(at, {from, to}) = {t \in W : \A u \in W : Distance(at, t) <= Distance(at, u)}
    BY <1>5 DEF Nearest
  <2>3. ASSUME NEW t \in near PROVE t \in W
    <3>1. t \in Samples /\ t \in Nat /\ \A u \in Samples : Distance(at, t) <= Distance(at, u)
      BY <1>2, <1>13
    <3>2. CASE t >= from
      BY <1>11, <3>1, <3>2
    <3>3. CASE t < from
      <4>1. DayOf(t) = DayOf(from)
        <5>1. DayOf(t) <= DayOf(from) /\ DayOf(t) \in Nat
          BY <1>4, <3>1, <3>3, Days, DaysGo
        <5>2. QED BY <1>4, <1>13, <5>1
      <4>2. ASSUME NEW u \in Samples, u > t PROVE u >= from
        <5>1. Distance(at, t) <= Distance(at, u) /\ u \in Nat
          BY <1>2, <3>1
        <5>2. QED BY <1>4, <2>1, <3>1, <3>3, <4>2, <5>1 DEF Distance
      <4>3. PICK log \in FilesOf(from) : t \in TimesOf(log)
        BY <1>9, <3>1, <4>1
      <4>4. \A u \in TimesOf(log) : u > t => u >= from
        BY <1>8, <4>2
      <4>5. t \in ReadOf(log, from)
        BY <1>4, <1>8, <3>3, <4>3, <4>4, ReadIs
      <4>6. QED BY <1>6, <4>3, <4>5
    <3>4. QED BY <1>4, <3>1, <3>2, <3>3
  <2>4. \A t \in near : t \in W /\ \A u \in W : Distance(at, t) <= Distance(at, u)
    BY <1>10, <1>13, <2>3
  <2>5. ASSUME NEW t \in W, \A u \in W : Distance(at, t) <= Distance(at, u)
        PROVE  t \in near
    <3>1. t \in Samples /\ Samples # {}
      BY <1>10
    <3>2. PICK n \in Samples : \A u \in Samples : Distance(at, n) <= Distance(at, u)
      BY <1>2, <2>1, <3>1, OneIsNearest
    <3>3. Distance(at, t) <= Distance(at, n)
      BY <1>13, <2>3, <2>5, <3>2
    <3>4. ASSUME NEW u \in Samples PROVE Distance(at, t) <= Distance(at, u)
      <4>1. Distance(at, n) <= Distance(at, u)
        BY <3>2
      <4>2. Distance(at, t) \in Nat /\ Distance(at, n) \in Nat /\ Distance(at, u) \in Nat
        BY <1>2, <2>1, <3>1 DEF Distance
      <4>3. QED BY <3>3, <4>1, <4>2
    <3>5. QED BY <1>13, <3>1, <3>4
  <2>6. QED BY <2>2, <2>4, <2>5
<1>14. QED BY <1>12, <1>13

\* The inductive invariant of the logs.
THEOREM LogsInvariant == LogsSpec => []LogFiles
<1>1. QED BY LogsStart, LogsStep, PTL DEF LogsSpec

\* PointingIsTrue, the part of LogsAreTrue about the pointing log, for every length of a day
\* and however the poll, the crashes and the renaming at midnight fall.
THEOREM PointingIsFound == LogsSpec => [](subject = "pointing" => PointingIsTrue)
<1>1. LogFiles => (subject = "pointing" => PointingIsTrue)
  BY PointingRead
<1>2. QED BY <1>1, LogsInvariant, PTL
=============================================================================
