-------------------------- MODULE ResourceAllocation --------------------------
(***************************************************************************)
(* How the Observation Execution Tool shares one dish and its digitiser    *)
(* between observations: the allocation list of src/src/models/tm.py and   *)
(* assign_resources, _release_aborted_resource_owners and                  *)
(* release_resources of src/src/obs/oet.py.  Each observation has at most  *)
(* one thread working for it (its observation lock).  Assignments hold     *)
(* _rlock from the search for aborted owners to the last grant; releases   *)
(* take no lock and run between any two of their steps, and so does time.  *)
(*                                                                         *)
(* Abstracted: the history of RELEASED entries (an observation has at most *)
(* one live entry per resource, request_allocation returns it again); the  *)
(* expiry time, which is the end of the owner's scheduling block; the      *)
(* configuring, ready and scanning states, merged into "ENGAGED".          *)
(***************************************************************************)
EXTENDS Integers, FiniteSets

CONSTANTS Obs,       \* observations that want the same dish in overlapping blocks
          NoObs,     \* nobody
          MaxAborts, \* bound: ABORT transitions
          MaxResets, \* bound: RESET transitions
          MaxEnds    \* bound: scheduling blocks that end

ASSUME NoObsAssumption == NoObs \notin Obs
ASSUME BoundsAssumption == {MaxAborts, MaxResets, MaxEnds} \subseteq Nat

VARIABLES alloc,     \* alloc[r][o]: state of o's entry for resource r
          ended,     \* observations whose scheduling block is over
          obsState,  \* obs_state
          done,      \* every scan of the observation is complete
          assignQ,   \* ASSIGN_RESOURCES events that wait in the queue
          configQ,   \* CONFIGURE_RESOURCES events that wait in the queue
          rlock,     \* holder of the OET's _rlock
          pc,        \* where the thread working for o is
          idx,       \* next resource it handles
          victims,   \* aborted_owners it has collected
          request,   \* whether request_allocation returned an entry
          granted,   \* granted_all_resources
          freed,     \* released_active_resources
          aborts, resets \* counters for the bounds

vars == <<alloc, ended, obsState, done, assignQ, configQ, rlock, pc, idx,
          victims, request, granted, freed, aborts, resets>>

events == <<assignQ, configQ>>
locals == <<idx, victims, request, granted, freed>>
bounds == <<ended, aborts, resets>>

Resources == {"dish", "digitiser"}

\* The dish is handled before the digitiser.
ResourceAt(i) == IF i = 1 THEN "dish" ELSE "digitiser"

-----------------------------------------------------------------------------
(* ResourceAllocations *)

\* get_allocations marks what has expired as RELEASED, whatever it is asked for.
Sweep(a) == [r \in Resources |-> [o \in Obs |->
                IF o \in ended THEN "RELEASED" ELSE a[r][o]]]

\* get_active_allocation
Holders(a, r) == {o \in Obs : a[r][o] = "ACTIVE"}

\* release_allocation for every entry get_allocations returned
ReleaseAll(a, O) == [r \in Resources |-> [o \in Obs |->
                       IF o \in O THEN "RELEASED" ELSE a[r][o]]]

-----------------------------------------------------------------------------

Init == /\ alloc = [r \in Resources |-> [o \in Obs |-> "RELEASED"]]
        /\ ended = {}
        /\ obsState = [o \in Obs |-> "EMPTY"]
        /\ done = [o \in Obs |-> FALSE]
        /\ assignQ = [o \in Obs |-> FALSE]
        /\ configQ = [o \in Obs |-> FALSE]
        /\ rlock = NoObs
        /\ pc = [o \in Obs |-> "idle"]
        /\ idx = [o \in Obs |-> 1]
        /\ victims = [o \in Obs |-> {}]
        /\ request = [o \in Obs |-> FALSE]
        /\ granted = [o \in Obs |-> TRUE]
        /\ freed = [o \in Obs |-> FALSE]
        /\ aborts = 0
        /\ resets = 0

\* START: the observation's block has begun.
Start(o) ==
    /\ pc[o] = "idle" /\ obsState[o] = "EMPTY" /\ o \notin ended
    /\ obsState' = [obsState EXCEPT ![o] = "IDLE"]
    /\ assignQ' = [assignQ EXCEPT ![o] = TRUE]
    /\ UNCHANGED <<alloc, done, configQ, rlock, pc, locals, bounds>>

\* ASSIGN_RESOURCES outside IDLE is ignored.
AssignIgnored(o) ==
    /\ pc[o] = "idle" /\ assignQ[o] /\ obsState[o] # "IDLE"
    /\ assignQ' = [assignQ EXCEPT ![o] = FALSE]
    /\ UNCHANGED <<alloc, obsState, done, configQ, rlock, pc, locals, bounds>>

\* Mutant: assign_resources without _rlock.
AssignUnlocked(o) ==
    /\ pc[o] = "idle" /\ assignQ[o] /\ obsState[o] = "IDLE"
    /\ rlock' = o
    /\ assignQ' = [assignQ EXCEPT ![o] = FALSE]
    /\ pc' = [pc EXCEPT ![o] = "search"]
    /\ idx' = [idx EXCEPT ![o] = 1]
    /\ victims' = [victims EXCEPT ![o] = {}]
    /\ granted' = [granted EXCEPT ![o] = TRUE]
    /\ UNCHANGED <<alloc, obsState, done, configQ, request, freed, bounds>>

\* ASSIGN_RESOURCES in IDLE: with self._rlock
AssignLock(o) ==
    /\ pc[o] = "idle" /\ assignQ[o] /\ obsState[o] = "IDLE"
    /\ rlock = NoObs
    /\ rlock' = o
    /\ assignQ' = [assignQ EXCEPT ![o] = FALSE]
    /\ pc' = [pc EXCEPT ![o] = "search"]
    /\ idx' = [idx EXCEPT ![o] = 1]
    /\ victims' = [victims EXCEPT ![o] = {}]
    /\ granted' = [granted EXCEPT ![o] = TRUE]
    /\ UNCHANGED <<alloc, obsState, done, configQ, request, freed, bounds>>

\* The active owner of one resource is collected if it is another, ABORTED observation.
SearchOwner(o) ==
    /\ pc[o] = "search"
    /\ alloc' = Sweep(alloc)
    /\ victims' = [victims EXCEPT ![o] = @ \cup
          {v \in Holders(alloc', ResourceAt(idx[o])) \ {o} : obsState[v] = "ABORTED"}]
    /\ IF idx[o] = 1
       THEN idx' = [idx EXCEPT ![o] = 2] /\ UNCHANGED pc
       ELSE idx' = [idx EXCEPT ![o] = 1] /\ pc' = [pc EXCEPT ![o] = "preempt"]
    /\ UNCHANGED <<obsState, done, events, rlock, request, granted, freed, bounds>>

\* release_resources for every collected owner.
Preempt(o) ==
    /\ pc[o] = "preempt"
    /\ alloc' = ReleaseAll(Sweep(alloc), victims[o])
    /\ pc' = [pc EXCEPT ![o] = "request"]
    /\ UNCHANGED <<obsState, done, events, rlock, locals, bounds>>

\* request_allocation: None if the block is over or another observation is active.
Request(o) ==
    LET r == ResourceAt(idx[o])
        swept == Sweep(alloc)
        refused == o \in ended \/ Holders(swept, r) \ {o} # {}
    IN /\ pc[o] = "request"
       /\ alloc' = IF refused \/ swept[r][o] # "RELEASED" THEN swept
                   ELSE [swept EXCEPT ![r][o] = "REQUESTED"]
       /\ request' = [request EXCEPT ![o] = ~refused]
       /\ pc' = [pc EXCEPT ![o] = "grant"]
       /\ UNCHANGED <<obsState, done, events, rlock, idx, victims, granted, freed, bounds>>

\* On to the digitiser, or out of the locked section.
NextResource(o) ==
    IF idx[o] = 1
    THEN idx' = [idx EXCEPT ![o] = 2] /\ pc' = [pc EXCEPT ![o] = "request"]
    ELSE idx' = [idx EXCEPT ![o] = 1] /\ pc' = [pc EXCEPT ![o] = "unlock"]

\* get_active_allocation, handle_resource_allocation and the two tests of
\* grant_allocation, which raises unless the entry is still REQUESTED.
Grant(o) ==
    LET r == ResourceAt(idx[o])
        swept == Sweep(alloc)
        free == request[o] /\ Holders(swept, r) = {} /\ swept[r][o] = "REQUESTED"
        mine == request[o] /\ o \in Holders(swept, r)
    IN /\ pc[o] = "grant"
       /\ alloc' = swept
       /\ granted' = [granted EXCEPT ![o] = @ /\ (free \/ mine)]
       /\ IF free
          THEN pc' = [pc EXCEPT ![o] = "set"] /\ UNCHANGED idx
          ELSE NextResource(o)
       /\ UNCHANGED <<obsState, done, events, rlock, victims, request, freed, bounds>>

\* allocation.state = AllocationState.ACTIVE
SetActive(o) ==
    /\ pc[o] = "set"
    /\ alloc' = [alloc EXCEPT ![ResourceAt(idx[o])][o] = "ACTIVE"]
    /\ NextResource(o)
    /\ UNCHANGED <<obsState, done, events, rlock, victims, request, granted, freed, bounds>>

\* _rlock is left; CONFIGURE_RESOURCES is queued if everything was granted.
AssignReturn(o) ==
    /\ pc[o] = "unlock"
    /\ rlock' = NoObs
    /\ configQ' = [configQ EXCEPT ![o] = @ \/ granted[o]]
    /\ pc' = [pc EXCEPT ![o] = "idle"]
    /\ UNCHANGED <<alloc, obsState, done, assignQ, locals, bounds>>

\* CONFIGURE_RESOURCES is accepted in IDLE and in every engaged state.
Configure(o) ==
    /\ pc[o] = "idle" /\ configQ[o]
    /\ configQ' = [configQ EXCEPT ![o] = FALSE]
    /\ obsState' = IF obsState[o] \in {"IDLE", "ENGAGED"}
                   THEN [obsState EXCEPT ![o] = "ENGAGED"] ELSE obsState
    /\ UNCHANGED <<alloc, done, assignQ, rlock, pc, locals, bounds>>

-----------------------------------------------------------------------------
(* release_resources for the observation itself: no lock is taken. *)

\* obs_state becomes IDLE; get_allocations returns the entries not expired.
ReleaseStart(o) ==
    /\ obsState' = [obsState EXCEPT ![o] = "IDLE"]
    /\ alloc' = Sweep(alloc)
    /\ pc' = [pc EXCEPT ![o] = "release"]
    /\ idx' = [idx EXCEPT ![o] = 1]
    /\ freed' = [freed EXCEPT ![o] = FALSE]

\* RELEASE_RESOURCES after the last scan.
Complete(o) ==
    /\ pc[o] = "idle" /\ obsState[o] = "ENGAGED" /\ ~done[o]
    /\ done' = [done EXCEPT ![o] = TRUE]
    /\ ReleaseStart(o)
    /\ UNCHANGED <<events, rlock, victims, request, granted, bounds>>

\* RELEASE_RESOURCES from the abort timer, which expires at the end of the block
\* and may be in the queue while the operator resets the observation.
AbortTimeout(o) ==
    /\ pc[o] = "idle" /\ obsState[o] \in {"ABORTED", "IDLE"} /\ o \in ended
    /\ ReleaseStart(o)
    /\ UNCHANGED <<done, events, rlock, victims, request, granted, bounds>>

\* Mutant: one entry too many.
ReleaseOnePastEnd(o) ==
    LET r == ResourceAt(idx[o])
    IN /\ pc[o] = "release"
       /\ freed' = [freed EXCEPT ![o] = @ \/ alloc[r][o] = "ACTIVE"]
       /\ alloc' = [alloc EXCEPT ![r][o] = "RELEASED"]
       /\ idx' = [idx EXCEPT ![o] = @ + 1]
       /\ UNCHANGED <<obsState, done, events, rlock, pc, victims, request, granted, bounds>>

\* release_allocation, one entry after the other.
ReleaseOne(o) ==
    LET r == ResourceAt(idx[o])
    IN /\ pc[o] = "release" /\ idx[o] <= 2
       /\ freed' = [freed EXCEPT ![o] = @ \/ alloc[r][o] = "ACTIVE"]
       /\ alloc' = [alloc EXCEPT ![r][o] = "RELEASED"]
       /\ idx' = [idx EXCEPT ![o] = @ + 1]
       /\ UNCHANGED <<obsState, done, events, rlock, pc, victims, request, granted, bounds>>

\* Who waits in IDLE within its block is assigned again, if something was freed.
Waiting == {o \in Obs : obsState[o] = "IDLE" /\ o \notin ended}

\* Mutant: nobody is told.
ReleaseReturnSilently(o) ==
    /\ pc[o] = "release" /\ idx[o] = 3
    /\ pc' = [pc EXCEPT ![o] = "idle"]
    /\ idx' = [idx EXCEPT ![o] = 1]
    /\ UNCHANGED <<alloc, obsState, done, events, rlock, victims, request, granted, freed, bounds>>

ReleaseReturn(o) ==
    /\ pc[o] = "release" /\ idx[o] = 3
    /\ assignQ' = [w \in Obs |-> assignQ[w] \/ (freed[o] /\ w \in Waiting \ {o})]
    /\ pc' = [pc EXCEPT ![o] = "idle"]
    /\ idx' = [idx EXCEPT ![o] = 1]
    /\ UNCHANGED <<alloc, obsState, done, configQ, rlock, victims, request, granted, freed, bounds>>

-----------------------------------------------------------------------------

\* ABORT of a started observation, engaged or not.
Abort(o) ==
    /\ pc[o] = "idle" /\ obsState[o] \in {"IDLE", "ENGAGED"} /\ aborts < MaxAborts
    /\ aborts' = aborts + 1
    /\ obsState' = [obsState EXCEPT ![o] = "ABORTED"]
    /\ UNCHANGED <<alloc, ended, done, events, rlock, pc, locals, resets>>

\* An observation engaged again although every scan is complete has no target
\* configuration left to apply: it is aborted when the configuration times out.
ConfigureTimeout(o) ==
    /\ pc[o] = "idle" /\ obsState[o] = "ENGAGED" /\ done[o]
    /\ obsState' = [obsState EXCEPT ![o] = "ABORTED"]
    /\ UNCHANGED <<alloc, done, events, rlock, pc, locals, bounds>>

\* RESET by the operator: assigned again unless the block is over.
Reset(o) ==
    /\ pc[o] = "idle" /\ obsState[o] \in {"ABORTED", "IDLE"} /\ resets < MaxResets
    /\ resets' = resets + 1
    /\ obsState' = [obsState EXCEPT ![o] = "IDLE"]
    /\ done' = [done EXCEPT ![o] = FALSE]
    /\ assignQ' = [assignQ EXCEPT ![o] = @ \/ o \notin ended]
    /\ UNCHANGED <<alloc, ended, configQ, rlock, pc, locals, aborts>>

\* The clock passes scheduling_block_end.
BlockEnds(o) ==
    /\ o \notin ended /\ Cardinality(ended) < MaxEnds
    /\ ended' = ended \cup {o}
    /\ UNCHANGED <<alloc, obsState, done, events, rlock, pc, locals, aborts, resets>>

\* What the threads of the Telescope Manager do once an event is there.
Step(o) == \/ AssignIgnored(o) \/ AssignLock(o) \/ SearchOwner(o) \/ Preempt(o)
           \/ Request(o) \/ Grant(o) \/ SetActive(o) \/ AssignReturn(o) \/ Configure(o)
           \/ ReleaseOne(o) \/ ReleaseReturn(o)

Next == \E o \in Obs : \/ Step(o) \/ Start(o) \/ Complete(o) \/ AbortTimeout(o)
                       \/ Abort(o) \/ ConfigureTimeout(o) \/ Reset(o) \/ BlockEnds(o)

Spec == Init /\ [][Next]_vars

\* Processors work off their queue, _rlock is handed on (strong fairness: it is
\* free only now and then), scans complete and timers fire.  A block may be as long
\* as it takes.
FairSpec == /\ Spec
            /\ \A o \in Obs : /\ SF_vars(Step(o))
                              /\ WF_vars(Start(o))
                              /\ WF_vars(Complete(o))
                              /\ WF_vars(ConfigureTimeout(o))
                              /\ WF_vars(AbortTimeout(o))

-----------------------------------------------------------------------------
(* Properties *)

TypeOK ==
    /\ alloc \in [Resources -> [Obs -> {"RELEASED", "REQUESTED", "ACTIVE"}]]
    /\ ended \subseteq Obs
    /\ obsState \in [Obs -> {"EMPTY", "IDLE", "ENGAGED", "ABORTED"}]
    /\ done \in [Obs -> BOOLEAN]
    /\ assignQ \in [Obs -> BOOLEAN]
    /\ configQ \in [Obs -> BOOLEAN]
    /\ rlock \in Obs \cup {NoObs}
    /\ pc \in [Obs -> {"idle", "search", "preempt", "request", "grant", "set",
                    "unlock", "release"}]
    /\ idx \in [Obs -> 1..3]
    /\ victims \in [Obs -> SUBSET Obs]
    /\ request \in [Obs -> BOOLEAN]
    /\ granted \in [Obs -> BOOLEAN]
    /\ freed \in [Obs -> BOOLEAN]
    /\ aborts \in Nat
    /\ resets \in Nat

\* A resource is never actively allocated to two observations, whatever
\* releases, expiries and preemptions run beside the assignment.
OneActive ==
    \A r \in Resources : \A o, w \in Obs :
      alloc[r][o] = "ACTIVE" /\ alloc[r][w] = "ACTIVE" => o = w

\* An entry is REQUESTED only while its owner is inside assign_resources.
RequestIsTransient ==
    \A r \in Resources : \A o \in Obs : alloc[r][o] = "REQUESTED" => rlock = o \/ o \in ended

\* Who waits for the dish gets it: an observation in IDLE within its block and
\* with scans to do is engaged in the end, unless it is aborted or its block ends.
WaitingIsServed ==
    \A o \in Obs : (o \in Waiting /\ ~done[o])
                     ~> (obsState[o] \in {"ENGAGED", "ABORTED"} \/ o \in ended)

\* The same, for as long as nothing has been aborted or reset and no block has ended:
\* who keeps one of the two resources and waits for the other is woken in time.
UndisturbedIsServed ==
    \A o \in Obs : (o \in Waiting /\ ~done[o])
                     ~> (obsState[o] = "ENGAGED" \/ aborts + resets > 0 \/ ended # {})

=============================================================================
