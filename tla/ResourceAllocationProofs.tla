----------------------- MODULE ResourceAllocationProofs -----------------------
(***************************************************************************)
(* Proofs about ResourceAllocation for every set of observations and every *)
(* number of aborts, resets and expired blocks.  Assignments exclude one   *)
(* another (LockHeld), so that between request_allocation and the grant    *)
(* the entries of the others can only be released: what a thread saw when  *)
(* it tested the resource is still true when it sets the entry to ACTIVE   *)
(* (Unrivalled).  Releases need no lock for this.                          *)
(***************************************************************************)
EXTENDS ResourceAllocation, TLAPS

\* The steps of assign_resources that run under _rlock.
Locked == {"search", "preempt", "request", "grant", "set", "unlock"}

\* The thread that holds _rlock is the one inside the locked section.
LockHeld == \A o \in Obs : /\ pc[o] \in Locked <=> rlock = o
                           /\ pc[o] \in Locked => idx[o] \in {1, 2}

\* The resource in hand has no other active entry once the request was accepted,
\* and none at all when the grant is about to set it.
Unrivalled ==
    \A o, w \in Obs :
      /\ pc[o] = "grant" /\ request[o] /\ alloc[ResourceAt(idx[o])][w] = "ACTIVE" => w = o
      /\ pc[o] = "set" => alloc[ResourceAt(idx[o])][w] # "ACTIVE"

\* A requested entry is the one in hand, unless its owner's block is over.
RequestedInHand ==
    \A r \in Resources : \A o \in Obs :
      alloc[r][o] = "REQUESTED" =>
        \/ o \in ended
        \/ /\ r = ResourceAt(idx[o])
           /\ pc[o] = "set" \/ (pc[o] = "grant" /\ request[o])

IInv == TypeOK /\ LockHeld /\ Unrivalled /\ RequestedInHand /\ OneActive

\* A step that changes the entries only by releasing some of them.
OnlyReleases ==
    \A r \in Resources : \A o \in Obs : alloc'[r][o] \in {alloc[r][o], "RELEASED"}

-----------------------------------------------------------------------------

\* What get_allocations and release_resources do to the list: they keep its
\* type and change an entry only to RELEASED.
LEMMA SweepReleases ==
  ASSUME TypeOK
  PROVE  /\ Sweep(alloc) \in [Resources -> [Obs -> {"RELEASED", "REQUESTED", "ACTIVE"}]]
         /\ \A r \in Resources : \A o \in Obs :
              /\ Sweep(alloc)[r][o] \in {alloc[r][o], "RELEASED"}
              /\ o \in ended => Sweep(alloc)[r][o] = "RELEASED"
              /\ o \notin ended => Sweep(alloc)[r][o] = alloc[r][o]
BY DEF TypeOK, Sweep

LEMMA ReleaseAllReleases ==
  ASSUME TypeOK, NEW O
  PROVE  /\ ReleaseAll(Sweep(alloc), O)
              \in [Resources -> [Obs -> {"RELEASED", "REQUESTED", "ACTIVE"}]]
         /\ \A r \in Resources : \A o \in Obs :
              ReleaseAll(Sweep(alloc), O)[r][o] \in {alloc[r][o], "RELEASED"}
BY SweepReleases DEF ReleaseAll

LEMMA ResourceAtInResources == \A i : ResourceAt(i) \in Resources
BY DEF ResourceAt, Resources

\* On to the digitiser, or to the end of the locked section.
LEMMA NextResourceMoves ==
  ASSUME TypeOK, NEW o \in Obs, NextResource(o)
  PROVE  /\ idx' \in [Obs -> 1..3]
         /\ idx'[o] \in {1, 2} /\ \A w \in Obs \ {o} : idx'[w] = idx[w]
         /\ pc' \in [Obs -> Locked \cup {"idle", "release"}]
         /\ pc'[o] \in {"request", "unlock"} /\ \A w \in Obs \ {o} : pc'[w] = pc[w]
<1>1. idx \in [Obs -> 1..3] /\ pc \in [Obs -> Locked \cup {"idle", "release"}]
  BY DEF TypeOK, Locked
<1>2. \/ idx' = [idx EXCEPT ![o] = 2] /\ pc' = [pc EXCEPT ![o] = "request"]
      \/ idx' = [idx EXCEPT ![o] = 1] /\ pc' = [pc EXCEPT ![o] = "unlock"]
  BY DEF NextResource
<1>3. /\ idx' \in [Obs -> 1..3]
      /\ idx'[o] \in {1, 2} /\ \A w \in Obs \ {o} : idx'[w] = idx[w]
  BY <1>1, <1>2
<1>4. /\ pc' \in [Obs -> Locked \cup {"idle", "release"}]
      /\ pc'[o] \in {"request", "unlock"} /\ \A w \in Obs \ {o} : pc'[w] = pc[w]
  BY <1>1, <1>2 DEF Locked
<1>5. QED BY <1>3, <1>4

\* Type correctness is inductive on its own.
LEMMA TypeStep ==
  ASSUME TypeOK, NEW o \in Obs, Step(o)
  PROVE  TypeOK'
<1> USE SweepReleases, ReleaseAllReleases, ResourceAtInResources
    DEF TypeOK, events, locals, bounds
<1>1. CASE AssignIgnored(o) BY <1>1 DEF AssignIgnored
<1>2. CASE AssignLock(o) BY <1>2 DEF AssignLock
<1>3. CASE SearchOwner(o)
  <2>1. victims' \in [Obs -> SUBSET Obs]
    BY <1>3 DEF SearchOwner, Holders
  <2>2. idx' \in [Obs -> 1..3]
    <3>1. idx' = [idx EXCEPT ![o] = 2] \/ idx' = [idx EXCEPT ![o] = 1]
      BY <1>3 DEF SearchOwner
    <3>2. QED BY <3>1
  <2>3. pc' = pc \/ pc' = [pc EXCEPT ![o] = "preempt"]
    BY <1>3 DEF SearchOwner
  <2>4. QED BY <1>3, <2>1, <2>2, <2>3 DEF SearchOwner
<1>4. CASE Preempt(o) BY <1>4 DEF Preempt
<1>5. CASE Request(o) BY <1>5 DEF Request
<1>6. CASE Grant(o)
  <2>1. granted' \in [Obs -> BOOLEAN]
    BY <1>6 DEF Grant
  <2>2. NextResource(o) \/ (UNCHANGED idx /\ pc' = [pc EXCEPT ![o] = "set"])
    BY <1>6 DEF Grant
  <2>3. idx' \in [Obs -> 1..3] /\ pc' \in [Obs -> Locked \cup {"idle", "release"}]
    BY <2>2, NextResourceMoves DEF Locked
  <2>4. QED BY <1>6, <2>1, <2>3 DEF Grant, Locked
<1>7. CASE SetActive(o)
  BY <1>7, NextResourceMoves DEF SetActive, Locked
<1>8. CASE AssignReturn(o) BY <1>8 DEF AssignReturn
<1>9. CASE Configure(o) BY <1>9 DEF Configure
<1>10. CASE ReleaseOne(o)
  <2>1. freed' \in [Obs -> BOOLEAN] /\ alloc' \in [Resources -> [Obs -> {"RELEASED", "REQUESTED", "ACTIVE"}]]
    BY <1>10 DEF ReleaseOne
  <2>2. idx' \in [Obs -> 1..3]
    <3>1. idx' = [idx EXCEPT ![o] = idx[o] + 1] /\ idx[o] \in 1..2
      BY <1>10 DEF ReleaseOne
    <3>2. QED BY <3>1
  <2>3. QED BY <1>10, <2>1, <2>2 DEF ReleaseOne
<1>11. CASE ReleaseReturn(o) BY <1>11 DEF ReleaseReturn
<1>12. QED BY <1>1, <1>2, <1>3, <1>4, <1>5, <1>6, <1>7, <1>8, <1>9, <1>10, <1>11
           DEF Step

THEOREM TypeCorrect == Spec => []TypeOK
<1>1. Init => TypeOK
  BY DEF Init, TypeOK
<1>2. TypeOK /\ [Next]_vars => TypeOK'
  <2> SUFFICES ASSUME TypeOK, [Next]_vars PROVE TypeOK'
    OBVIOUS
  <2> USE SweepReleases DEF TypeOK, events, locals, bounds, ReleaseStart
  <2>1. ASSUME NEW o \in Obs, Step(o) PROVE TypeOK'
    BY <2>1, TypeStep
  <2>2. ASSUME NEW o \in Obs, Start(o) PROVE TypeOK'
    BY <2>2 DEF Start
  <2>3. ASSUME NEW o \in Obs, Complete(o) PROVE TypeOK'
    BY <2>3 DEF Complete
  <2>4. ASSUME NEW o \in Obs, AbortTimeout(o) PROVE TypeOK'
    BY <2>4 DEF AbortTimeout
  <2>5. ASSUME NEW o \in Obs, Abort(o) PROVE TypeOK'
    BY <2>5 DEF Abort
  <2>6. ASSUME NEW o \in Obs, ConfigureTimeout(o) PROVE TypeOK'
    BY <2>6 DEF ConfigureTimeout
  <2>7. ASSUME NEW o \in Obs, Reset(o) PROVE TypeOK'
    BY <2>7 DEF Reset
  <2>8. ASSUME NEW o \in Obs, BlockEnds(o) PROVE TypeOK'
    BY <2>8 DEF BlockEnds
  <2>9. CASE UNCHANGED vars
    BY <2>9 DEF vars
  <2>10. QED BY <2>1, <2>2, <2>3, <2>4, <2>5, <2>6, <2>7, <2>8, <2>9 DEF Next
<1>3. QED BY <1>1, <1>2, PTL DEF Spec

-----------------------------------------------------------------------------

\* A step that releases entries, leaves _rlock alone and moves only threads that
\* stay outside the locked section keeps what the locked thread relies on.
LEMMA ReleasesKeep ==
  ASSUME IInv, TypeOK', OnlyReleases, ended \subseteq ended', rlock' = rlock,
         \A w \in Obs : /\ request'[w] = request[w]
                        /\ \/ pc'[w] = pc[w] /\ idx'[w] = idx[w]
                           \/ pc[w] \notin Locked /\ pc'[w] \notin Locked
  PROVE  IInv'
<1> USE ResourceAtInResources DEF IInv, OnlyReleases
<1>1. LockHeld'
  BY DEF LockHeld
<1>2. OneActive'
  BY DEF OneActive
<1>3. Unrivalled'
  BY DEF Unrivalled, Locked
<1>4. RequestedInHand'
  BY DEF RequestedInHand, Locked
<1>5. QED BY <1>1, <1>2, <1>3, <1>4

LEMMA InitInv == Init => LockHeld /\ Unrivalled /\ RequestedInHand /\ OneActive
BY NoObsAssumption, ResourceAtInResources
   DEF Init, LockHeld, Unrivalled, RequestedInHand, OneActive, Locked

\* No entry is in anybody's hand while _rlock is free.
LEMMA AssignLockInv == ASSUME IInv, TypeOK', NEW o \in Obs, AssignLock(o) PROVE IInv'
<1> USE NoObsAssumption, ResourceAtInResources DEF IInv, TypeOK, AssignLock
<1>1. LockHeld'
  BY DEF LockHeld, Locked
<1>2. Unrivalled' /\ OneActive'
  BY DEF Unrivalled, OneActive, Locked
<1>3. RequestedInHand'
  BY DEF RequestedInHand, LockHeld, Locked, bounds
<1>4. QED BY <1>1, <1>2, <1>3

LEMMA SearchOwnerInv == ASSUME IInv, TypeOK', NEW o \in Obs, SearchOwner(o) PROVE IInv'
<1> USE SweepReleases, ResourceAtInResources DEF IInv, SearchOwner, bounds
<1>1. /\ OnlyReleases /\ rlock' = rlock /\ request' = request /\ ended' = ended
      /\ pc[o] = "search" /\ pc'[o] \in {"search", "preempt"} /\ idx'[o] \in {1, 2}
      /\ \A w \in Obs \ {o} : pc'[w] = pc[w] /\ idx'[w] = idx[w]
  BY DEF OnlyReleases, TypeOK
<1>2. LockHeld'
  BY <1>1 DEF LockHeld, Locked
<1>3. Unrivalled'
  BY <1>1 DEF Unrivalled, OnlyReleases
<1>4. RequestedInHand' /\ OneActive'
  BY <1>1 DEF RequestedInHand, OneActive, OnlyReleases
<1>5. QED BY <1>2, <1>3, <1>4

LEMMA PreemptInv == ASSUME IInv, TypeOK', NEW o \in Obs, Preempt(o) PROVE IInv'
<1> USE ReleaseAllReleases, ResourceAtInResources DEF IInv, Preempt, bounds, locals
<1>1. /\ OnlyReleases /\ rlock' = rlock /\ request' = request /\ ended' = ended /\ idx' = idx
      /\ pc[o] = "preempt" /\ pc'[o] = "request"
      /\ \A w \in Obs \ {o} : pc'[w] = pc[w]
  BY DEF OnlyReleases, TypeOK
<1>2. LockHeld'
  BY <1>1 DEF LockHeld, Locked
<1>3. Unrivalled'
  BY <1>1 DEF Unrivalled, OnlyReleases
<1>4. RequestedInHand' /\ OneActive'
  BY <1>1 DEF RequestedInHand, OneActive, OnlyReleases
<1>5. QED BY <1>2, <1>3, <1>4

\* An accepted request has seen no other active entry; a refused one adds none.
LEMMA RequestInv == ASSUME IInv, TypeOK', NEW o \in Obs, Request(o) PROVE IInv'
<1> DEFINE r == ResourceAt(idx[o])
           refused == o \in ended \/ Holders(Sweep(alloc), r) \ {o} # {}
<1> USE SweepReleases, ResourceAtInResources DEF IInv, bounds
<1>1. /\ rlock' = rlock /\ ended' = ended /\ idx' = idx
      /\ pc[o] = "request" /\ pc'[o] = "grant"
      /\ \A w \in Obs \ {o} : pc'[w] = pc[w] /\ request'[w] = request[w]
  BY DEF Request, TypeOK
<1>2. /\ request'[o] = ~refused
      /\ \A s \in Resources, w \in Obs :
           \/ alloc'[s][w] \in {alloc[s][w], "RELEASED"}
           \/ ~refused /\ s = r /\ w = o /\ alloc'[s][w] = "REQUESTED"
  BY DEF Request, TypeOK
<1>3. ~refused => \A w \in Obs : alloc[r][w] = "ACTIVE" => w = o \/ w \in ended
  BY DEF Holders
<1>4. \A s \in Resources, w \in Obs : w \in ended => alloc'[s][w] # "ACTIVE"
  BY <1>2 DEF Request, TypeOK
<1>5. LockHeld'
  BY <1>1 DEF LockHeld, Locked
<1>6. Unrivalled'
  <2> SUFFICES ASSUME NEW w \in Obs, NEW v \in Obs
      PROVE  /\ pc'[w] = "grant" /\ request'[w] /\ alloc'[ResourceAt(idx[w])][v] = "ACTIVE" => v = w
             /\ pc'[w] = "set" => alloc'[ResourceAt(idx[w])][v] # "ACTIVE"
    BY <1>1 DEF Unrivalled
  <2>1. CASE w = o
    <3>1. ~refused /\ alloc'[r][v] = "ACTIVE" => v = o
      BY <1>2, <1>3, <1>4
    <3>2. QED BY <2>1, <3>1, <1>1, <1>2, Zenon
  <2>2. CASE w # o
    BY <2>2, <1>1 DEF LockHeld, Locked
  <2>3. QED BY <2>1, <2>2
<1>7. RequestedInHand'
  <2> SUFFICES ASSUME NEW s \in Resources, NEW w \in Obs, alloc'[s][w] = "REQUESTED", w \notin ended
      PROVE  s = ResourceAt(idx[w]) /\ (pc'[w] = "set" \/ (pc'[w] = "grant" /\ request'[w]))
    BY <1>1 DEF RequestedInHand
  <2>1. CASE alloc[s][w] = "REQUESTED"
    <3>1. s = ResourceAt(idx[w]) /\ (pc[w] = "set" \/ (pc[w] = "grant" /\ request[w]))
      BY <2>1 DEF RequestedInHand
    <3>2. w # o
      BY <3>1, <1>1
    <3>3. QED BY <3>1, <3>2, <1>1
  <2>2. CASE alloc[s][w] # "REQUESTED"
    <3>1. ~refused /\ s = r /\ w = o
      BY <2>2, <1>2
    <3>2. QED BY <3>1, <1>1, <1>2
  <2>3. QED BY <2>1, <2>2
<1>8. OneActive'
  BY <1>2 DEF OneActive
<1>9. QED BY <1>5, <1>6, <1>7, <1>8

\* The grant goes on to set the entry exactly when it is still REQUESTED and the
\* resource has no active owner; an entry it leaves REQUESTED has expired.
LEMMA GrantInv == ASSUME IInv, TypeOK', NEW o \in Obs, Grant(o) PROVE IInv'
<1> DEFINE r == ResourceAt(idx[o])
           free == /\ request[o] /\ Holders(Sweep(alloc), r) = {}
                   /\ Sweep(alloc)[r][o] = "REQUESTED"
<1> USE SweepReleases, ResourceAtInResources DEF IInv, bounds
<1>1. /\ OnlyReleases /\ rlock' = rlock /\ request' = request /\ ended' = ended
      /\ pc[o] = "grant" /\ alloc' = Sweep(alloc)
  BY DEF Grant, OnlyReleases
<1>2. /\ \A w \in Obs \ {o} : pc'[w] = pc[w] /\ idx'[w] = idx[w]
      /\ free => pc'[o] = "set" /\ idx'[o] = idx[o]
      /\ ~free => pc'[o] \in {"request", "unlock"} /\ idx'[o] \in {1, 2}
  <2>1. CASE free
    BY <2>1 DEF Grant, TypeOK
  <2>2. CASE ~free
    <3>1. NextResource(o)
      BY <2>2 DEF Grant
    <3>2. QED BY <2>2, <3>1, NextResourceMoves
  <2>3. QED BY <2>1, <2>2
<1>3. LockHeld'
  <2>1. pc'[o] \in Locked /\ idx'[o] \in {1, 2} /\ rlock = o
    BY <1>1, <1>2 DEF LockHeld, Locked
  <2>2. QED BY <2>1, <1>1, <1>2 DEF LockHeld
<1>4. Unrivalled'
  <2>1. free => \A w \in Obs : alloc'[r][w] # "ACTIVE"
    BY <1>1 DEF Holders
  <2>2. \A w \in Obs \ {o} : pc'[w] \notin Locked
    BY <1>1, <1>2 DEF LockHeld, Locked
  <2>3. QED BY <2>1, <2>2, <1>2 DEF Unrivalled, Locked
<1>5. RequestedInHand'
  <2> SUFFICES ASSUME NEW s \in Resources, NEW w \in Obs, alloc'[s][w] = "REQUESTED", w \notin ended
      PROVE  /\ s = ResourceAt(idx'[w])
             /\ pc'[w] = "set" \/ (pc'[w] = "grant" /\ request'[w])
    BY <1>1 DEF RequestedInHand
  <2>1. alloc[s][w] = "REQUESTED"
    BY <1>1 DEF OnlyReleases
  <2>2. s = ResourceAt(idx[w]) /\ (pc[w] = "set" \/ (pc[w] = "grant" /\ request[w]))
    BY <2>1 DEF RequestedInHand
  <2>3. CASE w = o
    <3>1. Holders(Sweep(alloc), r) = {}
      BY <2>1, <2>2, <2>3, <1>1 DEF Unrivalled, Holders
    <3>2. free
      BY <2>2, <2>3, <3>1, <1>1
    <3>3. QED BY <2>2, <2>3, <3>2, <1>2
  <2>4. CASE w # o
    BY <2>2, <2>4, <1>1, <1>2
  <2>5. QED BY <2>3, <2>4
<1>6. OneActive'
  BY <1>1 DEF OneActive, OnlyReleases
<1>7. QED BY <1>3, <1>4, <1>5, <1>6

\* Between the test and the assignment of ACTIVE only releases have run.
LEMMA SetActiveInv == ASSUME IInv, TypeOK', NEW o \in Obs, SetActive(o) PROVE IInv'
<1> DEFINE r == ResourceAt(idx[o])
<1> USE ResourceAtInResources DEF IInv, bounds
<1>1. /\ rlock' = rlock /\ request' = request /\ ended' = ended /\ pc[o] = "set"
      /\ alloc'[r][o] = "ACTIVE"
      /\ \A s \in Resources, w \in Obs : s # r \/ w # o => alloc'[s][w] = alloc[s][w]
  BY DEF SetActive, TypeOK
<1>2. /\ pc'[o] \in {"request", "unlock"} /\ idx'[o] \in {1, 2}
      /\ \A w \in Obs \ {o} : pc'[w] = pc[w] /\ idx'[w] = idx[w]
  BY NextResourceMoves DEF SetActive
<1>3. LockHeld'
  <2>1. pc'[o] \in Locked /\ rlock = o
    BY <1>1, <1>2 DEF LockHeld, Locked
  <2>2. QED BY <2>1, <1>1, <1>2 DEF LockHeld
<1>4. Unrivalled'
  <2>1. \A w \in Obs \ {o} : pc'[w] \notin Locked
    BY <1>1, <1>2 DEF LockHeld, Locked
  <2>2. QED BY <2>1, <1>2 DEF Unrivalled, Locked
<1>5. RequestedInHand'
  BY <1>1, <1>2 DEF RequestedInHand
<1>6. OneActive'
  BY <1>1 DEF OneActive, Unrivalled
<1>7. QED BY <1>3, <1>4, <1>5, <1>6

LEMMA AssignReturnInv == ASSUME IInv, TypeOK', NEW o \in Obs, AssignReturn(o) PROVE IInv'
<1> USE NoObsAssumption, ResourceAtInResources DEF IInv, TypeOK, AssignReturn, locals, bounds
<1>1. LockHeld'
  BY DEF LockHeld, Locked
<1>2. Unrivalled' /\ OneActive'
  BY DEF Unrivalled, OneActive
<1>3. RequestedInHand'
  BY DEF RequestedInHand
<1>4. QED BY <1>1, <1>2, <1>3

-----------------------------------------------------------------------------

LEMMA StepInv == ASSUME IInv, TypeOK', NEW o \in Obs, Step(o) PROVE IInv'
<1> USE DEF IInv, TypeOK, OnlyReleases, events, locals, bounds
<1>1. CASE AssignIgnored(o) BY <1>1, ReleasesKeep DEF AssignIgnored
<1>2. CASE AssignLock(o) BY <1>2, AssignLockInv
<1>3. CASE SearchOwner(o) BY <1>3, SearchOwnerInv
<1>4. CASE Preempt(o) BY <1>4, PreemptInv
<1>5. CASE Request(o) BY <1>5, RequestInv
<1>6. CASE Grant(o) BY <1>6, GrantInv
<1>7. CASE SetActive(o) BY <1>7, SetActiveInv
<1>8. CASE AssignReturn(o) BY <1>8, AssignReturnInv
<1>9. CASE Configure(o) BY <1>9, ReleasesKeep DEF Configure
<1>10. CASE ReleaseOne(o)
  BY <1>10, ReleasesKeep, ResourceAtInResources DEF ReleaseOne, Locked
<1>11. CASE ReleaseReturn(o) BY <1>11, ReleasesKeep DEF ReleaseReturn, Locked
<1>12. QED BY <1>1, <1>2, <1>3, <1>4, <1>5, <1>6, <1>7, <1>8, <1>9, <1>10, <1>11
           DEF Step

LEMMA NextInv == IInv /\ TypeOK' /\ [Next]_vars => IInv'
<1> SUFFICES ASSUME IInv, TypeOK', [Next]_vars PROVE IInv'
  OBVIOUS
<1> USE SweepReleases DEF IInv, TypeOK, OnlyReleases, events, locals, bounds, ReleaseStart, Locked
<1>1. ASSUME NEW o \in Obs, Step(o) PROVE IInv'
  BY <1>1, StepInv
<1>2. ASSUME NEW o \in Obs, Start(o) PROVE IInv'
  BY <1>2, ReleasesKeep DEF Start
<1>3. ASSUME NEW o \in Obs, Complete(o) PROVE IInv'
  BY <1>3, ReleasesKeep DEF Complete
<1>4. ASSUME NEW o \in Obs, AbortTimeout(o) PROVE IInv'
  BY <1>4, ReleasesKeep DEF AbortTimeout
<1>5. ASSUME NEW o \in Obs, Abort(o) PROVE IInv'
  BY <1>5, ReleasesKeep DEF Abort
<1>6. ASSUME NEW o \in Obs, ConfigureTimeout(o) PROVE IInv'
  BY <1>6, ReleasesKeep DEF ConfigureTimeout
<1>7. ASSUME NEW o \in Obs, Reset(o) PROVE IInv'
  BY <1>7, ReleasesKeep DEF Reset
<1>8. ASSUME NEW o \in Obs, BlockEnds(o) PROVE IInv'
  BY <1>8, ReleasesKeep DEF BlockEnds
<1>9. CASE UNCHANGED vars
  BY <1>9, ReleasesKeep DEF vars
<1>10. QED BY <1>1, <1>2, <1>3, <1>4, <1>5, <1>6, <1>7, <1>8, <1>9 DEF Next

LEMMA Invariance == Spec => []IInv
<1>1. Init /\ TypeOK => IInv
  BY InitInv DEF IInv
<1>2. QED BY <1>1, TypeCorrect, NextInv, PTL DEF Spec

\* A dish or digitiser is never actively allocated to two observations, although
\* release_resources takes no lock and runs between the steps of a grant.
THEOREM ExclusiveAllocation == Spec => []OneActive
<1>1. IInv => OneActive
  BY DEF IInv
<1>2. QED BY <1>1, Invariance, PTL

\* assign_resources leaves no request behind: a refused request is not recorded,
\* an accepted one is granted before _rlock is left unless the block has ended.
THEOREM NoRequestLeftBehind == Spec => []RequestIsTransient
<1>1. IInv => RequestIsTransient
  BY DEF IInv, RequestedInHand, RequestIsTransient, LockHeld, Locked
<1>2. QED BY <1>1, Invariance, PTL

=============================================================================
