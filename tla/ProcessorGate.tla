---------------------------- MODULE ProcessorGate ----------------------------
(***************************************************************************)
(* The worker threads of an application (src/src/env/processor.py) and the  *)
(* barrier that lets one of them run alone: single_thread / free_thread,    *)
(* entered by AppProcessor for InitEvent, ConfigEvent and the resync API     *)
(* request.  Every critical section under Processor._state_changed is one    *)
(* action; a thread inside Condition.wait() is a member of asleep, and       *)
(* notify_all() empties asleep, so that a lost wake-up can show.             *)
(***************************************************************************)
EXTENDS Integers, Sequences, FiniteSets

CONSTANTS Procs,         \* the Processor threads that share the event queue
          NoProc,        \* _single_thread_owner is None
          MaxEvents,     \* bound: events ever put on the queue
          MaxExclusive   \* bound: barrier events queued or being processed

ASSUME NoProcAssumption == NoProc \notin Procs
ASSUME BoundsAssumption == MaxEvents \in Nat /\ MaxExclusive \in Nat

VARIABLES pc,             \* where each thread is in Processor.run
          event,          \* self._event, "none" between two events
          running,        \* self._running
          asleep,         \* threads inside _state_changed.wait()
          active,         \* _active_processors
          singleThreaded, \* _single_threaded
          owner,          \* _single_thread_owner
          stopping,       \* stop() has cleared _running, notify_all still to come
          queue,          \* the shared queue.Queue
          unfinished,     \* its unfinished_tasks counter
          produced        \* events put so far

gateVars == <<pc, event, running, asleep, active, singleThreaded, owner,
              stopping, queue, unfinished, produced>>

barrier == <<active, singleThreaded, owner>>

Kinds == {"normal", "exclusive"}

\* "loop": the while test; "get": Queue.get; "begin": _begin_event_processing;
\* "event": inside process_event; "single": first wait of single_thread;
\* "drain": its second wait; "exclusive": single_thread has returned;
\* "done": free_thread has returned; "end": _end_event_processing is next.
Locations == {"loop", "get", "begin", "event", "single", "drain",
              "exclusive", "done", "end", "ended"}

-----------------------------------------------------------------------------

GateInit ==
    /\ pc = [p \in Procs |-> "loop"]
    /\ event = [p \in Procs |-> "none"]
    /\ running = [p \in Procs |-> TRUE]
    /\ asleep = {}
    /\ active = {}
    /\ singleThreaded = FALSE
    /\ owner = NoProc
    /\ stopping = {}
    /\ queue = <<>>
    /\ unfinished = 0
    /\ produced = 0

GoesTo(p, l) == pc' = [pc EXCEPT ![p] = l]
WaitIn(p, l) == GoesTo(p, l) /\ asleep' = asleep \cup {p}
NotifyAll == asleep' = {}

ExclusiveInFlight ==
    Cardinality({i \in DOMAIN queue : queue[i] = "exclusive"})
      + Cardinality({p \in Procs : event[p] = "exclusive"})

\* Any thread of the application puts an event.
Put(kind) ==
    /\ produced < MaxEvents
    /\ kind = "exclusive" => ExclusiveInFlight < MaxExclusive
    /\ queue' = Append(queue, kind)
    /\ unfinished' = unfinished + 1
    /\ produced' = produced + 1
    /\ UNCHANGED <<pc, event, running, asleep, stopping, barrier>>

\* while self._running
TestRunning(p) ==
    /\ pc[p] = "loop"
    /\ GoesTo(p, IF running[p] THEN "get" ELSE "ended")
    /\ UNCHANGED <<event, running, asleep, stopping, queue, unfinished, produced, barrier>>

\* self._event = self._event_q.get(timeout=1)
TakeEvent(p) ==
    /\ pc[p] = "get"
    /\ queue # <<>>
    /\ event' = [event EXCEPT ![p] = Head(queue)]
    /\ queue' = Tail(queue)
    /\ GoesTo(p, "begin")
    /\ UNCHANGED <<running, asleep, stopping, unfinished, produced, barrier>>

\* The get times out: except Empty.
GetEmpty(p) ==
    /\ pc[p] = "get"
    /\ queue = <<>>
    /\ GoesTo(p, "loop")
    /\ UNCHANGED <<event, running, asleep, stopping, queue, unfinished, produced, barrier>>

GateShut(p) == singleThreaded /\ owner # p

\* _begin_event_processing: wait while another processor owns the barrier.
BeginWait(p) ==
    /\ pc[p] = "begin" /\ p \notin asleep
    /\ running[p] /\ GateShut(p)
    /\ WaitIn(p, "begin")
    /\ UNCHANGED <<event, running, stopping, queue, unfinished, produced, barrier>>

\* _begin_event_processing returns True.
BeginActive(p) ==
    /\ pc[p] = "begin" /\ p \notin asleep
    /\ running[p] /\ ~GateShut(p)
    /\ active' = active \cup {p}
    /\ GoesTo(p, "event")
    /\ UNCHANGED <<event, running, asleep, stopping, queue, unfinished, produced,
                   singleThreaded, owner>>

\* _begin_event_processing returns False: task_done and break, the event is lost.
BeginStopped(p) ==
    /\ pc[p] = "begin" /\ p \notin asleep
    /\ ~running[p]
    /\ unfinished' = unfinished - 1
    /\ event' = [event EXCEPT ![p] = "none"]
    /\ GoesTo(p, "ended")
    /\ UNCHANGED <<running, asleep, stopping, queue, produced, barrier>>

-----------------------------------------------------------------------------
(* single_thread and free_thread *)

AtSingleThread(p) ==
    /\ p \notin asleep
    /\ \/ pc[p] = "event" /\ event[p] = "exclusive"
       \/ pc[p] = "single"

\* while Processor._single_threaded: wait
SingleThreadWait(p) ==
    /\ AtSingleThread(p)
    /\ singleThreaded
    /\ WaitIn(p, "single")
    /\ UNCHANGED <<event, running, stopping, queue, unfinished, produced, barrier>>

\* Mutant: does not wait for the busy processors.
SingleThreadOwnAtOnce(p) ==
    /\ AtSingleThread(p)
    /\ ~singleThreaded
    /\ singleThreaded' = TRUE
    /\ owner' = p
    /\ GoesTo(p, "exclusive")
    /\ UNCHANGED <<event, running, asleep, stopping, queue, unfinished, produced, active>>

\* Take the barrier; the first test of the second loop is in the same section.
SingleThreadOwn(p) ==
    /\ AtSingleThread(p)
    /\ ~singleThreaded
    /\ singleThreaded' = TRUE
    /\ owner' = p
    /\ IF active \subseteq {p}
       THEN GoesTo(p, "exclusive") /\ UNCHANGED asleep
       ELSE WaitIn(p, "drain")
    /\ UNCHANGED <<event, running, stopping, queue, unfinished, produced, active>>

\* while any other processor is active: wait
SingleThreadDrain(p) ==
    /\ pc[p] = "drain" /\ p \notin asleep
    /\ IF active \subseteq {p}
       THEN GoesTo(p, "exclusive") /\ UNCHANGED asleep
       ELSE WaitIn(p, "drain")
    /\ UNCHANGED <<event, running, stopping, queue, unfinished, produced, barrier>>

\* finally: Processor.free_thread()
FreeThread(p) ==
    /\ pc[p] = "exclusive"
    /\ IF singleThreaded /\ owner = p
       THEN singleThreaded' = FALSE /\ owner' = NoProc /\ NotifyAll
       ELSE UNCHANGED <<singleThreaded, owner, asleep>>
    /\ GoesTo(p, "done")
    /\ UNCHANGED <<event, running, stopping, queue, unfinished, produced, active>>

-----------------------------------------------------------------------------

\* process_event returns or raises: finally task_done().
TaskDone(p) ==
    /\ \/ pc[p] = "event" /\ event[p] = "normal"
       \/ pc[p] = "done"
    /\ unfinished' = unfinished - 1
    /\ GoesTo(p, "end")
    /\ UNCHANGED <<event, running, asleep, stopping, queue, produced, barrier>>

\* Mutant: does not wake the barrier waiters.
EndProcessingSilently(p) ==
    /\ pc[p] = "end"
    /\ active' = active \ {p}
    /\ event' = [event EXCEPT ![p] = "none"]
    /\ GoesTo(p, "loop")
    /\ UNCHANGED <<running, asleep, stopping, queue, unfinished, produced, singleThreaded, owner>>

\* _end_event_processing
EndProcessing(p) ==
    /\ pc[p] = "end"
    /\ active' = active \ {p}
    /\ NotifyAll
    /\ event' = [event EXCEPT ![p] = "none"]
    /\ GoesTo(p, "loop")
    /\ UNCHANGED <<running, stopping, queue, unfinished, produced, singleThreaded, owner>>

\* stop(): _running is cleared outside the lock, then notify_all under it.
StopFlag(p) ==
    /\ running[p]
    /\ running' = [running EXCEPT ![p] = FALSE]
    /\ stopping' = stopping \cup {p}
    /\ UNCHANGED <<pc, event, asleep, queue, unfinished, produced, barrier>>

StopNotify(p) ==
    /\ p \in stopping
    /\ stopping' = stopping \ {p}
    /\ NotifyAll
    /\ UNCHANGED <<pc, event, running, queue, unfinished, produced, barrier>>

Step(p) == \/ TestRunning(p) \/ TakeEvent(p) \/ GetEmpty(p)
           \/ BeginWait(p) \/ BeginActive(p) \/ BeginStopped(p)
           \/ SingleThreadWait(p) \/ SingleThreadOwn(p) \/ SingleThreadDrain(p)
           \/ FreeThread(p) \/ TaskDone(p) \/ EndProcessing(p)

GateNext ==
    \/ \E kind \in Kinds : Put(kind)
    \/ \E p \in Procs : Step(p) \/ StopFlag(p) \/ StopNotify(p)

GateSpec == GateInit /\ [][GateNext]_gateVars

\* Every thread that can run does run, handlers return, and a stop() that has
\* begun is completed.  Nothing obliges anyone to put events or to stop.
GateFairSpec == GateSpec /\ \A p \in Procs : WF_gateVars(Step(p)) /\ WF_gateVars(StopNotify(p))

-----------------------------------------------------------------------------
(* Properties *)

GateTypeOK ==
    /\ pc \in [Procs -> Locations]
    /\ event \in [Procs -> Kinds \cup {"none"}]
    /\ running \in [Procs -> BOOLEAN]
    /\ asleep \subseteq Procs
    /\ active \subseteq Procs
    /\ singleThreaded \in BOOLEAN
    /\ owner \in Procs \cup {NoProc}
    /\ stopping \subseteq Procs
    /\ queue \in Seq(Kinds)
    /\ unfinished \in Int
    /\ produced \in Nat

\* While single_thread() has returned and free_thread() has not been called, no
\* other processor is inside an event: the "sole processor allowed to continue".
SoleProcessor ==
    \A p \in Procs : pc[p] = "exclusive" => active = {p} /\ owner = p

\* A thread sleeps on the condition only while what it waits for is still
\* false, or a stop() is about to notify it: no wake-up is ever lost, whichever
\* of the three notify_all() calls races the wait.
NoLostWakeup ==
    \A p \in asleep :
      \/ pc[p] = "begin" /\ GateShut(p) /\ (running[p] \/ p \in stopping)
      \/ pc[p] = "single" /\ singleThreaded
      \/ pc[p] = "drain" /\ ~(active \subseteq {p})

\* The barrier is held exactly by the thread that is between single_thread and
\* free_thread, and _active_processors holds exactly those inside an event.
BarrierHeld ==
    /\ singleThreaded <=> owner # NoProc
    /\ \A p \in Procs :
         /\ owner = p <=> pc[p] \in {"drain", "exclusive"}
         /\ p \in active <=> pc[p] \in {"event", "single", "drain", "exclusive", "done", "end"}

\* Who finds the barrier taken from inside its own event stays there for ever:
\* it is active, so the owner never finishes draining, and the owner never
\* frees the barrier it waits for.
BarrierWaitIsForever ==
    [][\A p \in Procs : pc[p] = "single" => pc'[p] = "single"]_gateVars

\* p waits for the barrier inside its event, or for the processors inside theirs.
AtBarrier(p) == pc[p] \in {"single", "drain"}

\* The processors run the same code and nothing tells one from another, so what is
\* said of this one is said of each.
AnyProc == CHOOSE p \in Procs : TRUE

\* A processor that asks for the barrier from inside its event gets it, unless another
\* asks for it from inside an event of its own: two callers block each other, and
\* nothing else ever blocks one (processor.py:37-57).
LoneCallerGranted ==
    (pc[AnyProc] = "event" /\ event[AnyProc] = "exclusive")
      ~> (pc[AnyProc] = "exclusive" \/ \E q \in Procs \ {AnyProc} : AtBarrier(q))
=============================================================================
