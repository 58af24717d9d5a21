--------------------------- MODULE DigitiserStreams ---------------------------
(***************************************************************************)
(* The sample streams of the Digitiser (src/src/dig/dig.py).  The Telescope *)
(* Manager sets "scanning" to what is to be scanned or to False; while it   *)
(* is set, two timers scan_samples_1 and scan_samples_2 each read the SDR,  *)
(* start themselves again and send the samples on, labelled with the        *)
(* "scanning" of that moment.  A generation number is to make the timer     *)
(* events of an earlier setting ineffective.  The processors of the event   *)
(* framework handle the events of one queue; an action is a step of a       *)
(* handler, and reads of shared state that follow each other are one step.  *)
(*                                                                         *)
(* Abstracted: a value of "scanning" is the number of an acquisition, 0 for *)
(* False; the samples are the acquisition they were read for.  Timer delays *)
(* are left open.  Left out: the other properties and methods of the SDR,   *)
(* resync, the temperature sensor and its shutdown.                        *)
(***************************************************************************)
EXTENDS Integers, FiniteSets, SequencesExt

CONSTANTS Procs,      \* processor threads
          Obs,        \* observations
          ObsOf,      \* the observation of each acquisition (obs_data of a request)
          MaxControls, \* bound: requests, connections lost and comms_retry events
          MaxOpen      \* bound: requests not yet answered at one time

Acquisitions == DOMAIN ObsOf
Streams == 1..2
Links == {"tm", "sdp"}

ASSUME ObsOfAssumption == ObsOf \in Seq(Obs)
ASSUME BoundsAssumption == {MaxControls, MaxOpen} \subseteq Nat

VARIABLES scanning,   \* dig_model.scanning
          generation, \* _scan_samples_generation
          timers,     \* scan_samples timers in the heap: stream and generation (echo_data)
          queue,      \* the event queue
          work,       \* what each processor has in hand
          sdr,        \* dig_model.sdr_connected is ESTABLISHED
          advised,    \* _sdr_disconnect_advice_sent
          told,       \* the acquisition of the last error advice sent
          power,      \* the bandpass filter is powered
          links,      \* systems whose x_connected is ESTABLISHED
          up,         \* systems the sockets are connected to
          controls,   \* counter for the bound
          mixed       \* a control event was handled beside another event

vars == <<scanning, generation, timers, queue, work, sdr, advised, told, power, links, up,
          controls, mixed>>

device == <<sdr, advised, power>>
outside == <<links, up, controls>>

Token == [stream : Streams, gen : 0..MaxControls]
Stop == -1                  \* the generation of a TIMER_STOP in todo

Sample(t) == [kind |-> "sample", token |-> t]
Set(o, v) == [kind |-> "set", obs |-> o, value |-> v]
Link(k, l) == [kind |-> k, link |-> l]
Retry == [kind |-> "retry"]
None == [kind |-> "none"]

Idle == [pc |-> "idle", ev |-> None, failed |-> FALSE, gen |-> 0, todo |-> <<>>]

Go(p, pc) == work' = [work EXCEPT ![p].pc = pc]
Done(p) == work' = [work EXCEPT ![p] = Idle]

\* todo is all that is left for p to do.
Left(p, todo) == IF todo = <<>> THEN Done(p)
                 ELSE work' = [work EXCEPT ![p].pc = "perform", ![p].todo = todo]

Busy == {p \in Procs : work[p].pc # "idle"}
Control(p) == work[p].ev.kind \notin {"none", "sample"}

\* _is_current_scan_samples_generation
Current(t) == t.gen = generation

-----------------------------------------------------------------------------

\* The digitiser has been started and both its connections have been made.
Init == /\ scanning = 0 /\ generation = 0 /\ timers = {} /\ queue = <<>>
        /\ work = [p \in Procs |-> Idle]
        /\ sdr = TRUE /\ advised = FALSE /\ told = 0 /\ power = FALSE
        /\ links = Links /\ up = Links
        /\ controls = 0 /\ mixed = FALSE

\* A free processor takes the next event, of the given kind, off the queue and goes on
\* at pc; each handler adds its first step.
Take(p, kind, pc) ==
    /\ work[p].pc = "idle" /\ queue # <<>> /\ Head(queue).kind = kind
    /\ queue' = Tail(queue)
    /\ work' = [work EXCEPT ![p] = IF pc = "idle" THEN Idle
                                   ELSE [Idle EXCEPT !.pc = pc, !.ev = Head(queue)]]
    /\ mixed' = (mixed \/ \E q \in Busy : kind # "sample" \/ Control(q))

-----------------------------------------------------------------------------
(* A scan_samples timer event *)

\* Events of an earlier generation are ignored; else the SDR, if there is one, is read.
BeginRead(p) ==
    /\ Take(p, "sample", IF ~Current(Head(queue).token) THEN "idle"
                         ELSE IF sdr THEN "read" ELSE "refused")
    /\ UNCHANGED <<scanning, generation, timers, device, told, outside>>

\* A read may fail; a hardware failure disconnects the SDR.
EndRead(p) ==
    /\ work[p].pc \in {"read", "refused"}
    /\ \/ work[p].pc = "read" /\ Go(p, "check") /\ UNCHANGED sdr
       \/ /\ work' = [work EXCEPT ![p].pc = "check", ![p].failed = TRUE]
          /\ IF work[p].pc = "read" THEN sdr' \in {FALSE, sdr} ELSE UNCHANGED sdr
    /\ UNCHANGED <<scanning, generation, timers, queue, advised, power, told, outside, mixed>>

\* Samples of an earlier generation are dropped.
Check(p) ==
    /\ work[p].pc = "check"
    /\ IF Current(work[p].ev.token)
       THEN Go(p, IF work[p].failed /\ ~sdr THEN "advise" ELSE "restart")
       ELSE Done(p)
    /\ UNCHANGED <<scanning, generation, timers, queue, device, told, outside, mixed>>

\* The first failed read of a scan sends an error advice with the data of the scan.
Advise(p) ==
    /\ work[p].pc = "advise"
    /\ IF scanning # 0 /\ "tm" \in links /\ ~advised
       THEN /\ advised' = TRUE
            /\ told' = scanning
       ELSE UNCHANGED <<advised, told>>
    /\ Go(p, "restart")
    /\ UNCHANGED <<scanning, generation, timers, queue, sdr, power, outside, mixed>>

\* Mutant: the timer is not started again after a failed read.
RestartIfRead(p) ==
    /\ work[p].pc = "restart"
    /\ Left(p, IF scanning # 0 /\ ~work[p].failed THEN <<work[p].ev.token>> ELSE <<>>)
    /\ UNCHANGED <<scanning, generation, timers, queue, device, told, outside, mixed>>

\* While the digitiser scans, the stream's timer is started again; samples that were
\* read are sent to the Science Data Processor.
Restart(p) ==
    /\ work[p].pc = "restart"
    /\ Left(p, IF scanning # 0 THEN <<work[p].ev.token>> ELSE <<>>)
    /\ UNCHANGED <<scanning, generation, timers, queue, device, told, outside, mixed>>

-----------------------------------------------------------------------------
(* A request of the Telescope Manager to set "scanning" *)

\* A busy digitiser rejects requests for another observation; else the filter is powered.
Guard(p) ==
    /\ LET busy == scanning # 0 /\ ObsOf[scanning] # Head(queue).obs
       IN /\ Take(p, "set", IF busy THEN "idle" ELSE "set")
          /\ power' = (power \/ ~busy)
    /\ UNCHANGED <<scanning, generation, timers, sdr, advised, told, outside>>

\* Mutant: the flag of the error advice is never reset.
SetScanningOnly(p) ==
    /\ work[p].pc = "set"
    /\ scanning' = work[p].ev.value
    /\ Go(p, "advance")
    /\ UNCHANGED <<generation, timers, queue, device, told, outside, mixed>>

\* set_scanning: a new acquisition re-arms the error advice
SetScanning(p) ==
    LET v == work[p].ev.value
    IN /\ work[p].pc = "set"
       /\ advised' = (advised /\ v \in {0, scanning})
       /\ scanning' = v
       /\ Go(p, "advance")
       /\ UNCHANGED <<generation, timers, queue, sdr, power, told, outside, mixed>>

\* _advance_scan_samples_generation, here and after a lost connection
Advance(p) ==
    /\ work[p].pc = "advance"
    /\ generation' = generation + 1
    /\ work' = [work EXCEPT ![p].gen = generation',
                            ![p].pc = IF work[p].ev.kind = "set" THEN "decide" ELSE "off"]
    /\ UNCHANGED <<scanning, timers, queue, device, told, outside, mixed>>

\* Both streams are started, or the timers of the heap are to be stopped.
Decide(p) ==
    /\ work[p].pc = "decide"
    /\ Left(p, IF scanning # 0
               THEN [s \in Streams |-> [stream |-> s, gen |-> work[p].gen]]
               ELSE SetToSeq({[stream |-> t.stream, gen |-> Stop] : t \in timers}))
    /\ UNCHANGED <<scanning, generation, timers, queue, device, told, outside, mixed>>

-----------------------------------------------------------------------------
(* performActions: timers first; the messages sent after the last of them change nothing here *)

\* A timer action first cancels the timers of its name; a stop is done by then.
CancelTimers(p) ==
    /\ work[p].pc = "perform"
    /\ timers' = {t \in timers : t.stream # Head(work[p].todo).stream}
    /\ IF Head(work[p].todo).gen = Stop THEN Left(p, Tail(work[p].todo)) ELSE Go(p, "start")
    /\ UNCHANGED <<scanning, generation, queue, device, told, outside, mixed>>

StartTimer(p) ==
    /\ work[p].pc = "start"
    /\ timers' = timers \cup {Head(work[p].todo)}
    /\ Left(p, Tail(work[p].todo))
    /\ UNCHANGED <<scanning, generation, queue, device, told, outside, mixed>>

-----------------------------------------------------------------------------
(* Connections and the comms_retry timer *)

\* process_tm_connected, process_sdp_connected
LinkConnected(p) ==
    /\ Take(p, "connected", "idle")
    /\ links' = links \cup {Head(queue).link}
    /\ UNCHANGED <<scanning, generation, timers, device, told, up, controls>>

\* process_tm_disconnected, process_sdp_disconnected: a scan under way is to be stopped.
LinkDisconnected(p) ==
    /\ Take(p, "disconnected", IF scanning # 0 THEN "stop" ELSE "idle")
    /\ links' = links \ {Head(queue).link}
    /\ UNCHANGED <<scanning, generation, timers, device, told, up, controls>>

StopScanning(p) ==
    /\ work[p].pc = "stop"
    /\ scanning' = 0
    /\ Go(p, "advance")
    /\ UNCHANGED <<generation, timers, queue, device, told, outside, mixed>>

PowerOff(p) ==
    /\ work[p].pc = "off"
    /\ power' = FALSE
    /\ Done(p)
    /\ UNCHANGED <<scanning, generation, timers, queue, sdr, advised, told, outside, mixed>>

\* A missing SDR is opened anew, which may fail; of a present one the status is asked.
Reconnect(p) ==
    /\ Take(p, "retry", "idling")
    /\ sdr' \in BOOLEAN
    /\ advised' \in {advised, advised /\ ~sdr'}
    /\ UNCHANGED <<scanning, generation, timers, power, told, outside>>

\* The filter of a digitiser that has long been idle is switched off.
IdlePower(p) ==
    /\ work[p].pc = "idling"
    /\ \/ scanning = 0 /\ Go(p, "off")
       \/ Done(p)
    /\ UNCHANGED <<scanning, generation, timers, queue, device, told, outside, mixed>>

-----------------------------------------------------------------------------
(* The surroundings *)

Open == Cardinality({p \in Procs : work[p].ev.kind = "set"})
        + Cardinality({i \in DOMAIN queue : queue[i].kind = "set"})

\* The Telescope Manager asks to acquire, for an observation of its own, or to stop.
TmRequests ==
    /\ "tm" \in up /\ Open < MaxOpen
    /\ controls < MaxControls /\ controls' = controls + 1
    /\ \E o \in Obs, v \in Acquisitions \cup {0} :
         /\ v # 0 => ObsOf[v] = o
         /\ queue' = Append(queue, Set(o, v))
    /\ UNCHANGED <<scanning, generation, timers, work, device, told, links, up, mixed>>

Connects(l) ==
    /\ l \notin up
    /\ up' = up \cup {l}
    /\ queue' = Append(queue, Link("connected", l))
    /\ UNCHANGED <<scanning, generation, timers, work, device, told, links, controls, mixed>>

Disconnects(l) ==
    /\ l \in up
    /\ controls < MaxControls /\ controls' = controls + 1
    /\ up' = up \ {l}
    /\ queue' = Append(queue, Link("disconnected", l))
    /\ UNCHANGED <<scanning, generation, timers, work, device, told, links, mixed>>

\* The timer is started again by the handler of its event.
RetryFires ==
    /\ controls < MaxControls /\ controls' = controls + 1
    /\ \A p \in Procs : work[p].ev # Retry
    /\ \A i \in DOMAIN queue : queue[i] # Retry
    /\ queue' = Append(queue, Retry)
    /\ UNCHANGED <<scanning, generation, timers, work, device, told, links, up, mixed>>

TimerFires(t) ==
    /\ t \in timers
    /\ timers' = timers \ {t}
    /\ queue' = Append(queue, Sample(t))
    /\ UNCHANGED <<scanning, generation, work, device, told, outside, mixed>>

-----------------------------------------------------------------------------

Handle(p) == \/ BeginRead(p) \/ EndRead(p) \/ Check(p) \/ Advise(p) \/ Restart(p)
             \/ Guard(p) \/ SetScanning(p) \/ Advance(p) \/ Decide(p)
             \/ LinkConnected(p) \/ LinkDisconnected(p) \/ StopScanning(p) \/ PowerOff(p)
             \/ Reconnect(p) \/ IdlePower(p)
             \/ CancelTimers(p) \/ StartTimer(p)

Next == \/ \E p \in Procs : Handle(p)
        \/ \E t \in timers : TimerFires(t)
        \/ \E l \in Links : Connects(l) \/ Disconnects(l)
        \/ TmRequests \/ RetryFires

Spec == Init /\ [][Next]_vars

FairSpec == /\ Spec
            /\ \A p \in Procs : WF_vars(Handle(p))
            /\ \A t \in Token : WF_vars(TimerFires(t))

-----------------------------------------------------------------------------
(* Properties *)

Events == {Sample(t) : t \in Token} \cup {Set(o, v) : o \in Obs, v \in Acquisitions \cup {0}}
          \cup {Link(k, l) : k \in {"connected", "disconnected"}, l \in Links} \cup {Retry}

\* Every variable has its type.
TypeOK == /\ {scanning, told} \subseteq Acquisitions \cup {0}
          /\ generation \in 0..MaxControls
          /\ timers \subseteq Token
          /\ queue \in Seq(Events)
          /\ \A p \in Procs :
               /\ work[p].ev \in Events \cup {None}
               /\ work[p].gen \in Nat
               /\ \A i \in DOMAIN work[p].todo :
                    \/ work[p].todo[i] \in Token
                    \/ work[p].todo[i] \in [stream : Streams, gen : {Stop}]
          /\ {sdr, advised, power, mixed} \subseteq BOOLEAN
          /\ links \subseteq Links /\ up \subseteq Links
          /\ controls \in 0..MaxControls

\* The tokens of a stream: its timer, the events of its timer, and what a processor
\* works on until it has started the timer.
Reading(p, t) == work[p].ev = Sample(t) \/ t \in Range(work[p].todo)
Tokens(t) == Cardinality(timers \cap {t})
             + Cardinality({i \in DOMAIN queue : queue[i] = Sample(t)})
             + Cardinality({p \in Procs : Reading(p, t)})

\* No control event is being handled.
Settled == \A p \in Procs : ~Control(p)

\* While the digitiser scans both streams run: "If scanning is active, ensure
\* sample reads are running immediately".
StreamsRunning ==
    Settled /\ scanning # 0 =>
        \A s \in Streams : Tokens([stream |-> s, gen |-> generation]) = 1

\* A digitiser that scans has its filter powered.
Powered == Settled /\ scanning # 0 => power

\* As long as no control event was handled beside another event, a digitiser that
\* scans reads both streams, each once, and is powered, also with the two streams in
\* the hands of different processors.
OrderlyAcquisition == ~mixed => StreamsRunning /\ Powered

\* An SDR that is missing during an acquisition is reported to the Telescope Manager.
SdrLossReported ==
    \A v \in Acquisitions :
        scanning = v /\ ~sdr ~> told = v \/ scanning # v \/ sdr \/ "tm" \notin links \/ mixed

=============================================================================
