---------------------------- MODULE AppLifecycle ----------------------------
(***************************************************************************)
(* The life of the Digitiser as an application (src/src/env/app.py,         *)
(* src/src/dig/dig.py): it is started, its processors initialise it, timers *)
(* poll the thermometer of its assembly (src/src/dig/temp/temp.py) and try  *)
(* a lost receiver anew, it is configured anew, and it is stopped, by a     *)
(* signal or because it is too hot, by the main thread that waited for      *)
(* this, one component after the other, while the processors still handle   *)
(* events.  A processor is waited for two seconds and then left behind.     *)
(*                                                                         *)
(* Abstracted: an event is its kind; "other" is what changes nothing here,  *)
(* a status or a connection.  The clients, whose connections are the module *)
(* TcpClient, are one.  Scans, the filter and their timers are              *)
(* DigitiserStreams, the wait at the barrier is ProcessorGate: here it is a *)
(* condition of Take.                                                      *)
(***************************************************************************)
EXTENDS Integers, SequencesExt

CONSTANTS Workers,   \* processor threads
          MaxResyncs, \* bound: resync commands
          MaxFaults   \* bound: faults, of SDR and thermometer together

ASSUME LifecycleAssumption == MaxResyncs \in Nat /\ MaxFaults \in Nat

VARIABLES stage,       \* of the main thread: "new", "run", or "stop" once _stop_event is set
          done,        \* number of components that are stopped
          pending,     \* the event queue
          hands,       \* what each processor has in hand: an event and a step of its handler
          late,        \* a processor was left behind
          clocks,      \* timers in the manager's heap
          command,     \* cmd_endpoint is started
          link,      \* of the clients: "unconnected", "connected" or "stopped"
          receiver,    \* self.sdr: "none", "open" or "closed"
          refused,     \* the configuration names a receiver there is no driver for
          thermometer, \* self.temp_sensor: "none", or whether it is "silent" or "answering"
          orphaned,    \* one was dropped by comms_retry, or made after stop() had stopped it
          hot, device, bus, \* the assembly is too hot; the SDR and the thermometer respond
          resyncs, faults   \* counters for the bounds

world == <<hot, device, bus, resyncs, faults>>
things == <<clocks, command, link, receiver, refused, thermometer, orphaned>>
lifeVars == <<stage, done, pending, hands, late, things, world>>

Waiting == [event |-> "none", at |-> "idle"]
Gone == [event |-> "none", at |-> "gone"]

\* Mutant: the receiver is closed before the processors end.
StopOrderReceiverFirst ==
    <<"thermometer", "receiver", "timers", "command", "dismiss", "join", "reporter",
      "interfaces", "queue">>

\* Digitiser.stop: around the stop of every application it stops its own two devices.
StopOrder ==
    <<"thermometer", "timers", "command", "dismiss", "join", "reporter", "interfaces", "queue",
      "receiver">>

IsStopped(component) == \E i \in 1..done : StopOrder[i] = component
Stopped == done = Len(StopOrder)

Goto(w, at) == hands' = [hands EXCEPT ![w].at = at]
Finish(w) == hands' = [hands EXCEPT ![w] = Waiting]

LifeInit ==
    /\ stage = "new" /\ done = 0 /\ late = FALSE
    /\ pending = <<>> /\ hands = [w \in Workers |-> Gone]
    /\ clocks = {} /\ command = FALSE /\ link = "unconnected"
    /\ receiver = "none" /\ refused = FALSE
    /\ thermometer = "none" /\ orphaned = FALSE
    /\ hot = FALSE /\ device = TRUE /\ bus = TRUE /\ resyncs = 0 /\ faults = 0

-----------------------------------------------------------------------------
(* Start, and the threads beside the processors                             *)

\* Processors and the status thread run by the time the command server is started,
\* which fails if its port is taken: then running() stops what runs.
Start ==
    /\ stage = "new"
    /\ pending' = <<"init">>
    /\ hands' = [w \in Workers |-> Waiting]
    /\ \/ command' = TRUE /\ stage' = "run"
       \/ command' = FALSE /\ stage' = "stop"
    /\ UNCHANGED <<done, late, clocks, link, receiver, refused, thermometer, orphaned,
                   world>>

\* run(): a status event, one at a time.  Those before the processors are dismissed
\* change nothing and are left out.
ReportStatus ==
    /\ IsStopped("dismiss") /\ ~IsStopped("reporter")
    /\ "other" \notin Range(pending) \cup {hands[w].event : w \in Workers}
    /\ pending' = Append(pending, "other")
    /\ UNCHANGED <<stage, done, hands, late, things, world>>

TimerExpires(name) ==
    /\ name \in clocks
    /\ clocks' = clocks \ {name}
    /\ pending' = Append(pending, name)
    /\ UNCHANGED <<stage, done, hands, late, command, link, receiver, refused,
                   thermometer, orphaned, world>>

\* The thermometer's own thread reads it, or fails to.
PollLoop ==
    /\ thermometer # "none"
    /\ thermometer' = IF bus THEN "answering" ELSE "silent"
    /\ UNCHANGED <<stage, done, pending, hands, late, clocks, command, link, receiver,
                   refused, orphaned, world>>

-----------------------------------------------------------------------------
(* Processors                                                               *)

FirstStep(event) ==
    CASE event \in {"init", "resync"} -> "replace"
      [] event = "comms_retry" -> "look"
      [] event = "temp_sensor_poll" -> "read"
      [] OTHER -> "handle"

\* The initialisation and a resync wait for the other processors, and those for them.
MayBegin(event) ==
    \A w \in Workers :
        IF event \in {"init", "resync"} THEN hands[w].event = "none"
        ELSE hands[w].event \notin {"init", "resync"}

Take(w, event) ==
    /\ hands[w] = Waiting /\ ~IsStopped("dismiss")
    /\ pending # <<>> /\ event = Head(pending) /\ MayBegin(event)
    /\ pending' = Tail(pending)
    /\ hands' = [hands EXCEPT ![w] = [event |-> event, at |-> FirstStep(event)]]
    /\ UNCHANGED <<stage, done, late, things, world>>

\* A dismissed processor ends when it is done with its event.
Leave(w) ==
    /\ hands[w] = Waiting /\ IsStopped("dismiss")
    /\ hands' = [hands EXCEPT ![w] = Gone]
    /\ UNCHANGED <<stage, done, pending, late, things, world>>

\* performActions: without a manager timers are passed over.
SetTimers(w, names) ==
    /\ clocks' = IF IsStopped("timers") THEN clocks ELSE clocks \cup names
    /\ Finish(w)

Made == IF device THEN "open" ELSE "closed"

\* _reinitialise_sdr closes the receiver there is and makes another.  A configuration
\* read anew may name one that is refused; that of the start names one there is.
ReinitialiseReceiver(w) ==
    /\ hands[w].at = "replace"
    /\ \/ receiver' = Made /\ Goto(w, "renew") /\ refused' = FALSE
       \/ /\ hands[w].event = "resync"
          /\ receiver' = "none" /\ refused' = TRUE /\ Finish(w)
    /\ UNCHANGED <<stage, done, pending, late, clocks, command, link, thermometer, orphaned,
                   world>>

\* A new thermometer, whose thread starts to poll, takes the place of another.
MakeThermometer(stopped) ==
    /\ thermometer' = "silent"
    /\ orphaned' = (orphaned \/ IsStopped("thermometer") \/ ~stopped)

\* _reinitialise_temp_sensor stops the one there is first.
ReinitialiseThermometer(w) ==
    /\ hands[w].at = "renew"
    /\ MakeThermometer(TRUE)
    /\ IF hands[w].event = "init"
       THEN Goto(w, "connect") /\ UNCHANGED clocks
       ELSE SetTimers(w, {"temp_sensor_poll"})
    /\ UNCHANGED <<stage, done, pending, late, command, link, receiver, refused, world>>

\* process_init: a client that is not stopped connects, at once or later, and says so.
ConnectClients(w) ==
    /\ hands[w].at = "connect"
    /\ \/ link = "unconnected" /\ link' = "connected" /\ pending' = Append(pending, "other")
       \/ UNCHANGED <<link, pending>>
    /\ SetTimers(w, {"temp_sensor_poll", "comms_retry"})
    /\ UNCHANGED <<stage, done, late, command, receiver, refused, thermometer, orphaned,
                   world>>

\* comms_retry: a receiver that does not work is closed and another made.  With the
\* name of a refused one the handler ends here, without its timer.
RetryReceiver(w) ==
    /\ hands[w].at = "look"
    /\ IF receiver # "open" /\ refused
       THEN Finish(w) /\ receiver' = (IF receiver = "none" THEN "none" ELSE "closed")
       ELSE Goto(w, "sense") /\ receiver' = (IF receiver = "open" THEN "open" ELSE Made)
    /\ UNCHANGED <<stage, done, pending, late, clocks, command, link, refused, thermometer,
                   orphaned, world>>

\* A thermometer that does not answer is replaced; its thread goes on.
RetryThermometer(w) ==
    /\ hands[w].at = "sense"
    /\ IF thermometer = "silent" THEN MakeThermometer(FALSE) ELSE UNCHANGED <<thermometer, orphaned>>
    /\ SetTimers(w, {"comms_retry"})
    /\ UNCHANGED <<stage, done, pending, late, command, link, receiver, refused, world>>

\* Mutant: the handler returns after the scan was stopped, without its timer.
ReadTemperatureOnce(w) ==
    /\ hands[w].at = "read"
    /\ IF thermometer = "answering"
       THEN (IF hot /\ receiver # "none" THEN Goto(w, "heat") ELSE Finish(w)) /\ UNCHANGED clocks
       ELSE SetTimers(w, {"temp_sensor_poll"})
    /\ UNCHANGED <<stage, done, pending, late, command, link, receiver, refused, thermometer,
                   orphaned, world>>

\* temp_sensor_poll: too hot a reading stops the scan, for which there must be a receiver.
ReadTemperature(w) ==
    /\ hands[w].at = "read"
    /\ IF ~(thermometer = "answering" /\ hot)
       THEN SetTimers(w, {"temp_sensor_poll"})
       ELSE /\ IF receiver = "none" THEN Finish(w) ELSE Goto(w, "heat")
            /\ UNCHANGED clocks
    /\ UNCHANGED <<stage, done, pending, late, command, link, receiver, refused,
                   thermometer, orphaned, world>>

\* Then the end is asked for.
RequestShutdown(w) ==
    /\ hands[w].at = "heat"
    /\ stage' = "stop"
    /\ SetTimers(w, {"temp_sensor_poll"})
    /\ UNCHANGED <<done, pending, late, command, link, receiver, refused, thermometer,
                   orphaned, world>>

HandleOther(w) ==
    /\ hands[w].at = "handle"
    /\ Finish(w)
    /\ UNCHANGED <<stage, done, pending, late, things, world>>

-----------------------------------------------------------------------------
(* stop(), by the main thread                                               *)

Stops(component) ==
    /\ stage = "stop" /\ ~Stopped /\ StopOrder[done + 1] = component
    /\ done' = done + 1
    /\ UNCHANGED <<stage, hands, refused, orphaned, world>>

\* The thermometer of this moment.
StopThermometer ==
    /\ Stops("thermometer")
    /\ thermometer' = "none"
    /\ UNCHANGED <<pending, late, clocks, command, link, receiver>>

StopTimerManager ==
    /\ Stops("timers")
    /\ clocks' = {}
    /\ UNCHANGED <<pending, late, command, link, receiver, thermometer>>

StopCmdServer ==
    /\ Stops("command")
    /\ command' = FALSE
    /\ UNCHANGED <<pending, late, clocks, link, receiver, thermometer>>

\* A processor that waits for an event ends within a second, one with an event in
\* hand may be left behind.
StopProcessors ==
    /\ \/ Stops("dismiss") /\ UNCHANGED late
       \/ /\ Stops("join") /\ \A w \in Workers : hands[w] # Waiting
          /\ late' = (\E w \in Workers : hands[w] # Gone)
    /\ UNCHANGED <<pending, clocks, command, link, receiver, thermometer>>

StopStatusThread ==
    /\ Stops("reporter")
    /\ UNCHANGED <<pending, late, clocks, command, link, receiver, thermometer>>

\* A client that was connected reports its end.
StopInterfaces ==
    /\ Stops("interfaces")
    /\ link' = "stopped"
    /\ pending' = IF link = "connected" THEN Append(pending, "other") ELSE pending
    /\ UNCHANGED <<late, clocks, command, receiver, thermometer>>

ClearQueue ==
    /\ Stops("queue")
    /\ pending' = <<>>
    /\ UNCHANGED <<late, clocks, command, link, receiver, thermometer>>

StopReceiver ==
    /\ Stops("receiver")
    /\ receiver' = "none"
    /\ UNCHANGED <<pending, late, clocks, command, link, thermometer>>

-----------------------------------------------------------------------------
(* The surroundings.  What follows once the application stops is bounded to  *)
(* what is under way: heat and faults come while it runs.                   *)

\* A signal, or the operator.
RequestStop ==
    /\ stage = "run" /\ stage' = "stop"
    /\ UNCHANGED <<done, pending, hands, late, things, world>>

Resync ==
    /\ command /\ resyncs < MaxResyncs
    /\ pending' = Append(pending, "resync") /\ resyncs' = resyncs + 1
    /\ UNCHANGED <<stage, done, hands, late, things, hot, device, bus, faults>>

Heats ==
    /\ stage = "run" /\ ~hot
    /\ hot' = TRUE
    /\ UNCHANGED <<stage, done, pending, hands, late, things, device, bus, resyncs, faults>>

DeviceFails ==
    /\ stage = "run" /\ device /\ faults < MaxFaults
    /\ device' = FALSE /\ faults' = faults + 1
    /\ receiver' = IF receiver = "open" THEN "closed" ELSE receiver
    /\ UNCHANGED <<stage, done, pending, hands, late, clocks, command, link, refused,
                   thermometer, orphaned, hot, bus, resyncs>>

BusFails ==
    /\ stage = "run" /\ bus /\ faults < MaxFaults
    /\ bus' = FALSE /\ faults' = faults + 1
    /\ UNCHANGED <<stage, done, pending, hands, late, things, hot, device, resyncs>>

Recovers ==
    /\ stage = "run" /\ ~(device /\ bus)
    /\ device' = TRUE /\ bus' = TRUE
    /\ UNCHANGED <<stage, done, pending, hands, late, things, hot, resyncs, faults>>

-----------------------------------------------------------------------------

Timers == {"temp_sensor_poll", "comms_retry"}
Events == Timers \cup {"init", "resync", "other"}

Process(w) ==
    \/ \E event \in Events : Take(w, event)
    \/ Leave(w)
    \/ ReinitialiseReceiver(w) \/ ReinitialiseThermometer(w) \/ ConnectClients(w)
    \/ RetryReceiver(w) \/ RetryThermometer(w)
    \/ ReadTemperature(w) \/ RequestShutdown(w) \/ HandleOther(w)

Stop ==
    \/ StopThermometer \/ StopTimerManager \/ StopCmdServer \/ StopProcessors
    \/ StopStatusThread \/ StopInterfaces \/ ClearQueue \/ StopReceiver

LifeNext ==
    \/ Start \/ ReportStatus \/ PollLoop \/ Stop
    \/ \E name \in Timers : TimerExpires(name)
    \/ \E w \in Workers : Process(w)
    \/ RequestStop \/ Resync \/ Heats \/ DeviceFails \/ BusFails \/ Recovers

\* Threads go on; nothing else need happen.
LifeFairness ==
    /\ \A w \in Workers : WF_lifeVars(Process(w))
    /\ \A name \in Timers : WF_lifeVars(TimerExpires(name))
    /\ WF_lifeVars(PollLoop) /\ WF_lifeVars(Stop)

LifeSpec == LifeInit /\ [][LifeNext]_lifeVars /\ LifeFairness

-----------------------------------------------------------------------------
(* Properties                                                               *)

\* When stop() has returned and no processor was left behind, no thread runs, no
\* timer and no event is left, and every client and device is closed, whatever the
\* processors did meanwhile (dig.py:608, app.py:343).  A thermometer is the exception
\* if comms_retry dropped one (dig.py:559), or one was made after stop() had stopped it.
StopLeavesNothing ==
    Stopped /\ ~late =>
        /\ \A w \in Workers : hands[w] = Gone
        /\ clocks = {} /\ pending = <<>> /\ ~command
        /\ link = "stopped" /\ receiver = "none"
        /\ thermometer = "none" \/ orphaned

\* A digitiser that stays too hot is stopped ("Initiating automatic shutdown",
\* dig.py:485), although receiver and thermometer fail and recover, unless a new
\* configuration named a receiver that was refused: then no shutdown follows.
HeatStops == <>[](hot /\ bus) => <>(Stopped \/ refused)
=============================================================================
