# Verification of the dmd2000 radio-telescope control software

TLA+ models of the control software under `src/src`, the TLC configurations that check them,
and TLAPS proofs about them. Paths in this text are relative to `src/src` unless they start
with `src/`.

## 1. The system

Each application is a process of its own: the Telescope Manager (TM), the Dish Manager (DM), the
Digitiser (DIG), the Science Data Processor (SDP), the Weather Station (WS) and an inertial
measurement unit (IMU). All are built on one event framework: sockets, timers and the status
thread put events into a single queue, processor threads take them off, a handler changes the
application's model and returns an *action* (timers to start and stop, messages to send,
observation transitions to queue), which the processor performs after the handler has returned,
holding no lock. `--num_processors` (default 4, `env/app.py`) threads do this at the same time.

| Component | State | Operations | Talks to |
|---|---|---|---|
| Processor threads (`env/processor.py`) | running, active processors, barrier owner, queue | take an event, begin/end processing, `single_thread`, `free_thread`, `stop` | shared by all threads of an application through one condition variable |
| Event dispatch (`env/app.py`, `env/app_processor.py`, `env/events.py`) | connection map, overload flag, status event | dispatch by event type, `performActions`, overload hysteresis, status thread | handlers of the application |
| Timers (`util/timer.py`) | heap of timers | start, cancel, expire into the queue | every component |
| Transport (`ipc/`) | socket, connected, receive buffer, retry timer | connect, disconnect, send, receive blocks | connect, disconnect and data events |
| Resource allocation (`models/tm.py`, `obs/oet.py`) | allocation list with state and expiry | request, grant, release, sweep, pre-empt | observation workflow |
| Observation workflow (`obs/oet.py`, `tm/tm.py`, `models/obs.py`) | state of the observation, targets and scans, timers | ten transitions, five timers, answers, errors | DM, DIG, SDP by requests, advices and answers |
| Digitiser (`dig/dig.py`, `sdr/`) | `scanning`, stream generation, SDR, filter power | set/get/method requests, sample timers, reconnection | TM (requests, advices), SDP (samples) |
| SDP (`sdp/sdp.py`, `obs/scan.py`, `sdp/pipeline`) | queues of scans, sample counters | configure, load samples, complete, abort, reset | TM (scan complete), DIG (samples) |
| DM and drivers (`dsh/`) | dish mode, pointing state, capability, alarm | mode changes, slew/track/scan/stop, polling, weather alarm | TM, WS, motor controllers |
| WS, IMU | readings, averages | periodic polling | DM, DIG |

What makes it hard:

- *Interleaving.* Several processors handle events of one application; the locks cover parts of
  a handler (an observation's lock, `_rlock`) and never the performing of its action.
- *Stale answers and events.* The state an event was queued for may have passed when it is
  handled; answers and reports do not say which scan they belong to; a timer cannot be cancelled
  once its event is queued.
- *Failure.* Requests and answers are lost and repeated, connections drop, the SDR fails in the
  middle of a scan, processors are stopped, the scheduling block ends.
- *Waiting.* Threads wait for a barrier, observations for a resource, a configuration for a
  dish: somebody must wake each of them.

What would make each component correct: a barrier holder is alone and nobody waits for ever;
a resource has one owner, and who waits for it gets it; an observation in a waiting state is
watched by a timer, leaves its states only in the order others rely on and gives its
resources back; the digitiser has one reader per stream, reads while it is to scan and stops
when it is not; a client that is not connected is about to try again; a message comes out of the
framing as it went in; a stowed dish does not move; a scan completes exactly when its samples are in.

`PROJECT.json` lists all components, and under "hazards" each of the dangers above at the line
where it arises, with the properties that would show it.

## 2. Modules

A module names in its head the files it models and what it abstracts. `MC...` modules are
instances for TLC, `...Proofs` modules hold theorems. Operators whose comment begins with
*Mutant* are deliberately wrong variants of the definition that follows them; they are in no
next-state relation and record which slip of the code a property would notice.

| Module | Models | Composition |
|---|---|---|
| `ProcessorGate` | threads, barrier, task accounting: `env/processor.py` | |
| `ResourceAllocation` | sharing dish and digitiser: `models/tm.py`, `obs/oet.py` | |
| `ObsLifecycle` | abstract: what the states of an observation promise, `models/obs.py` | |
| `ObsWorkflow` | one observation from START to its end, with timers, faults and races: `obs/oet.py`, `tm/tm.py`, `env/app_processor.py` | implements `ObsLifecycle` |
| `TargetAcquisition` | how the TM knows that a dish is on the target of a scan: `obs/oet.py`, `tm/tm.py`, `dsh/dm.py`, `dsh/drivers/driver.py` | |
| `ObsSchedule` | merging of observation designs, starting of observations: `tm/tm.py`, `obs/oet.py`, `models/oda.py` | |
| `DigitiserStreams` | scanning and the two sample streams: `dig/dig.py` | |
| `EntityServer` | a server that keeps its digitiser's connection, under overload: `ipc/tcp_server.py`, `env/` | |
| `AppLifecycle` | start, resync, thermometer, shutdown and stop of the digitiser application: `env/app.py`, `dig/` | |
| `TcpSession` | abstract: what an application is told of a connection | |
| `TcpClient` | the client: `ipc/tcp_client.py` | implements `TcpSession` |
| `MsgFraming` | blocks, headers, reassembly: `ipc/` | |
| `ApiExchange` | versions, checks and answers of messages: `api/`, `ipc/message.py`, `env/app_processor.py` | |
| `DishDriver` | operations of a dish's driver as functions to sets of outcomes: `dsh/drivers/driver.py`, `md01_driver.py` | |
| `DishManager` | handlers, polling, weather alarm, emergency stop: `dsh/dm.py` | extends `DishDriver` |
| `MotorPointing`, `MotorResponse` | positions and answers of the motor controller: `dsh/drivers/md01` | |
| `SdpScans` | samples, scans, calibration queue: `sdp/sdp.py`, `obs/scan.py` | |
| `SpectrumPipeline` | pipelines of spectra, storing of scans: `sdp/pipeline`, `obs/scan.py` | |
| `ScanPlan`, `ScanLedger` | cutting of observations into scans, and their ticking off: `models/obs.py`, `models/target.py` | |
| `ScanIntegration` | integration and export of the scans of an observation: `obs/obs.py`, `obs/opt.py` | |
| `SdrStream` | facade, worker and streaming driver of the radio: `sdr/` | |
| `WeatherWatch` | weather station and alarm: `ws/ws.py`, `models/ws.py`, `dsh/dm.py` | |
| `ModelStore` | models to JSON and back: `models/base.py` | |
| `TraceArchive` | trace files and their archives: `util/html_trace.py` | |
| `DailyLogs` | logs of health, alarm and pointing, read back: `util/` | |
| `GqrxRecording` | recordings with another receiver program: `gqrx/` | |

| Proofs about | are in |
|---|---|
| `ResourceAllocation` | `ResourceAllocationProofs` |
| `ObsWorkflow`, `TargetAcquisition`, `ObsSchedule` | `ObservationProofs` |
| `DigitiserStreams` | `DigitiserProofs` |
| `DishManager` with `DishDriver`, `DailyLogs` | `DishManagerProofs` |
| `ProcessorGate`, `TcpClient`, `AppLifecycle`, `ApiExchange`, `GqrxRecording` | `ApplicationProofs` |
| `SdpScans`, `SpectrumPipeline` | `SdpProofs` |
| `SdrStream`, `MotorPointing`, `MotorResponse`, `WeatherWatch`, `MsgFraming`, `ScanPlan`, `ScanLedger`, `TraceArchive`, `ModelStore` | `PartsProofs` |
| numbers, sequences and recursive functions, by induction | `DataLemmas` |

Components that share no state are checked together where the combination costs nothing: the
instances `MCParts`, `MCObsFaults`, `MCDigitiserStreams`, `MCSdpScans` and `MCTcpClient` are
*disjoint unions*. A behaviour of one of them exercises one of its components, the first step
chooses which, and the others stay in one of their initial states; what such a run shows is what
runs of the components one by one would show.

How state and actions correspond to the code, for the modules where it is not obvious:

- **ProcessorGate.** One action per critical section under `Processor._state_changed`. `asleep`
  holds the threads inside `Condition.wait`, and `notify_all` empties it, so a notification that
  comes too early is visible as a sleeper nobody wakes. `stop()` is two actions, because it
  clears `_running` outside the lock. An "exclusive" event is one whose handler enters the
  barrier (initialisation, configuration, resync).
- **ResourceAllocation.** Each observation has one thread at a time (its lock); `pc` says where in
  `assign_resources` or `release_resources` it is. Assignments hold `_rlock` over their whole
  length; releases and the clock run between any two of their steps. `alloc[r][o]` is the state of
  an observation's live entry. Configuring, ready and scanning are one state, "ENGAGED".
- **ObsWorkflow.** `work[p]` is the event a processor handles and then what is left of the
  action: timers, messages, next event, in the order of `performActions`. Dish, digitiser settings
  and SDP are one number, the scan they are configured for (`asked`, `conf`); what the digitiser
  acquires is apart from it (`dig`, and `scanning` for what the TM has been told), since
  `stop_obs_scanning` compares with the latter. All targets and scans are one list.
- **TargetAcquisition** opens what `ObsWorkflow` keeps closed: the dish has a mount that moves,
  the DM a model of it, advice carries copies of that model, the TM keeps the last. A scan ends
  (`EndScan`) no earlier than the requests sent again for it have timed out: a scan of up to a
  minute (`models/target.py:23`) outlasts the two ten-second request timers.
- **ObsSchedule.** The handlers read and write the list of observations without a lock, so each
  look and each change is a step of its own. An observation made by a merge is a new object; an
  event holds the object.
- **DigitiserStreams.** A *token* is a timer `scan_samples_1` or `scan_samples_2` with the
  generation it was started under, in the heap, in the queue or in the hands of a processor.
  `mixed` becomes true when a control event (a request, a connection made or lost, `comms_retry`)
  is handled beside another event; requests far enough apart leave it false with any number of
  processors, which is the case the two streams were designed for.
- **DishDriver** maps a dish to the set of its outcomes. An exchange with the controller can fail
  after the mount has obeyed (the answer is lost) as well as before. What a handler of
  **DishManager** does to the dish it does under the dish's lock, in one step, but the tests that
  decide whether to do it come before.
- **SdpScans.** Samples are handled under the digitiser's lock, requests of the TM are not: they run
  between the steps of the samples' handler. `configuring` holds the handlers of `set_scan_config`, each
  at the field it sets next or at its search for a load; `config` is what they have made of `scanning`
  (for whom) and `tuned` (how) so far. `Grain` is what the rounding in a file's name loses. A *setting* stands for what sample metadata and scan
  configuration have in common.
- **SdrStream.** The ring buffer is a function of places with a write position and a count, as in
  the code; samples are numbered by the hardware, so that a gap or a repetition shows.
- **TcpClient.** The selector thread, a sender, the retry timer and `stop()` are four actors; the
  selector's list of ready sockets may be stale. `told` is what the application was told last.
- **AppLifecycle.** The main thread stops one component after the other, processors still handle
  events; a processor is waited for two seconds and then left behind.
- **DailyLogs.** Each log is one file, renamed to its day at the first record after midnight; the
  reports are operators of the files.

## 3. Runs

Bounds are constants named `Max...`; they guard the actions of the surroundings only. The passing
runs check 39 properties. All runs pass except the three marked, which show the findings of section 6.

| Run | Instance | Properties | Shows |
|---|---|---|---|
| `alloc_safety` | 2 observations, 2 aborts, 1 reset, 1 block that ends | `OneActive`, `UndisturbedIsServed` | a resource has one owner; if nothing is aborted and no block ends, who waits is served |
| `alloc_halfgrant` (violated) | 3 observations | `WaitingIsServed` | a release between two grants: each waits for what the other holds |
| `obs_faults` | 1 processor, 1 scan, any one of six faults, any one overtaking event; two targets and one request sent again; two designs in four units of time | `WaitingIsWatched`, `LifecycleSpec`, `TargetIsSeen`, `ScheduleIsKept` | what waits is watched by a timer; the life cycle; a scan begins on its own target; what has begun stays in the archive, and what is to come is timed |
| `obs_scans` | 1 processor, 2 scans, one overtaking event, the millisecond after the block | `ModelFollowsDigitiser` | the TM's picture of the digitiser is right when all is answered |
| `obs_liveness` | 1 scan, one of five faults, nothing overtakes | `ComesToRest` | the observation comes to rest in IDLE |
| `obs_schedule` (violated) | two blocks, one due, one to come | `NextIsTimed` | no timer for the one to come |
| `dig_streams` | 2 processors, 2 control events, both open at once; a server with 2 connections and 2 processors | `OrderlyAcquisition`, `SdrLossReported`, `FoundInTheEnd` | a digitiser that scans reads each stream once, powered; a lost SDR is reported; a server finds its digitiser again |
| `dish_manager` | a 2 x 2 grid, 2 processors, 3 commands, 2 failed exchanges, 2 changes of the weather | `MountAgrees`, `InhibitedStays`, `AlarmShelters` | what the driver believes of the mount is so; a dish without capability is not set in motion; an alarm that lasts ends in shelter |
| `sdp_scans` | 2 processors, 3 reads, 1 restart, 2 requests; two midnights of logs | `ScansAreWhole`, `LogsAreTrue` | scans are counted and filled whatever overtakes what; logs read back what was |
| `sdp_calibration` (violated) | the same | `LoadIsPrepared` | a second of sky is taken before the load for it has been looked for |
| `tcp_client` | 5 sockets, 3 breaks; 2 processors, 1 resync, 1 fault; 3 processors, 3 events, 2 of them at the barrier | `OneSocket`, `EventsInTurns`, `WorkingIsKept`, `Reconnects`, `StopLeavesNothing`, `HeatStops`, `SoleProcessor`, `NoLostWakeup`, `LoneCallerGranted` | a connection's life, the application's and the gate of its processors, see below |
| `parts` | small instances of 14 components | one property of each (`RadioIsReliable` to `TracesKept`) | see below |

`tcp_client`: the current socket is the only open one; connect and disconnect events alternate
and the last tells the truth (`EventsInTurns` is the refinement of `TcpSession`); a working
connection is dropped only by `stop()`, by left-over data, or by a send that failed on it; a
started client is connected again; a stopped application leaves no thread, timer, event or
connection behind; an overheated digitiser is switched off. At the gate the caller of
`single_thread` is alone, nobody sleeps past the truth of what it waits for, and a lone caller is
granted the barrier: this is said of one processor, since they are interchangeable.

`parts`: a block handed out by the radio holds the samples its metadata claim and a hardware
failure answers every caller (`RadioIsReliable`); a plan covers what was asked for (`PlanCovers`), its
indexes lead to an open scan (`CurrentIsOpen`) and a report ticks one off (`EveryReportCounts`);
messages leave the framing as they went in (`MessagesArrive`), and what is answered is answered in the
peer's words (`AnsweredInKind`); a dish points where it was asked to (`GoesWhereAsked`) and an answer is found
among foreign bytes (`ResponseFound`); a storm is alarmed about (`DangerIsSeen`); of a model that is
stored only named parts are lost, for named reasons it cannot be read (`ModelSurvives`); two scans' spectra are kept apart (`ScansKeepApart`); what
integration and export produce is what the scans hold (`ProductsAreTrue`); a recording becomes
the scans it is (`RecordedAndImported`); no trace is lost (`TracesKept`).

*Why the bounds are enough.* Two processors are enough for every race between two handlers, a
third for an owner, a waiter and a bystander at the gate. With two observations every pair of
one assignment and one release is covered; three are needed for a cycle with a third party, and
that is `alloc_halfgrant`. Two scans are enough for a report of the wrong one, two targets for an
acquisition of the wrong one. `MaxRaces` bounds how often something arrives before the last event is
worked off; one such arrival lets any event overtake any other. Two control events are the least
that let a new setting meet an old one. A ring of three samples with blocks of two meets every
wrap-around. Header digits to the base 2 reach the 16-bit limits with messages of a few bytes. A
circle of eight units has all quadrants and both ways round; the mounts have limits as the schema
allows them (`md01_config.py:18`), with offsets of either sign. Three reads fill a scan of two seconds
and overtake it; the frequencies of the SDP's two purposes are different ones that a file name does
not tell apart. A value of every sort, by itself and in
each kind of collection and model, and models nested four deep meet every branch of writing and reading. Where a theorem of section 5 exists
the bound no longer matters.

`CHECK_DEADLOCK FALSE` is set throughout: the systems do stop, when all processors have been
stopped, all observations are at rest, or the surroundings do nothing more.

## 4. Fairness

- `ProcessorGate`: weak fairness of each processor's step (threads are scheduled, handlers
  return) and of the second half of a `stop()` that has begun. No one is obliged to put events.
- `ResourceAllocation`: strong fairness of the steps, since `_rlock` is free only now and then and
  Python's lock is handed to a waiter eventually; weak fairness of what ends by itself: scans,
  timers, scheduling blocks. Aborts and resets have none.
- `ObsWorkflow`: weak fairness of processors and of time; strong fairness of timers, of device
  answers and of the SDP's report, because the bound `MaxRaces` disables arrivals while work is
  under way: in the code a timer fires then as well, and its event waits. Nothing obliges
  faults, operators or other observations to act.
- `DigitiserStreams`: weak fairness of each processor's handler steps and of each timer.
- `EntityServer`: the digitiser dials again and sends, and the server's threads and processors run.
  Breaks have no fairness.
- `DishManager`: polling goes on, and a handler that waits for the dish's lock gets it.
- `TcpClient`: the retry timer expires, `connect` ends either way, selector thread, sender and
  `stop()` go on once begun. Breaks have none; the server listens.
- `AppLifecycle`: processors, timers and both threads run.

TLC needs the fairness of a union per component; the MC modules restate it on the union's variables.

## 5. Proofs

All theorems hold for every value of the constants under the assumptions the modules name (null
values are no processor, observation, socket or connection; bounds are natural numbers; sizes are
positive). The bounds of the surroundings do not enter the proofs: with the bound as large as one
likes, a theorem speaks of any number of faults, commands, breaks or restarts.

`PROJECT.json` lists the theorems. For each component: what is proved, and the inductive
invariant that carries it.

**ProcessorGate** (`BarrierExclusion`, `WakeupsAreNotLost`, `BarrierBookkeeping`,
`SecondBarrierNeverReturns`). The invariant is the conjunction of `TypeOK`, `BarrierHeld`,
`SoleProcessor`, `NoLostWakeup` and `WaiterBlocked` (who waits in the first loop of
`single_thread` has found the barrier taken, and it has not been freed since). None is inductive
alone: exclusion needs to know that the owner's program counter and the active set belong
together, and a sleeper's condition can only be seen to hold if every action that falsifies it
also notifies. `SecondBarrierNeverReturns` follows because a thread in the first loop is itself in
the active set, so the owner it waits for never sees the active set drained.

**ResourceAllocation** (`TypeCorrect`, `ExclusiveAllocation`, `NoRequestLeftBehind`). `OneActive`
is established by a test and an assignment in different steps with releases in between. The
strengthening is `LockHeld` (who is inside `assign_resources` holds `_rlock`), `Unrivalled` (from
the accepted request to the assignment no other entry of the resource in hand is active) and
`RequestedInHand`. Releases and sweeps only take entries away, so one lemma, `ReleasesKeep`,
covers all steps without the lock: releasing needs no lock for exclusion, although it does
for progress (`alloc_halfgrant`).

**ObsWorkflow**, for any number of scans, with one processor (`--num_processors 1`; with more, an
action may be overtaken between handler and timers, and the properties fail for that reason):

- `WaitingWatched`: in a state that waits, the timer that ends it runs, or its event or one that
  leads out of the state is on its way. Invariant: every state but IDLE has its timer or an event
  on its way that leads out of it. Hypothesis `Millisecond = FALSE`: an abort that is
  decided in the one or two milliseconds after the block's end starts a timer of -1 ms
  (`obs/oet.py:320`).
- `DigitiserFollowed`: when all is worked off, the model says what the digitiser does. Invariant:
  the last word about the acquisition is on its way, in a queue, or is what the model says.
  Hypothesis: no acquire answer is lost (`"RequestLost"` is not among the faults).
- `LifecycleKept`: the workflow implements `ObsLifecycle`, step by step. Invariant: a release that
  waits belongs to an observation that is complete, or that was aborted and that no configuration
  can follow. Hypothesis: no operator reset. With resets the refinement is model-checked only
  (`obs_faults`): an operator who resets while a configuration is in the queue might bring an
  incomplete observation through RELEASE; no such behaviour exists within the bounds.

**TargetAcquisition** (`SightInvariant`, `TargetsAreSeen`), for any list of targets and any
requests sent again. A model of the dish, be it the DM's own, one on its way with advice or
the TM's picture, names a target in a pointing state only if the dish was found at that
target: *sightings travel with their target*. "Already there" in `slew` is sound because the
mount stays where it was seen: whoever starts a slew starts it towards the target.

**DigitiserStreams** (`AcquisitionInvariant`, `AcquisitionIsOrderly`), for any number of
processors, observations and requests. The invariant follows the tokens. No token is of a
generation to come. When a control event comes to its decision, the generation is new and no
token of it exists anywhere (`Fresh`); so the two that the decision makes are the only ones, and
from then on each is in one place, heap, queue or hand, until the next control event. A timer is
cancelled by name, whatever its generation: that this never cancels the other token is where
the token being in the hand that cancels is needed. Excepted are histories in which a control
event was handled beside another event (`mixed`).

**DishManager** (`DishIsGood`, `MountIsBelieved`, `InhibitedDishStays`), for every grid, set of
commands and errors. `Good` holds of a dish after each operation of the driver, for each way it
can end; the handlers only choose the operation. Three facts carry it: a stop forgets the
acknowledged position before it is sent; a dish whose mount may have been told something else is in
mode UNKNOWN, out of which every way but SHUTDOWN stops first; a dish that is not operational does
not move.

**DailyLogs** (`LogsInvariant`, `PointingIsFound`), for every length of a day. Every
record is in the file of its day, and a program takes the end of that day for the next midnight whenever
it starts, after a crash too (`LogFiles`). So a query of the pointing, which reads two files, finds every
sample of its range, and the nearest unless that was taken the day before. Of `LogsAreTrue` this is the
part about the pointing (`PointingIsTrue`).

**SdpScans** (`SdpInvariant`, `ScansStayWhole`), for every duration of a scan, number of processors
and set of settings. The handler of samples is three steps, and the requests of the TM run between
them without its lock; `set_scan_config` sets one field after the other. What makes it safe is that
nobody takes a scan away or changes what it is of: a scan that is aborted, reset or resynchronised is
only marked, so the scan the handler holds is still there and still fits its samples
(`HolderStands`); a second that was loaded stays loaded (`Later`), so what was announced was
complete and remains so (`AdvisedWhole`), whether it could be saved or not; a scan leaves the queue
only with a step of a counter (`EachCounted`); and however far the handlers of `set_scan_config` have
come, a new scan is made from a mixture of settings (`ConfigTypes`). Nothing is proved of the loads:
that one is prepared in time does not hold of the code (`sdp_calibration`).

**SpectrumPipeline** (`PipelineInvariant`, `PipelinesKeepApart`), for every number of digitisers, list of
steps, width, passband, load and spectrum. While nobody else reaches into the configuration, the parameters
of every step a maker has come to name its own scan (`MadeAlone`); from then on each step works on its
own scan, and a step works on another's only if that one counts as disturbed (`StepsAreOwn`). So what an
undisturbed pipeline records with its scan, load and quality, nobody else overwrites
(`LoadRecorded`, `QualityRecorded`). The products of a scan are the mean of the seconds it holds, and the
spectra before calibration have no flags (`ProductsAgree`), so a file, which has no flags per second, loses
nothing that calibration would need (`ReadBackAgrees`). Assumed of the list of steps: it calibrates and
measures, and the steps before calibration only remove the DC spike or measure quality
(`sdp/pipeline/pipeline_factory.py:19`).

**TcpClient** (`ClientInvariant`, `OnlyOneSocket`, `WorkingStays`, `ClientKeepsSession`), for any
number of lost connections. There is a current socket exactly while the client is connected and
nothing else is registered or open (`LinkAgrees`); from the moment `stop()` has destroyed the socket
no `connect()` is under way and none can start (`StopIsFinal`); the application was told of a
connection whenever there is one (`ToldAgrees`). A send ends a connection only if it failed on
the socket that is still the current one (`FailedSend`), which is what `WorkingStays` leaves it.
`ClientKeepsSession` is the refinement of `TcpSession`. The model assumes that a sender is not held up between its two checks for the five
seconds of the retry timer (`ipc/tcp_client.py:332`).

**AppLifecycle** (`StoppedForGood`, `NothingIsLeft`): what `stop()` has stopped can be started
again only by a processor, and the processors have left by the time their own place in the order
of the stop is reached, unless one was left behind (`StaysStopped`).

**ApiExchange** (`ApiInvariant`, `PeersAnsweredInKind`), for every nesting of headers that a message
echoes. What the processor holds is the peer's message in the words of this side, and was checked in
these words; an answer drafted from it, in the version of either side, goes back over the same
translation, since the header echoed last is the peer's own (`Drafted`). So there is always a way back, and
what an answer can fail on is its value. That there is an answer is not claimed: a handler may be missing,
raise, or return no message, for a valid request too (`HandlerIsMute`).

**GqrxRecording** (`GqrxInvariant`, `RecordedAndImportedHolds`), for recordings of any length, any sample
rate and any number of failing commands. While the operator leaves GQRX alone it records from the answer
to the first command to the answer to the last, and every way out of the session has told it to stop
(`RecordingGoes`). The import is a loop: the scans so far hold the seconds done, one after the other, each
with the samples that begin at its multiple of the rate (`ImportGoes`); a second is loaded only at a whole
rate, so an import that makes scans has one.

**ScanLedger** (`PlanInvariant`, `IndexesLeadToOpenScan`, `EndsWithPlan`, `NumbersKeepRising`,
`ReportsCount`), for plans of any size. A planned scan keeps its number until it is complete
(`OpenKeepsNumber`), and no two of a band have the same (`Distinct`), since a number is taken over
only when no scan of the band has it; the search for the next scan leaves no open scan
behind (`EarlierDone`). The numbers of a band rise from the scans ticked off over the reports under
way to the processor's counter, so a report always names an open scan.

**SdrStream** (`StreamIsWhole`, `RadioAnswers`), for any ring, block and chunks. Every sample is
accounted for: read before a reset, dropped and counted as dropped, handed out, or in the ring,
which holds what its counters claim; a caller that waits is in the queue or in the worker's hand
until the worker terminates.

**MotorPointing** (`PointsWhereAsked`), for every mount whose limits the schema allows: the
conversions lose less than a pulse, which is what the poll's comparison allows, and a position that can
be reached is not clamped. The poll makes an `AltAz` of the reported position before it compares, which
fails beyond 90 degrees of altitude; an arrival is therefore recognised unless the mount was tipped over
the zenith, and only a negative offset in altitude lets it go there.

**MotorResponse** (`ReaderInvariant`, `FirstAnswerFound`), for every alphabet of bytes, length of an
answer and way the bytes come in. A byte that has been thrown away begins no answer, now or with
what is still to come (`RuledOut`), so what the driver holds keeps the first answer.

**MsgFraming** (`FramingIsWhole`, `EveryMessageArrives`), for every base of the header's digits, block
size and messages. The invariant says what would happen if all bytes on their way came now: the
receiver would have delivered what was sent, with nothing kept back. A receive keeps it, since bytes
may be worked off when they come or later (`DrainWorks`), and a send, since a receiver without
a block takes a message's bytes for that message (`MessageComes`).

**ScanPlan** (`PlannedOnce`, `DesignIsCovered`), for every sample rate, bandwidth, integration time and
list of targets. The ceilings give enough captures for the band and enough iterations for the
time, the first capture begins below the band, the last ends above it, and neighbours overlap
(`FrequencyCovered`); a five-point target is expanded once however often the observation is planned.

**WeatherWatch** (`StationIsTruthful`, `DangerIsNeverMissed`), for every period, threshold and
retention: samples taken in a storm do not say calm, wherever they are on their way; so the last
ones either raise the alarm or are too old, which raises it too.

**TraceArchive** (`TracesInvariant`, `NoTraceLost`), for any number of archives to keep. Owner and
manager take no common lock, so the invariant says what each has seen of the directory that the other
cannot undo: the name the owner considers is still free (`OwnerRelies`), the claimed source is still
there and what is written is a copy of it (`ManagerRelies`), and a compressed archive the owner has
listed is still there (`ListStands`), since nothing else deletes it. No name is an archive's and a
claimed archive's at once (`NamesApart`), so no renaming overwrites one; that the manager finds a
free name at all is the pigeonhole principle on the names with a number appended. Every step of the
manager carries the archives one to one to archives, and those not to be deleted to such (`Carried`),
so the number the owner counted when it sorted is still there when it deletes (`EnoughStays`). All this
holds until a name is given back while the owner considers it (`givenBack`, section 6).

**ModelStore** (`StoreInvariant`, `ModelsSurvive`), for any classes of models, any choice of the fields
that take only models or lists of models, and any depth of nesting. What one round of writing and reading
does to a value is settled part by part (`Comes`, `ValuesCome`): it comes back, or what was lost is of
one of the sorts named (`Lossy`), and what was read is written as the first value was; or it cannot be read,
for what is written and has no reading (`Unreadable`) or a class that is not read (`Refused`). So saving and reading again
changes nothing more, and the store's invariant has only three models in it: the first, what is
read of it, and none. Saved models are assumed to be what a program can hold (`StoreAssumption`):
values of the sorts listed, in fields that take them. The depth is a constant because nested data is a
function of it: `nested`, `inside`, `written` and `readBack` are recursive functions, which exist because
parts are nested less deep than the whole (`NestedIs`, `WrittenIs`, `ReadBackIs`).

**ObsSchedule** (`ScheduleInvariant`, `ScheduleKept`), for any designs, number of workers and
length of time. What a merging handler has read of the archive still holds when it acts on it
(`MergeInv`): with one design merged at a time (`OneAtATime`) nobody else changes the archive, and a
START only marks an observation. So no observation is in the archive twice (`Distinct`), and one
that has begun, or is being started, is not replaced (`StartedStays`). Whatever is still awaited is
*cared for* (`TimedInv`): a decision is on its way, the observation is starting, or a timer is set no
later than its start; and while a decision is performed this already holds of the timer it is about
to set. Excepted are histories in which two designs were merged at once or one replaced an
observation being started (`crossed`), and, for the timer alone, those in which the last decision
found another observation due (`cut`), which is the finding of `obs_schedule`.

*Induction over data.* The library's induction theorems take an operator as a parameter, which the
provers cannot instantiate. `DataLemmas` does without: a set of numbers for which a
statement fails has a least element (`LeastNumber`). From it follow that a recursive function whose
calls get smaller exists and is what its definition says (`TailRecursion`; the loops of the
framing and of the motor's answers are such functions), that a function of 0..n given by its first value
and a step exists (`Recursion`; choosing from queues, removing scans one by one and the steps of a pipeline
are such functions), and that `FlattenSeq` joins sequences one by one (`JoinedStep`). The functions over
nested values of `ModelStore` are had from it directly, by the least depth at which they would fail.

Type invariants are part of the inductive invariants, and theorems of their own for
`ResourceAllocation`, `TcpClient` and `DishManager`.

*Model-checked only.*

- Liveness (`LoneCallerGranted`, `UndisturbedIsServed`, `ComesToRest`, `SdrLossReported`,
  `FoundInTheEnd`, `AlarmShelters`, `Reconnects`, `HeatStops`): fairness and ENABLED are outside the
  prover's reach.
- `ProductsAreTrue`, and the parts of `LogsAreTrue` about health and alarms (`HealthIsTrue`,
  `AlarmIsTrue`), compare sums, sorted lists and flattened lists (`SortSeq`, `FlattenSeq`, folds over
  sets) with a reference definition. Each needs induction over the data, by hand
  for every fold; the runs compare all instances within the bounds.

## 6. Where code and text disagree

Three runs show a disagreement; `PROJECT.json` quotes the lines.

- `alloc_halfgrant`: `release_resources` takes no `_rlock` (`obs/oet.py:620`); three observations
  can end in a cycle of half-grants nobody resolves.
- `obs_schedule`: `start_next_obs_timer` returns once it has started what is due
  (`obs/oet.py:394`); an observation that is to come gets no timer until another design or timer
  comes.

- `sdp_calibration`: `set_scan_config` sets the fields of the digitiser (`sdp/sdp.py:620`) and only then
  looks for a load (`sdp/sdp.py:693`), without the digitiser's lock. Its docstring says that the load is
  prepared before samples for a sky scan start arriving; a second of sky can be taken before.

Other things met while modelling. They are outside what the properties promise, because a property
excepts them, a hypothesis excludes them, or the model leaves them out.

*Observations.* Two callers of `single_thread` wait for each other (`env/processor.py:48`, e.g.
two resync requests at once): `SecondBarrierNeverReturns`. An ABORT between the request to acquire
and its answer sends the digitiser nothing (`obs/oet.py:982`, `tm/tm.py:1397`). A digitiser error
that is handled late aborts a completed observation (`tm/tm.py:829`). CONFIGURE_RESOURCES is
accepted in IDLE without a look at the allocations (`obs/oet.py:180`). Actions are performed after
the observation's lock is released (`env/app_processor.py:441`). An allocation expires at the
end of the block though its owner is engaged (`models/tm.py:126`). An owner that was aborted may be
reset between the test and the release (`obs/oet.py:610`). In a merge, enumeration and `pop`
skip the element after a removed one (`tm/tm.py:282`); a START event holds the object that a merge
replaces, so the old one runs outside the archive; a list that another merge has shortened ends
the handler with an IndexError.

*Targets.* A periodic status snapshot between the setting of a target and its slew shows a drift scan's
target as READY (`dsh/dm.py:838`, `dsh/drivers/driver.py:1025`). A setting sent twice while the dish
tracks leaves the TM's picture UNKNOWN until the configuring timer; a duplicate CONFIG after the target takes
the dish out of OPERATE. A poll right after the slew command, before the mount moves, reads
as a premature stop. A retried target that `start_scan()` has changed no longer compares equal.

*Dish.* MAINTENANCE is undone by a handler that tested the mode before the lock (`dsh/dm.py:312`). An
OSError out of the controller's exchange ends polling (`md01_driver.py:361`; the run's `Errors` leaves
it out, the theorems do not). The poll re-arms its own timer at its end (`dsh/dm.py:815`).
A mount tipped over the zenith under a negative offset reports an altitude of more than 90 degrees, from which
no `AltAz` can be made (`dsh/drivers/driver.py:549`): polling ends with an error that `dsh/dm.py:718`
does not catch. `set_target_tuple`
splits identifiers by `_` though they are joined by `-`.

*Digitiser and radio.* `comms_retry` replaces a silent thermometer without stopping its thread
(`dig/dig.py:559`). A resync naming an unsupported `sdr_type` leaves no SDR; `comms_retry` loses its timer
and an over-temperature poll fails before it switches off (`HeatStops` excepts this). After an
overheat shutdown a TM request switches the filter on again (`dig/dig.py:292`). The facade's
worker may be set to None between check and call; `sdr/drivers/stream.py:142` swallows an error; a producer that
does not stop within two seconds leaves the device open.

*SDP.* A scan that could not be saved is announced all the same (`sdp/sdp.py:989`, `obs/scan.py:800`). A
load is taken from disk if its file name fits, in which frequency and bandwidth are rounded to two
decimals of MHz (`obs/scan.py:924`, `util/util.py:241`). Two merges at once take out each other's load, and the
end of an observation flushes its loads though the setting of another one is calibrated with them
(`sdp/sdp.py:781`). A reset can race with configuration and resurrect aborted scans (`obs/scan.py:26`). A
synthetic load configured twice stays in the calibration queue (`sdp/sdp.py:997`). The model simplifies
here: every request sets all fields (the code leaves out what the TM believes is set already, and defers
an automatic gain), a handler of samples reads the configuration in one step, `set_obs_complete`
is one step. Overload drops samples
(`sdp/sdp.py:512`); a scan with a hole is completed by samples of another setting (`sdp/sdp.py:305`). Steps
of a pipeline share their parameters between digitisers (`pipeline_factory.py:116`). An integrated
observation's duration is not "the number of scan iterations that were integrated"
(`obs/obs.py:320`), and a load's integration starts at ones. A filterbank header takes its start from the first
scan even if its file is missing (`obs/opt.py:633`).

*Transport and framework.* `recv_buffer` survives a connection (`ipc/tcp_client.py:204`; the properties except
`Spoiled`). A server's block count is not reset when a message cannot be decoded
(`ipc/tcp_server.py:190`). The communication status can stay down though connected
(`env/app_processor.py:358`). A late `cancel` misses a timer whose event is queued (`util/timer.py:53`).
A send that fails on
a connection that works drops it: `sendall` raises when the buffer of the non-blocking socket is full, and
a message that cannot be encoded does the same (`ipc/tcp_client.py:345`). A valid request stays without an
answer if its handler is missing, raises or returns no message (`env/app_processor.py:290`): the Weather
Station never answers (`ws/ws.py:190`), the Dish Manager only where it has a branch (`dsh/dm.py:389`).
`TCPServer.stop` never closes its listening socket. Version "1.1" is accepted as legacy but
cannot be translated; list-valued results fail the type check of `tm_dig` and are dropped.

*Storing and logs.* Models are validated after they are stored (`models/base.py`); writing truncates first,
so a crash leaves an empty file; tuples come back as lists, quantities without unit, positions of the sky without their
time and epoch. Written but not read are enumerations that are not listed (`ScanDataSource`,
`models/scan.py:25`) and frames other than the listed ones (`models/base.py:522`); models of
`models/launch.py`, whose `from_dict` does not deserialise, and of classes without a branch cannot be loaded. The archive
manager may give a name back after the owner found it free, and the owner then overwrites an archive
(`TracesKept` excepts this). An alarm begun yesterday and ended today is not read after
the renaming; a day with a transition but no heartbeat before a crash claims availability for
ever; reliability takes every heartbeat for an interval (`util/availability.py:215`); the nearest pointing sample
just after midnight is in the file of the day before (`dsh/drivers/driver.py:152`).

*GQRX.* The test deletes every new recording, foreign ones too; a failing stop leaves the recording
on; `set_hardware_frequency` failing after its first command leaves the receiver far below; with
a fractional sample rate every load fails (`gqrx/injector.py:198`).

## 7. Plan

Done: the modules of section 2, the runs of section 3, the theorems of section 5. What is left,
most important first:

1. Proofs: the health and alarm parts of `LogsAreTrue` (a report of a day gives what was recorded) and the numbering of
   rows in `ProductsAreTrue`, with lemmas about folds like those of `DataLemmas`.
2. Dish, digitiser settings and processor as three answers of one configuration in `ObsWorkflow`,
   with `TargetAcquisition` in place of the dish.
3. The digitiser mapping of the TM (`tm/map.py`) and the resync of its stores.
4. `SdpScans` composed with `DigitiserStreams`, for samples that are labelled after a change.

## 8. Not modelled

Numerical processing (the transforms of `sdp/pipeline`, displays, `fil`), the vendors' libraries below
the SDR, motor and sensor drivers, inertial measurement, wind statistics, user interface,
web and spreadsheet export, scripts, prototypes under `poc`, vendored files under `src/dist`.
Within modelled components: SDR setters and auto gain, the digitiser mapping and the resync of the
TM's stores, the separate answers of dish, digitiser settings and SDP during one configuration,
command line and configuration files. Message contents are left out where no property depends on them.
`PROJECT.json` has the reason for each component.
