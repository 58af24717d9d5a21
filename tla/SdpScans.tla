------------------------------- MODULE SdpScans -------------------------------
(***************************************************************************)
(* The Science Data Processor (sdp/sdp.py) as it assembles the one-second  *)
(* sample messages of a digitiser into scans.  Samples, requests of the    *)
(* Telescope Manager and link events share one queue, emptied by NumProcs  *)
(* processors.  The handler of samples works under the lock of the         *)
(* digitiser; the handlers of `scan_config`, `obs_reset` and               *)
(* `obs_complete` take no lock and run between its steps.  set_scan_config *)
(* changes the digitiser field by field and looks for a load afterwards.   *)
(*                                                                         *)
(* A setting stands for what the sample metadata and the scan              *)
(* configuration have in common: the target (observation, target index and *)
(* frequency scan), the frequency, the gain and whether the load is on.    *)
(* One digitiser is modelled; its lock is held while `holder` is not None. *)
(***************************************************************************)
EXTENDS Integers, FiniteSets, SequencesExt

CONSTANTS
    Settings,      \* records [tgt, obs, odt, freq, gain, load]
    None,          \* no setting, no handler, no samples
    NumProcs,      \* processor threads
    Duration,      \* seconds of a scan
    Grain,         \* frequencies that the name of a file does not tell apart
    MaxFailures,   \* failed loads after which a scan is aborted (3 in the code)
    PurgeLimit,    \* calibration scans beyond which they are purged (5 in the code)
    MaxReads,      \* bound: reads of the digitiser
    MaxRestarts,   \* bound: restarts of the digitiser
    MaxRequests,   \* bound: requests of the Telescope Manager and resyncs
    MaxQueue       \* bound: events in the queue

\* The parts of settings, put together in any way.
Parameters(part) == {s[part] : s \in Settings}
Mixed == [tgt : Parameters("tgt"), obs : Parameters("obs"), odt : BOOLEAN,
          freq : Parameters("freq"), gain : Parameters("gain"), load : BOOLEAN]

ASSUME SettingsAssumption == Settings \subseteq Mixed
ASSUME BoundsAssumption ==
    /\ {NumProcs, Duration, MaxFailures, Grain} \subseteq Nat \ {0}
    /\ {PurgeLimit, MaxReads, MaxRestarts, MaxRequests, MaxQueue} \subseteq Nat

VARIABLES
    source,     \* the digitiser: its read counter, its setting, its restarts, its link
    wanted,     \* the setting the Telescope Manager last asked for
    observing,  \* the observation its tool configured last and has not ended
    requests,   \* requests made so far (bounded)
    queue,      \* the event queue of the SDP
    busy,       \* events taken by a processor and not yet handled
    holder,     \* the samples handler that holds the digitiser's lock
    reset,      \* the obs_reset handler between its list of scans and their abort
    configuring,\* the set_scan_config handlers in progress, by processor
    linked,     \* sdp_connected of the digitiser
    scanning,   \* what the digitiser scans for, as the SDP has set it, or None
    tuned,      \* its frequency, gain and load, as the SDP has set them
    scans,      \* every scan created, in order
    sky_q,      \* indices of the scans being assembled
    cal_q,      \* calibration scans
    disk,       \* completed scans with files on disk
    iter,       \* Scan._scan_iter_counter: the next iteration of a target
    counts,     \* scans_completed, scans_aborted, scans_wip
    tmUp,       \* tm_connected
    advised     \* scans whose completion was announced to the Telescope Manager

vars == <<source, wanted, observing, requests, queue, busy, holder, reset, configuring,
          linked, scanning, tuned, scans, sky_q, cal_q, disk, iter, counts, tmUp, advised>>

Targets == Parameters("tgt")
Observations == Parameters("obs")
Purposes == [tgt : Targets, obs : Observations, odt : BOOLEAN]
Tunings == [freq : Parameters("freq"), gain : Parameters("gain"), load : BOOLEAN]
Pending == {"EMPTY", "WIP"}

-----------------------------------------------------------------------------
(* Scans and queues *)

\* Scan identity is the target with the iteration.
ScanId(s) == <<s.setting.tgt, s.iter>>

\* The last read counter of a scan.
End(s) == s.start + Duration - 1

\* ScanModel.equivalent: the load flag and the target do not count.
Equivalent(a, b) == a.freq = b.freq /\ a.gain = b.gain

IsPending(i) == scans[i].status \in Pending

\* The SDP's setting of the digitiser, or None while it does not scan.
config == IF scanning = None THEN None
          ELSE [tgt |-> scanning.tgt, obs |-> scanning.obs, odt |-> scanning.odt,
                freq |-> tuned.freq, gain |-> tuned.gain, load |-> tuned.load]

\* Those of a sequence that are in a set, in order.
OnlyIn(q, set) ==
    LET chosen[n \in 0..Len(q)] ==
            IF n = 0 THEN <<>>
            ELSE IF q[n] \in set THEN Append(chosen[n - 1], q[n]) ELSE chosen[n - 1]
    IN chosen[Len(q)]

\* Queue.remove takes out the first scan with the same id, if there is one.
Without(q, i, all) ==
    LET at == SelectInSeq(q, LAMBDA j : ScanId(all[j]) = ScanId(all[i]))
    IN IF at = 0 THEN q ELSE RemoveAt(q, at)

\* One scan after the other is taken out.
WithoutAll(q, is, all) ==
    LET left[n \in 0..Len(is)] == IF n = 0 THEN q ELSE Without(left[n - 1], is[n], all)
    IN left[Len(is)]

\* A calibration scan: real with the scan it holds, or synthetic (scan 0).
Load(s, i) == [setting |-> s, scan |-> i]

\* The equivalents of a scan go.  They are compared by object, so the scan
\* itself stays however often it is there.
Replacing(q, l) == OnlyIn(q, {l} \cup {m \in ToSet(q) : ~Equivalent(m.setting, l.setting)})

\* _merge_into_queue: the new scan takes the place of its equivalents.
Merge(q, l) == Replacing(Append(q, l), l)

\* The samples' metadata agree with the configuration of the SDP; the
\* scanning metadata are compared for observations out of the ODT only.
Agrees(s, c) ==
    /\ c # None
    /\ s.freq = c.freq /\ s.gain = c.gain /\ s.load = c.load
    /\ c.odt => s.tgt = c.tgt

\* Mutant: the frequency and the load of the samples are not compared again.
FitsWindowOnly(m, s) == m.n \in s.start..End(s)

\* The samples belong to the window of the scan and to its parameters.
Fits(m, s) ==
    /\ m.n \in s.start..End(s)
    /\ s.setting.freq = m.setting.freq /\ s.setting.load = m.setting.load

\* The digitiser has left the window of the scan behind, or has restarted.
Outdated(m, s) == m.n > End(s) + Duration \/ m.n < s.start

-----------------------------------------------------------------------------
(* Events, scans and types *)

Sample == [kind : {"samples"}, n : 1..MaxReads, run : 0..MaxRestarts,
           setting : Settings, whole : BOOLEAN]
Request == [kind : {"config"}, setting : Settings]
           \cup [kind : {"reset", "complete"}, obs : Observations]
LinkEvent == [kind : {"up", "down"}]
ASSUME NoneAssumption == None \notin Sample
Event == Sample \cup Request \cup LinkEvent

Scan == [setting : Mixed, start : 1..MaxReads, iter : Nat, fails : Nat,
         status : Pending \cup {"ABORTED", "COMPLETE"},
         secs : [1..Duration -> {None} \cup Sample]]

Stages == {"freq", "gain", "scanning", "load", "list", "find", "put", "replace", "purge"}
Configuration == [setting : Settings, stage : Stages, model : {None} \cup Mixed,
                  listed : Seq([setting : Mixed, scan : Nat]),
                  use : {None} \cup [setting : Mixed, scan : Nat]]

\* Every variable keeps its type.
TypeOK ==
    /\ source \in [n : 0..MaxReads, reads : 0..MaxReads, run : 0..MaxRestarts,
                   setting : Settings \cup {None}, connected : BOOLEAN]
    /\ wanted \in Settings \cup {None} /\ observing \in Observations \cup {None}
    /\ requests \in 0..MaxRequests
    /\ queue \in Seq(Event) /\ Len(queue) <= MaxQueue
    /\ busy \subseteq Event
    /\ holder = None \/ holder \in [msg : Sample, scan : DOMAIN scans, done : BOOLEAN]
    /\ reset = None \/ reset.scans \subseteq DOMAIN scans
    /\ configuring \in [1..NumProcs -> {None} \cup Configuration]
    /\ linked \in BOOLEAN /\ tmUp \in BOOLEAN
    /\ scanning \in Purposes \cup {None} /\ tuned \in Tunings
    /\ scans \in Seq(Scan)
    /\ ToSet(sky_q) \cup disk \subseteq DOMAIN scans
    /\ \A l \in ToSet(cal_q) : l.setting \in Mixed /\ l.scan \in {0} \cup DOMAIN scans
    /\ iter \in [Targets -> Nat]
    /\ counts \in [completed : Nat, aborted : Nat, wip : Nat]
    /\ advised \subseteq DOMAIN scans

\* A digitiser as it is loaded: tuned to anything, without the load.
AsConfigured == {t \in Tunings : ~t.load}

Init ==
    /\ source = [n |-> 0, reads |-> 0, run |-> 0, setting |-> None, connected |-> FALSE]
    /\ wanted = None /\ observing = None /\ requests = 0
    /\ queue = <<>> /\ busy = {}
    /\ holder = None /\ reset = None /\ configuring = [p \in 1..NumProcs |-> None]
    /\ linked = FALSE /\ scanning = None /\ tuned \in AsConfigured
    /\ scans = <<>> /\ sky_q = <<>> /\ cal_q = <<>> /\ disk = {}
    /\ iter = [t \in Targets |-> 0]
    /\ counts = [completed |-> 0, aborted |-> 0, wip |-> 0]
    /\ tmUp = TRUE /\ advised = {}

manager == <<wanted, observing, requests>>
outside == <<source, manager>>
configs == <<configuring, scanning, tuned>>
sdpState == <<holder, reset, configs, linked, scans, sky_q, cal_q, disk, iter, counts,
              tmUp, advised>>

-----------------------------------------------------------------------------
(* The digitiser and the Telescope Manager, as far as the SDP sees them *)

Enqueue(e) == Len(queue) < MaxQueue /\ queue' = Append(queue, e)

\* The digitiser takes over the setting it was asked for.
Retune ==
    /\ source.setting # wanted
    /\ source' = [source EXCEPT !.setting = wanted]
    /\ UNCHANGED <<manager, queue, busy, sdpState>>

\* A second of samples is read and sent, whole or cut short.
Read ==
    /\ source.setting # None /\ source.reads < MaxReads /\ source.connected
    /\ source' = [source EXCEPT !.n = @ + 1, !.reads = @ + 1]
    /\ \E whole \in BOOLEAN :
         Enqueue([kind |-> "samples", n |-> source.n + 1, run |-> source.run,
                  setting |-> source.setting, whole |-> whole])
    /\ UNCHANGED <<manager, busy, sdpState>>

\* The digitiser restarts: its link goes down and later up, reading starts over.
Restart ==
    /\ source.run < MaxRestarts /\ source.n > 0 /\ source.connected
    /\ Enqueue([kind |-> "down"])
    /\ source' = [source EXCEPT !.n = 0, !.run = @ + 1, !.setting = None, !.connected = FALSE]
    /\ wanted' = None
    /\ UNCHANGED <<observing, requests, busy, sdpState>>

Reconnect ==
    /\ ~source.connected
    /\ Enqueue([kind |-> "up"])
    /\ source' = [source EXCEPT !.connected = TRUE]
    /\ UNCHANGED <<manager, busy, sdpState>>

\* The Telescope Manager configures the scans to come, for its tool of the ODT
\* or for a user, or resets or completes the observation of the ODT.
Ask ==
    /\ tmUp /\ requests < MaxRequests
    /\ requests' = requests + 1
    /\ \/ \E s \in Settings :
            /\ Enqueue([kind |-> "config", setting |-> s]) /\ wanted' = s
            /\ observing' = IF s.odt THEN s.obs ELSE observing
       \/ \E k \in {"reset", "complete"} :
            /\ observing # None /\ Enqueue([kind |-> k, obs |-> observing])
            /\ wanted' = None /\ observing' = None
    /\ UNCHANGED <<source, busy, sdpState>>

-----------------------------------------------------------------------------
(* The processors *)

\* A processor is free to take the next event.
Free == Cardinality(busy) + Cardinality({h \in {holder, reset} : h # None})
          + Cardinality({p \in 1..NumProcs : configuring[p] # None}) < NumProcs

\* An event is taken.  Samples may be dropped here unprocessed: acknowledged
\* while the queue is overloaded, or lost on their way.
Dequeue ==
    /\ queue # <<>> /\ Free /\ Head(queue) \notin busy
    /\ queue' = Tail(queue)
    /\ \/ busy' = busy \cup {Head(queue)}
       \/ Head(queue).kind = "samples" /\ UNCHANGED busy
    /\ UNCHANGED <<outside, sdpState>>

\* Counting and removal done by _abort_scan for each of a sequence of scans.
Abort(is, all, q, c) ==
    [scans  |-> [i \in DOMAIN all |->
                   IF i \in ToSet(is) THEN [all[i] EXCEPT !.status = "ABORTED"] ELSE all[i]],
     sky_q  |-> WithoutAll(q, is, all),
     counts |-> [c EXCEPT !.aborted = @ + Len(is)]]

NewScan(m) ==
    [setting |-> [config EXCEPT !.freq = m.setting.freq, !.gain = m.setting.gain,
                                !.load = m.setting.load],
     start |-> m.n, iter |-> iter[config.tgt], fails |-> 0, status |-> "EMPTY",
     secs |-> [k \in 1..Duration |-> None]]

\* process_dig_entity_msg up to the load: under the lock, samples that do not
\* agree with the configuration are discarded, scans left behind are aborted,
\* and the scan of the samples is found or created.
Receive(m) ==
    /\ m \in busy /\ m.kind = "samples" /\ holder = None
    /\ busy' = busy \ {m}
    /\ IF ~Agrees(m.setting, config)
       THEN UNCHANGED <<holder, scans, sky_q, iter, counts>>
       ELSE LET pending == OnlyIn(sky_q, {i \in DOMAIN scans : IsPending(i)})
                match   == SelectInSeq(pending, LAMBDA i : Fits(m, scans[i]))
                seen    == IF match = 0 THEN pending ELSE SubSeq(pending, 1, match - 1)
                stale   == OnlyIn(seen, {i \in DOMAIN scans :
                              m.n \in scans[i].start..End(scans[i]) \/ Outdated(m, scans[i])})
                new     == IF match = 0 THEN 1 ELSE 0
                left    == Abort(stale, scans, sky_q, [counts EXCEPT !.wip = Len(pending) + new])
                base    == IF m.n = 1 /\ \E i \in ToSet(stale) : Outdated(m, scans[i])
                           THEN [t \in Targets |->
                                  IF \E s \in Settings : s.tgt = t /\ s.obs = config.obs
                                  THEN 0 ELSE iter[t]]
                           ELSE iter
            IN /\ counts' = left.counts
               /\ IF match # 0
                  THEN /\ scans' = left.scans /\ sky_q' = left.sky_q /\ iter' = base
                       /\ holder' = [msg |-> m, scan |-> pending[match], done |-> FALSE]
                  ELSE /\ scans' = Append(left.scans,
                                      [NewScan(m) EXCEPT !.iter = base[config.tgt]])
                       /\ sky_q' = Append(left.sky_q, Len(scans) + 1)
                       /\ iter' = [base EXCEPT ![config.tgt] = @ + 1]
                       /\ holder' = [msg |-> m, scan |-> Len(scans) + 1, done |-> FALSE]
    /\ UNCHANGED <<outside, queue, reset, configs, linked, cal_q, disk, tmUp, advised>>

\* The status of a scan into which a second was loaded.
StatusOf(loaded) ==
    IF \E k \in 1..Duration : loaded.secs[k] = None THEN "WIP" ELSE "COMPLETE"

\* Scan.load_samples and what the handler makes of a failure: too many
\* failures abort the scan, whatever status it has by now.
LoadSamples ==
    LET i == holder.scan
        m == holder.msg
        sec == m.n - scans[i].start + 1
        failed == [scans[i] EXCEPT !.fails = @ + 1]
        loaded == [scans[i] EXCEPT !.secs[sec] = m]
    IN /\ holder # None /\ ~holder.done
       /\ holder' = [holder EXCEPT !.done = TRUE]
       /\ IF m.whole
          THEN /\ scans' = [scans EXCEPT ![i] = [loaded EXCEPT !.status = StatusOf(loaded)]]
               /\ UNCHANGED <<sky_q, counts>>
          ELSE LET all == [scans EXCEPT ![i] = failed]
                   left == Abort(IF failed.fails >= MaxFailures THEN <<i>> ELSE <<>>,
                                 all, sky_q, counts)
               IN scans' = left.scans /\ sky_q' = left.sky_q /\ counts' = left.counts
       /\ UNCHANGED <<outside, queue, busy, reset, configs, linked, cal_q, disk, iter,
                      tmUp, advised>>

\* What becomes of a completed scan: it is saved, perhaps in part, and announced;
\* it is announced although it could not be saved; saving it raises.
SavedAndAdvised(i) ==
    LET announced == IF tmUp THEN advised \cup {i} ELSE advised
    IN \/ disk' = disk \cup {i} /\ advised' = announced
       \/ disk' = disk /\ advised' = announced
       \/ UNCHANGED <<disk, advised>>

\* The end of the handler: a scan found complete is counted, taken out of the
\* queue, kept for calibration when it is of the load, saved and announced.
Finish ==
    LET i == holder.scan
    IN /\ holder # None /\ holder.done
       /\ holder' = None
       /\ IF scans[i].status = "COMPLETE"
          THEN /\ counts' = [counts EXCEPT !.completed = @ + 1,
                                           !.wip = IF @ > 0 THEN @ - 1 ELSE 0]
               /\ sky_q' = Without(sky_q, i, scans)
               /\ cal_q' = IF scans[i].setting.load
                           THEN Merge(cal_q, Load(scans[i].setting, i)) ELSE cal_q
               /\ SavedAndAdvised(i)
          ELSE UNCHANGED <<counts, sky_q, cal_q, disk, advised>>
       /\ UNCHANGED <<outside, queue, busy, reset, configs, linked, scans, iter, tmUp>>

-----------------------------------------------------------------------------
(* Requests of the Telescope Manager, handled without the lock *)

\* The newest of a set of calibration scans.
Newest(ls) == CHOOSE l \in ls : \A m \in ls : m.scan <= l.scan

\* The frequency as the name of a file gives it: rounded.
FileFreq(f) == (f + Grain \div 2) \div Grain

\* Loads whose files have a name that fits: find_equiv_scan compares the
\* frequency as it is rounded there, and leaves out those of the same target.
Stored(s) == {Load(scans[i].setting, i) : i \in {j \in disk :
    /\ scans[j].setting.load /\ scans[j].setting.gain = s.gain
    /\ FileFreq(scans[j].setting.freq) = FileFreq(s.freq)
    /\ scans[j].setting.tgt # s.tgt}}

\* set_scan_config begins: refused without a link and, for a scan of a user, while
\* the digitiser works for an observation of the ODT.
SetScanConfig(r) ==
    /\ r \in busy /\ r.kind = "config"
    /\ busy' = busy \ {r}
    /\ IF linked /\ (r.setting.odt \/ config = None \/ ~config.odt)
       THEN \E p \in 1..NumProcs :
              /\ configuring[p] = None /\ \A q \in 1..(p - 1) : configuring[q] # None
              /\ configuring' = [configuring EXCEPT ![p] =
                    [setting |-> r.setting, stage |-> "freq", model |-> None,
                     listed |-> <<>>, use |-> None]]
       ELSE UNCHANGED configuring
    /\ UNCHANGED <<outside, queue, holder, reset, linked, scanning, tuned, scans, sky_q,
                   cal_q, disk, iter, counts, tmUp, advised>>

\* The fields of the digitiser in the order in which the OET's request has them.
After == [freq |-> "gain", gain |-> "scanning", scanning |-> "load", load |-> "list"]

\* One field is set.
SetField(p) ==
    LET c == configuring[p]
    IN /\ c # None /\ c.stage \in DOMAIN After
       /\ IF c.stage = "scanning"
          THEN /\ scanning' = [tgt |-> c.setting.tgt, obs |-> c.setting.obs,
                               odt |-> c.setting.odt]
               /\ tuned' = tuned
          ELSE /\ tuned' = [tuned EXCEPT ![c.stage] = c.setting[c.stage]]
               /\ scanning' = scanning
       /\ configuring' = [configuring EXCEPT ![p].stage = After[c.stage]]
       /\ UNCHANGED <<outside, queue, busy, holder, reset, linked, scans, sky_q, cal_q, disk,
                      iter, counts, tmUp, advised>>

\* A load is described with what the digitiser is tuned to by now, and the
\* calibration scans there are now are listed.
ListLoads(p) ==
    LET c == configuring[p]
    IN /\ c # None /\ c.stage = "list"
       /\ configuring' = [configuring EXCEPT ![p] =
             [c EXCEPT !.stage = "find", !.listed = cal_q,
                       !.model = [c.setting EXCEPT !.freq = tuned.freq, !.gain = tuned.gain,
                                                   !.load = TRUE]]]
       /\ UNCHANGED <<outside, queue, busy, holder, reset, linked, scanning, tuned, scans,
                      sky_q, cal_q, disk, iter, counts, tmUp, advised>>

\* The load scan to use: a real one of those listed, else one from disk if its
\* files can be read, else a synthetic one of those listed, else a new one.
FindLoad(p) ==
    LET c == configuring[p]
        equiv == {l \in ToSet(c.listed) : Equivalent(l.setting, c.model)}
        real  == {l \in equiv : l.scan # 0}
        Goes(stage, l) == configuring' = [configuring EXCEPT ![p] =
                                            [c EXCEPT !.stage = stage, !.use = l]]
    IN /\ c # None /\ c.stage = "find"
       /\ IF real # {} THEN Goes("purge", Newest(real))
          ELSE \/ Stored(c.model) # {} /\ Goes("put", Newest(Stored(c.model)))
               \/ Goes("put", IF equiv # {} THEN Newest(equiv) ELSE Load(c.model, 0))
       /\ UNCHANGED <<outside, queue, busy, holder, reset, linked, scanning, tuned, scans,
                      sky_q, cal_q, disk, iter, counts, tmUp, advised>>

\* The load is put into the queue, and then its equivalents are taken out: another
\* handler that does the same may take out this one.
MergeLoad(p) ==
    LET c == configuring[p]
    IN /\ c # None
       /\ \/ /\ c.stage = "put" /\ cal_q' = Append(cal_q, c.use)
             /\ configuring' = [configuring EXCEPT ![p].stage = "replace"]
          \/ /\ c.stage = "replace" /\ cal_q' = Replacing(cal_q, c.use)
             /\ configuring' = [configuring EXCEPT ![p].stage = "purge"]
       /\ UNCHANGED <<outside, queue, busy, holder, reset, linked, scanning, tuned, scans,
                      sky_q, disk, iter, counts, tmUp, advised>>

\* The calibration scans that were listed are purged when they were too many, in
\* order, up to one that is there no more (ValueError).
Purged(c) ==
    LET gone(l) == l # c.use /\ l \notin ToSet(cal_q)
        stop    == SelectInSeq(c.listed, gone)
        victims == IF Len(c.listed) <= PurgeLimit THEN {}
                   ELSE ToSet(IF stop = 0 THEN c.listed
                              ELSE SubSeq(c.listed, 1, stop - 1)) \ {c.use}
    IN OnlyIn(cal_q, ToSet(cal_q) \ victims)

\* The handler ends.
PurgeLoads(p) ==
    /\ configuring[p] # None /\ configuring[p].stage = "purge"
    /\ cal_q' = Purged(configuring[p])
    /\ configuring' = [configuring EXCEPT ![p] = None]
    /\ UNCHANGED <<outside, queue, busy, holder, reset, linked, scanning, tuned, scans,
                   sky_q, disk, iter, counts, tmUp, advised>>

\* The digitiser stops scanning for the observation, if that is what it does.
Released(o) == IF scanning # None /\ scanning.obs = o THEN None ELSE scanning

\* set_obs_complete: the loads of the observation go, whoever uses them.
SetObsComplete(r) ==
    /\ r \in busy /\ r.kind = "complete"
    /\ busy' = busy \ {r}
    /\ cal_q' = OnlyIn(cal_q, {l \in ToSet(cal_q) : l.setting.obs # r.obs})
    /\ scanning' = Released(r.obs)
    /\ UNCHANGED <<outside, queue, holder, reset, configuring, linked, tuned, scans, sky_q,
                   disk, iter, counts, tmUp, advised>>

\* set_obs_reset, first half: the pending scans of the observation are listed.
ResetBegins(r) ==
    /\ r \in busy /\ r.kind = "reset" /\ reset = None
    /\ busy' = busy \ {r}
    /\ reset' = [obs |-> r.obs,
                 scans |-> {i \in ToSet(sky_q) : IsPending(i) /\ scans[i].setting.obs = r.obs}]
    /\ UNCHANGED <<outside, queue, holder, configs, linked, scans, sky_q, cal_q, disk, iter,
                   counts, tmUp, advised>>

\* set_obs_reset, second half: the scans listed are aborted, whatever they have
\* become, and the iterations of the observation start over.
ResetEnds ==
    LET left == Abort(SetToSeq(reset.scans), scans, sky_q, counts)
    IN /\ reset # None /\ reset' = None
       /\ scans' = left.scans /\ sky_q' = left.sky_q /\ counts' = left.counts
       /\ iter' = [t \in Targets |->
                     IF \E s \in Settings : s.tgt = t /\ s.obs = reset.obs THEN 0 ELSE iter[t]]
       /\ scanning' = Released(reset.obs)
       /\ UNCHANGED <<outside, queue, busy, holder, configuring, linked, tuned, cal_q, disk,
                      tmUp, advised>>

-----------------------------------------------------------------------------
(* Links and the resynchronisation of the configuration *)

LinkChanges(e) ==
    /\ e \in busy /\ e.kind \in {"up", "down"}
    /\ busy' = busy \ {e}
    /\ linked' = (e.kind = "up")
    /\ scanning' = IF e.kind = "up" THEN scanning ELSE None
    /\ UNCHANGED <<outside, queue, holder, reset, configuring, tuned, scans, sky_q, cal_q,
                   disk, iter, counts, tmUp, advised>>

\* process_tm_connected, process_tm_disconnected
TmLink ==
    /\ requests < MaxRequests /\ requests' = requests + 1
    /\ tmUp' = ~tmUp
    /\ UNCHANGED <<source, wanted, observing, queue, busy, holder, reset, configs, linked,
                   scans, sky_q, cal_q, disk, iter, counts, advised>>

\* process_resync, on a processor alone: refused while scans are in progress;
\* the digitisers are loaded anew, with neither link nor purpose.
Resync ==
    /\ requests < MaxRequests /\ requests' = requests + 1
    /\ busy = {} /\ holder = None /\ reset = None
    /\ \A p \in 1..NumProcs : configuring[p] = None
    /\ counts.wip = 0
    /\ linked' = FALSE /\ scanning' = None /\ tuned' \in AsConfigured
    /\ UNCHANGED <<source, wanted, observing, queue, busy, holder, reset, configuring, scans,
                   sky_q, cal_q, disk, iter, counts, tmUp, advised>>

Environment == Retune \/ Read \/ Restart \/ Reconnect \/ Ask
SamplesHandler == \/ \E m \in busy : Receive(m)
                  \/ LoadSamples
                  \/ Finish
RequestHandler == \/ \E r \in busy : \/ SetScanConfig(r)
                                     \/ SetObsComplete(r)
                                     \/ ResetBegins(r)
                                     \/ LinkChanges(r)
                  \/ \E p \in 1..NumProcs : \/ SetField(p)
                                            \/ ListLoads(p)
                                            \/ FindLoad(p)
                                            \/ MergeLoad(p)
                                            \/ PurgeLoads(p)
                  \/ ResetEnds
Next == \/ Environment
        \/ Dequeue
        \/ SamplesHandler
        \/ RequestHandler
        \/ TmLink
        \/ Resync

Spec == Init /\ [][Next]_vars

-----------------------------------------------------------------------------
(* Properties *)

\* Every second of a scan holds the samples of its own place in the sequence of
\* reads, taken at the frequency and with the load of the scan, although the
\* configuration changes while samples wait for the lock.
SamplesInPlace ==
    \A i \in DOMAIN scans : \A k \in 1..Duration :
        LET m == scans[i].secs[k]
        IN m # None => /\ m.n = scans[i].start + k - 1
                       /\ m.setting.freq = scans[i].setting.freq
                       /\ m.setting.load = scans[i].setting.load

\* No scan disappears uncounted: every scan created is completed, aborted or
\* still queued (a scan that a reset aborts during its load may count twice);
\* and one that is announced to the Telescope Manager, so that the observation
\* may move on, has had all its seconds loaded, though nothing says it was saved.
NoScanUncounted ==
    /\ Len(scans) <= counts.completed + counts.aborted + Len(sky_q)
    /\ \A i \in advised : \A k \in 1..Duration : scans[i].secs[k] # None

\* What a scan holds and what becomes of it, whatever is configured, reset,
\* resynchronised or lost while its samples arrive.
ScansAreWhole == SamplesInPlace /\ NoScanUncounted

\* What set_scan_config is there for, by its docstring: the load is prepared before
\* samples for a sky scan start arriving, so that a second of sky that is being
\* loaded finds a calibration scan of its frequency and gain (sdp.py:572-575).
LoadIsPrepared ==
    holder # None /\ ~holder.done /\ ~holder.msg.setting.load =>
        \E l \in ToSet(cal_q) : Equivalent(l.setting, scans[holder.scan].setting)
=============================================================================
