---------------------------- MODULE GqrxRecording ----------------------------
(***************************************************************************)
(* Recordings made with another receiver program, GQRX: the scheduler asks *)
(* it over its remote control to record (src/src/gqrx/scheduler.py), and   *)
(* the injector makes scans of the file (src/src/gqrx/injector.py).          *)
(*                                                                         *)
(* Every command is a connection of its own.  One that fails may have been *)
(* carried out, when only its answer is missing.  GQRX, which is not part  *)
(* of this repository, records into a new file when told to while it does  *)
(* not record, and goes on when it already does.                           *)
(*                                                                         *)
(* A sample is its place in the file, and what is made of the samples of a *)
(* second is SpectrumPipeline.                                             *)
(***************************************************************************)
EXTENDS Integers, SequencesExt

CONSTANTS
    Orders,     \* what is asked: [now, tune, gain : BOOLEAN]
    RecordTime, \* of the recording, in seconds
    TestTime,   \* of the test before it
    Rates,      \* sampling rates the injector is told, in half samples a second
    Longest,    \* seconds it takes of a file, at most
    ScanTime,   \* seconds of a scan
    MaxFailures \* bound: failed commands and deeds of the operator

ASSUME GqrxAssumption ==
    /\ {RecordTime, TestTime, Longest, ScanTime} \subseteq Nat \ {0}
    /\ Rates \subseteq Nat \ {0, 1} /\ MaxFailures \in Nat

VARIABLES
    at,        \* the call the scheduler, then the injector, is in
    order,     \* what is asked for
    busy,      \* the operator's recording is under way when the scheduler comes
    gqrx,      \* the program: whether its DSP runs and it records, its tuning and gains
    raw_files, \* the seconds in every file of its directory, in the order of their making
    before,    \* files there were when the test began
    dsp_enabled, \* as the status said at first
    elapsed,   \* seconds of the test, or of the recording
    unstopped, \* a command to stop has failed
    meddled,   \* the operator has started or stopped something
    failures,  \* counter for the bound
    sample_rate, \* of the injector: half samples a second
    imports,   \* the scans it made
    seconds_done \* the seconds in them

scheduled == <<order, busy, before, dsp_enabled, elapsed, unstopped>>
injected == <<sample_rate, imports, seconds_done>>
gqrxVars == <<at, gqrx, raw_files, scheduled, meddled, failures, injected>>

GqrxInit ==
    /\ at = "connect" /\ order \in Orders
    /\ busy \in BOOLEAN
    /\ gqrx \in [dsp : {busy, TRUE}, recording : {busy}, tuned : {"elsewhere"}, gains : {0}]
    /\ raw_files = <<1>> /\ before = 0 /\ dsp_enabled = FALSE /\ elapsed = 0
    /\ unstopped = FALSE /\ meddled = FALSE /\ failures = 0
    /\ sample_rate \in Rates /\ imports = <<>> /\ seconds_done = 0

-----------------------------------------------------------------------------
(* Commands                                                                 *)

Counts == failures < MaxFailures /\ failures' = failures + 1

\* command(), and set_value(): what GQRX is like once it was carried out, and where the
\* caller is after an answer and after an error.
Ask(new, then, otherwise) ==
    /\ \/ gqrx' = new /\ at' = then /\ UNCHANGED failures
       \/ gqrx' \in {gqrx, new} /\ at' = otherwise /\ Counts
    /\ raw_files' = IF gqrx'.recording /\ ~gqrx.recording THEN Append(raw_files, 0) ELSE raw_files
    /\ UNCHANGED <<meddled, injected>>

Query(then, otherwise) == Ask(gqrx, then, otherwise)

Recording(on) == [gqrx EXCEPT !.recording = on]

-----------------------------------------------------------------------------
(* run_scheduler                                                            *)

GetStatus ==
    /\ at = "connect" /\ Query("settings", "failed")
    /\ dsp_enabled' = gqrx.dsp
    /\ UNCHANGED <<order, busy, before, elapsed, unstopped>>

\* The frequency it receives is not that of the hardware: it is sent far below, and
\* then beside the one that is asked for.
SetHardwareFrequency ==
    /\ order.tune
    /\ \/ /\ at = "settings" /\ gqrx.tuned # "below"
          /\ Ask([gqrx EXCEPT !.tuned = "below"], "retune", "failed")
       \/ /\ at = "retune"
          /\ Ask([gqrx EXCEPT !.tuned = "asked"], "gain", "failed")
    /\ UNCHANGED scheduled

SetGains ==
    /\ order.gain /\ gqrx.gains < 3
    /\ at = "gain" \/ (at = "settings" /\ ~order.tune)
    /\ Ask([gqrx EXCEPT !.gains = @ + 1], "gain", "failed")
    /\ UNCHANGED scheduled

Configured == \/ at = "gain" /\ (order.gain => gqrx.gains = 3)
              \/ at = "settings" /\ ~order.tune /\ ~order.gain

\* By the status of before the settings.
StartDsp ==
    /\ Configured
    /\ IF dsp_enabled
       THEN at' = "verify" /\ UNCHANGED <<gqrx, raw_files, meddled, failures, injected>>
       ELSE Ask([gqrx EXCEPT !.dsp = TRUE], "verify", "failed")
    /\ UNCHANGED scheduled

\* The status is logged; nothing is compared.
Verify ==
    /\ at = "verify"
    /\ Query(IF order.now THEN "start" ELSE "test", "failed")
    /\ UNCHANGED scheduled

\* Mutant: the test runs without a look whether GQRX records.
BeginTestAlways ==
    /\ at = "test"
    /\ Query("test_start", "failed")
    /\ before' = Len(raw_files)
    /\ UNCHANGED <<order, busy, dsp_enabled, elapsed, unstopped>>

\* test_iq_recording: while GQRX records it is refused.
BeginTest ==
    /\ at = "test"
    /\ Query(IF gqrx.recording THEN "failed" ELSE "test_start", "failed")
    /\ before' = Len(raw_files)
    /\ UNCHANGED <<order, busy, dsp_enabled, elapsed, unstopped>>

StartRecording ==
    /\ \/ at = "test_start" /\ Ask(Recording(TRUE), "testing", "abort")
       \/ at = "start" /\ Ask(Recording(TRUE), "recording", "abort")
    /\ elapsed' = 0
    /\ UNCHANGED <<order, busy, before, dsp_enabled, unstopped>>

\* A second of the test, or of record_for().
Record ==
    /\ \/ at = "testing" /\ at' = (IF elapsed + 1 < TestTime THEN at ELSE "test_stop")
       \/ at = "recording" /\ at' = (IF elapsed + 1 < RecordTime THEN at ELSE "stop")
    /\ elapsed' = elapsed + 1
    /\ raw_files' = IF gqrx.recording /\ gqrx.dsp
                    THEN [raw_files EXCEPT ![Len(raw_files)] = @ + 1] ELSE raw_files
    /\ UNCHANGED <<gqrx, order, busy, before, dsp_enabled, unstopped, meddled, failures, injected>>

\* The command to stop is in a finally clause: it is given after an error as well, and
\* if it fails itself that is a failure whatever was under way.
StopRecording ==
    /\ \/ at = "test_stop" /\ Ask(Recording(FALSE), "compare", "failed")
       \/ at = "stop" /\ Ask(Recording(FALSE), "recorded", "failed")
       \/ at = "abort" /\ Ask(Recording(FALSE), "failed", "failed")
    /\ unstopped' = (unstopped \/ failures' # failures)
    /\ UNCHANGED <<order, busy, before, dsp_enabled, elapsed>>

\* _wait_for_new_raw_files, _delete_files: all that are new, whoever had them made.
DeleteTestFiles ==
    /\ at = "compare"
    /\ at' = IF Len(raw_files) = before THEN "failed" ELSE "wait"
    /\ raw_files' = SubSeq(raw_files, 1, before)
    /\ UNCHANGED <<gqrx, scheduled, meddled, failures, injected>>

WaitUntil ==
    /\ at = "wait" /\ at' = "start"
    /\ UNCHANGED <<gqrx, raw_files, scheduled, meddled, failures, injected>>

\* Ctrl-C.
Interrupt ==
    /\ \/ at \in {"testing", "recording"} /\ at' = "abort"
       \/ at = "wait" /\ at' = "failed"
    /\ UNCHANGED <<gqrx, raw_files, scheduled, meddled, failures, injected>>

\* The operator starts or stops the recording, or the DSP.
Meddle ==
    /\ at \notin {"failed", "recorded", "import", "imported", "rejected"}
    /\ \/ gqrx' = [gqrx EXCEPT !.dsp = ~@, !.recording = FALSE]
       \/ gqrx.dsp /\ gqrx' = Recording(~gqrx.recording)
    /\ raw_files' = IF gqrx'.recording THEN Append(raw_files, 0) ELSE raw_files
    /\ meddled' = TRUE /\ Counts
    /\ UNCHANGED <<at, scheduled, injected>>

-----------------------------------------------------------------------------
(* process_raw_to_scans                                                     *)

Samples(halves) == halves \div 2

\* The file was recorded at the rate it is imported with; the second that was under way
\* when it was closed is not there to the end.
Recorded(seconds) == Samples(sample_rate * seconds) + Samples(sample_rate) - 1

TotalSeconds(length) == Min({length \div Samples(sample_rate), Longest})

\* read_raw, and the checks.
OpenRaw ==
    /\ at = "recorded"
    /\ at' = IF TotalSeconds(Recorded(Last(raw_files))) = 0 THEN "rejected" ELSE "import"
    /\ UNCHANGED <<gqrx, raw_files, scheduled, meddled, failures, injected>>

\* The first sample of a second, which counts from one within the scan.
SampleStart(sec) == Samples((seconds_done + sec - 1) * sample_rate)

\* load_samples takes no second with fewer samples than the rate.
LoadsSamples(start, length) ==
    2 * (Min({start + Samples(sample_rate), length}) - start) >= sample_rate

\* A scan, its seconds and its files.  One second that is not loaded ends the import,
\* and the scans before it stay.
ImportScan ==
    LET length == Recorded(Last(raw_files))
        duration == Min({ScanTime, TotalSeconds(length) - seconds_done})
        begins == [sec \in 1..duration |-> SampleStart(sec)]
    IN /\ at = "import" /\ duration > 0
       /\ IF \A sec \in 1..duration : LoadsSamples(begins[sec], length)
          THEN /\ imports' = Append(imports, [iter |-> Len(imports), start_idx |-> seconds_done,
                                              duration |-> duration, begins |-> begins])
               /\ seconds_done' = seconds_done + duration
               /\ UNCHANGED at
          ELSE at' = "rejected" /\ UNCHANGED <<imports, seconds_done>>
       /\ UNCHANGED <<gqrx, raw_files, scheduled, meddled, failures, sample_rate>>

\* The observation is saved.
SaveObservation ==
    /\ at = "import" /\ seconds_done = TotalSeconds(Recorded(Last(raw_files)))
    /\ at' = "imported"
    /\ UNCHANGED <<gqrx, raw_files, scheduled, meddled, failures, injected>>

-----------------------------------------------------------------------------

GqrxNext ==
    \/ GetStatus \/ SetHardwareFrequency \/ SetGains \/ StartDsp \/ Verify
    \/ BeginTest \/ StartRecording \/ Record \/ StopRecording \/ DeleteTestFiles
    \/ WaitUntil \/ Interrupt \/ Meddle
    \/ OpenRaw \/ ImportScan \/ SaveObservation

GqrxSpec == GqrxInit /\ [][GqrxNext]_gqrxVars

-----------------------------------------------------------------------------
(* Properties                                                               *)

\* When the scheduler ends GQRX does not record, whichever command failed and whenever it
\* was interrupted, unless the command to stop failed too; if it ends with success the
\* whole duration is in the file (scheduler.py:389-404); and an operator's recording is
\* not cut short by the test that precedes one (scheduler.py:256).
RecordingEnds ==
    ~meddled =>
        /\ at \in {"failed", "recorded"} /\ ~unstopped /\ gqrx.recording => busy
        /\ at = "recorded" => Last(raw_files) >= RecordTime
        /\ busy /\ ~order.now => gqrx.recording

\* An import that succeeds has the seconds of the recording one after the other, each
\* once, each with its own samples, in scans that follow one another (injector.py:211-262).
ImportIsTrue ==
    at = "imported" =>
        /\ FlattenSeq([i \in DOMAIN imports |-> imports[i].begins]) =
              [n \in 1..TotalSeconds(Recorded(Last(raw_files))) |->
                  (n - 1) * Samples(sample_rate)]
        /\ \A i \in DOMAIN imports :
              /\ imports[i].iter = i - 1
              /\ i < Len(imports) => /\ imports[i].duration = ScanTime
                                   /\ imports[i + 1].start_idx = imports[i].start_idx + ScanTime

RecordedAndImported == RecordingEnds /\ ImportIsTrue
=============================================================================
