--------------------------- MODULE SpectrumPipeline ---------------------------
(***************************************************************************)
(* The spectra of a scan: the pipeline the Science Data Processor makes    *)
(* for it, and what the steps of the pipeline do to every second that is   *)
(* loaded, to its flags and to the mean of the scan                        *)
(* (src/src/sdp/pipeline/, src/src/sdp/channel_mask.py and load_samples    *)
(* of src/src/obs/scan.py).                                                *)
(*                                                                         *)
(* The samples of two digitisers are handled by two processors, each under *)
(* the lock of its digitiser.  The steps of a pipeline are made from one   *)
(* configuration, common to all: the scan is written into the parameters   *)
(* of every step and each step then picks it up, so two scans that begin   *)
(* at once may get each other's steps.  A report of the configuration      *)
(* exchanges the parameters of one step after the other for a copy without *)
(* the scan, and puts the original back.                                   *)
(*                                                                         *)
(* A scan is named by its digitiser.  A second is a row of levels, one per *)
(* channel, after the transform; NaN is a level that is not finite.  Loads *)
(* are numbered: 0 for none, 1 for the synthetic one, others are real and  *)
(* the later one has the higher number; each has the settings of the       *)
(* digitiser it was made with.                                             *)
(***************************************************************************)
EXTENDS Integers, Sequences, FiniteSets, SequencesExt

CONSTANTS
    Diggers,     \* the digitisers
    NoDigger,    \* none of them
    Configurations, \* lists of steps: what each does and in which context
    Width,       \* channels of a spectrum
    Passband,    \* the channels the bandpass filter allows
    Window,      \* window of the search for interference
    Threshold,   \* deviations from the median that are interference
    Lengths,     \* seconds of a scan of every digitiser
    RawRows,     \* the rows every second of a scan may have
    Arriving,    \* the loads of every digitiser that may complete
    LoadRows,    \* the spectrum of every load
    MaxAdvices   \* bound: reports of the configuration

NaN == -1
Bins == 1..Width

Step == [does : {"dc", "load", "bandpass", "rfi", "qa"}, context : {"spr", "cal", "mpr"}]

\* A pipeline calibrates and measures.  The spectrum is processed as little as
\* can be (pipeline_factory.py:19): its steps set no flags.
ASSUME ConfigurationsAssumption ==
    \A list \in Configurations :
        /\ list \in Seq(Step)
        /\ \A does \in {"load", "qa"} : \E i \in 1..Len(list) : list[i].does = does
        /\ \A i \in 1..Len(list) : list[i].context = "spr" => list[i].does \in {"dc", "qa"}
        /\ \A i \in 1..Len(list) : list[i].context = "mpr" => list[i].does = "qa"
ASSUME PipelineAssumption ==
    /\ Window % 2 = 1
    /\ NoDigger \notin Diggers
    /\ Lengths \in [Diggers -> Nat \ {0}]

VARIABLES
    configured, \* the steps of every pipeline
    params,     \* the scan in the parameters of every configured step
    exchanged,  \* the step whose parameters a report has exchanged, 0 for none
    copied,     \* the scan in the exchanged parameters
    advices,    \* reports made so far
    assembled,  \* how far the pipeline of a scan is: assignments, then steps
    steps,      \* the scan every step of a scan's pipeline has picked up
    cached,     \* the load a pipeline divides by: whose, and its number
    newest,     \* the newest load of every digitiser that is complete
    loadOf,     \* the load recorded with a scan
    spectra,    \* the products of a scan
    quality,    \* the usable channels by which a scan's quality was measured
    reread,     \* the products of a saved scan that was read back, and its load
    disturbed   \* history: scans another hand reached into while their steps were
                \* made, and scans that are in the steps of another

configVars == <<configured, params, exchanged, copied, advices>>
loadVars == <<cached, newest, loadOf>>
productVars == <<spectra, quality, reread>>
pipelineVars == <<configVars, loadVars, productVars, assembled, steps, disturbed>>

NoLoad == [of |-> NoDigger, number |-> 0]
Unread == [number |-> 0]
NotMeasured == {0}

-----------------------------------------------------------------------------
(* Flags and steps.  A second on its way is a row and the flags of its      *)
(* channels.                                                                *)

NoFlags == [c \in Bins |-> {}]

UsableBins(p) == {c \in Bins : p.row[c] # NaN /\ p.flags[c] = {}}

Flagged(p, channels, flag) ==
    [p EXCEPT !.flags = [c \in Bins |-> IF c \in channels THEN @[c] \cup {flag} ELSE @[c]]]

Unflagged(p, flag) == [p EXCEPT !.flags = [c \in Bins |-> @[c] \ {flag}]]

Total(row, channels) == FoldFunctionOnSet(+, 0, row, channels)

\* The centre's outliers are replaced: above the mean by more than the
\* standard deviation, both sides multiplied by the number of levels.
DcSpike(p) ==
    LET finite == {c \in (Width \div 2)..(Width \div 2 + 2) : p.row[c] # NaN}
        n == Cardinality(finite)
        sum == Total(p.row, finite)
        squares == Total([c \in Bins |-> p.row[c] * p.row[c]], finite)
        spikes == {c \in finite : LET excess == n * p.row[c] - sum
                                  IN /\ excess > 0
                                     /\ excess * excess > n * squares - sum * sum}
        rest == finite \ spikes
    IN IF n < 2 \/ spikes = {} \/ rest = {} THEN p
       ELSE [p EXCEPT !.row = [c \in Bins |-> IF c \in spikes
                                              THEN Total(p.row, rest) \div Cardinality(rest)
                                              ELSE @[c]]]

Divided(level, by) == IF level = NaN \/ by = 0 THEN NaN ELSE level \div by

\* A load has been through the same steps: it is flagged outside the passband.
LoadCal(p, load) ==
    LET bad == Flagged(p, {c \in Bins : p.row[c] = NaN}, "nonfinite")
        masked == IF \E i \in DOMAIN configured : configured[i].does = "bandpass"
                  THEN Flagged(bad, Bins \ Passband, "bandpass") ELSE bad
        zero == {c \in Bins : LoadRows[load][c] = 0}
        divided == [c \in Bins |-> Divided(p.row[c], LoadRows[load][c])]
    IN IF load = 0 THEN bad
       ELSE Flagged([Flagged(masked, zero, "calibration") EXCEPT !.row = divided],
                    {c \in Bins : divided[c] = NaN}, "nonfinite")

Bandpass(p) == Flagged(Unflagged(p, "bandpass"), Bins \ Passband, "bandpass")

\* The median of an odd number of levels.
Median(levels) == SortSeq(levels, <)[(Len(levels) + 1) \div 2]

\* Interference: a usable channel that is far from the median of the usable
\* channels around it.  Windows with an even number of them are not compared
\* in the instances, whose window of three needs all three.
Interference(p) ==
    LET eligible == UsableBins(Unflagged(p, "rfi"))
        around(c) == {x \in eligible : x >= c - Window \div 2 /\ x <= c + Window \div 2}
        levels(c) == [i \in 1..Cardinality(around(c)) |-> p.row[SetToSortSeq(around(c), <)[i]]]
        off(x, m) == IF x > m THEN x - m ELSE m - x
    IN {c \in eligible :
            /\ Cardinality(around(c)) >= (IF Window < 3 THEN Window ELSE 3)
            /\ LET m == Median(levels(c))
                   mad == Median([i \in DOMAIN levels(c) |-> off(levels(c)[i], m)])
               IN off(p.row[c], m) > Threshold * mad}

RfiFlag(p) == Flagged(Unflagged(p, "rfi"), Interference(p), "rfi")

Processed(p, does, load) ==
    CASE does = "dc" -> DcSpike(p)
      [] does = "load" -> LoadCal(p, load)
      [] does = "bandpass" -> Bandpass(p)
      [] does = "rfi" -> RfiFlag(p)
      [] does = "qa" -> p

\* The steps of one context in their order.
Process(p, context, load) ==
    LET after[n \in 0..Len(configured)] ==
            IF n = 0 THEN p
            ELSE IF configured[n].context = context
                 THEN Processed(after[n - 1], configured[n].does, load) ELSE after[n - 1]
    IN after[Len(configured)]

-----------------------------------------------------------------------------
(* The products of a scan: the spectrum and the calibrated spectrum of      *)
(* every loaded second, and the mean as the seconds each channel of it      *)
(* takes, with its flags.                                                   *)

Empty == [spr |-> <<>>, cal |-> <<>>, mean |-> NoFlags, flags |-> NoFlags]

Extended(f, s, value) == [x \in DOMAIN f \cup {s} |-> IF x = s THEN value ELSE f[x]]

\* A channel's mean takes the seconds in which it is usable, or all of them
\* when there is none.
Mean(cal) ==
    [c \in Bins |->
        LET usable == {s \in DOMAIN cal : c \in UsableBins(cal[s])}
        IN IF usable = {} THEN DOMAIN cal ELSE usable]

\* A mean is flagged with what is common to all seconds, and never without
\* a reason when no second was usable.
MeanFlags(cal) ==
    [c \in Bins |->
        LET common == {f \in UNION {cal[s].flags[c] : s \in DOMAIN cal} :
                          \A s \in DOMAIN cal : f \in cal[s].flags[c]}
        IN IF common = {} /\ \A s \in DOMAIN cal : c \notin UsableBins(cal[s])
           THEN {"calibration"} ELSE common]

UpdateMpr(cal) == [mean |-> Mean(cal), flags |-> MeanFlags(cal)]

\* One second: its spectrum, flags included, is the start of the calibrated one.
LoadRow(products, s, row, load) ==
    LET spr == Process([row |-> row, flags |-> NoFlags], "spr", load)
        cal == Extended(products.cal, s, Process(spr, "cal", load))
        mpr == UpdateMpr(cal)
    IN [spr |-> Extended(products.spr, s, spr), cal |-> cal,
        mean |-> mpr.mean, flags |-> mpr.flags]

\* The spectra of a saved scan come back without their flags and are
\* calibrated anew.
Reprocess(spr, load) ==
    LET read == [s \in DOMAIN spr |-> [row |-> spr[s].row, flags |-> NoFlags]]
        cal == [s \in DOMAIN spr |-> Process(read[s], "cal", load)]
        mpr == UpdateMpr(cal)
    IN [spr |-> read, cal |-> cal, mean |-> mpr.mean, flags |-> mpr.flags]

-----------------------------------------------------------------------------
(* Making a pipeline.                                                       *)

PipelineInit ==
    /\ configured \in Configurations
    /\ params = [i \in DOMAIN configured |-> NoDigger]
    /\ exchanged = 0 /\ copied = NoDigger /\ advices = 0
    /\ assembled = [d \in Diggers |-> 0]
    /\ steps = [d \in Diggers |-> <<>>]
    /\ cached = [d \in Diggers |-> NoLoad]
    /\ newest = [d \in Diggers |-> 0]
    /\ loadOf = [d \in Diggers |-> NoLoad]
    /\ spectra = [d \in Diggers |-> Empty]
    /\ quality = [d \in Diggers |-> NotMeasured]
    /\ reread = [d \in Diggers |-> Unread]
    /\ disturbed = {}

Making(d) == assembled[d] \in 1..(2 * Len(configured) - 1)

\* The scan is written into the parameters of one step after the other,
\* into the exchanged ones while a report has them exchanged.
AssignParams(d) ==
    /\ assembled[d] < Len(configured)
    /\ assembled' = [assembled EXCEPT ![d] = @ + 1]
    /\ IF exchanged = assembled'[d]
       THEN copied' = d /\ UNCHANGED params
       ELSE params' = [params EXCEPT ![assembled'[d]] = d] /\ UNCHANGED copied
    /\ disturbed' = disturbed \cup {e \in Diggers \ {d} : Making(e)}
                              \cup (IF exchanged # 0 THEN {d} ELSE {})
    /\ UNCHANGED <<configured, exchanged, advices, steps, loadVars, productVars>>

\* The newest real load of a digitiser's settings, or else the synthetic one.
ResolveLoad(d) == [of |-> d, number |-> newest[d]]

\* Each step picks the scan up; without one the step fails and with it the
\* scan, which is begun anew with the next samples.  The step of the load
\* looks for one at once and records it with its scan.
InstantiateStep(d) ==
    LET i == Len(steps[d]) + 1
        scan == IF exchanged = i THEN copied ELSE params[i]
    IN /\ assembled[d] \in Len(configured)..(2 * Len(configured) - 1)
       /\ IF scan = NoDigger
          THEN /\ assembled' = [assembled EXCEPT ![d] = 0]
               /\ steps' = [steps EXCEPT ![d] = <<>>]
               /\ cached' = [cached EXCEPT ![d] = NoLoad]
               /\ UNCHANGED loadOf
          ELSE /\ assembled' = [assembled EXCEPT ![d] = @ + 1]
               /\ steps' = [steps EXCEPT ![d] = Append(@, scan)]
               /\ IF configured[i].does = "load" /\ newest[scan] > 0
                  THEN /\ cached' = [cached EXCEPT ![d] = ResolveLoad(scan)]
                       /\ loadOf' = [loadOf EXCEPT ![scan] = ResolveLoad(scan)]
                  ELSE UNCHANGED <<cached, loadOf>>
       /\ disturbed' = disturbed \cup (IF exchanged # 0 THEN {d} ELSE {})
                                 \cup ({scan} \ {d, NoDigger})
       /\ UNCHANGED <<configVars, newest, productVars>>

\* A report takes the parameters of the next step away ...
ExchangeParams ==
    /\ exchanged < Len(configured)
    /\ exchanged > 0 \/ advices < MaxAdvices
    /\ exchanged' = exchanged + 1
    /\ advices' = IF exchanged = 0 THEN advices + 1 ELSE advices
    /\ copied' = NoDigger
    /\ disturbed' = disturbed \cup {d \in Diggers : Making(d)}
    /\ UNCHANGED <<configured, params, assembled, steps, loadVars, productVars>>

\* ... and after the last one they are all in their place again.
RestoreParams ==
    /\ exchanged = Len(configured)
    /\ exchanged' = 0 /\ copied' = NoDigger
    /\ disturbed' = disturbed \cup {d \in Diggers : Making(d)}
    /\ UNCHANGED <<configured, params, advices, assembled, steps, loadVars, productVars>>

-----------------------------------------------------------------------------
(* Loading.                                                                 *)

\* Mutant: a step asks the configuration for its scan when it processes.
CapturedByConfiguration(d, i) == IF params[i] = NoDigger THEN d ELSE params[i]

\* The scan a step has picked up.
Captured(d, i) == steps[d][i]

StepOf(does) == CHOOSE i \in DOMAIN configured : configured[i].does = does

\* A real load is kept for the scan; a synthetic one, or none, is looked up anew.
Refreshed(d) ==
    LET scan == Captured(d, StepOf("load"))
    IN IF cached[d].number > 1 \/ newest[scan] = 0 THEN cached[d] ELSE ResolveLoad(scan)

\* Three usable channels are needed to measure the quality.
Measured(products) ==
    LET usable == {c \in Bins : products.flags[c] = {}}
    IN IF Cardinality(usable) < 3 THEN {} ELSE usable

LoadSecond(d, s, row) ==
    LET load == Refreshed(d)
        products == LoadRow(spectra[d], s, row, load.number)
    IN /\ assembled[d] = 2 * Len(configured)
       /\ DOMAIN spectra[d].cal # 1..Lengths[d]
       /\ cached' = [cached EXCEPT ![d] = load]
       /\ loadOf' = IF load = cached[d] THEN loadOf
                    ELSE [loadOf EXCEPT ![Captured(d, StepOf("load"))] = load]
       /\ spectra' = [spectra EXCEPT ![d] = products]
       /\ quality' = [quality EXCEPT ![Captured(d, StepOf("qa"))] = Measured(products)]
       /\ UNCHANGED <<configVars, assembled, steps, newest, reread, disturbed>>

\* A load of a digitiser completes and takes the place of the one before it.
LoadArrives(d) ==
    \E n \in Arriving[d] :
        /\ n > newest[d]
        /\ newest' = [newest EXCEPT ![d] = n]
        /\ UNCHANGED <<configVars, assembled, steps, cached, loadOf, productVars, disturbed>>

\* A complete scan is saved; another program reads it back and calibrates it
\* by a load of its own.
ReadBackScan(d) ==
    \E n \in Arriving[d] :
        /\ DOMAIN spectra[d].cal = 1..Lengths[d]
        /\ reread[d] = Unread
        /\ reread' = [reread EXCEPT ![d] =
                         [number |-> n, products |-> Reprocess(spectra[d].spr, n)]]
        /\ UNCHANGED <<configVars, assembled, steps, loadVars, spectra, quality, disturbed>>

PipelineNext ==
    \/ \E d \in Diggers :
        \/ AssignParams(d) \/ InstantiateStep(d) \/ LoadArrives(d) \/ ReadBackScan(d)
        \/ \E s \in 1..Lengths[d] : \E row \in RawRows[d][s] : LoadSecond(d, s, row)
    \/ ExchangeParams \/ RestoreParams

PipelineSpec == PipelineInit /\ [][PipelineNext]_pipelineVars

-----------------------------------------------------------------------------
(* Properties.                                                              *)

\* A pipeline that was made without another hand in the configuration works on
\* its own scan, whatever is begun later: it divides by loads of its own
\* digitiser, the load it divides by is the one recorded with the scan, and the
\* quality recorded with the scan is that of its mean.  What is read back of a
\* scan and calibrated by the load that calibrated all of it, is what was saved:
\* the same seconds make the mean of every channel, with the same flags.  (A
\* pipeline that was disturbed may work on another's: pipeline_factory.py:116.)
ScansKeepApart ==
    \A d \in Diggers \ disturbed :
        /\ assembled[d] > 0 => cached[d].of \in {d, NoDigger}
        /\ spectra[d] # Empty => loadOf[d] = cached[d] /\ quality[d] = Measured(spectra[d])
        /\ (/\ reread[d] # Unread
            /\ \A s \in DOMAIN spectra[d].cal :
                   spectra[d].cal[s] = Process(spectra[d].spr[s], "cal", reread[d].number))
           => /\ reread[d].products.cal = spectra[d].cal
              /\ reread[d].products.mean = spectra[d].mean
              /\ reread[d].products.flags = spectra[d].flags
=============================================================================
