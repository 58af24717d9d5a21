------------------------------- MODULE MCParts --------------------------------
(***************************************************************************)
(* The instance TLC checks of the parts that share no state: the radio of  *)
(* the Digitiser, the making and the ticking off of the plan of scans, the *)
(* framing and the interfaces of messages, the mount's positions and       *)
(* answers, the trace files, the watch over the weather, the storing of    *)
(* models, the pipelines of spectra, the integration of scans and the      *)
(* recordings of GQRX.  A behaviour exercises one of them, the others stay *)
(* as they are.                                                            *)
(***************************************************************************)
EXTENDS SdrStream, ScanLedger, ScanPlan, MsgFraming, MotorPointing, MotorResponse,
        TraceArchive, ApiExchange, WeatherWatch, ModelStore, SpectrumPipeline,
        ScanIntegration, GqrxRecording, TLC

VARIABLE use  \* the part that is exercised

Symmetry == Permutations(Callers)

\* Bandwidths below, at and above the usable part of one and of two captures;
\* times of no scan, one, and one more than whole scans.
ExampleSources ==
    [kind : {"plain", "five"}, bandwidth : {0, 26, 28, 54}, time : {0, 5, 9}]

\* Limits to the horizon and below; a full circle, less, and more; offsets that are
\* and are not whole pulses, among them some that let the dish tip over.
ExampleMounts ==
    [alt : {<<0, 2>>, <<-2, 2>>}, az : {<<0, 8>>, <<0, 5>>, <<-3, 9>>},
     offset : {<<0, 0>>, <<1, -1>>, <<-1, 3>>, <<-2, 0>>}, shortWay : BOOLEAN]

\* Empty, a part of a block, one, more, as many as can be numbered, too many.
ExamplePayloads ==
    {<<>>, <<0>>, <<1, 1>>, <<1, 0, 1>>, <<0, 0, 0, 0, 0>>,
     [i \in 1..8 |-> i % 2], [i \in 1..9 |-> 1]}

\* The header of an answer, or of a message that echoes one.
ExampleEchoes == {<<>>, <<"0.9">>}

DigitPositions == {2, 3}

\* A dish has a target or none, a list of observations has nothing else in it; other
\* fields take any value.
ExampleSchema ==
    [c \in Classes |->
        [models |-> IF c = "DishModel" THEN {1} ELSE {},
         lists |-> IF c = "OETModel" THEN {1} ELSE {}]]

ExampleTargets == {Node("model", "TargetModel", <<x>>) : x \in Singles}

ExampleDishes ==
    {Node("model", "DishModel", <<x, y>>) :
        x \in ExampleTargets \cup {Leaf("none"), Node("model", "GSheetConfig", <<Leaf("date")>>)},
        y \in {Leaf("number"), Leaf("altaz")}}

\* Models with every sort of value, by itself, in a list, a tuple, a dictionary or a
\* model, with others beside it; and lists of models with models in them.
ExampleModels ==
    LET collections == {Node(k, "", <<x, Leaf("number")>>) : k \in {"list", "tuple", "dict"},
                                                            x \in Singles}
    IN  {Node("model", "ObsModel", <<x, y>>) :
            x \in Singles \cup collections \cup ExampleTargets,
            y \in {Leaf("number"), Leaf("state"), Leaf("altaz")}}
        \cup ExampleDishes
        \cup {Node("model", "DishList", <<Node("list", "", <<x>>)>>) : x \in ExampleDishes}
        \cup {Node("model", "OETModel", <<Node("list", "", <<x>>)>>) :
                  x \in {Node("model", "ObsModel", <<y>>) : y \in Singles \cup ExampleTargets}}
        \cup {Node("model", c, <<Leaf("text"), Leaf("date")>>) :
                  c \in {"LaunchModel", "GSheetConfig"}}

\* The default steps of a pipeline, and the least that can calibrate and measure.
DefaultSteps ==
    <<[does |-> "dc", context |-> "spr"], [does |-> "load", context |-> "cal"],
      [does |-> "bandpass", context |-> "cal"], [does |-> "rfi", context |-> "cal"],
      [does |-> "qa", context |-> "mpr"]>>

ExampleSteps == {DefaultSteps, <<DefaultSteps[2], DefaultSteps[5]>>}

FirstDigger == CHOOSE d \in Diggers : TRUE

\* A level that is not finite, a spike in the centre, one that is interference.
ExampleRows ==
    [d \in Diggers |-> IF d = FirstDigger
                       THEN <<{<<4, 36, 4, 4, 4>>}, {<<4, 4, 36, NaN, 4>>}>>
                       ELSE <<{}, {}>>]

ScanLengths == [d \in Diggers |-> 2]

ExampleLoads == 0 :> <<1, 1, 1, 1, 1>> @@ 1 :> <<1, 1, 1, 1, 1>> @@ 2 :> <<1, 2, 2, 0, 1>>

ExampleArriving == [d \in Diggers |-> IF d = FirstDigger THEN {1, 2} ELSE {2}]

Pass == 1..4

\* Two loads of one band, two scans of the sky at it, a load of another.
Scanned(t, f, kind, b) == [target |-> t, freq |-> f, kind |-> kind, band |-> b]

ExamplePlan ==
    <<Scanned(0, 0, "LOAD", 1), Scanned(0, 0, "LOAD", 1), Scanned(1, 0, "SKY", 1),
      Scanned(1, 0, "SKY", 1), Scanned(2, 0, "LOAD", 1)>>

\* Overlaps and gaps of half a row, one row and a half around the scans of the sky.
ExampleGaps ==
    {[i \in 1..10 |-> IF i \in 5..7 THEN g[i] ELSE 0] : g \in [5..7 -> {-1, 0, 1, 3}]}

\* A recording at once, and one at a time that is to come, as GQRX is or with settings.
ExampleOrders ==
    {[now |-> TRUE, tune |-> FALSE, gain |-> FALSE],
     [now |-> FALSE, tune |-> TRUE, gain |-> TRUE]}

NothingRecorded ==
    /\ order = CHOOSE o \in ExampleOrders : TRUE
    /\ ~busy /\ gqrx.dsp /\ sample_rate = Min(Rates)

NothingStored ==
    /\ doing = "" /\ stored = <<>> /\ begun = <<>> /\ blacklist = {} /\ toggles = 0
    /\ scans = <<>> /\ calibrated = <<>> /\ cal_q = <<>> /\ sky_q = <<>> /\ power = <<>>
    /\ collapsed = <<>> /\ stitched = <<>>

\* With the default steps only one digitiser scans, with the others nothing
\* is read back.
SpectraNext ==
    /\ PipelineNext
    /\ IF configured = DefaultSteps
       THEN \A d \in Diggers \ {FirstDigger} : assembled'[d] = 0
       ELSE reread' = reread

PartsInit ==
    /\ use \in {"radio", "ledger", "plan", "framing", "pointing", "answer", "traces", "api",
               "weather", "store", "spectra", "integration", "gqrx"}
    /\ StreamInit /\ (use = "radio" \/ chunk = Min(Chunks))
    /\ PlanInit /\ (use = "plan" \/ sources = <<>>)
    /\ PointingInit /\ (use = "pointing" \/ config = CHOOSE m \in Mounts : TRUE)
    /\ LedgerInit /\ FramingInit /\ AnswerInit /\ TraceInit /\ WeatherInit
    /\ IF use = "api" THEN ApiInit
       ELSE progress = "" /\ message = <<>> /\ held = <<>> /\ answer = <<>>
    /\ IF use = "store" THEN StoreInit
       ELSE /\ model = Leaf("none") /\ first = model /\ file = Nothing
            /\ saving = FALSE /\ saves = 0
    /\ PipelineInit /\ (use = "spectra" \/ configured = DefaultSteps)
    /\ IF use = "integration" THEN IntegrationInit ELSE NothingStored
    /\ GqrxInit /\ (use = "gqrx" \/ NothingRecorded)

PartsNext ==
    /\ UNCHANGED use
    /\ IF use = "radio" THEN StreamNext ELSE UNCHANGED streamVars
    /\ IF use = "ledger" THEN LedgerNext ELSE UNCHANGED ledgerVars
    /\ IF use = "plan" THEN DetermineScans ELSE UNCHANGED planVars
    /\ IF use = "framing" THEN FramingNext ELSE UNCHANGED framingVars
    /\ IF use = "pointing" THEN PointingNext ELSE UNCHANGED pointingVars
    /\ IF use = "answer" THEN AnswerNext ELSE UNCHANGED answerVars
    /\ IF use = "traces" THEN TraceNext ELSE UNCHANGED traceVars
    /\ IF use = "api" THEN ApiNext ELSE UNCHANGED apiVars
    /\ IF use = "weather" THEN WeatherNext ELSE UNCHANGED weatherVars
    /\ IF use = "store" THEN StoreNext ELSE UNCHANGED storeVars
    /\ IF use = "spectra" THEN SpectraNext ELSE UNCHANGED pipelineVars
    /\ IF use = "integration" THEN IntegrationNext ELSE UNCHANGED integrationVars
    /\ IF use = "gqrx" THEN GqrxNext ELSE UNCHANGED gqrxVars

PartsSpec ==
    PartsInit /\ [][PartsNext]_<<use, streamVars, ledgerVars, planVars, framingVars,
                                pointingVars, answerVars, traceVars, apiVars, weatherVars,
                                storeVars, pipelineVars, integrationVars, gqrxVars>>
=============================================================================
