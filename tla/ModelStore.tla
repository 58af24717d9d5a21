------------------------------ MODULE ModelStore ------------------------------
(***************************************************************************)
(* How a model goes to a file, or to another application, and comes back   *)
(* (models/base.py).  _serialise turns values into what JSON can hold,     *)
(* _deserialise turns them back by the _type they carry.  Not every value  *)
(* survives: JSON has no tuples, a quantity leaves its unit behind and a   *)
(* position its time, some enumerations and frames are written that are    *)
(* not read, and a model with a value that cannot be serialised becomes a  *)
(* text, which no field for a model takes.                                 *)
(*                                                                         *)
(* A value is a leaf or has parts: [kind, leaf, parts].  What is written   *)
(* has the same form; a dictionary with a _type has it as its leaf.  The   *)
(* keys of dictionaries are texts.  The time of the last update, which     *)
(* from_dict brings up to date, is left out.                               *)
(***************************************************************************)
EXTENDS Naturals, SequencesExt

CONSTANTS
    Classes,  \* the classes of models
    Unlisted, \* those that _deserialise does not know: what it reads of them stays a dictionary
    Verbatim, \* those with a from_dict of their own, which takes the fields as they were written
    Schema,   \* for each class, the places of the fields that take only models, or lists of them
    Depth,    \* how deep a value may be nested
    Models,   \* the models that are saved
    MaxSaves  \* bound on saves

VARIABLES
    model,   \* the model in memory; Failed: it could not be read
    first,   \* the model as it was at first
    file,    \* what the file holds: a value, or Nothing
    saving,  \* the file is open for writing
    saves    \* saves so far (bounds them)

storeVars == <<model, first, file, saving, saves>>

Leaf(kind) == [kind |-> "leaf", leaf |-> kind, parts |-> <<>>]
Node(kind, leaf, parts) == [kind |-> kind, leaf |-> leaf, parts |-> parts]
Nothing == Leaf("nothing")
Failed == Leaf("failed")

\* One of each sort: numbers, lists of them, texts, None; dates, times, and
\* times finer than a millisecond; enumerations that _deserialise lists and
\* others (ScanDataSource, ObsTransition, ResourceType); directions on the
\* sky, with an epoch or a distance, and in frames that are not read (of the
\* galaxy, or any but icrs and fk5); positions over the horizon, with a time,
\* and with a place; places; quantities and numbers of NumPy, and arrays of
\* them; AltAz with a time; what to_dict of its class leaves out and None
\* takes the place of (UIDriver, StepConfig, ScanQA); what JSON has no form for.
Leaves == {"number", "numbers", "text", "none", "date", "time", "instant", "state", "source",
           "sky", "epoch", "frame", "horizon", "timed", "placed", "site", "quantity", "numpy",
           "array", "altaz", "object", "other"}

\* A place is a quantity, but no number; AltAz asks its time for a method that
\* it does not have.
Unwritable == {"site", "placed", "altaz"}

\* What is written of a single value with a _type, whose fields are texts and numbers.
Types == {"datetime", "Time", "enum", "unlisted", "sky", "frame", "horizon"}
Typed(type) == Node("dict", type, <<>>)

Singles == {Leaf(k) : k \in Leaves}
Atoms == Singles \cup {Typed(t) : t \in Types} \cup {Failed}

\* Whatever is nested no deeper than n.
nested[n \in 0..Depth] ==
    IF n = 0 THEN Atoms
    ELSE Atoms \cup [kind : {"list", "tuple", "dict", "model"}, leaf : Classes \cup {""},
                     parts : Seq(nested[n - 1])]

Trees == nested[Depth]

\* A value with all that is in it.
inside[v \in Trees] == {v} \cup UNION {inside[v.parts[i]] : i \in DOMAIN v.parts}

Has(v, kinds) == \E x \in inside[v] : x.kind \in kinds \/ x.leaf \in kinds

Fails(parts) == \E i \in DOMAIN parts : parts[i] = Failed

ModelOrNone(v) == v.kind = "model" \/ v = Leaf("none")

ModelsOrNone(v) ==
    \/ v.kind = "list" /\ \A j \in DOMAIN v.parts : v.parts[j].kind = "model"
    \/ v = Leaf("none")

\* The schema of a class, only as far as it tells models from other values.
Fits(class, parts) ==
    /\ \A i \in DOMAIN parts \cap Schema[class].models : ModelOrNone(parts[i])
    /\ \A i \in DOMAIN parts \cap Schema[class].lists : ModelsOrNone(parts[i])

Sound(x) ==
    \/ x \in Singles
    \/ x.kind \in {"list", "tuple", "dict"} /\ x.leaf = ""
    \/ x.kind = "model" /\ x.leaf \in Classes /\ Fits(x.leaf, x.parts)

\* What a program has in memory.
Values == {v \in Trees : \A x \in inside[v] : Sound(x)}

ASSUME StoreAssumption ==
    /\ Depth \in Nat /\ MaxSaves \in Nat
    /\ Unlisted \subseteq Classes /\ Verbatim \subseteq Classes
    /\ Classes \cap (Leaves \cup Types \cup {"", "failed", "nothing"}) = {}
    /\ Schema \in [Classes -> [models : SUBSET (Nat \ {0}), lists : SUBSET (Nat \ {0})]]
    /\ \A m \in Models : m \in Values /\ m.kind = "model"

-----------------------------------------------------------------------------
\* _serialise of a single value.
WrittenLeaf(sort) ==
    CASE sort \in Unwritable -> Failed
      [] sort \in {"quantity", "numpy"} -> Leaf("number")
      [] sort = "array" -> Leaf("numbers")
      [] sort = "object" -> Leaf("none")
      [] sort = "date" -> Typed("datetime")
      [] sort \in {"time", "instant"} -> Typed("Time")
      [] sort = "state" -> Typed("enum")
      [] sort = "source" -> Typed("unlisted")
      [] sort \in {"sky", "epoch"} -> Typed("sky")
      [] sort \in {"horizon", "timed"} -> Typed("horizon")
      [] sort = "frame" -> Typed("frame")
      [] OTHER -> Leaf(sort)

\* _serialise, with its parts written, and what json.dump and json.load make of
\* it.  Where a part cannot be written, to_dict of the model around it fails,
\* and the model becomes a text.  Arrays of models are as tuples.
Serialised(v, parts) ==
    CASE v.kind = "leaf" -> WrittenLeaf(v.leaf)
      [] v.kind = "model" -> IF Fails(parts) THEN Leaf("text") ELSE Node("dict", v.leaf, parts)
      [] v.kind \in {"list", "tuple"} -> IF Fails(parts) THEN Failed ELSE Node("list", "", parts)
      [] v.kind = "dict" -> IF Fails(parts) THEN Failed ELSE Node("dict", v.leaf, parts)

written[v \in Trees] == Serialised(v, [i \in DOMAIN v.parts |-> written[v.parts[i]]])

\* Mutant: values of an enumeration are left as they were written.
ReadTypedNoEnum(type) ==
    CASE type = "datetime" -> Leaf("date")
      [] type = "Time" -> Leaf("time")
      [] type \in {"enum", "unlisted"} -> Typed(type)
      [] type \in {"sky", "horizon"} -> Leaf(type)
      [] OTHER -> Failed

\* _deserialise of a value with a _type that is not a model.  An enumeration
\* must be among those listed; coordinates of the galaxy are written without
\* the numbers they are read from, and other frames are not supported; the
\* time of a position is not read.
ReadTyped(type) ==
    CASE type = "datetime" -> Leaf("date")
      [] type = "Time" -> Leaf("time")
      [] type = "enum" -> Leaf("state")
      [] type \in {"sky", "horizon"} -> Leaf(type)
      [] OTHER -> Failed

\* _deserialise, with its parts read.  The constructor of a model validates it;
\* a dictionary with an unknown _type is returned as it is.
Deserialised(w, parts) ==
    CASE w.kind = "leaf" -> w
      [] w.kind = "dict" /\ w.leaf \in Types -> ReadTyped(w.leaf)
      [] w.kind = "dict" /\ w.leaf \in Unlisted -> w
      [] w.kind = "dict" /\ w.leaf \in Classes \ Unlisted ->
           IF Fails(parts) \/ ~Fits(w.leaf, parts) THEN Failed ELSE Node("model", w.leaf, parts)
      [] OTHER -> IF Fails(parts) THEN Failed ELSE Node(w.kind, w.leaf, parts)

readBack[w \in Trees] == Deserialised(w, [i \in DOMAIN w.parts |-> readBack[w.parts[i]]])

-----------------------------------------------------------------------------
StoreInit ==
    /\ model \in Models /\ first = model
    /\ file = Nothing /\ saving = FALSE /\ saves = 0

\* save_to_disk opens the file, which empties it, and then writes it.
Open ==
    /\ ~saving /\ model # Failed /\ saves < MaxSaves
    /\ file' = Nothing /\ saving' = TRUE /\ saves' = saves + 1
    /\ UNCHANGED <<model, first>>

\* A value that JSON has no form for stops it halfway.
Dump ==
    /\ saving /\ saving' = FALSE
    /\ LET w == written[model]
       IN  file' = IF w.kind = "leaf" \/ Has(w, {"other"}) THEN Nothing ELSE w
    /\ UNCHANGED <<model, first, saves>>

\* The program ends before the file is written.
Cut ==
    /\ saving /\ saving' = FALSE
    /\ UNCHANGED <<model, first, file, saves>>

\* load_from_disk and from_dict: the result must be a model of the class.  A
\* from_dict that takes the fields as they are finds a dictionary for the time
\* of the last update, which the schema refuses.
Load ==
    /\ ~saving /\ saves > 0
    /\ LET read == IF file = Nothing \/ first.leaf \in Verbatim THEN Failed ELSE readBack[file]
       IN  model' = IF read.kind = "model" /\ read.leaf = first.leaf THEN read ELSE Failed
    /\ UNCHANGED <<first, file, saving, saves>>

StoreNext == Open \/ Dump \/ Cut \/ Load

StoreSpec == StoreInit /\ [][StoreNext]_storeVars

-----------------------------------------------------------------------------
(* Property *)

\* What comes back as something else, or is not read at all.
Lossy == {"quantity", "numpy", "array", "tuple", "instant", "epoch", "timed", "object"}
         \cup Unwritable \cup Unlisted

Unreadable == {"source", "frame"}

\* The classes of which a saved model cannot be loaded.
Refused == Verbatim \cup Unlisted

\* A model that does not come back as one.
Spoilt(v) == v.kind = "model" /\ (written[v] = Leaf("text") \/ v.leaf \in Unlisted)

\* A model in memory with such a model in a field that takes only models.
Torn(x) ==
    /\ x.kind = "model"
    /\ \/ \E i \in DOMAIN x.parts \cap Schema[x.leaf].models : Spoilt(x.parts[i])
       \/ \E i \in DOMAIN x.parts \cap Schema[x.leaf].lists :
             /\ x.parts[i].kind = "list"
             /\ \E j \in DOMAIN x.parts[i].parts : Spoilt(x.parts[i].parts[j])

\* What is read is what was written, however often a model is saved and read:
\* every type comes back as itself, at any depth, but for those with a loss
\* that is known, and these change only once.  A model can be read unless its
\* last save was cut short or failed, it has an enumeration or a frame that is
\* written and not read, its class is one that is not read, or a model in a
\* field that takes only models, or a list of them, does not come back as one.
ModelSurvives ==
    /\ ~Has(first, Lossy \cup Unreadable) => model \in {first, Failed}
    /\ (model = Failed /\ ~saving) =>
         \/ file = Nothing \/ Has(first, Unreadable) \/ first.leaf \in Refused
         \/ \E x \in inside[first] : Torn(x)
    /\ (model # Failed /\ model # first) => readBack[written[model]] = model
=============================================================================
