------------------------------ MODULE ApiExchange ------------------------------
(***************************************************************************)
(* A message of a peer and its answer: the interface definitions (api/),   *)
(* the API header (ipc/message.py) and what the processor does with both   *)
(* before and after the application's handler (env/app_processor.py).      *)
(*                                                                         *)
(* The peer speaks some version of the interface.  Its message is put into *)
(* the words of the version implemented here, checked, handled, and the    *)
(* answer is checked and put into the words of the peer's version, which   *)
(* is remembered in the echoed header.  The dictionary of the call is not  *)
(* copied when a message is translated: the message as received changes    *)
(* its words with the translated one, and keeps its version.               *)
(*                                                                         *)
(* A value stands for its type.  A boolean is a number, as in Python.      *)
(***************************************************************************)
EXTENDS Naturals, Sequences

CONSTANTS Echoes  \* what a message may echo: the versions of nested headers, innermost first

Versions == {"0.9", "1.0", "1.1", "2.0"}

ASSUME EchoesAssumption == Echoes \subseteq Seq(Versions)

VARIABLES
    progress, \* "asked", "held", "handled", "answered", "unanswered" by the handler, or
              \* "silent": the processor could not understand it, or not send the answer
    message,  \* the message of the peer
    held,     \* the message as the processor has it
    answer    \* the answer, as the processor and then the peer has it

apiVars == <<progress, message, held, answer>>

\* What an interface defines: its version and older ones, kinds and actions
\* of messages, names of properties, types of values.
\* "own" stands for any property not named here.
Plain == [version |-> "1.0", legacy |-> {}, kinds |-> {"req", "adv", "rsp"},
          actions |-> {"get", "set", "resync"}, properties |-> {"debug", "own"},
          values |-> {"number", "text", "dict"}]

TmSdp == Plain
TmWs == [Plain EXCEPT !.properties = {"debug"}]
ImuApp == Plain
TmDm == [Plain EXCEPT !.values = @ \cup {"list"}]
WsDm == [Plain EXCEPT !.kinds = {"adv", "rsp"}]
SdpDig == [Plain EXCEPT !.kinds = {"adv", "rsp"}, !.actions = @ \cup {"samples"}]
TmDig == [Plain EXCEPT !.version = "2.0", !.legacy = {"1.0", "1.1"},
                       !.actions = @ \cup {"method"}, !.properties = @ \cup {"center_freq"}]
Command == [Plain EXCEPT !.kinds = {"req", "rsp"}, !.actions = @ \cup {"command"},
                         !.properties = {"debug"}]

Api == [tm_sdp |-> TmSdp, tm_ws |-> TmWs, imu_app |-> ImuApp, tm_dm |-> TmDm,
        ws_dm |-> WsDm, sdp_dig |-> SdpDig, tm_dig |-> TmDig, cmd |-> Command]

Absent == "absent"

\* What a message of a kind and an action must have.
Required(interface, m) ==
    CASE m.kind = "rsp" -> {"action_code", "status"}
      [] interface = "sdp_dig" -> {"action_code", "metadata"}
      [] m.action = "get" -> {"action_code", "property"}
      [] m.action = "set" -> {"action_code", "property", "value"}
      [] m.action = "method" -> {"action_code", "method", "params"}
      [] m.action = "command" -> {"action_code", "command"}
      [] OTHER -> {"action_code"}

\* validate: versions, kinds, missing fields, and the names and types of
\* those there are.  Samples have neither property nor value.
Valid(interface, m) ==
    LET a == Api[interface] IN
    /\ m.version \in a.legacy \cup {a.version}
    /\ m.kind \in a.kinds
    /\ m.lacks \cap Required(interface, m) = {}
    /\ m.action \in a.actions
    /\ interface # "sdp_dig" =>
         /\ m.property \in a.properties \cup {Absent}
         /\ m.value \in a.values \cup {Absent}
    \* CommandAPI: the only value there is to set is a text, ON or OFF.
    /\ (interface = "cmd" /\ m.kind = "req" /\ m.action = "set") => m.value = "text"

\* The pairs of versions there is a translation for.
Translatable(interface, source, target) ==
    LET a == Api[interface] IN
    /\ source \in a.legacy \cup {a.version}
    /\ \/ source = target
       \/ interface # "cmd" /\ {source, target} = {"1.0", "2.0"}

\* Mutant: only messages that come in are translated.
TranslatedUp(m, target) ==
    [m EXCEPT !.property = IF m.version = "1.0" /\ target = "2.0" /\ @ = "fc" THEN "center_freq"
                           ELSE @,
              !.version = target]

\* translate: one property of the Digitiser had another name.
Translated(m, target) ==
    [m EXCEPT !.property = IF m.version = "1.0" /\ target = "2.0" /\ @ = "fc" THEN "center_freq"
                           ELSE IF m.version = "2.0" /\ target = "1.0" /\ @ = "center_freq" THEN "fc"
                           ELSE @,
              !.version = target]

\* What a peer may send: a message of any version that was ever supported, and
\* of one that was not, that may lack a field, be for another application or
\* another entity; its own echo may be a header that it echoes in turn.
Messages ==
    [interface : DOMAIN Api, version : Versions, kind : {"req", "adv"},
     action : {"get", "set", "resync", "method", "samples", "command"},
     property : {"absent", "debug", "own", "center_freq", "fc"},
     value : {"absent", "number", "text", "dict", "list"},
     lacks : {{}, {"action_code"}, {"property"}, {"value"}, {"metadata"}, {"params"}},
     from : {"peer"}, to : {"us", "other"}, entity : {"ours", "unknown"},
     status : {"absent"}, echo : Echoes]

Sensible(m) ==
    /\ m.version \in Api[m.interface].legacy \cup {"0.9", Api[m.interface].version}
    /\ m.action \in Api[m.interface].actions /\ m.kind \in Api[m.interface].kinds
    /\ (m.property # Absent) <=> (m.action \in {"get", "set"} /\ m.lacks # {"property"})
    /\ (m.value # Absent) <=> (m.action = "set" /\ m.lacks # {"value"})
    /\ (m.property \in {"fc", "center_freq"}) => m.interface = "tm_dig"
    /\ m.property = "fc" => m.version # "2.0"
    /\ (m.lacks # {} \/ m.version = "0.9") => (m.to = "us" /\ m.entity = "ours" /\ m.echo = <<>>)
    /\ m.lacks \subseteq Required(m.interface, m)

ApiInit ==
    /\ progress = "asked" /\ message \in {m \in Messages : Sensible(m)}
    /\ held = message /\ answer = message

-----------------------------------------------------------------------------
\* add_echo_api_header: the header goes into the echo, with the echo it has.
Echoed(m) == [m EXCEPT !.echo = Append(@, m.version)]

\* remove_echo_api_header
Unechoed(m) == [m EXCEPT !.echo = SubSeq(@, 1, Len(@) - 1)]

\* switch_from_to, and a call that is a response.
Turned(m, status) ==
    [m EXCEPT !.kind = "rsp", !.status = status, !.lacks = {}, !.from = m.to, !.to = m.from]

\* A DataEvent: the header is echoed, the message translated and checked.
\* What fails is logged, and nobody is told.
Understand ==
    /\ progress = "asked"
    /\ LET m == Echoed(message)
           here == Api[m.interface].version
       IN  IF Translatable(m.interface, m.version, here)
              /\ Valid(m.interface, Translated(m, here))
             THEN /\ held' = [Translated(m, here) EXCEPT !.version = m.version]
                  /\ progress' = "held"
             ELSE progress' = "silent" /\ UNCHANGED held
    /\ UNCHANGED <<message, answer>>

Entities == {"tm_dig", "tm_dm", "sdp_dig", "ws_dm"}  \* ENTITY_DRIVER interfaces

\* Messages the processor answers by itself, from the message it holds.
Common ==
    \/ held.to # "us"
    \/ held.kind = "req" /\ (held.property = "debug" \/ held.action = "resync")
    \/ held.interface = "cmd"
    \/ held.interface \in Entities /\ held.entity # "ours"

\* _construct_rsp_msg, _handle_debug_req, _handle_resync_req, _handle_cmd_req.
AnswerCommon ==
    /\ progress = "held" /\ Common
    /\ \E status \in {"success", "error"} :
          answer' = [Turned(held, status) EXCEPT
                        !.value = IF held.to = "us" /\ held.property = "debug" THEN "text" ELSE @]
    /\ progress' = "handled"
    /\ UNCHANGED <<message, held>>

\* What a handler may answer: the property's value as it is or was set to,
\* what a method returned, or, after an error, none.
Results ==
    CASE held.action = "set" -> {held.value, Absent}
      [] held.action \in {"get", "method"} -> {"number", "text", "dict", "list", Absent}
      [] OTHER -> {Absent}

\* The application's handler, with its _construct_rsp_to_...: an answer in the
\* words and the version of this side.
HandlerAnswers ==
    \E status \in {"success", "error"}, value \in Results :
        /\ answer' = [Turned(held, status) EXCEPT !.version = Api[held.interface].version,
                                                  !.value = value]
        /\ progress' = "handled"

\* There is no handler for the sender, it raises (a value outside its enumeration), or
\* it returns no message, because it has no branch for the property or never answers.
HandlerIsMute == progress' = "unanswered" /\ UNCHANGED answer

AnswerByHandler ==
    /\ progress = "held" /\ ~Common
    /\ HandlerAnswers \/ HandlerIsMute
    /\ UNCHANGED <<message, held>>

\* performActions: the answer is checked, the echoed header taken off, and the
\* answer translated to the version it names.  What fails is not sent.
Reply ==
    /\ progress = "handled"
    /\ LET version == answer.echo[Len(answer.echo)]
       IN  IF /\ Valid(answer.interface, answer)
              /\ Translatable(answer.interface, answer.version, version)
             THEN answer' = Translated(Unechoed(answer), version) /\ progress' = "answered"
             ELSE UNCHANGED answer /\ progress' = "silent"
    /\ UNCHANGED <<message, held>>

ApiNext == Understand \/ AnswerCommon \/ AnswerByHandler \/ Reply

ApiSpec == ApiInit /\ [][ApiNext]_apiVars

-----------------------------------------------------------------------------
(* Properties *)

\* A name a peer of the version knows.
Known(property, version) ==
    property \in IF version = "2.0" THEN {"debug", "own", "center_freq", Absent}
                                    ELSE {"debug", "own", "fc", Absent}

\* The processor's own answer to a message whose property was renamed.
NewWords == answer.interface = "tm_dig" /\ held.property = "center_freq" /\ Common

\* A peer that is answered is answered in kind.  An answer says who it is for and
\* from, has the peer's echo as it was sent, and is in the peer's version and its
\* words, whether the processor or the application made it, unless it is the
\* processor's and the property has been renamed since.  Apart from what a handler
\* leaves without an answer, valid or not, a request is met by silence only if it
\* cannot be understood, or its answer has a value the interface has no type for:
\* no combination of versions loses one (app_processor.py:180-300).
AnsweredInKind ==
    /\ progress = "answered" =>
         /\ answer.kind = "rsp" /\ answer.status \in {"success", "error"}
         /\ answer.from = message.to /\ answer.to = message.from
         /\ answer.echo = message.echo /\ answer.version = message.version
         /\ answer.interface = "tm_dig" => (Known(answer.property, message.version) \/ NewWords)
    /\ (progress = "silent" /\ message.kind = "req") =>
         LET a == Api[message.interface]
             words == IF message.version = "1.0" THEN a.properties \cup {"fc"} ELSE a.properties
         IN  \/ message.lacks # {} \/ message.version \in {"0.9", "1.1"}
             \/ message.property \notin words \cup {Absent}
             \/ {message.value, answer.value} \ (a.values \cup {Absent}) # {}
             \/ message.interface = "cmd" /\ message.action = "set" /\ message.value # "text"
=============================================================================
