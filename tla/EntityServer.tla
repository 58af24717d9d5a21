----------------------------- MODULE EntityServer -----------------------------
(***************************************************************************)
(* An application that serves a digitiser (the Science Data Processor):    *)
(* the selector thread of its TCPServer (ipc/tcp_server.py) turns what     *)
(* happens on the connections into events, the processors                  *)
(* (env/app_processor.py) take them from one queue and keep the map from   *)
(* the digitiser to its connection, the status thread (env/app.py) puts a  *)
(* status update event into the queue, and above a high watermark samples  *)
(* are acknowledged and dropped, which leaves no trace in the state        *)
(* modelled here.                                                          *)
(*                                                                         *)
(* The digitiser and the network are the environment: it dials, sends and  *)
(* is cut off, which the server notices later than the digitiser.          *)
(***************************************************************************)
EXTENDS Naturals, Sequences, SequencesExt, FiniteSets

CONSTANTS
    Conns,      \* identities of connections
    NoConn,     \* no connection, no event
    Processors, \* processors
    High, Low,  \* watermarks of the queue
    MaxDials,   \* bound: connections the digitiser makes
    MaxQueue    \* bound: events in the queue while the digitiser sends more

ASSUME ConnsAssumption == IsFiniteSet(Conns) /\ Cardinality(Conns) >= MaxDials
ASSUME NoConnAssumption == NoConn \notin Conns \cup Processors
ASSUME MarksAssumption == Low \in Nat /\ High \in Nat /\ Low <= High

VARIABLES
    dig,        \* the digitiser's connection, or NoConn
    dials,      \* connections made so far, in order
    backlog,    \* not accepted yet
    sent,       \* connections with a message that has not been read
    served,     \* registered with the server's selector
    event_queue, \* the application's event queue
    doing,      \* per processor: the event it is about, or NoConn
    entity,     \* entity_connection_map of the digitiser
    status,     \* its communication status is ESTABLISHED
    update,     \* current_status of the one StatusUpdateEvent
    overloaded  \* _queue_overload_active

network == <<dig, dials, backlog, sent>>
app == <<entity, status, update, overloaded>>
serverVars == <<dig, dials, backlog, sent, served, event_queue, doing, app>>

Event(kind, c) == [kind |-> kind, conn |-> c, at |-> "begin"]
AppEvents == [kind : {"connect", "data", "disconnect", "status"}, conn : Conns \cup {NoConn},
           at : {"begin", "handler"}]

\* Every variable keeps its type.
ServerTypeOK ==
    /\ dig \in Conns \cup {NoConn} /\ dials \in Seq(Conns)
    /\ backlog \subseteq Conns /\ sent \subseteq Conns /\ served \subseteq Conns
    /\ event_queue \in Seq(AppEvents)
    /\ doing \in [Processors -> AppEvents \cup {NoConn}]
    /\ entity \in Conns \cup {NoConn} /\ status \in BOOLEAN
    /\ update \in {"DEQUEUED", "ENQUEUED", "PROCESSING"}
    /\ overloaded \in BOOLEAN

ServerInit ==
    /\ dig = NoConn /\ dials = <<>> /\ backlog = {} /\ sent = {} /\ served = {}
    /\ event_queue = <<>> /\ doing = [p \in Processors |-> NoConn]
    /\ entity = NoConn /\ status = FALSE /\ update = "DEQUEUED"
    /\ overloaded = FALSE

-----------------------------------------------------------------------------
(* The digitiser and the network *)

Dial ==
    /\ dig = NoConn /\ Len(dials) < MaxDials
    /\ \E c \in Conns \ ToSet(dials) :
         dig' = c /\ dials' = Append(dials, c) /\ backlog' = backlog \cup {c}
    /\ UNCHANGED <<sent, served, event_queue, doing, app>>

Send ==
    /\ dig # NoConn /\ dig \notin sent /\ Len(event_queue) < MaxQueue
    /\ sent' = sent \cup {dig}
    /\ UNCHANGED <<dig, dials, backlog, served, event_queue, doing, app>>

\* The digitiser loses its connection.  It may dial again before the server has
\* noticed anything.
Cut ==
    /\ dig # NoConn /\ dig' = NoConn
    /\ Len(dials) < MaxDials
    /\ UNCHANGED <<dials, backlog, sent, served, event_queue, doing, app>>

-----------------------------------------------------------------------------
(* The selector thread of the server *)

\* _process_connection
Accept ==
    \E c \in backlog :
      /\ backlog' = backlog \ {c}
      /\ served' = served \cup {c}
      /\ event_queue' = Append(event_queue, Event("connect", c))
      /\ UNCHANGED <<dig, dials, sent, doing, app>>

\* _process_msg: a message is complete
Read ==
    \E c \in served \cap sent :
      /\ sent' = sent \ {c}
      /\ event_queue' = Append(event_queue, Event("data", c))
      /\ UNCHANGED <<dig, dials, backlog, served, doing, app>>

\* _process_disconnect, after the end of the stream or an error
Hangup ==
    \E c \in (served \ sent) \ {dig} :
      /\ served' = served \ {c}
      /\ event_queue' = Append(event_queue, Event("disconnect", c))
      /\ UNCHANGED <<network, doing, app>>

-----------------------------------------------------------------------------
(* The status thread *)

\* A status update is queued unless the last one is still pending.
Tick ==
    /\ update = "DEQUEUED" /\ update' = "ENQUEUED"
    /\ event_queue' = Append(event_queue, Event("status", NoConn))
    /\ UNCHANGED <<network, served, doing, entity, status, overloaded>>

-----------------------------------------------------------------------------
(* The processors *)

\* is_queue_overloaded: two watermarks, so that the state does not flap.
Overloaded(size) == IF overloaded THEN size > Low ELSE size >= High

TakeEvent(p) ==
    /\ doing[p] = NoConn /\ event_queue # <<>>
    /\ doing' = [doing EXCEPT ![p] = Head(event_queue)]
    /\ event_queue' = Tail(event_queue)
    /\ overloaded' = Overloaded(Len(Tail(event_queue)))
    /\ UNCHANGED <<network, served, entity, status, update>>

\* Mutant: the connection of a message is not stored.
EntryOnConnect(e) ==
    CASE e.kind = "connect" -> e.conn
      [] e.kind = "disconnect" -> NoConn
      [] OTHER -> entity

\* The entry of the map after an event: connect events and messages store their
\* connection, a disconnect event removes whatever there is.
Entry(e) ==
    CASE e.kind \in {"connect", "data"} -> e.conn
      [] e.kind = "disconnect" -> NoConn
      [] OTHER -> entity

\* notify_dequeued
Begun == "PROCESSING"

\* process_event up to the driver's handler
Begin(p) ==
    /\ doing[p] # NoConn /\ doing[p].at = "begin"
    /\ doing' = [doing EXCEPT ![p].at = "handler"]
    /\ entity' = Entry(doing[p])
    /\ update' = IF doing[p].kind = "status" THEN Begun ELSE update
    /\ overloaded' = IF doing[p].kind = "data" THEN Overloaded(Len(event_queue)) ELSE overloaded
    /\ UNCHANGED <<network, served, event_queue, status>>

\* notify_update_completed, in a finally clause
Completed == "DEQUEUED"

\* The driver's handler, and the end of the event.
HandleEvent(p) ==
    /\ doing[p] # NoConn /\ doing[p].at = "handler"
    /\ doing' = [doing EXCEPT ![p] = NoConn]
    /\ status' = CASE doing[p].kind = "connect" -> TRUE
                   [] doing[p].kind = "disconnect" -> FALSE
                   [] OTHER -> status
    /\ update' = IF doing[p].kind = "status" THEN Completed ELSE update
    /\ UNCHANGED <<network, served, event_queue, entity, overloaded>>

ServerNext ==
    \/ Dial \/ Send \/ Cut
    \/ Accept \/ Read \/ Hangup
    \/ Tick
    \/ \E p \in Processors : TakeEvent(p) \/ Begin(p) \/ HandleEvent(p)

ServerSpec == ServerInit /\ [][ServerNext]_serverVars

\* The digitiser goes on sending, as it does with samples; the threads go on.  Every
\* processor finishes what it is about, and some processor takes the next event.
FairServer ==
    /\ ServerSpec
    /\ WF_serverVars(Send) /\ WF_serverVars(Dial) /\ WF_serverVars(Accept)
    /\ WF_serverVars(Read) /\ WF_serverVars(Hangup)
    /\ WF_serverVars(Tick)
    /\ WF_serverVars(\E p \in Processors : TakeEvent(p))
    /\ \A p \in Processors : WF_serverVars(Begin(p) \/ HandleEvent(p))

-----------------------------------------------------------------------------
\* Whatever the processors do at the same time, a digitiser that stays connected and goes
\* on sending is found in the map in the end, and stays there: messages repair what a
\* late disconnect event has removed (app_processor.py:262, 354-358).
FoundInTheEnd == (dig # NoConn /\ Len(dials) = MaxDials) ~> [](entity = dig)

=============================================================================
