------------------------------ MODULE TcpClient -------------------------------
(***************************************************************************)
(* The TCP client of an application (ipc/tcp_client.py) with the retry     *)
(* timer of util/timer.py.  Four kinds of threads work on it: the selector *)
(* thread (`reader`), the processors that send (one at a time, under       *)
(* _send_lock: `sender`), the processor that runs the callback of the      *)
(* retry timer, and the thread that stops the application (`stopper`).     *)
(*                                                                         *)
(* connect() keeps _connect_lock for up to two seconds, so it is two       *)
(* steps, and `dialing` says that the lock is held between them; the other *)
(* parts under the lock, _process_disconnect() and the end of stop(), are  *)
(* one step each.  Reads made without the lock are steps of their own.  A  *)
(* message crosses the stream as a head and a tail, that is, in two reads. *)
(* A socket that is not connected counts as no socket.                     *)
(***************************************************************************)
EXTENDS Naturals, Sequences, FiniteSets

CONSTANTS
    Sockets,    \* identities of sockets, reused when nothing refers to one
    None,       \* no socket, no activity
    MaxBreaks   \* bound: connections the peer or the network cuts

ASSUME SocketsAssumption == IsFiniteSet(Sockets) /\ Cardinality(Sockets) >= 5
ASSUME NoneAssumption == None \notin Sockets
ASSUME BreaksAssumption == MaxBreaks \in Nat

VARIABLES
    client_socket,  \* the current socket, or None
    connected,
    started,
    registered,     \* sockets in the selector
    recv_buffer,    \* pieces of messages, each with the socket it came from
    retry,          \* the retry timer: "none", in the "heap", its event "queued"
    dialing,        \* connect() is waiting for the connection, under the lock
    told,           \* last connect or disconnect event given to the owner
    reader, sender, stopper,
    listening,      \* the server accepts connections
    alive,          \* sockets with a working connection
    expects,        \* per socket: the piece the peer sends next
    breaks

vars == <<client_socket, connected, started, registered, recv_buffer, retry, dialing, told,
          reader, sender, stopper, listening, alive, expects, breaks>>

client == <<client_socket, connected, registered, recv_buffer, retry, told>>
threads == <<reader, sender, stopper>>
peer == <<listening, alive, expects, breaks>>

Piece == {"head", "tail"}

\* A selector thread and a sender between two calls.
Idle == [at |-> "idle", socket |-> None, piece |-> "head"]
Resting == [at |-> "idle", keys |-> {}]

\* Every variable keeps its type, and a message in two pieces is all the buffer
\* ever holds back.
TypeOK ==
    /\ client_socket \in Sockets \cup {None}
    /\ connected \in BOOLEAN /\ started \in BOOLEAN /\ listening \in BOOLEAN
    /\ dialing \in BOOLEAN
    /\ registered \subseteq Sockets /\ alive \subseteq Sockets
    /\ recv_buffer \in Seq(Sockets \X Piece) /\ Len(recv_buffer) < 2
    /\ retry \in {"none", "heap", "queued"}
    /\ told \in [kind : {"none", "connected", "disconnected"}, turn : 0..1]
    /\ reader \in [at : {"idle", "select", "gone", "data"}, socket : Sockets \cup {None},
                   piece : Piece]
    /\ sender \in [at : {"idle", "socket", "invalid", "send"}, keys : SUBSET Sockets]
    /\ stopper \in {"no", "close", "destroy", "join", "done"}
    /\ expects \in [Sockets -> Piece]
    /\ breaks \in 0..MaxBreaks

Init ==
    /\ client_socket = None /\ connected = FALSE /\ started = TRUE
    /\ registered = {} /\ recv_buffer = <<>>
    /\ retry = "queued"     \* the application's first connect() is still to come
    /\ told = [kind |-> "none", turn |-> 0]
    /\ dialing = FALSE /\ reader = Idle /\ sender = Resting /\ stopper = "no"
    /\ listening \in BOOLEAN /\ alive = {} /\ breaks = 0
    /\ expects = [s \in Sockets |-> "head"]

-----------------------------------------------------------------------------
(* Under _connect_lock *)

\* _schedule_retry: only a timer in the heap counts as pending.
Scheduled(now) == IF started THEN "heap" ELSE now

\* Mutant: a disconnect is carried out for whatever socket it was noticed on.
CurrentAlways(s) == TRUE

\* A disconnect concerns the current connection, or it is stale.
Current(s) == s = client_socket

\* An event is put into the owner's queue; `turn` tells it from the event before.
Tell(kind) == [kind |-> kind, turn |-> 1 - told.turn]

\* Mutant: whether there was a connection is asked after it has been destroyed.
NewsAfter == told

\* The owner is told of a disconnect only if there was something to disconnect.
News == IF connected \/ client_socket # None THEN Tell("disconnected") ELSE told

\* _destroy_socket: what remains registered.
Unregistered == registered \ {client_socket}

\* _process_disconnect(expected_socket = s)
Disconnect(s) ==
    /\ ~dialing
    /\ IF Current(s)
       THEN /\ client_socket' = None /\ connected' = FALSE
            /\ registered' = Unregistered
            /\ alive' = alive \ {client_socket}
            /\ recv_buffer' = <<>>
            /\ told' = News
            /\ retry' = Scheduled(retry)
       ELSE UNCHANGED <<client, alive>>

Referenced == registered \cup {recv_buffer[k][1] : k \in DOMAIN recv_buffer}
              \cup {reader.socket} \cup sender.keys

\* connect(), the callback of an expired retry timer.  The timer, set by the last
\* disconnect, has run for five seconds, longer than a sender spends between looking
\* at `connected` and giving up.
Connect ==
    /\ retry = "queued" /\ ~dialing
    /\ sender.at \notin {"socket", "invalid"}
    /\ retry' = "none"
    /\ dialing' = (started /\ ~connected)
    /\ UNCHANGED <<client_socket, connected, registered, recv_buffer, told, started,
                   threads, peer>>

\* Mutant: the socket is closed after a failure, the retry left to the next disconnect.
FailedUnscheduled == "none"

\* A connection that failed is tried again later.
Failed == Scheduled("none")

\* The wait ends: the connection is there, or it has failed or timed out.
Connected ==
    /\ dialing /\ dialing' = FALSE
    /\ IF listening
       THEN LET s == CHOOSE x \in Sockets : x \notin Referenced
            IN /\ client_socket' = s /\ connected' = TRUE
               /\ registered' = registered \cup {s}
               /\ alive' = alive \cup {s}
               /\ expects' = [expects EXCEPT ![s] = "head"]
               /\ told' = Tell("connected") /\ UNCHANGED retry
       ELSE /\ client_socket' = None /\ connected' = FALSE
            /\ retry' = Failed
            /\ UNCHANGED <<registered, told, alive, expects>>
    /\ UNCHANGED <<started, recv_buffer, threads, listening, breaks>>

\* The timer manager takes an expired timer out of the heap and queues its event.
RetryExpires ==
    /\ retry = "heap" /\ retry' = "queued"
    /\ UNCHANGED <<client_socket, connected, registered, recv_buffer, told, started,
                   dialing, threads, peer>>

-----------------------------------------------------------------------------
(* The selector thread *)

\* _process_events: a registered socket is readable while the client is connected.
Select ==
    /\ reader = Idle /\ connected /\ started
    /\ \E s \in registered :
         reader' = [at |-> "select", socket |-> s, piece |-> "head"]
    /\ UNCHANGED <<client, started, dialing, sender, stopper, peer>>

\* The first half of _process_msg: a socket that is not the current one is left
\* alone; reading finds the end of the stream or an error, data, or nothing.
Receive ==
    /\ reader.at = "select"
    /\ IF reader.socket # client_socket
       THEN reader' = Idle /\ UNCHANGED expects
       ELSE IF reader.socket \notin alive
       THEN reader' = [reader EXCEPT !.at = "gone"] /\ UNCHANGED expects
       ELSE \/ /\ reader' = [reader EXCEPT !.at = "data", !.piece = expects[reader.socket]]
               /\ expects' = [expects EXCEPT ![reader.socket] =
                                IF @ = "head" THEN "tail" ELSE "head"]
            \/ reader' = Idle /\ UNCHANGED expects
    /\ UNCHANGED <<client, started, dialing, sender, stopper, listening, alive, breaks>>

\* What stays in the buffer: the head of a message, until its tail has come.
Kept(data) == IF Len(data) = 2 \/ data[1][2] = "tail" THEN <<>> ELSE data

\* The data just read go into the buffer there is by now.
Received == Append(recv_buffer, <<reader.socket, reader.piece>>)

\* A message is spoiled when a piece of it is missing or comes from a connection that
\* was lost before its data had reached the buffer.
Spoiled == Received[1][2] = "tail" \/ \E k \in DOMAIN Received : Received[k][1] # reader.socket

\* The second half of _process_msg: a message that is complete is passed on.
Buffer ==
    /\ reader.at = "data"
    /\ recv_buffer' = Kept(Received)
    /\ reader' = Idle
    /\ UNCHANGED <<client_socket, connected, registered, retry, told, started, dialing,
                   sender, stopper, peer>>

\* Receiving failed, or the message that came out could not be taken apart.
Hangup ==
    /\ reader.at \in {"gone", "data"}
    /\ reader.at = "data" => Spoiled
    /\ reader' = Idle
    /\ Disconnect(reader.socket)
    /\ UNCHANGED <<started, dialing, sender, stopper, listening, expects, breaks>>

-----------------------------------------------------------------------------
(* A processor that sends, one at a time under _send_lock *)

SendBegin ==
    /\ sender = Resting /\ connected
    /\ sender' = [at |-> "socket", keys |-> {}]
    /\ UNCHANGED <<client, started, dialing, reader, stopper, peer>>

\* The socket is looked at, then the selector's map is listed.
SendSocket ==
    /\ sender.at = "socket"
    /\ sender' = IF client_socket = None
                 THEN [sender EXCEPT !.at = "invalid"]
                 ELSE [at |-> "send", keys |-> registered]
    /\ UNCHANGED <<client, started, dialing, reader, stopper, peer>>

\* Without a socket the client is marked as not connected, without the lock.
SendInvalid ==
    /\ sender.at = "invalid"
    /\ sender' = Resting
    /\ connected' = FALSE
    /\ UNCHANGED <<client_socket, registered, recv_buffer, retry, told, started, dialing,
                   reader, stopper, peer>>

\* The message goes out on every connection listed, and a connection it could not be
\* sent on is closed, whether it works or not: the peer may be gone, the buffer of the
\* socket, which does not block, may be full, or the message cannot be encoded.
SendData ==
    /\ sender.at = "send"
    /\ IF sender.keys = {}
       THEN sender' = Resting /\ UNCHANGED <<client, alive>>
       ELSE \E s \in sender.keys :
              /\ sender' = [sender EXCEPT !.keys = @ \ {s}]
              /\ UNCHANGED <<client, alive>> \/ Disconnect(s)
    /\ UNCHANGED <<started, dialing, reader, stopper, listening, expects, breaks>>

-----------------------------------------------------------------------------
(* stop() *)

StopBegin ==
    /\ stopper = "no" /\ stopper' = "close"
    /\ started' = FALSE
    /\ UNCHANGED <<client, dialing, reader, sender, peer>>

StopClose ==
    /\ stopper = "close"
    /\ IF registered = {}
       THEN stopper' = "destroy" /\ UNCHANGED <<client, alive>>
       ELSE UNCHANGED stopper /\ \E s \in registered : Disconnect(s)
    /\ UNCHANGED <<started, dialing, reader, sender, listening, expects, breaks>>

\* Mutant: the socket is destroyed without waiting for a connect() under way.
FreeAlways == TRUE

\* _connect_lock is free.
Free == ~dialing

StopDestroy ==
    /\ stopper = "destroy" /\ Free
    /\ stopper' = "join"
    /\ client_socket' = None /\ connected' = FALSE
    /\ registered' = Unregistered
    /\ alive' = alive \ {client_socket}
    /\ UNCHANGED <<recv_buffer, retry, told, started, dialing, reader, sender, listening,
                   expects, breaks>>

StopJoin ==
    /\ stopper = "join" /\ reader = Idle
    /\ stopper' = "done"
    /\ UNCHANGED <<client, started, dialing, reader, sender, peer>>

-----------------------------------------------------------------------------
(* The peer and the network *)

ServerChanges ==
    /\ listening' = ~listening
    /\ breaks < MaxBreaks /\ breaks' = breaks + 1
    /\ UNCHANGED <<client, started, dialing, threads, alive, expects>>

Break ==
    /\ alive # {} /\ breaks < MaxBreaks
    /\ alive' = {} /\ breaks' = breaks + 1
    /\ UNCHANGED <<client, started, dialing, threads, listening, expects>>

Next ==
    \/ Connect \/ Connected \/ RetryExpires
    \/ Select \/ Receive \/ Buffer \/ Hangup
    \/ SendBegin \/ SendSocket \/ SendInvalid \/ SendData
    \/ StopBegin \/ StopClose \/ StopDestroy \/ StopJoin
    \/ ServerChanges \/ Break

Spec == Init /\ [][Next]_vars

\* Timers expire, their events are taken, and a thread that is inside a call goes on.
\* An open stream that has come to its end is readable until it is closed.
FairSpec ==
    /\ Spec
    /\ WF_vars(RetryExpires) /\ WF_vars(Connect) /\ WF_vars(Connected)
    /\ WF_vars(Select) /\ WF_vars(Receive) /\ WF_vars(Buffer \/ Hangup)
    /\ WF_vars(SendSocket \/ SendInvalid \/ SendData)
    /\ WF_vars(StopClose \/ StopDestroy \/ StopJoin)

-----------------------------------------------------------------------------
Session == INSTANCE TcpSession WITH told <- told, started <- started

\* Connect and disconnect events reach the owner in turns, whatever the selector, a
\* sender, the retry timer and stop() notice at the same time (tcp_client.py:121-180).
EventsInTurns == Session!SessionSpec

NoneIsLeft == /\ client_socket = None /\ ~connected
              /\ registered = {} /\ alive = {}
              /\ ~dialing

\* No socket but the current one is registered or open: a late disconnect, a retry or
\* a stop never leaks a connection (tcp_client.py:80, _destroy_socket).  When stop()
\* returns there is no socket, and there never will be another, not even from a
\* connect() that was under way (tcp_client.py:396-421).
OneSocket == /\ registered \cup alive \subseteq {client_socket}
             /\ stopper = "done" => NoneIsLeft

\* The sending under way ends for the current connection in this step: when it has
\* failed there, the connection is given up.
SentOnCurrent ==
    /\ sender.at = "send"
    /\ client_socket \in sender.keys /\ client_socket \notin sender'.keys

\* A connection that works is given up only by stop(), for a spoiled message, or by a
\* send that has failed on that very connection: a hang-up or a failed send noticed on
\* an older one leaves it alone (tcp_client.py:152-161, 341-366).
WorkingIsKept ==
    [][(client_socket \in alive /\ client_socket' # client_socket)
         => (~started \/ (reader.at = "data" /\ Spoiled) \/ SentOnCurrent)]_vars

\* As long as the server listens and the client is not stopped, a client that lost its
\* connection is connected again (tcp_client.py:135-150).
Reconnects ==
    <>[](listening /\ started) => []<>(client_socket \in alive /\ connected)
=============================================================================
