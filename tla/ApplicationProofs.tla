-------------------------- MODULE ApplicationProofs --------------------------
(***************************************************************************)
(* Proofs about TcpClient, AppLifecycle, ProcessorGate and ApiExchange,    *)
(* which make up an application, for every set of sockets and of           *)
(* processors, every number of broken connections, resyncs, faults and     *)
(* events and every header that a message echoes; and about                *)
(* GqrxRecording, an application that works with another program.          *)
(*                                                                         *)
(* Three facts carry the proofs about the client:                          *)
(*   - there is a current socket exactly while the client is connected,    *)
(*     and nothing else is registered or open (LinkAgrees); this holds     *)
(*     because connect() starts only without a sender between its two      *)
(*     looks at the connection, and no sender gets there meanwhile;        *)
(*   - from the moment stop() has destroyed the socket no connect() is     *)
(*     under way, and none can start (StopIsFinal);                        *)
(*   - the owner was told of a connection whenever there is one, and of    *)
(*     its end unless it was stop() that ended it (ToldAgrees).            *)
(* One carries those about the life: what stop() has stopped can be        *)
(* started again only by a processor, and the processors have left by the  *)
(* time their own place in the order of the stop is reached, unless one    *)
(* was left behind (StaysStopped).                                         *)
(*                                                                         *)
(* The invariants of the barrier hold each other up: BarrierHeld ties the  *)
(* owner and the active set to the program counters, SoleProcessor keeps   *)
(* every other processor out until the barrier is freed, and NoLostWakeup  *)
(* needs both to know that the condition of a sleeping thread only becomes *)
(* true with a notify_all.                                                 *)
(***************************************************************************)
EXTENDS TcpClient, AppLifecycle, ProcessorGate, ApiExchange, GqrxRecording, DataLemmas

-----------------------------------------------------------------------------
(* The client                                                               *)

\* A thread that found no socket keeps that finding until it acts on it.
LinkAgrees ==
    /\ connected <=> client_socket # None
    /\ registered = IF connected THEN {client_socket} ELSE {}
    /\ alive \subseteq registered
    /\ dialing => ~connected /\ sender.at \notin {"socket", "invalid"}
    /\ sender.at = "invalid" => ~connected
    /\ \E s \in Sockets : sender.keys \subseteq {s}

StopIsFinal ==
    /\ started <=> stopper = "no"
    /\ stopper \in {"join", "done"} => ~connected /\ ~dialing

\* The selector thread works on a socket, and has found it dead when it hangs up.
ReaderWatches ==
    /\ reader.at # "idle" => reader.socket \in Sockets
    /\ reader.at = "gone" => reader.socket \notin alive

ToldAgrees ==
    /\ connected => told.kind = "connected"
    /\ told.kind = "connected" => connected \/ stopper \in {"join", "done"}

ClientInv == TypeOK /\ LinkAgrees /\ StopIsFinal /\ ReaderWatches /\ ToldAgrees

-----------------------------------------------------------------------------

\* Five sockets are enough: four things can refer to one.
LEMMA SocketLeft ==
  ASSUME NEW a, NEW b, NEW c, NEW d
  PROVE  \E s \in Sockets : s \notin {a, b, c, d}
<1> DEFINE A == {} \cup {a}  B == A \cup {b}  C == B \cup {c}  D == C \cup {d}
<1>0. ASSUME NEW S, NEW n \in Nat, NEW x, IsFiniteSet(S), Cardinality(S) \in 0..n
      PROVE  IsFiniteSet(S \cup {x}) /\ Cardinality(S \cup {x}) \in 0..(n + 1)
  BY <1>0, FS_AddElement
<1>1. IsFiniteSet({}) /\ Cardinality({}) \in 0..0
  BY FS_EmptySet
<1>2. IsFiniteSet(A) /\ Cardinality(A) \in 0..1
  <2>1. IsFiniteSet({} \cup {a}) /\ Cardinality({} \cup {a}) \in 0..(0 + 1)
    BY <1>0, <1>1, Zenon
  <2>2. QED BY <2>1
<1>3. IsFiniteSet(B) /\ Cardinality(B) \in 0..2
  <2> HIDE DEF A
  <2>1. IsFiniteSet(A \cup {b}) /\ Cardinality(A \cup {b}) \in 0..(1 + 1)
    BY <1>0, <1>2
  <2>2. QED BY <2>1
<1>4. IsFiniteSet(C) /\ Cardinality(C) \in 0..3
  <2> HIDE DEF B
  <2>1. IsFiniteSet(B \cup {c}) /\ Cardinality(B \cup {c}) \in 0..(2 + 1)
    BY <1>0, <1>3
  <2>2. QED BY <2>1
<1>5. IsFiniteSet(D) /\ Cardinality(D) \in 0..4
  <2> HIDE DEF C
  <2>1. IsFiniteSet(C \cup {d}) /\ Cardinality(C \cup {d}) \in 0..(3 + 1)
    BY <1>0, <1>4
  <2>2. QED BY <2>1
<1>6. ASSUME Sockets \subseteq D PROVE FALSE
  <2> HIDE DEF D
  <2>1. Cardinality(Sockets) <= Cardinality(D)
    BY <1>5, <1>6, FS_Subset
  <2>2. Cardinality(Sockets) \in Nat
    BY SocketsAssumption, FS_CardinalityType
  <2>3. QED BY <1>5, <2>1, <2>2, SocketsAssumption
<1>7. QED BY <1>6

\* The socket a connection gets is one that nothing refers to.
LEMMA FreshSocket ==
  ASSUME ClientInv, dialing
  PROVE  LET s == CHOOSE x \in Sockets : x \notin Referenced
         IN s \in Sockets /\ s # None /\ s \notin Referenced
<1>1. PICK k \in Sockets : sender.keys \subseteq {k}
  BY DEF ClientInv, LinkAgrees
<1>2. registered = {}
  BY DEF ClientInv, LinkAgrees
<1>3. {recv_buffer[i][1] : i \in DOMAIN recv_buffer} \subseteq {recv_buffer[1][1]}
  BY DEF ClientInv, TypeOK
<1>4. Referenced \subseteq {k, recv_buffer[1][1], reader.socket, None}
  BY <1>1, <1>2, <1>3 DEF Referenced
<1>5. \E x \in Sockets : x \notin Referenced
  BY <1>4, SocketLeft
<1>6. QED BY <1>5, NoneAssumption

\* What Tell makes of the event before.
LEMMA TellType ==
  ASSUME TypeOK, NEW kind \in {"connected", "disconnected"}
  PROVE  /\ Tell(kind) \in [kind : {"none", "connected", "disconnected"}, turn : 0..1]
         /\ Tell(kind).kind = kind
<1>1. told.turn \in 0..1
  BY DEF TypeOK
<1>2. 1 - told.turn \in 0..1
  BY <1>1
<1>3. QED BY <1>2 DEF Tell

\* The type of what stays in the buffer.
LEMMA BufferKeepsType ==
  ASSUME TypeOK, reader.socket \in Sockets
  PROVE  Kept(Received) \in Seq(Sockets \X Piece) /\ Len(Kept(Received)) < 2
<1>1. reader.piece \in Piece
  BY DEF TypeOK
<1>2. Received \in Seq(Sockets \X Piece) /\ Len(Received) \in {1, 2}
  BY <1>1 DEF Received, TypeOK
<1>3. QED BY <1>2 DEF Kept

\* A disconnect, whoever noticed it, keeps the invariant; it takes the connection away
\* only from the socket it was noticed on.
LEMMA DisconnectStep ==
  ASSUME ClientInv, NEW s \in Sockets, Disconnect(s)
  PROVE  /\ client_socket' \in {client_socket, None}
         /\ connected' \in {connected, FALSE}
         /\ connected' <=> client_socket' # None
         /\ registered' = IF connected' THEN {client_socket'} ELSE {}
         /\ alive' \subseteq registered' /\ alive' \subseteq alive
         /\ recv_buffer' \in {recv_buffer, <<>>}
         /\ retry' \in {"none", "heap", "queued"}
         /\ client_socket' # client_socket => s = client_socket
         /\ \/ told' = told /\ connected' = connected
            \/ told' = Tell("disconnected") /\ connected /\ ~connected'
<1> USE DEF ClientInv, TypeOK, LinkAgrees, Disconnect, client
<1>1. CASE Current(s)
  <2>1. client_socket = s /\ connected
    BY <1>1, NoneAssumption DEF Current
  <2>2. QED BY <1>1, <2>1 DEF Unregistered, News, Scheduled
<1>2. CASE ~Current(s)
  BY <1>2
<1>3. QED BY <1>1, <1>2

\* ... and so does every step that consists of one, of the selector thread or of a
\* sender.
LEMMA DisconnectKeeps ==
  ASSUME ClientInv, NEW s \in Sockets, Disconnect(s),
         UNCHANGED <<started, dialing, stopper, listening, expects, breaks>>,
         reader' \in {reader, Idle},
         sender' = sender \/ \E k \in sender.keys : sender' = [sender EXCEPT !.keys = @ \ {k}]
  PROVE  ClientInv'
<1> USE DEF ClientInv
<1>1. sender' \in [at : {"idle", "socket", "invalid", "send"}, keys : SUBSET Sockets]
  BY DEF TypeOK
<1>2. sender'.at = sender.at /\ sender'.keys \subseteq sender.keys
  BY DEF TypeOK
<1>3. /\ client_socket' \in {client_socket, None}
      /\ connected' \in {connected, FALSE}
      /\ connected' <=> client_socket' # None
      /\ registered' = IF connected' THEN {client_socket'} ELSE {}
      /\ alive' \subseteq registered' /\ alive' \subseteq alive
      /\ recv_buffer' \in {recv_buffer, <<>>}
      /\ retry' \in {"none", "heap", "queued"}
      /\ \/ told' = told /\ connected' = connected
         \/ told' = Tell("disconnected") /\ connected /\ ~connected'
  BY DisconnectStep
<1>4. TypeOK'
  <2>1. told' \in [kind : {"none", "connected", "disconnected"}, turn : 0..1]
    BY <1>3, TellType DEF TypeOK
  <2>2. reader' \in [at : {"idle", "select", "gone", "data"}, socket : Sockets \cup {None},
                     piece : Piece]
    BY DEF TypeOK, Idle, Piece
  <2>3. recv_buffer' \in Seq(Sockets \X Piece) /\ Len(recv_buffer') < 2
    <3>1. <<>> \in Seq(Sockets \X Piece) /\ Len(<<>>) = 0
      OBVIOUS
    <3>2. CASE recv_buffer' = <<>>
      BY <3>1, <3>2
    <3>3. CASE recv_buffer' = recv_buffer
      BY <3>3 DEF TypeOK
    <3>4. QED BY <1>3, <3>2, <3>3
  <2>4. registered' \subseteq Sockets /\ alive' \subseteq Sockets
    BY <1>3, NoneAssumption DEF TypeOK, LinkAgrees
  <2>5. client_socket' \in Sockets \cup {None} /\ retry' \in {"none", "heap", "queued"}
    BY <1>3 DEF TypeOK
  <2>6. connected' \in BOOLEAN
    BY <1>3 DEF TypeOK
  <2>7. /\ started' \in BOOLEAN /\ listening' \in BOOLEAN /\ dialing' \in BOOLEAN
        /\ stopper' \in {"no", "close", "destroy", "join", "done"}
        /\ expects' \in [Sockets -> Piece] /\ breaks' \in 0..MaxBreaks
    BY DEF TypeOK
  <2>8. QED BY <1>1, <2>1, <2>2, <2>3, <2>4, <2>5, <2>6, <2>7 DEF TypeOK
<1>5. LinkAgrees'
  BY <1>3, <1>2 DEF LinkAgrees, Disconnect
<1>6. StopIsFinal' /\ ReaderWatches'
  BY <1>3 DEF StopIsFinal, ReaderWatches, Idle
<1>7. ToldAgrees'
  BY <1>3 DEF StopIsFinal, ToldAgrees, Tell
<1>8. QED BY <1>4, <1>5, <1>6, <1>7

LEMMA ClientStep ==
  ASSUME ClientInv, Next
  PROVE  ClientInv'
<1> USE DEF ClientInv, LinkAgrees, StopIsFinal, ReaderWatches, ToldAgrees
<1> USE DEF client, threads, peer
<1>1. CASE Connect
  BY <1>1 DEF Connect, TypeOK
<1>2. CASE Connected
  <2> DEFINE s == CHOOSE x \in Sockets : x \notin Referenced
  <2>1. s \in Sockets /\ s # None /\ s \notin Referenced
    BY <1>2, FreshSocket DEF Connected
  <2>2. s # reader.socket
    BY <2>1 DEF Referenced
  <2>3. CASE listening
    <3> HIDE DEF s
    <3>1. /\ client_socket' = s /\ connected' = TRUE /\ registered' = registered \cup {s}
          /\ alive' = alive \cup {s} /\ expects' = [expects EXCEPT ![s] = "head"]
          /\ told' = Tell("connected") /\ UNCHANGED retry
      BY <1>2, <2>3 DEF Connected, s
    <3>2. TypeOK'
      BY <1>2, <2>1, <3>1, TellType DEF Connected, TypeOK, Piece
    <3>3. LinkAgrees' /\ StopIsFinal' /\ ReaderWatches' /\ ToldAgrees'
      BY <1>2, <2>1, <2>2, <3>1 DEF Connected, Tell
    <3>4. QED BY <3>2, <3>3
  <2>4. CASE ~listening
    <3>1. /\ dialing /\ client_socket' = None /\ connected' = FALSE /\ dialing' = FALSE
          /\ retry' \in {"none", "heap"}
          /\ UNCHANGED <<registered, told, alive, expects, started, recv_buffer, reader,
                         sender, stopper, listening, breaks>>
      BY <1>2, <2>4 DEF Connected, Failed, Scheduled
    <3>2. TypeOK'
      BY <3>1 DEF TypeOK
    <3>3. LinkAgrees' /\ StopIsFinal' /\ ReaderWatches' /\ ToldAgrees'
      BY <3>1, Zenon
    <3>4. QED BY <3>2, <3>3
  <2>5. QED BY <2>3, <2>4
<1>3. CASE RetryExpires
  BY <1>3 DEF RetryExpires, TypeOK
<1>4. CASE Select
  BY <1>4 DEF Select, TypeOK, Idle, Piece
<1>5. CASE Receive
  <2>1. reader.socket \in Sockets /\ reader.piece \in Piece
    BY <1>5 DEF Receive, TypeOK
  <2>2. /\ expects' \in [Sockets -> Piece]
        /\ \/ reader' = Idle
           \/ reader' = [reader EXCEPT !.at = "gone"] /\ reader.socket \notin alive
           \/ \E p \in Piece : reader' = [reader EXCEPT !.at = "data", !.piece = p]
    BY <1>5, <2>1 DEF Receive, TypeOK, Piece
  <2>3. /\ reader' \in [at : {"idle", "select", "gone", "data"}, socket : Sockets \cup {None},
                        piece : Piece]
        /\ reader'.at # "idle" => reader'.socket \in Sockets
        /\ reader'.at = "gone" => reader'.socket \notin alive
    <3>1. CASE reader' = Idle
      BY <3>1 DEF Idle, Piece
    <3>2. CASE reader' = [reader EXCEPT !.at = "gone"] /\ reader.socket \notin alive
      BY <2>1, <3>2 DEF TypeOK
    <3>3. CASE \E p \in Piece : reader' = [reader EXCEPT !.at = "data", !.piece = p]
      BY <2>1, <3>3 DEF TypeOK
    <3>4. QED BY <2>2, <3>1, <3>2, <3>3
  <2>4. TypeOK'
    BY <1>5, <2>2, <2>3 DEF Receive, TypeOK
  <2>5. QED BY <1>5, <2>3, <2>4 DEF Receive
<1>6. CASE Buffer
  BY <1>6, BufferKeepsType DEF Buffer, TypeOK, Idle, Piece
<1>7. CASE Hangup
  BY <1>7, DisconnectKeeps DEF Hangup
<1>8. CASE SendBegin
  BY <1>8 DEF SendBegin, TypeOK
<1>9. CASE SendSocket
  BY <1>9 DEF SendSocket, TypeOK
<1>10. CASE SendInvalid
  BY <1>10, ZenonT(60) DEF SendInvalid, TypeOK, Resting
<1>11. CASE SendData
  <2>1. CASE sender.keys = {}
    BY <1>11, <2>1 DEF SendData, TypeOK, Resting
  <2>2. CASE sender.keys # {}
    <3>1. PICK s \in sender.keys :
            /\ sender' = [sender EXCEPT !.keys = @ \ {s}]
            /\ UNCHANGED <<client, alive>> \/ Disconnect(s)
      BY <1>11, <2>2 DEF SendData
    <3>2. s \in Sockets
      BY DEF TypeOK
    <3>3. CASE UNCHANGED <<client, alive>>
      <4>1. /\ sender' \in [at : {"idle", "socket", "invalid", "send"}, keys : SUBSET Sockets]
            /\ sender'.at = sender.at /\ sender'.keys \subseteq sender.keys
        BY <3>1 DEF TypeOK
      <4>2. QED BY <1>11, <3>1, <3>3, <4>1 DEF SendData, TypeOK
    <3>4. CASE Disconnect(s)
      BY <1>11, <3>1, <3>2, <3>4, DisconnectKeeps DEF SendData
    <3>5. QED BY <3>1, <3>3, <3>4
  <2>3. QED BY <2>1, <2>2
<1>12. CASE StopBegin
  BY <1>12, ZenonT(60) DEF StopBegin, TypeOK
<1>13. CASE StopClose
  <2>1. CASE registered = {}
    <3>1. /\ stopper = "close" /\ stopper' = "destroy"
          /\ UNCHANGED <<client_socket, connected, registered, recv_buffer, retry, told, alive,
                         started, dialing, reader, sender, listening, expects, breaks>>
      BY <1>13, <2>1 DEF StopClose
    <3>2. TypeOK'
      BY <3>1 DEF TypeOK
    <3>3. LinkAgrees' /\ StopIsFinal' /\ ReaderWatches' /\ ToldAgrees'
      BY <3>1
    <3>4. QED BY <3>2, <3>3
  <2>2. CASE registered # {}
    <3>1. UNCHANGED <<started, dialing, stopper, reader, sender, listening, expects, breaks>>
      BY <1>13, <2>2 DEF StopClose
    <3>2. PICK s \in registered : Disconnect(s)
      BY <1>13, <2>2 DEF StopClose
    <3>3. s \in Sockets
      BY DEF TypeOK
    <3>4. QED BY <3>1, <3>2, <3>3, DisconnectKeeps
  <2>3. QED BY <2>1, <2>2
<1>14. CASE StopDestroy
  BY <1>14, ZenonT(60) DEF StopDestroy, Free, Unregistered, TypeOK
<1>15. CASE StopJoin
  BY <1>15 DEF StopJoin, TypeOK
<1>16. CASE ServerChanges
  BY <1>16, BreaksAssumption DEF ServerChanges, TypeOK
<1>17. CASE Break
  BY <1>17, BreaksAssumption DEF Break, TypeOK
<1>18. QED
  BY <1>1, <1>2, <1>3, <1>4, <1>5, <1>6, <1>7, <1>8, <1>9, <1>10, <1>11, <1>12,
     <1>13, <1>14, <1>15, <1>16, <1>17 DEF Next
THEOREM ClientInvariant == Spec => []ClientInv
<1>1. Init => ClientInv
  <2>1. ASSUME Init PROVE TypeOK
    <3>1. \A S : <<>> \in Seq(S) /\ Len(<<>>) = 0
      OBVIOUS
    <3>2. recv_buffer \in Seq(Sockets \X Piece) /\ Len(recv_buffer) < 2
      BY <2>1, <3>1 DEF Init
    <3>3. /\ reader \in [at : {"idle", "select", "gone", "data"}, socket : Sockets \cup {None},
                         piece : Piece]
          /\ sender \in [at : {"idle", "socket", "invalid", "send"}, keys : SUBSET Sockets]
          /\ expects \in [Sockets -> Piece]
          /\ told \in [kind : {"none", "connected", "disconnected"}, turn : 0..1]
      BY <2>1 DEF Init, Idle, Resting, Piece
    <3>4. breaks \in 0..MaxBreaks
      BY <2>1, BreaksAssumption DEF Init
    <3>5. QED BY <2>1, <3>2, <3>3, <3>4 DEF Init, TypeOK
  <2>2. ASSUME Init PROVE LinkAgrees
    <3>1. \E s \in Sockets : TRUE
      BY SocketLeft
    <3>2. QED BY <2>2, <3>1 DEF Init, LinkAgrees, Resting
  <2>3. ASSUME Init PROVE StopIsFinal /\ ReaderWatches /\ ToldAgrees
    BY <2>3 DEF Init, StopIsFinal, ReaderWatches, ToldAgrees, Idle
  <2>4. QED BY <2>1, <2>2, <2>3 DEF ClientInv
<1>2. ClientInv /\ [Next]_vars => ClientInv'
  <2>1. ASSUME ClientInv, UNCHANGED vars PROVE ClientInv'
    BY <2>1 DEF vars, ClientInv, TypeOK, LinkAgrees, StopIsFinal, ReaderWatches, ToldAgrees
  <2>2. QED BY <2>1, ClientStep
<1>3. QED BY <1>1, <1>2, PTL DEF Spec

\* Every variable keeps its type.
THEOREM ClientTypeCorrect == Spec => []TypeOK
<1>1. ClientInv => TypeOK
  BY DEF ClientInv
<1>2. QED BY <1>1, ClientInvariant, PTL

\* The current socket is the only one registered or open, and after stop() there is
\* none, whatever the network does and however often (tcp_client.py:80, 396-421).
THEOREM OnlyOneSocket == Spec => []OneSocket
<1>1. ClientInv => OneSocket
  BY DEF ClientInv, LinkAgrees, StopIsFinal, OneSocket, NoneIsLeft
<1>2. QED BY <1>1, ClientInvariant, PTL

-----------------------------------------------------------------------------

\* A send that takes the connection away was one on this connection.
LEMMA FailedSend ==
  ASSUME ClientInv, SendData, client_socket' # client_socket
  PROVE  SentOnCurrent
<1> DEFINE Sends(s) == sender' = [sender EXCEPT !.keys = @ \ {s}]
<1>1. PICK s \in sender.keys : Sends(s) /\ Disconnect(s) /\ sender.at = "send"
  <2> DEFINE Drops(s) == Disconnect(s)
  <2> HIDE DEF Sends, Drops
  <2>1. /\ sender.at = "send"
        /\ (\E s \in sender.keys : Sends(s) /\ (UNCHANGED <<client, alive>> \/ Drops(s)))
           \/ UNCHANGED <<client, alive>>
    BY DEF SendData, Sends, Drops
  <2>2. ~UNCHANGED <<client, alive>>
    BY DEF client
  <2>3. QED BY <2>1, <2>2 DEF Drops
<1>2. sender \in [at : {"idle", "socket", "invalid", "send"}, keys : SUBSET Sockets]
  BY DEF ClientInv, TypeOK
<1>3. s \in Sockets
  BY <1>1, <1>2
<1>4. s = client_socket
  BY <1>1, <1>3, DisconnectStep
<1>5. sender'.keys = sender.keys \ {s}
  BY <1>1, <1>2
<1>6. QED BY <1>1, <1>4, <1>5 DEF SentOnCurrent

\* Only a connection that is no longer open, or a spoiled message, ends in a hang-up, and
\* a failed send closes the connection it was made on: a step that leaves a working
\* connection is one of stop(), comes from the data, or is that of the sender on it.
LEMMA WorkingStep ==
  ASSUME ClientInv, Next, client_socket \in alive, client_socket' # client_socket
  PROVE  ~started \/ (reader.at = "data" /\ Spoiled) \/ SentOnCurrent
<1> USE DEF ClientInv, LinkAgrees, StopIsFinal, ReaderWatches, client, threads, peer
<1>1. CASE Connect \/ RetryExpires \/ Select \/ Receive \/ Buffer \/ SendBegin
           \/ SendSocket \/ SendInvalid \/ StopBegin \/ StopJoin \/ ServerChanges \/ Break
  BY <1>1 DEF Connect, RetryExpires, Select, Receive, Buffer, SendBegin, SendSocket,
              SendInvalid, StopBegin, StopJoin, ServerChanges, Break
<1>2. CASE Connected
  BY <1>2 DEF Connected
<1>3. CASE Hangup
  BY <1>3, DisconnectStep DEF Hangup
<1>4. CASE SendData
  BY <1>4, FailedSend
<1>5. CASE StopClose \/ StopDestroy
  BY <1>5 DEF StopClose, StopDestroy
<1>6. QED BY <1>1, <1>2, <1>3, <1>4, <1>5 DEF Next

\* A connection that works is taken away by stop(), by a spoiled message or by a send that
\* failed on it, never by a hang-up or a failed send noticed on an older socket, nor by a
\* retry (tcp_client.py:152-161, 341-366).
THEOREM WorkingStays == Spec => WorkingIsKept
<1>1. ASSUME ClientInv, [Next]_vars
      PROVE  [(client_socket \in alive /\ client_socket' # client_socket)
                => (~started \/ (reader.at = "data" /\ Spoiled) \/ SentOnCurrent)]_vars
  BY <1>1, WorkingStep DEF vars
<1>2. QED BY <1>1, ClientInvariant, PTL DEF Spec, WorkingIsKept

-----------------------------------------------------------------------------

\* What the owner's queue sees of a disconnect.
LEMMA ToldOnce ==
  ASSUME ClientInv, NEW s \in Sockets, Disconnect(s)
  PROVE  told' = told \/ (told.kind = "connected" /\ told' = Tell("disconnected"))
BY DisconnectStep DEF ClientInv, ToldAgrees

\* Every step of the client is a step of the session it promises its owner, or none
\* that the owner can see.
LEMMA SessionStep ==
  ASSUME ClientInv, [Next]_vars
  PROVE  [Session!SessionNext]_<<told, started>>
<1> USE DEF client, threads, peer, Session!SessionNext, Session!TellConnected,
            Session!TellDisconnected, Session!Tell, Session!Stop, Tell
<1>1. CASE Connect \/ RetryExpires \/ Select \/ Receive \/ Buffer \/ SendBegin
           \/ SendSocket \/ SendInvalid \/ StopDestroy \/ StopJoin \/ ServerChanges \/ Break
           \/ UNCHANGED vars
  BY <1>1 DEF Connect, RetryExpires, Select, Receive, Buffer, SendBegin, SendSocket,
              SendInvalid, StopDestroy, StopJoin, ServerChanges, Break, vars
<1>2. CASE Connected
  BY <1>2 DEF Connected, ClientInv, LinkAgrees, StopIsFinal, ToldAgrees
<1>3. CASE StopBegin
  BY <1>3 DEF StopBegin, ClientInv, StopIsFinal
<1>4. CASE Hangup
  <2>1. reader.socket \in Sockets /\ Disconnect(reader.socket) /\ UNCHANGED started
    BY <1>4 DEF Hangup, ClientInv, ReaderWatches
  <2>2. QED BY <2>1, ToldOnce
<1>5. CASE SendData
  <2>1. UNCHANGED started /\ (UNCHANGED told \/ \E s \in sender.keys : Disconnect(s))
    BY <1>5 DEF SendData
  <2>2. sender.keys \subseteq Sockets
    BY DEF ClientInv, TypeOK
  <2>3. QED BY <2>1, <2>2, ToldOnce
<1>6. CASE StopClose
  <2>1. UNCHANGED started /\ (UNCHANGED told \/ \E s \in registered : Disconnect(s))
    BY <1>6 DEF StopClose
  <2>2. registered \subseteq Sockets
    BY DEF ClientInv, TypeOK
  <2>3. QED BY <2>1, <2>2, ToldOnce
<1>7. QED BY <1>1, <1>2, <1>3, <1>4, <1>5, <1>6 DEF Next

\* The client implements the session: connect and disconnect events come in turns
\* whatever its threads and the network do (tcp_client.py:121-180).
THEOREM ClientKeepsSession == Spec => EventsInTurns
<1>1. Init => Session!SessionInit
  BY DEF Init, Session!SessionInit
<1>2. QED BY <1>1, SessionStep, ClientInvariant, PTL
          DEF Spec, EventsInTurns, Session!SessionSpec

-----------------------------------------------------------------------------
(* The life                                                                 *)

\* The steps of the processors' handlers.
ClientSteps == {"idle", "gone", "replace", "renew", "connect", "look", "sense", "read", "heat",
          "handle"}

\* The types the proof needs.
LifeTypeOK == /\ stage \in {"new", "run", "stop"}
              /\ done \in 0..9
              /\ hands \in [Workers -> [event : Events \cup {"none"}, at : ClientSteps]]

\* What is stopped stays stopped: each part from its own place in StopOrder on; what a
\* processor can still change, only if none was left behind.
StaysStopped ==
    /\ done > 0 => stage = "stop" /\ (thermometer = "none" \/ orphaned)
    /\ done >= 2 => clocks = {}
    /\ done >= 3 => ~command
    /\ done >= 5 /\ ~late => \A w \in Workers : hands[w] = Gone
    /\ done >= 7 => link = "stopped"
    /\ done >= 8 /\ ~late => pending = <<>>
    /\ done >= 9 /\ ~late => receiver = "none"

LifeInv == LifeTypeOK /\ StaysStopped

-----------------------------------------------------------------------------

LEMMA PlacesInOrder ==
  ASSUME done \in 0..9
  PROVE  /\ IsStopped("thermometer") <=> done >= 1
         /\ IsStopped("timers") <=> done >= 2
         /\ IsStopped("command") <=> done >= 3
         /\ IsStopped("dismiss") <=> done >= 4
         /\ IsStopped("reporter") <=> done >= 6
         /\ Stopped <=> done = 9
BY DEF IsStopped, Stopped, StopOrder

LEMMA NextComponent ==
  ASSUME done \in 0..9, NEW c, Stops(c)
  PROVE  /\ stage = "stop" /\ done < 9 /\ done' = done + 1
         /\ UNCHANGED <<stage, hands, refused, orphaned>>
         /\ c = StopOrder[done + 1]
BY PlacesInOrder DEF Stops, world

\* A processor that has left takes no further step.
LEMMA OnlyTheLiving ==
  ASSUME LifeTypeOK, NEW w \in Workers, Process(w)
  PROVE  hands[w] # Gone
<1>1. ASSUME hands[w] = Gone
      PROVE  FALSE
  <2>1. hands[w] # Waiting /\ hands[w].at = "gone"
    BY <1>1 DEF Waiting, Gone
  <2>2. QED BY <2>1 DEF Process, Take, Leave, ReinitialiseReceiver, ReinitialiseThermometer,
                        ConnectClients, RetryReceiver, RetryThermometer, ReadTemperature,
                        RequestShutdown, HandleOther
<1>2. QED BY <1>1

LEMMA ProcessKeepsType ==
  ASSUME LifeTypeOK, NEW w \in Workers, Process(w)
  PROVE  LifeTypeOK'
<1> USE DEF LifeTypeOK
<1>1. Waiting \in [event : Events \cup {"none"}, at : ClientSteps]
      /\ Gone \in [event : Events \cup {"none"}, at : ClientSteps]
  BY DEF Waiting, Gone, ClientSteps
<1>2. ASSUME NEW e \in Events, Take(w, e)
      PROVE  LifeTypeOK'
  <2>1. [event |-> e, at |-> FirstStep(e)] \in [event : Events \cup {"none"}, at : ClientSteps]
    BY DEF FirstStep, ClientSteps
  <2>2. QED BY <1>2, <2>1 DEF Take
<1>3. ASSUME Finish(w), UNCHANGED <<stage, done>>
      PROVE  LifeTypeOK'
  BY <1>1, <1>3 DEF Finish
<1>4. ASSUME NEW step \in ClientSteps, Goto(w, step), UNCHANGED <<stage, done>>
      PROVE  LifeTypeOK'
  BY <1>4 DEF Goto
<1>5. CASE Leave(w)
  BY <1>1, <1>5 DEF Leave
<1>6. CASE RequestShutdown(w)
  BY <1>1, <1>6 DEF RequestShutdown, SetTimers, Finish
<1>7. CASE ReinitialiseReceiver(w) \/ ReinitialiseThermometer(w) \/ ConnectClients(w)
           \/ RetryReceiver(w) \/ RetryThermometer(w) \/ ReadTemperature(w) \/ HandleOther(w)
  <2>1. UNCHANGED <<stage, done>>
    BY <1>7 DEF ReinitialiseReceiver, ReinitialiseThermometer, ConnectClients, RetryReceiver,
                RetryThermometer, ReadTemperature, HandleOther
  <2>2. Finish(w) \/ \E step \in {"renew", "connect", "sense", "heat"} : Goto(w, step)
    BY <1>7 DEF ReinitialiseReceiver, ReinitialiseThermometer, ConnectClients, RetryReceiver,
                RetryThermometer, ReadTemperature, HandleOther, SetTimers
  <2>3. QED BY <1>3, <1>4, <2>1, <2>2 DEF ClientSteps
<1>8. QED BY <1>2, <1>5, <1>6, <1>7 DEF Process

\* What a processor may do to what is stopped.
LEMMA ProcessKeepsStopped ==
  ASSUME LifeInv, NEW w \in Workers, Process(w)
  PROVE  StaysStopped'
<1>1. LifeTypeOK /\ StaysStopped /\ hands[w] # Gone
  BY OnlyTheLiving DEF LifeInv
<1>2. done >= 5 => late
  BY <1>1 DEF StaysStopped
<1>3. done' = done /\ late' = late /\ command' = command
  BY DEF Process, Take, Leave, ReinitialiseReceiver, ReinitialiseThermometer, ConnectClients,
         RetryReceiver, RetryThermometer, ReadTemperature, RequestShutdown, HandleOther, things
<1>4. stage' \in {stage, "stop"}
  BY DEF Process, Take, Leave, ReinitialiseReceiver, ReinitialiseThermometer, ConnectClients,
         RetryReceiver, RetryThermometer, ReadTemperature, RequestShutdown, HandleOther
<1>5. clocks' = clocks \/ ~IsStopped("timers")
  BY DEF Process, Take, Leave, ReinitialiseReceiver, ReinitialiseThermometer, ConnectClients,
         RetryReceiver, RetryThermometer, ReadTemperature, RequestShutdown, HandleOther, things,
         SetTimers
<1>6. link' = link \/ link = "unconnected"
  BY DEF Process, Take, Leave, ReinitialiseReceiver, ReinitialiseThermometer, ConnectClients,
         RetryReceiver, RetryThermometer, ReadTemperature, RequestShutdown, HandleOther, things
<1>7. done > 0 /\ (thermometer = "none" \/ orphaned) => thermometer' = "none" \/ orphaned'
  <2>1. UNCHANGED <<thermometer, orphaned>> \/ \E stopped \in BOOLEAN : MakeThermometer(stopped)
    BY DEF Process, Take, Leave, ReinitialiseReceiver, ReinitialiseThermometer, ConnectClients,
           RetryReceiver, RetryThermometer, ReadTemperature, RequestShutdown, HandleOther, things
  <2>2. done > 0 => IsStopped("thermometer")
    BY <1>1, PlacesInOrder DEF LifeTypeOK
  <2>3. ASSUME NEW stopped \in BOOLEAN, MakeThermometer(stopped), done > 0
        PROVE  orphaned'
    BY <2>2, <2>3 DEF MakeThermometer
  <2>4. QED BY <2>1, <2>3
<1>8. QED BY <1>1, <1>2, <1>3, <1>4, <1>5, <1>6, <1>7, PlacesInOrder DEF StaysStopped, LifeTypeOK

LEMMA StopKeeps ==
  ASSUME LifeInv, Stop
  PROVE  LifeInv'
<1>1. LifeTypeOK /\ StaysStopped /\ done \in 0..9
  BY DEF LifeInv, LifeTypeOK
<1>2. /\ stage = "stop" /\ done < 9 /\ done' = done + 1
      /\ UNCHANGED <<stage, hands, refused, orphaned>>
  BY <1>1, NextComponent
  DEF Stop, StopThermometer, StopTimerManager, StopCmdServer, StopProcessors, StopStatusThread,
      StopInterfaces, ClearQueue, StopReceiver
<1>3. LifeTypeOK'
  BY <1>1, <1>2 DEF LifeTypeOK
<1>4. CASE StopThermometer
  <2>1. done = 0
    BY <1>1, <1>2, <1>4, NextComponent DEF StopThermometer, StopOrder
  <2>2. QED BY <1>1, <1>2, <1>3, <1>4, <2>1 DEF LifeInv, StaysStopped, StopThermometer
<1>5. CASE StopTimerManager
  <2>1. done = 1
    BY <1>1, <1>2, <1>5, NextComponent DEF StopTimerManager, StopOrder
  <2>2. QED BY <1>1, <1>2, <1>3, <1>5, <2>1 DEF LifeInv, StaysStopped, StopTimerManager
<1>6. CASE StopCmdServer
  <2>1. done = 2
    BY <1>1, <1>2, <1>6, NextComponent DEF StopCmdServer, StopOrder
  <2>2. QED BY <1>1, <1>2, <1>3, <1>6, <2>1 DEF LifeInv, StaysStopped, StopCmdServer
<1>7. CASE StopProcessors
  <2>1. /\ Stops("dismiss") => done = 3
        /\ Stops("join") => done = 4
    BY <1>1, <1>2, NextComponent DEF StopOrder
  <2>2. UNCHANGED <<clocks, command, thermometer>>
    BY <1>7 DEF StopProcessors
  <2>3. CASE Stops("dismiss")
    BY <1>1, <1>2, <1>3, <2>1, <2>2, <2>3 DEF LifeInv, StaysStopped
  <2>4. CASE Stops("join") /\ late' = (\E w \in Workers : hands[w] # Gone)
    <3>1. done' = 5
      BY <1>2, <2>1, <2>4
    <3>2. ASSUME ~late'
          PROVE  \A w \in Workers : hands'[w] = Gone
      BY <1>2, <2>4, <3>2
    <3>3. QED BY <1>1, <1>2, <1>3, <2>1, <2>2, <2>4, <3>1, <3>2 DEF LifeInv, StaysStopped
  <2>5. QED BY <1>7, <2>3, <2>4 DEF StopProcessors
<1>8. CASE StopStatusThread
  <2>1. done = 5
    BY <1>1, <1>2, <1>8, NextComponent DEF StopStatusThread, StopOrder
  <2>2. QED BY <1>1, <1>2, <1>3, <1>8, <2>1 DEF LifeInv, StaysStopped, StopStatusThread
<1>9. CASE StopInterfaces
  <2>1. done = 6
    BY <1>1, <1>2, <1>9, NextComponent DEF StopInterfaces, StopOrder
  <2>2. QED BY <1>1, <1>2, <1>3, <1>9, <2>1 DEF LifeInv, StaysStopped, StopInterfaces
<1>10. CASE ClearQueue
  <2>1. done = 7
    BY <1>1, <1>2, <1>10, NextComponent DEF ClearQueue, StopOrder
  <2>2. QED BY <1>1, <1>2, <1>3, <1>10, <2>1 DEF LifeInv, StaysStopped, ClearQueue
<1>11. CASE StopReceiver
  <2>1. done = 8
    BY <1>1, <1>2, <1>11, NextComponent DEF StopReceiver, StopOrder
  <2>2. QED BY <1>1, <1>2, <1>3, <1>11, <2>1 DEF LifeInv, StaysStopped, StopReceiver
<1>12. QED BY <1>4, <1>5, <1>6, <1>7, <1>8, <1>9, <1>10, <1>11 DEF Stop

LEMMA LifeStep == LifeInv /\ [LifeNext]_lifeVars => LifeInv'
<1> SUFFICES ASSUME LifeInv, [LifeNext]_lifeVars
             PROVE  LifeInv'
  OBVIOUS
<1>1. LifeTypeOK /\ StaysStopped /\ done \in 0..9
  BY DEF LifeInv, LifeTypeOK
<1>2. CASE Start
  <2>1. done = 0 /\ UNCHANGED done /\ stage' \in {"run", "stop"}
    BY <1>1, <1>2 DEF Start, StaysStopped
  <2>2. Waiting \in [event : Events \cup {"none"}, at : ClientSteps]
    BY DEF Waiting, ClientSteps
  <2>3. hands' = [w \in Workers |-> Waiting]
    BY <1>2 DEF Start
  <2>4. QED BY <2>1, <2>2, <2>3 DEF LifeInv, LifeTypeOK, StaysStopped
<1>3. CASE ReportStatus
  <2>1. done < 6
    BY <1>1, <1>3, PlacesInOrder DEF ReportStatus
  <2>2. QED BY <1>1, <1>3, <2>1 DEF ReportStatus, LifeInv, LifeTypeOK, StaysStopped, things
<1>4. ASSUME NEW name \in Timers, TimerExpires(name)
      PROVE  LifeInv'
  <2>1. done < 2
    BY <1>1, <1>4 DEF TimerExpires, StaysStopped
  <2>2. QED BY <1>1, <1>4, <2>1 DEF TimerExpires, LifeInv, LifeTypeOK, StaysStopped
<1>5. CASE PollLoop
  BY <1>1, <1>5 DEF PollLoop, LifeInv, LifeTypeOK, StaysStopped
<1>6. CASE Stop
  BY <1>6, StopKeeps
<1>7. ASSUME NEW w \in Workers, Process(w)
      PROVE  LifeInv'
  BY <1>1, <1>7, ProcessKeepsType, ProcessKeepsStopped DEF LifeInv
<1>8. CASE RequestStop
  BY <1>1, <1>8 DEF RequestStop, LifeInv, LifeTypeOK, StaysStopped, things
<1>9. CASE Resync
  BY <1>1, <1>9 DEF Resync, LifeInv, LifeTypeOK, StaysStopped, things
<1>10. CASE Heats \/ BusFails \/ Recovers
  BY <1>1, <1>10 DEF Heats, BusFails, Recovers, LifeInv, LifeTypeOK, StaysStopped, things
<1>11. CASE DeviceFails
  BY <1>1, <1>11 DEF DeviceFails, LifeInv, LifeTypeOK, StaysStopped
<1>12. CASE UNCHANGED lifeVars
  BY <1>1, <1>12 DEF lifeVars, things, LifeInv, LifeTypeOK, StaysStopped
<1>13. QED BY <1>2, <1>3, <1>4, <1>5, <1>6, <1>7, <1>8, <1>9, <1>10, <1>11, <1>12 DEF LifeNext

LEMMA LifeStart == LifeInit => LifeInv
BY DEF LifeInit, LifeInv, LifeTypeOK, StaysStopped, Gone, ClientSteps

\* Whatever processors, timers and devices do while App.stop and Digitiser.stop go from
\* one component to the next (app.py:343, dig.py:608), a component that was stopped is
\* not started again, but for the thermometer comms_retry makes (dig.py:559).
THEOREM StoppedForGood == LifeSpec => []LifeInv
<1>1. QED BY LifeStart, LifeStep, PTL DEF LifeSpec

\* A stop that left no processor behind leaves no thread, timer, event, connection or
\* device in use (dig.py:608, app.py:343).
THEOREM NothingIsLeft == LifeSpec => []StopLeavesNothing
<1>1. LifeInv => StopLeavesNothing
  BY PlacesInOrder DEF LifeInv, LifeTypeOK, StaysStopped, StopLeavesNothing
<1>2. QED BY <1>1, StoppedForGood, PTL

-----------------------------------------------------------------------------
(* The barrier of the processors                                           *)

\* A waiter of the first loop of single_thread has found the barrier taken, and
\* the barrier has not been freed since.
WaiterBlocked == \A p \in Procs : pc[p] = "single" => singleThreaded

GateInv == GateTypeOK /\ BarrierHeld /\ SoleProcessor /\ NoLostWakeup /\ WaiterBlocked

-----------------------------------------------------------------------------

\* Type correctness is inductive on its own.
LEMMA GateTypeCorrect == GateSpec => []GateTypeOK
<1>1. GateInit => GateTypeOK
  <2> SUFFICES ASSUME GateInit PROVE GateTypeOK
    OBVIOUS
  <2>1. queue \in Seq(Kinds)
    BY DEF GateInit
  <2>2. pc \in [Procs -> Locations] /\ event \in [Procs -> Kinds \cup {"none"}]
    BY DEF GateInit, Locations
  <2>3. singleThreaded \in BOOLEAN /\ running \in [Procs -> BOOLEAN]
    BY Zenon DEF GateInit
  <2>4. unfinished \in Int /\ produced \in Nat
    BY DEF GateInit
  <2>5. QED BY <2>1, <2>2, <2>3, <2>4 DEF GateInit, GateTypeOK
<1>2. GateTypeOK /\ [GateNext]_gateVars => GateTypeOK'
  <2> SUFFICES ASSUME GateTypeOK, [GateNext]_gateVars PROVE GateTypeOK'
    OBVIOUS
  <2> USE DEF GateTypeOK, Kinds, Locations, GoesTo, WaitIn, NotifyAll, barrier
  <2>1. ASSUME NEW kind \in Kinds, Put(kind) PROVE GateTypeOK'
    BY <2>1 DEF Put
  <2>2. ASSUME NEW p \in Procs, Step(p) PROVE GateTypeOK'
    <3>1. CASE TestRunning(p) BY <3>1 DEF TestRunning
    <3>2. CASE TakeEvent(p) BY <3>2 DEF TakeEvent
    <3>3. CASE GetEmpty(p) BY <3>3 DEF GetEmpty
    <3>4. CASE BeginWait(p) BY <3>4 DEF BeginWait
    <3>5. CASE BeginActive(p) BY <3>5 DEF BeginActive
    <3>6. CASE BeginStopped(p) BY <3>6 DEF BeginStopped
    <3>7. CASE SingleThreadWait(p) BY <3>7 DEF SingleThreadWait
    <3>8. CASE SingleThreadOwn(p) BY <3>8 DEF SingleThreadOwn
    <3>9. CASE SingleThreadDrain(p) BY <3>9 DEF SingleThreadDrain
    <3>10. CASE FreeThread(p) BY <3>10 DEF FreeThread
    <3>11. CASE TaskDone(p) BY <3>11 DEF TaskDone
    <3>12. CASE EndProcessing(p) BY <3>12 DEF EndProcessing
    <3>13. QED BY <2>2, <3>1, <3>2, <3>3, <3>4, <3>5, <3>6, <3>7, <3>8,
                  <3>9, <3>10, <3>11, <3>12 DEF Step
  <2>3. ASSUME NEW p \in Procs, StopFlag(p) \/ StopNotify(p) PROVE GateTypeOK'
    BY <2>3 DEF StopFlag, StopNotify
  <2>4. CASE UNCHANGED gateVars
    BY <2>4 DEF gateVars
  <2>5. QED BY <2>1, <2>2, <2>3, <2>4 DEF GateNext
<1>3. QED BY <1>1, <1>2, PTL DEF GateSpec

LEMMA GateStart == GateInit => BarrierHeld /\ SoleProcessor /\ NoLostWakeup /\ WaiterBlocked
BY NoProcAssumption
   DEF GateInit, BarrierHeld, SoleProcessor, NoLostWakeup, WaiterBlocked

\* One case per action; each rests on the whole of GateInv.
LEMMA GateStep ==
  ASSUME GateInv, GateTypeOK', NEW p \in Procs, Step(p)
  PROVE  GateInv'
<1> USE NoProcAssumption
    DEF GateInv, GateTypeOK, BarrierHeld, SoleProcessor, NoLostWakeup, WaiterBlocked,
        GateShut, Locations, GoesTo, WaitIn, NotifyAll, barrier
<1>1. CASE TestRunning(p) BY <1>1 DEF TestRunning
<1>2. CASE TakeEvent(p) BY <1>2 DEF TakeEvent
<1>3. CASE GetEmpty(p) BY <1>3 DEF GetEmpty
<1>4. CASE BeginWait(p) BY <1>4 DEF BeginWait
<1>5. CASE BeginActive(p) BY <1>5 DEF BeginActive
<1>6. CASE BeginStopped(p) BY <1>6 DEF BeginStopped
<1>7. CASE SingleThreadWait(p) BY <1>7 DEF SingleThreadWait, AtSingleThread
<1>8. CASE SingleThreadOwn(p) BY <1>8 DEF SingleThreadOwn, AtSingleThread
<1>9. CASE SingleThreadDrain(p) BY <1>9 DEF SingleThreadDrain
<1>10. CASE FreeThread(p) BY <1>10 DEF FreeThread
<1>11. CASE TaskDone(p) BY <1>11 DEF TaskDone
<1>12. CASE EndProcessing(p) BY <1>12 DEF EndProcessing
<1>13. QED BY <1>1, <1>2, <1>3, <1>4, <1>5, <1>6, <1>7, <1>8, <1>9, <1>10,
              <1>11, <1>12 DEF Step

LEMMA GateMoves == GateInv /\ GateTypeOK' /\ [GateNext]_gateVars => GateInv'
<1> SUFFICES ASSUME GateInv, GateTypeOK', [GateNext]_gateVars PROVE GateInv'
  OBVIOUS
<1> USE DEF GateInv, GateTypeOK, BarrierHeld, SoleProcessor, NoLostWakeup, WaiterBlocked,
            GateShut, NotifyAll, barrier
<1>1. ASSUME NEW kind \in Kinds, Put(kind) PROVE GateInv'
  BY <1>1 DEF Put
<1>2. ASSUME NEW p \in Procs, Step(p) PROVE GateInv'
  BY <1>2, GateStep
<1>3. ASSUME NEW p \in Procs, StopFlag(p) PROVE GateInv'
  BY <1>3 DEF StopFlag
<1>4. ASSUME NEW p \in Procs, StopNotify(p) PROVE GateInv'
  BY <1>4 DEF StopNotify
<1>5. CASE UNCHANGED gateVars
  BY <1>5 DEF gateVars
<1>6. QED BY <1>1, <1>2, <1>3, <1>4, <1>5 DEF GateNext

LEMMA GateInvariance == GateSpec => []GateInv
<1>1. GateInit /\ GateTypeOK => GateInv
  BY GateStart DEF GateInv
<1>2. QED BY <1>1, GateTypeCorrect, GateMoves, PTL DEF GateSpec

-----------------------------------------------------------------------------

\* The processor inside single_thread()/free_thread() is the only active one,
\* whatever the number of processors, events and pending barrier requests.
THEOREM BarrierExclusion == GateSpec => []SoleProcessor
<1>1. GateInv => SoleProcessor
  BY DEF GateInv
<1>2. QED BY <1>1, GateInvariance, PTL

\* No thread sleeps on the condition after what it waits for has become true:
\* the three notify_all() calls are enough.
THEOREM WakeupsAreNotLost == GateSpec => []NoLostWakeup
<1>1. GateInv => NoLostWakeup
  BY DEF GateInv
<1>2. QED BY <1>1, GateInvariance, PTL

\* The owner and _active_processors agree with what every thread is doing.
THEOREM BarrierBookkeeping == GateSpec => []BarrierHeld
<1>1. GateInv => BarrierHeld
  BY DEF GateInv
<1>2. QED BY <1>1, GateInvariance, PTL

\* Two barrier requests in processor events deadlock: the second waits for ever,
\* because it is itself one of the active processors the owner waits for.
THEOREM SecondBarrierNeverReturns == GateSpec => BarrierWaitIsForever
<1> DEFINE Stuck == \A p \in Procs : pc[p] = "single" => pc'[p] = "single"
<1>1. GateInv /\ [GateNext]_gateVars => [Stuck]_gateVars
  <2> SUFFICES ASSUME GateInv, GateNext, NEW p \in Procs, pc[p] = "single"
               PROVE  pc'[p] = "single"
    BY DEF gateVars
  <2> USE DEF GateInv, GateTypeOK, WaiterBlocked, GoesTo, WaitIn
  <2>1. ASSUME NEW kind \in Kinds, Put(kind) PROVE pc'[p] = "single"
    BY <2>1 DEF Put
  <2>2. ASSUME NEW q \in Procs, StopFlag(q) \/ StopNotify(q) PROVE pc'[p] = "single"
    BY <2>2 DEF StopFlag, StopNotify
  <2>3. ASSUME NEW q \in Procs, Step(q), q # p PROVE pc'[p] = "single"
    BY <2>3 DEF Step, TestRunning, TakeEvent, GetEmpty, BeginWait, BeginActive,
       BeginStopped, SingleThreadWait, SingleThreadOwn, SingleThreadDrain,
       FreeThread, TaskDone, EndProcessing
  <2>4. ASSUME Step(p) PROVE pc'[p] = "single"
    BY <2>4 DEF Step, TestRunning, TakeEvent, GetEmpty, BeginWait, BeginActive,
       BeginStopped, SingleThreadWait, SingleThreadOwn, SingleThreadDrain,
       FreeThread, TaskDone, EndProcessing
  <2>5. QED BY <2>1, <2>2, <2>3, <2>4 DEF GateNext
<1>2. QED BY <1>1, GateInvariance, PTL DEF GateSpec, BarrierWaitIsForever

(***************************************************************************)
(* GqrxRecording: the session with GQRX and the import of its file.  The   *)
(* scheduler knows what GQRX does from the commands that were answered: it *)
(* records from the answer to the first to the answer to the last, and on  *)
(* every way out it has been told to stop (RecordingGoes).  The import is  *)
(* a loop: what is imported so far is the seconds done, one after the      *)
(* other (ImportGoes).                                                     *)
(***************************************************************************)
\* GQRX, a directory of its files, and where the scheduler and the injector can be.
Program == [dsp : BOOLEAN, recording : BOOLEAN,
            tuned : {"elsewhere", "below", "asked"}, gains : Nat]

Files(f) == f \in Seq(Nat) /\ Len(f) >= 1

SettingUp == {"connect", "settings", "retune", "gain", "verify", "test"}
Testing == {"test_start", "testing", "test_stop", "compare"}
Closed == {"import", "imported", "rejected"}
Places == SettingUp \cup Testing \cup Closed
              \cup {"wait", "start", "recording", "stop", "abort", "recorded", "failed"}

\* What the variables hold; the files there were before a test are still there.
GqrxTypes ==
    /\ at \in Places /\ busy \in BOOLEAN /\ gqrx \in Program
    /\ Files(raw_files) /\ failures \in Nat /\ elapsed \in Nat
    /\ sample_rate \in Rates
    /\ at \in Testing => before \in 1..Len(raw_files)

\* What the scheduler may rely on while the operator leaves GQRX alone.
RecordingGoes ==
    /\ at \in SettingUp => gqrx.recording = busy
    /\ (busy /\ ~order.now) => gqrx.recording /\ at \in SettingUp \cup {"failed"}
    /\ at \in {"compare", "wait"} => ~gqrx.recording
    /\ (at # "connect" /\ dsp_enabled) => gqrx.dsp
    /\ at \in Testing \cup {"verify", "test", "wait", "start"} => gqrx.dsp
    /\ at = "recording" => /\ gqrx.recording /\ gqrx.dsp
                           /\ elapsed < RecordTime /\ Last(raw_files) >= elapsed
    /\ at \in {"stop", "recorded"} => Last(raw_files) >= RecordTime
    /\ at = "recorded" => ~gqrx.recording
    /\ at = "failed" => unstopped \/ (gqrx.recording => busy)

\* A scan of the import.
ScanIn == [iter : Nat, start_idx : Nat, duration : 1..ScanTime, begins : Seq(Nat)]

\* The seconds that are taken of the file.
FileSeconds == TotalSeconds(Recorded(Last(raw_files)))

\* Where the seconds of every scan begin in the file.
Beginnings == [i \in 1..Len(imports) |-> imports[i].begins]

\* The scans so far follow one another, and their samples are those of the
\* seconds done; only the last may be shorter.
Follow ==
    /\ \A i \in 1..Len(imports) : imports[i].iter = i - 1
    /\ \A i \in 1..(Len(imports) - 1) :
           /\ imports[i].duration = ScanTime
           /\ imports[i + 1].start_idx = imports[i].start_idx + ScanTime
    /\ imports = <<>> => seconds_done = 0
    /\ imports # <<>> =>
           /\ sample_rate = 2 * Samples(sample_rate)
           /\ imports[Len(imports)].start_idx + imports[Len(imports)].duration = seconds_done
           /\ imports[Len(imports)].duration = ScanTime \/ seconds_done = FileSeconds

\* Nothing is imported before the recording has ended, and then it is the seconds done.
ImportGoes ==
    /\ imports \in Seq(ScanIn) /\ seconds_done \in Nat
    /\ at \notin Closed => imports = <<>>
    /\ at \in {"import", "imported"} => seconds_done <= FileSeconds
    /\ at = "imported" => seconds_done = FileSeconds
    /\ Follow
    /\ FlattenSeq(Beginnings) = [n \in 1..seconds_done |-> (n - 1) * Samples(sample_rate)]

GqrxInv == GqrxTypes /\ (~meddled => RecordingGoes) /\ ImportGoes

\* What a command does to the rest.
LEMMA Asked ==
  ASSUME GqrxTypes, NEW new \in Program, NEW then, NEW otherwise,
         Ask(new, then, otherwise)
  PROVE  /\ gqrx' \in Program /\ Files(raw_files') /\ Len(raw_files') >= Len(raw_files)
         /\ failures' \in Nat /\ meddled' = meddled
         /\ sample_rate' = sample_rate /\ imports' = imports /\ seconds_done' = seconds_done
         /\ (~gqrx'.recording \/ gqrx.recording) => raw_files' = raw_files
         /\ \/ gqrx' = new /\ at' = then /\ failures' = failures
            \/ gqrx' \in {gqrx, new} /\ at' = otherwise /\ failures' # failures
<1>1. gqrx \in Program /\ Files(raw_files) /\ failures \in Nat
  BY DEF GqrxTypes
<1>2. meddled' = meddled /\ sample_rate' = sample_rate /\ imports' = imports
      /\ seconds_done' = seconds_done
  BY DEF Ask, injected
<1>3. \/ gqrx' = new /\ at' = then /\ failures' = failures
      \/ gqrx' \in {gqrx, new} /\ at' = otherwise /\ failures' # failures
  BY <1>1 DEF Ask, Counts
<1>4. failures' \in Nat
  BY <1>1 DEF Ask, Counts
<1>5. gqrx' \in Program
  BY <1>1, <1>3
<1>6. raw_files' = raw_files \/ raw_files' = Append(raw_files, 0)
  BY DEF Ask
<1>7. Files(raw_files') /\ Len(raw_files') >= Len(raw_files)
  <2>1. raw_files \in Seq(Nat) /\ Len(raw_files) \in Nat /\ Len(raw_files) >= 1
    BY <1>1 DEF Files
  <2>2. Append(raw_files, 0) \in Seq(Nat) /\ Len(Append(raw_files, 0)) = Len(raw_files) + 1
    BY <2>1
  <2>3. QED BY <1>6, <2>1, <2>2 DEF Files
<1>8. (~gqrx'.recording \/ gqrx.recording) => raw_files' = raw_files
  BY DEF Ask
<1>9. QED BY <1>2, <1>3, <1>4, <1>5, <1>7, <1>8

\* While the injector is not at work, it has imported nothing.
LEMMA NoImport ==
  ASSUME ImportGoes, at \notin Closed, at' \notin Closed,
         sample_rate' = sample_rate, imports' = imports, seconds_done' = seconds_done
  PROVE  ImportGoes'
<1>1. imports = <<>> /\ imports' = <<>> /\ seconds_done = 0 /\ seconds_done' = 0
  BY DEF ImportGoes, Follow
<1>2. Len(imports') = 0
  BY <1>1
<1>3. Follow'
  BY <1>1, <1>2 DEF Follow
<1>4. (FlattenSeq(Beginnings) = [n \in 1..seconds_done |-> (n - 1) * Samples(sample_rate)])'
  BY DEF ImportGoes, Beginnings, Samples
<1>5. QED BY <1>1, <1>3, <1>4 DEF ImportGoes, Closed

\* A command of the scheduler that GQRX answers or not, other than that to stop.
LEMMA SetupSteps ==
  ASSUME GqrxInv, GetStatus \/ SetHardwareFrequency \/ SetGains \/ StartDsp \/ Verify
  PROVE  GqrxInv'
<1>1. /\ gqrx \in Program /\ at \in Places /\ Files(raw_files) /\ failures \in Nat
      /\ elapsed \in Nat /\ busy \in BOOLEAN /\ sample_rate \in Rates
  BY DEF GqrxInv, GqrxTypes
<1>2. ASSUME NEW new \in Program, NEW then \in SettingUp \cup {"start"},
             at \in SettingUp, Ask(new, then, "failed"),
             order' = order, busy' = busy, elapsed' = elapsed, unstopped' = unstopped,
             at = "connect" \/ dsp_enabled' = dsp_enabled,
             new.recording = gqrx.recording, gqrx.dsp => new.dsp,
             at = "connect" => new = gqrx /\ dsp_enabled' = gqrx.dsp,
             then \in {"connect"} => FALSE,
             then \in {"verify", "test", "start"} => new.dsp,
             then = "start" => order.now
      PROVE  GqrxInv'
  <2>1. /\ gqrx' \in Program /\ Files(raw_files') /\ failures' \in Nat /\ meddled' = meddled
        /\ sample_rate' = sample_rate /\ imports' = imports /\ seconds_done' = seconds_done
        /\ \/ gqrx' = new /\ at' = then
           \/ gqrx' \in {gqrx, new} /\ at' = "failed"
    BY <1>2, Asked DEF GqrxInv
  <2>2. GqrxTypes'
    BY <1>1, <1>2, <2>1 DEF GqrxTypes, Places, SettingUp, Testing
  <2>3. ImportGoes'
    <3>1. at \notin Closed /\ at' \notin Closed
      BY <1>2, <2>1 DEF Closed, SettingUp
    <3>2. QED BY <2>1, <3>1, NoImport DEF GqrxInv
  <2>4. ASSUME ~meddled PROVE RecordingGoes'
    <3>1. RecordingGoes
      BY <2>4 DEF GqrxInv
    <3>2. gqrx.recording = busy /\ gqrx'.recording = busy /\ (gqrx.dsp => gqrx'.dsp)
      BY <1>2, <2>1, <3>1 DEF RecordingGoes
    <3>3. (at' # "connect" /\ dsp_enabled') => gqrx'.dsp
      BY <1>2, <2>1, <3>1, <3>2 DEF RecordingGoes
    <3>4. at' \in Testing \cup {"verify", "test", "wait", "start"} => gqrx'.dsp
      BY <1>2, <2>1 DEF Testing, SettingUp
    <3>5. (busy' /\ ~order'.now) => gqrx'.recording /\ at' \in SettingUp \cup {"failed"}
      BY <1>2, <2>1, <3>2
    <3>6. /\ at' \notin {"compare", "wait", "recording", "stop", "recorded"}
          /\ at' = "failed" => (gqrx'.recording => busy')
      BY <1>2, <2>1, <3>2 DEF SettingUp
    <3>7. QED BY <1>2, <3>2, <3>3, <3>4, <3>5, <3>6 DEF RecordingGoes
  <2>5. QED BY <2>1, <2>2, <2>3, <2>4 DEF GqrxInv
<1>3. CASE GetStatus
  <2>1. /\ at = "connect" /\ Ask(gqrx, "settings", "failed") /\ dsp_enabled' = gqrx.dsp
        /\ order' = order /\ busy' = busy /\ elapsed' = elapsed /\ unstopped' = unstopped
    BY <1>3 DEF GetStatus, Query
  <2>2. QED BY <1>1, <1>2, <2>1 DEF SettingUp
<1>4. CASE SetHardwareFrequency
  <2>1. /\ order' = order /\ busy' = busy /\ elapsed' = elapsed /\ unstopped' = unstopped
        /\ dsp_enabled' = dsp_enabled
    BY <1>4 DEF SetHardwareFrequency, scheduled
  <2>2. PICK b, a : b = [gqrx EXCEPT !.tuned = "below"] /\ a = [gqrx EXCEPT !.tuned = "asked"]
    OBVIOUS
  <2>3. /\ b \in Program /\ a \in Program
        /\ b.recording = gqrx.recording /\ a.recording = gqrx.recording
        /\ b.dsp = gqrx.dsp /\ a.dsp = gqrx.dsp
    BY <1>1, <2>2 DEF Program
  <2>4. \/ at = "settings" /\ Ask(b, "retune", "failed")
        \/ at = "retune" /\ Ask(a, "gain", "failed")
    BY <1>4, <2>2 DEF SetHardwareFrequency
  <2>5. CASE at = "settings" /\ Ask(b, "retune", "failed")
    BY <1>2, <2>1, <2>3, <2>5 DEF SettingUp
  <2>6. CASE at = "retune" /\ Ask(a, "gain", "failed")
    BY <1>2, <2>1, <2>3, <2>6 DEF SettingUp
  <2>7. QED BY <2>4, <2>5, <2>6
<1>5. CASE SetGains
  <2>1. /\ order' = order /\ busy' = busy /\ elapsed' = elapsed /\ unstopped' = unstopped
        /\ dsp_enabled' = dsp_enabled /\ at \in {"gain", "settings"}
    BY <1>5 DEF SetGains, scheduled
  <2>2. PICK g : g = [gqrx EXCEPT !.gains = @ + 1]
    OBVIOUS
  <2>3. g \in Program /\ g.recording = gqrx.recording /\ g.dsp = gqrx.dsp
    BY <1>1, <2>2 DEF Program
  <2>4. Ask(g, "gain", "failed")
    BY <1>5, <2>2 DEF SetGains
  <2>5. QED BY <1>2, <2>1, <2>3, <2>4 DEF SettingUp
<1>6. CASE StartDsp
  <2>1. /\ order' = order /\ busy' = busy /\ elapsed' = elapsed /\ unstopped' = unstopped
        /\ dsp_enabled' = dsp_enabled /\ at \in {"gain", "settings"}
    BY <1>6 DEF StartDsp, scheduled, Configured
  <2>2. PICK g : g = [gqrx EXCEPT !.dsp = TRUE]
    OBVIOUS
  <2>3. g \in Program /\ g.recording = gqrx.recording /\ g.dsp
    BY <1>1, <2>2 DEF Program
  <2>4. CASE Ask(g, "verify", "failed")
    BY <1>2, <2>1, <2>3, <2>4 DEF SettingUp
  <2>5. CASE /\ dsp_enabled /\ at' = "verify"
             /\ UNCHANGED <<gqrx, raw_files, meddled, failures, injected>>
    <3>1. /\ gqrx' = gqrx /\ raw_files' = raw_files /\ meddled' = meddled /\ failures' = failures
          /\ sample_rate' = sample_rate /\ imports' = imports /\ seconds_done' = seconds_done
      BY <2>5 DEF injected
    <3>2. GqrxTypes'
      BY <1>1, <2>1, <2>5, <3>1 DEF GqrxTypes, Places, SettingUp, Testing
    <3>3. ImportGoes'
      <4>1. at \notin Closed /\ at' \notin Closed
        BY <2>1, <2>5 DEF Closed
      <4>2. QED BY <3>1, <4>1, NoImport DEF GqrxInv
    <3>4. ASSUME ~meddled PROVE RecordingGoes'
      BY <2>1, <2>5, <3>1, <3>4 DEF GqrxInv, RecordingGoes, SettingUp, Testing
    <3>5. QED BY <3>1, <3>2, <3>3, <3>4 DEF GqrxInv
  <2>6. QED BY <1>6, <2>2, <2>4, <2>5 DEF StartDsp
<1>7. CASE Verify
  <2>1. /\ order' = order /\ busy' = busy /\ elapsed' = elapsed /\ unstopped' = unstopped
        /\ dsp_enabled' = dsp_enabled /\ at = "verify"
    BY <1>7 DEF Verify, scheduled
  <2>2. PICK t : t = IF order.now THEN "start" ELSE "test"
    OBVIOUS
  <2>3. Ask(gqrx, t, "failed")
    BY <1>7, <2>2 DEF Verify, Query
  <2>4. CASE ~meddled
    <3>1. gqrx.dsp
      BY <2>1, <2>4 DEF GqrxInv, RecordingGoes
    <3>2. QED BY <1>1, <1>2, <2>1, <2>2, <2>3, <3>1 DEF SettingUp
  <2>5. CASE meddled
    <3>1. /\ gqrx' \in Program /\ Files(raw_files') /\ failures' \in Nat /\ meddled' = meddled
          /\ sample_rate' = sample_rate /\ imports' = imports /\ seconds_done' = seconds_done
          /\ at' \in {t, "failed"}
      BY <1>1, <2>3, Asked DEF GqrxInv
    <3>2. at' \in {"start", "test", "failed"}
      BY <2>2, <3>1
    <3>3. GqrxTypes'
      BY <1>1, <2>1, <3>1, <3>2 DEF GqrxTypes, Places, SettingUp, Testing
    <3>4. ImportGoes'
      <4>1. at \notin Closed /\ at' \notin Closed
        BY <2>1, <3>2 DEF Closed
      <4>2. QED BY <3>1, <4>1, NoImport DEF GqrxInv
    <3>5. QED BY <2>5, <3>1, <3>3, <3>4 DEF GqrxInv
  <2>6. QED BY <2>4, <2>5
<1>8. QED BY <1>3, <1>4, <1>5, <1>6, <1>7

\* The test is begun, or refused while GQRX records.
LEMMA BeginTestKeeps ==
  ASSUME GqrxInv, BeginTest
  PROVE  GqrxInv'
<1>1. /\ gqrx \in Program /\ Files(raw_files) /\ elapsed \in Nat /\ busy \in BOOLEAN
      /\ sample_rate \in Rates
  BY DEF GqrxInv, GqrxTypes
<1>2. /\ at = "test" /\ before' = Len(raw_files)
      /\ order' = order /\ busy' = busy /\ elapsed' = elapsed /\ unstopped' = unstopped
      /\ dsp_enabled' = dsp_enabled
  BY DEF BeginTest
<1>3. PICK t : t = IF gqrx.recording THEN "failed" ELSE "test_start"
  OBVIOUS
<1>4. Ask(gqrx, t, "failed")
  BY <1>3 DEF BeginTest, Query
<1>5. /\ Files(raw_files') /\ Len(raw_files') >= Len(raw_files) /\ failures' \in Nat
      /\ meddled' = meddled /\ sample_rate' = sample_rate
      /\ imports' = imports /\ seconds_done' = seconds_done
      /\ gqrx' = gqrx /\ at' \in {t, "failed"}
  BY <1>1, <1>4, Asked DEF GqrxInv
<1>6. Len(raw_files) \in Nat /\ Len(raw_files) >= 1 /\ Len(raw_files') \in Nat
  BY <1>1, <1>5 DEF Files
<1>7. Len(raw_files) \in 1..Len(raw_files')
  BY <1>5, <1>6
<1>8. at' \in {"test_start", "failed"} /\ (at' = "test_start" => ~gqrx.recording)
  BY <1>3, <1>5
<1>9. GqrxTypes'
  BY <1>1, <1>2, <1>5, <1>7, <1>8 DEF GqrxTypes, Places, Testing
<1>10. ImportGoes'
  <2>1. at \notin Closed /\ at' \notin Closed
    BY <1>2, <1>8 DEF Closed
  <2>2. QED BY <1>5, <2>1, NoImport DEF GqrxInv
<1>11. ASSUME ~meddled PROVE RecordingGoes'
  <2>1. RecordingGoes
    BY <1>11 DEF GqrxInv
  <2>2. QED BY <1>2, <1>5, <1>8, <2>1 DEF RecordingGoes, SettingUp, Testing
<1>12. QED BY <1>5, <1>9, <1>10, <1>11 DEF GqrxInv

\* GQRX is told to record.
LEMMA StartKeeps ==
  ASSUME GqrxInv, StartRecording
  PROVE  GqrxInv'
<1>1. /\ gqrx \in Program /\ Files(raw_files) /\ busy \in BOOLEAN /\ sample_rate \in Rates
  BY DEF GqrxInv, GqrxTypes
<1>2. PICK new : new = [gqrx EXCEPT !.recording = TRUE]
  OBVIOUS
<1>3. new \in Program /\ new.recording /\ new.dsp = gqrx.dsp
  BY <1>1, <1>2 DEF Program
<1>4. PICK then \in {"testing", "recording"} :
        /\ Ask(new, then, "abort")
        /\ at = IF then = "testing" THEN "test_start" ELSE "start"
  BY <1>2 DEF StartRecording, Recording
<1>5. /\ elapsed' = 0 /\ before' = before /\ order' = order /\ busy' = busy
      /\ unstopped' = unstopped /\ dsp_enabled' = dsp_enabled
  BY DEF StartRecording
<1>6. /\ gqrx' \in Program /\ Files(raw_files') /\ Len(raw_files') >= Len(raw_files)
      /\ failures' \in Nat
      /\ meddled' = meddled /\ sample_rate' = sample_rate
      /\ imports' = imports /\ seconds_done' = seconds_done
      /\ \/ gqrx' = new /\ at' = then
         \/ gqrx' \in {gqrx, new} /\ at' = "abort"
  BY <1>3, <1>4, Asked DEF GqrxInv
<1>7. Len(raw_files) \in Nat /\ Len(raw_files') \in Nat /\ Last(raw_files') \in Nat
  <2>1. /\ raw_files' \in Seq(Nat) /\ Len(raw_files') \in 1..Len(raw_files')
        /\ raw_files \in Seq(Nat)
    BY <1>1, <1>6 DEF Files
  <2>2. QED BY <2>1 DEF Last
<1>8. GqrxTypes'
  <2>1. at' \in Testing => before \in 1..Len(raw_files')
    <3>1. SUFFICES ASSUME at' \in Testing PROVE before \in 1..Len(raw_files')
      OBVIOUS
    <3>2. at \in Testing
      BY <1>4, <1>6, <3>1 DEF Testing
    <3>3. before \in 1..Len(raw_files)
      BY <3>2 DEF GqrxInv, GqrxTypes
    <3>4. QED BY <1>6, <1>7, <3>3
  <2>2. at' \in Places
    BY <1>6 DEF Places, Testing
  <2>3. QED BY <1>1, <1>5, <1>6, <2>1, <2>2 DEF GqrxTypes
<1>9. ImportGoes'
  <2>1. at \notin Closed /\ at' \notin Closed
    BY <1>4, <1>6 DEF Closed
  <2>2. QED BY <1>6, <2>1, NoImport DEF GqrxInv
<1>10. ASSUME ~meddled PROVE RecordingGoes'
  <2>1. RecordingGoes
    BY <1>10 DEF GqrxInv
  <2>2. ~(busy /\ ~order.now)
    BY <1>4, <2>1 DEF RecordingGoes, SettingUp
  <2>3. gqrx.dsp /\ gqrx'.dsp
    BY <1>3, <1>4, <1>6, <2>1 DEF RecordingGoes, Testing
  <2>4. at' = "recording" => /\ gqrx'.recording /\ elapsed' < RecordTime
                             /\ Last(raw_files') >= elapsed'
    BY <1>3, <1>5, <1>6, <1>7, GqrxAssumption
  <2>5. at' \in {"testing", "recording", "abort"}
    BY <1>6
  <2>6. QED BY <1>5, <2>2, <2>3, <2>4, <2>5 DEF RecordingGoes, SettingUp, Testing
<1>11. QED BY <1>6, <1>8, <1>9, <1>10 DEF GqrxInv

\* The last file is there, and one second more in it leaves as many.
LEMMA LastGrows ==
  ASSUME NEW f, Files(f)
  PROVE  /\ Last(f) \in Nat
         /\ Files([f EXCEPT ![Len(f)] = @ + 1])
         /\ Len([f EXCEPT ![Len(f)] = @ + 1]) = Len(f)
         /\ Last([f EXCEPT ![Len(f)] = @ + 1]) = Last(f) + 1
<1>1. f \in Seq(Nat) /\ Len(f) \in 1..Len(f) /\ Len(f) \in Nat
  BY DEF Files
<1>2. PICK n \in Nat : n = Len(f) /\ n >= 1
  BY <1>1
<1>3. f \in [1..n -> Nat] /\ f[n] \in Nat
  BY <1>1, <1>2
<1>4. PICK g : g = [f EXCEPT ![n] = @ + 1]
  OBVIOUS
<1>5. g \in [1..n -> Nat] /\ g[n] = f[n] + 1
  BY <1>2, <1>3, <1>4
<1>6. g \in Seq(Nat) /\ Len(g) = n
  BY <1>5
<1>7. QED BY <1>2, <1>3, <1>4, <1>5, <1>6 DEF Files, Last

\* A second goes by.
LEMMA RecordKeeps ==
  ASSUME GqrxInv, Record
  PROVE  GqrxInv'
<1>1. /\ gqrx \in Program /\ Files(raw_files) /\ elapsed \in Nat /\ busy \in BOOLEAN
      /\ sample_rate \in Rates /\ failures \in Nat
  BY DEF GqrxInv, GqrxTypes
<1>2. /\ gqrx' = gqrx /\ order' = order /\ busy' = busy /\ before' = before
      /\ dsp_enabled' = dsp_enabled /\ unstopped' = unstopped /\ meddled' = meddled
      /\ failures' = failures /\ sample_rate' = sample_rate /\ imports' = imports
      /\ seconds_done' = seconds_done /\ elapsed' = elapsed + 1
  BY DEF Record, injected
<1>3. \/ at = "testing" /\ at' \in {"testing", "test_stop"}
      \/ at = "recording" /\ at' = IF elapsed + 1 < RecordTime THEN "recording" ELSE "stop"
  BY DEF Record
<1>4. PICK longer : longer = [raw_files EXCEPT ![Len(raw_files)] = @ + 1]
  OBVIOUS
<1>5. raw_files' = IF gqrx.recording /\ gqrx.dsp THEN longer ELSE raw_files
  BY <1>4 DEF Record
<1>6. /\ Last(raw_files) \in Nat /\ Files(longer) /\ Len(longer) = Len(raw_files)
      /\ Last(longer) = Last(raw_files) + 1
  BY <1>1, <1>4, LastGrows
<1>7. GqrxTypes'
  <2>1. Files(raw_files') /\ Len(raw_files') = Len(raw_files)
    BY <1>1, <1>5, <1>6
  <2>2. at' \in Testing => at \in Testing
    BY <1>3 DEF Testing
  <2>3. at' \in Testing => before \in 1..Len(raw_files)
    BY <2>2 DEF GqrxInv, GqrxTypes
  <2>4. at' \in Places
    BY <1>3 DEF Places, Testing
  <2>5. QED BY <1>1, <1>2, <2>1, <2>3, <2>4 DEF GqrxTypes
<1>8. ImportGoes'
  <2>1. at \notin Closed /\ at' \notin Closed
    BY <1>3 DEF Closed
  <2>2. QED BY <1>2, <2>1, NoImport DEF GqrxInv
<1>9. ASSUME ~meddled PROVE RecordingGoes'
  <2>1. RecordingGoes
    BY <1>9 DEF GqrxInv
  <2>2. CASE at = "testing"
    <3>1. at' \in {"testing", "test_stop"}
      BY <1>3, <2>2
    <3>2. QED BY <1>2, <2>1, <2>2, <3>1 DEF RecordingGoes, SettingUp, Testing
  <2>3. CASE at = "recording"
    <3>1. gqrx.recording /\ gqrx.dsp /\ elapsed < RecordTime /\ Last(raw_files) >= elapsed
      BY <2>1, <2>3 DEF RecordingGoes
    <3>2. Last(raw_files') >= elapsed'
      BY <1>1, <1>2, <1>5, <1>6, <3>1
    <3>3. at' = IF elapsed' < RecordTime THEN "recording" ELSE "stop"
      BY <1>2, <1>3, <2>3
    <3>4. at' = "stop" => Last(raw_files') >= RecordTime
      <4>1. elapsed' \in Nat /\ RecordTime \in Nat /\ Last(raw_files') \in Nat
        BY <1>1, <1>2, <1>5, <1>6, GqrxAssumption
      <4>2. QED BY <3>2, <3>3, <4>1
    <3>5. ~(busy /\ ~order.now)
      BY <2>1, <2>3 DEF RecordingGoes, SettingUp
    <3>6. QED BY <1>2, <3>1, <3>2, <3>3, <3>4, <3>5 DEF RecordingGoes, SettingUp, Testing
  <2>4. QED BY <1>3, <2>2, <2>3
<1>10. QED BY <1>2, <1>7, <1>8, <1>9 DEF GqrxInv

\* GQRX is told to stop.
LEMMA StopRecordingKeeps ==
  ASSUME GqrxInv, StopRecording
  PROVE  GqrxInv'
<1>1. /\ gqrx \in Program /\ Files(raw_files) /\ elapsed \in Nat /\ busy \in BOOLEAN
      /\ sample_rate \in Rates /\ failures \in Nat
  BY DEF GqrxInv, GqrxTypes
<1>2. PICK new : new = [gqrx EXCEPT !.recording = FALSE]
  OBVIOUS
<1>3. new \in Program /\ ~new.recording /\ new.dsp = gqrx.dsp
  BY <1>1, <1>2 DEF Program
<1>4. PICK then \in {"compare", "recorded", "failed"} :
        /\ Ask(new, then, "failed")
        /\ \/ at = "test_stop" /\ then = "compare"
           \/ at = "stop" /\ then = "recorded"
           \/ at = "abort" /\ then = "failed"
  BY <1>2 DEF StopRecording, Recording
<1>5. /\ elapsed' = elapsed /\ before' = before /\ order' = order /\ busy' = busy
      /\ dsp_enabled' = dsp_enabled
  BY DEF StopRecording
<1>6. unstopped' = (unstopped \/ failures' # failures)
  BY DEF StopRecording
<1>7. /\ gqrx' \in Program /\ Files(raw_files') /\ Len(raw_files') >= Len(raw_files)
      /\ failures' \in Nat
      /\ meddled' = meddled /\ sample_rate' = sample_rate
      /\ imports' = imports /\ seconds_done' = seconds_done
      /\ (~gqrx'.recording \/ gqrx.recording) => raw_files' = raw_files
      /\ \/ gqrx' = new /\ at' = then /\ failures' = failures
         \/ gqrx' \in {gqrx, new} /\ at' = "failed" /\ failures' # failures
  BY <1>3, <1>4, Asked DEF GqrxInv
<1>8. raw_files' = raw_files
  BY <1>3, <1>7
<1>9. GqrxTypes'
  <2>1. at' \in Testing => at \in Testing
    BY <1>4, <1>7 DEF Testing
  <2>2. at' \in Testing => before \in 1..Len(raw_files)
    BY <2>1 DEF GqrxInv, GqrxTypes
  <2>3. at' \in Places
    BY <1>4, <1>7 DEF Places, Testing
  <2>4. QED BY <1>1, <1>5, <1>7, <1>8, <2>2, <2>3 DEF GqrxTypes
<1>10. ImportGoes'
  <2>1. at \notin Closed /\ at' \notin Closed
    BY <1>4, <1>7 DEF Closed
  <2>2. QED BY <1>7, <2>1, NoImport DEF GqrxInv
<1>11. ASSUME ~meddled PROVE RecordingGoes'
  <2>1. RecordingGoes
    BY <1>11 DEF GqrxInv
  <2>2. ~(busy /\ ~order.now) /\ (dsp_enabled => gqrx.dsp)
    BY <1>4, <2>1 DEF RecordingGoes, SettingUp
  <2>3. gqrx'.dsp = gqrx.dsp
    BY <1>3, <1>7
  <2>4. at = "test_stop" => gqrx.dsp
    BY <2>1 DEF RecordingGoes, Testing
  <2>5. at = "stop" => Last(raw_files) >= RecordTime
    BY <2>1 DEF RecordingGoes
  <2>6. CASE gqrx' = new /\ at' = then /\ failures' = failures
    BY <1>3, <1>4, <1>5, <1>8, <2>2, <2>3, <2>4, <2>5, <2>6
    DEF RecordingGoes, SettingUp, Testing
  <2>7. CASE at' = "failed" /\ failures' # failures
    BY <1>5, <1>6, <2>2, <2>3, <2>7 DEF RecordingGoes, SettingUp, Testing
  <2>8. QED BY <1>7, <2>6, <2>7
<1>12. QED BY <1>7, <1>9, <1>10, <1>11 DEF GqrxInv

\* The files of the test go, the scheduler waits, or it is interrupted.
LEMMA QuietSteps ==
  ASSUME GqrxInv, DeleteTestFiles \/ WaitUntil \/ Interrupt
  PROVE  GqrxInv'
<1>1. /\ gqrx \in Program /\ Files(raw_files) /\ elapsed \in Nat /\ busy \in BOOLEAN
      /\ sample_rate \in Rates /\ failures \in Nat
  BY DEF GqrxInv, GqrxTypes
<1>2. /\ gqrx' = gqrx /\ order' = order /\ busy' = busy /\ before' = before
      /\ dsp_enabled' = dsp_enabled /\ unstopped' = unstopped /\ meddled' = meddled
      /\ failures' = failures /\ sample_rate' = sample_rate /\ imports' = imports
      /\ seconds_done' = seconds_done /\ elapsed' = elapsed
  BY DEF DeleteTestFiles, WaitUntil, Interrupt, scheduled, injected
<1>3. \/ at = "compare" /\ at' \in {"failed", "wait"}
      \/ at = "wait" /\ at' \in {"start", "failed"}
      \/ at \in {"testing", "recording"} /\ at' = "abort"
  BY DEF DeleteTestFiles, WaitUntil, Interrupt
<1>4. Files(raw_files')
  <2>1. CASE DeleteTestFiles
    <3>1. before \in 1..Len(raw_files) /\ raw_files' = SubSeq(raw_files, 1, before)
      BY <2>1 DEF GqrxInv, GqrxTypes, DeleteTestFiles, Testing
    <3>2. raw_files \in Seq(Nat) /\ before \in 0..Len(raw_files) /\ before >= 1
      BY <1>1, <3>1 DEF Files
    <3>3. QED BY <3>1, <3>2, Beginning DEF Files
  <2>2. CASE ~DeleteTestFiles
    BY <1>1, <2>2 DEF WaitUntil, Interrupt
  <2>3. QED BY <2>1, <2>2
<1>5. GqrxTypes'
  BY <1>1, <1>2, <1>3, <1>4 DEF GqrxTypes, Places, Testing
<1>6. ImportGoes'
  <2>1. at \notin Closed /\ at' \notin Closed
    BY <1>3 DEF Closed
  <2>2. QED BY <1>2, <2>1, NoImport DEF GqrxInv
<1>7. ASSUME ~meddled PROVE RecordingGoes'
  <2>1. RecordingGoes
    BY <1>7 DEF GqrxInv
  <2>2. QED BY <1>2, <1>3, <2>1 DEF RecordingGoes, SettingUp, Testing
<1>8. QED BY <1>2, <1>5, <1>6, <1>7 DEF GqrxInv

\* The operator may do what he likes: then nothing is claimed of the recording.
LEMMA MeddleKeeps ==
  ASSUME GqrxInv, Meddle
  PROVE  GqrxInv'
<1>1. /\ gqrx \in Program /\ Files(raw_files) /\ elapsed \in Nat /\ busy \in BOOLEAN
      /\ sample_rate \in Rates /\ failures \in Nat
  BY DEF GqrxInv, GqrxTypes
<1>2. /\ at' = at /\ order' = order /\ busy' = busy /\ before' = before
      /\ dsp_enabled' = dsp_enabled /\ unstopped' = unstopped /\ meddled'
      /\ failures' = failures + 1 /\ sample_rate' = sample_rate /\ imports' = imports
      /\ seconds_done' = seconds_done /\ elapsed' = elapsed
      /\ at \notin Closed
  BY DEF Meddle, scheduled, injected, Counts, Closed
<1>3. gqrx' \in Program
  <2>1. \A b, c \in BOOLEAN : [gqrx EXCEPT !.dsp = b, !.recording = c] \in Program
    BY <1>1 DEF Program
  <2>2. \A c \in BOOLEAN : [gqrx EXCEPT !.recording = c] \in Program
    BY <1>1 DEF Program
  <2>3. QED BY <1>1, <2>1, <2>2 DEF Meddle, Recording, Program
<1>4. Files(raw_files') /\ Len(raw_files') >= Len(raw_files) /\ Len(raw_files) \in Nat
  <2>1. raw_files \in Seq(Nat) /\ Len(raw_files) \in Nat /\ Len(raw_files) >= 1
    BY <1>1 DEF Files
  <2>2. Append(raw_files, 0) \in Seq(Nat) /\ Len(Append(raw_files, 0)) = Len(raw_files) + 1
    BY <2>1
  <2>3. raw_files' = raw_files \/ raw_files' = Append(raw_files, 0)
    BY DEF Meddle
  <2>4. QED BY <2>1, <2>2, <2>3 DEF Files
<1>5. GqrxTypes'
  <2>1. at \in Testing => before \in 1..Len(raw_files')
    <3>1. at \in Testing => before \in 1..Len(raw_files)
      BY DEF GqrxInv, GqrxTypes
    <3>2. Len(raw_files') \in Nat
      BY <1>4 DEF Files
    <3>3. QED BY <1>4, <3>1, <3>2
  <2>2. QED BY <1>1, <1>2, <1>3, <1>4, <2>1 DEF GqrxInv, GqrxTypes
<1>6. ImportGoes'
  BY <1>2, NoImport DEF GqrxInv
<1>7. QED BY <1>2, <1>5, <1>6 DEF GqrxInv

\* A second has as many whole samples as half the rate, rounded down.
LEMMA HalfRate ==
  ASSUME NEW rate \in Rates
  PROVE  /\ Samples(rate) \in Nat \ {0}
         /\ rate = 2 * Samples(rate) \/ rate = (2 * Samples(rate)) + 1
<1>1. rate \in Nat /\ rate >= 2
  BY GqrxAssumption
<1>2. /\ rate \div 2 \in Int /\ (rate % 2) \in 0..(2 - 1)
      /\ rate = (2 * (rate \div 2)) + (rate % 2)
  BY <1>1, DivMod
<1>3. PICK k \in Int, r \in 0..1 : k = rate \div 2 /\ rate = (2 * k) + r
  BY <1>2
<1>4. k >= 1
  BY <1>1, <1>3
<1>5. QED BY <1>3, <1>4 DEF Samples

\* Seconds of an even rate begin at whole samples.
LEMMA WholeSeconds ==
  ASSUME NEW x \in Nat, NEW k \in Nat
  PROVE  Samples(x * (2 * k)) = x * k
<1>1. PICK q \in Nat : q = x * k
  OBVIOUS
<1>2. x * (2 * k) = 2 * q
  BY <1>1
<1>3. PICK y \in Int : y = 2 * q
  OBVIOUS
<1>4. (y \div 2) = q
  <2>1. y = (2 * q) + 0 /\ 0 \in 0..(2 - 1) /\ 2 \in Nat \ {0} /\ q \in Int
    BY <1>3
  <2>2. QED BY <2>1, DivUnique
<1>5. QED BY <1>1, <1>2, <1>3, <1>4 DEF Samples

\* Half of a number.
LEMMA HalfIs ==
  ASSUME NEW x \in Nat
  PROVE  Samples(x) \in Nat
<1>1. x \div 2 \in Int /\ (x % 2) \in 0..(2 - 1) /\ x = (2 * (x \div 2)) + (x % 2)
  BY DivMod
<1>2. PICK k \in Int, r \in 0..1 : k = x \div 2 /\ x = (2 * k) + r
  BY <1>1
<1>3. k >= 0
  BY <1>2
<1>4. QED BY <1>2, <1>3 DEF Samples

\* The seconds that are taken of a file.
LEMMA FileSecondsIs ==
  ASSUME GqrxTypes
  PROVE  FileSeconds \in Nat /\ Recorded(Last(raw_files)) \in Nat
<1>1. PICK k \in Nat \ {0} : k = Samples(sample_rate)
  BY HalfRate DEF GqrxTypes
<1>2. PICK s \in Nat : s = Last(raw_files)
  BY LastGrows DEF GqrxTypes
<1>3. sample_rate \in Nat
  BY GqrxAssumption DEF GqrxTypes
<1>4. PICK x \in Nat : x = sample_rate * s
  BY <1>3
<1>5. PICK w \in Nat : w = Samples(x)
  BY HalfIs
<1>6. PICK length \in Nat : length = Recorded(s)
  <2>1. Recorded(s) = (w + k) - 1
    BY <1>1, <1>4, <1>5 DEF Recorded
  <2>2. (w + k) - 1 \in Nat
    OBVIOUS
  <2>3. QED BY <2>1, <2>2
<1>7. length \div k \in Int /\ (length % k) \in 0..(k - 1)
      /\ length = (k * (length \div k)) + (length % k)
  BY DivMod
<1>8. PICK q \in Int, r \in 0..(k - 1) : q = length \div k /\ length = (k * q) + r
  BY <1>7
<1>9. q >= 0
  <2>1. SUFFICES ASSUME q <= 0 - 1 PROVE FALSE
    BY <1>8
  <2>2. k * q <= k * (0 - 1)
    BY <1>1, <2>1
  <2>3. QED BY <1>8, <2>2
<1>10. Min({q, Longest}) = IF q <= Longest THEN q ELSE Longest
  BY <1>8, MinOfTwo, GqrxAssumption
<1>11. Min({q, Longest}) \in Nat
  BY <1>8, <1>9, <1>10, GqrxAssumption
<1>12. QED BY <1>1, <1>2, <1>6, <1>8, <1>11 DEF FileSeconds, TotalSeconds

\* The next scan, of so many seconds.
ScanOf(new, D) ==
    new = [iter |-> Len(imports), start_idx |-> seconds_done, duration |-> D,
           begins |-> [sec \in 1..D |-> SampleStart(sec)]]

\* One scan more.
LEMMA ScanFollows ==
  ASSUME GqrxTypes, ImportGoes, NEW D \in 1..ScanTime, NEW k \in Nat,
         sample_rate = 2 * k, k = Samples(sample_rate), seconds_done + D <= FileSeconds,
         D = ScanTime \/ seconds_done + D = FileSeconds,
         NEW new, ScanOf(new, D),
         imports' = Append(imports, new), seconds_done' = seconds_done + D,
         sample_rate' = sample_rate, raw_files' = raw_files, at = "import", at' = at
  PROVE  ImportGoes'
<1>1. PICK n \in Nat : n = Len(imports)
  BY DEF ImportGoes
<1>2. PICK past \in Nat : past = seconds_done
  BY DEF ImportGoes
<1>3. D \in Nat /\ D >= 1
  BY GqrxAssumption
<1>4. PICK begins : begins = [sec \in 1..D |-> ((past + sec) - 1) * k]
  OBVIOUS
<1>5. new.begins = begins
  <2>1. ASSUME NEW sec \in 1..D PROVE SampleStart(sec) = ((past + sec) - 1) * k
    <3>1. PICK x \in Nat : x = (past + sec) - 1
      OBVIOUS
    <3>2. SampleStart(sec) = Samples(x * (2 * k))
      BY <1>2, <3>1 DEF SampleStart
    <3>3. QED BY <3>1, <3>2, WholeSeconds
  <2>2. new.begins = [sec \in 1..D |-> SampleStart(sec)]
    BY DEF ScanOf
  <2>3. QED BY <1>4, <2>1, <2>2
<1>6. begins \in Seq(Nat) /\ Len(begins) = D
  <2>1. ASSUME NEW sec \in 1..D PROVE ((past + sec) - 1) * k \in Nat
    <3>1. PICK x \in Nat : x = (past + sec) - 1
      OBVIOUS
    <3>2. x * k \in Nat
      OBVIOUS
    <3>3. QED BY <3>1, <3>2
  <2>2. begins \in [1..D -> Nat]
    BY <1>4, <2>1
  <2>3. QED BY <1>3, <2>2
<1>7. new = [iter |-> n, start_idx |-> past, duration |-> D, begins |-> begins]
  <2>1. /\ new = [iter |-> new.iter, start_idx |-> new.start_idx, duration |-> new.duration,
                  begins |-> new.begins]
        /\ new.iter = n /\ new.start_idx = past /\ new.duration = D
    BY <1>1, <1>2 DEF ScanOf
  <2>2. QED BY <1>5, <2>1
<1>8. new \in ScanIn
  BY <1>6, <1>7 DEF ScanIn
<1>9. /\ imports \in Seq(ScanIn) /\ imports' \in Seq(ScanIn) /\ Len(imports') = n + 1
      /\ imports'[n + 1] = new /\ \A i \in 1..n : imports'[i] = imports[i]
  <2>1. imports \in Seq(ScanIn)
    BY DEF ImportGoes
  <2>2. QED BY <1>1, <1>8, <2>1
<1>10. n # 0 => imports # <<>>
  BY <1>1
<1>11. n # 0 => imports[n].duration = ScanTime /\ imports[n].start_idx + ScanTime = past
  <2>1. SUFFICES ASSUME n # 0
                 PROVE  imports[n].duration = ScanTime /\ imports[n].start_idx + ScanTime = past
    OBVIOUS
  <2>2. /\ imports[n].start_idx + imports[n].duration = past
        /\ imports[n].duration = ScanTime \/ past = FileSeconds
    BY <1>1, <1>2, <1>10, <2>1 DEF ImportGoes, Follow
  <2>3. FileSeconds \in Nat /\ past + D <= FileSeconds
    BY <1>2, FileSecondsIs
  <2>4. past # FileSeconds
    BY <1>3, <2>3
  <2>5. QED BY <2>2, <2>4
<1>12. FileSeconds' = FileSeconds /\ Samples(sample_rate)' = k
  BY DEF FileSeconds, TotalSeconds, Recorded, Samples
<1>13. Follow'
  <2>1. \A i \in 1..(n + 1) : imports'[i].iter = i - 1
    <3>1. SUFFICES ASSUME NEW i \in 1..(n + 1) PROVE imports'[i].iter = i - 1
      OBVIOUS
    <3>2. CASE i = n + 1
      BY <1>7, <1>9, <3>2
    <3>3. CASE i # n + 1
      <4>1. Follow
        BY DEF ImportGoes
      <4>2. \A j \in 1..n : imports[j].iter = j - 1
        BY <1>1, <4>1 DEF Follow
      <4>3. i \in 1..n
        BY <3>3
      <4>4. QED BY <1>9, <4>2, <4>3
    <3>4. QED BY <3>2, <3>3
  <2>2. \A i \in 1..n : /\ imports'[i].duration = ScanTime
                        /\ imports'[i + 1].start_idx = imports'[i].start_idx + ScanTime
    <3>1. SUFFICES ASSUME NEW i \in 1..n
                   PROVE  /\ imports'[i].duration = ScanTime
                          /\ imports'[i + 1].start_idx = imports'[i].start_idx + ScanTime
      OBVIOUS
    <3>2. CASE i = n
      BY <1>7, <1>9, <1>11, <3>2
    <3>3. CASE i # n
      <4>1. i \in 1..(n - 1) /\ i + 1 \in 1..n
        BY <3>3
      <4>2. imports'[i] = imports[i] /\ imports'[i + 1] = imports[i + 1]
        BY <1>9, <4>1
      <4>3. QED BY <1>1, <4>1, <4>2 DEF ImportGoes, Follow
    <3>4. QED BY <3>2, <3>3
  <2>3. imports' # <<>>
    BY <1>9
  <2>4. /\ imports'[n + 1].start_idx + imports'[n + 1].duration = seconds_done'
        /\ imports'[n + 1].duration = ScanTime \/ seconds_done' = FileSeconds
    BY <1>2, <1>7, <1>9
  <2>5. (n + 1) - 1 = n
    OBVIOUS
  <2>6. QED BY <1>9, <1>12, <2>1, <2>2, <2>3, <2>4, <2>5 DEF Follow
<1>14. FlattenSeq(Beginnings)' = [m \in 1..seconds_done' |-> (m - 1) * k]
  <2>1. PICK g : g = [i \in 1..(n + 1) |-> imports'[i].begins]
    OBVIOUS
  <2>2. g \in [1..(n + 1) -> Seq(Nat)]
    <3>1. \A i \in 1..(n + 1) : imports'[i] \in ScanIn
      BY <1>9, ElementOfSeq
    <3>2. QED BY <2>1, <3>1 DEF ScanIn
  <2>3. JoinedUpto(g, n + 1) = JoinedUpto(g, n) \o g[n + 1]
    <3>1. n + 1 \in Nat /\ n + 1 \in 1..(n + 1) /\ (n + 1) - 1 = n
      OBVIOUS
    <3>2. JoinedUpto(g, n + 1) = JoinedUpto(g, (n + 1) - 1) \o g[n + 1]
      BY <2>2, <3>1, JoinedOne
    <3>3. QED BY <3>1, <3>2
  <2>4. JoinedUpto(g, n) = FlattenSeq(Beginnings)
    <3>1. [i \in 1..n |-> g[i]] = Beginnings
      BY <1>1, <1>9, <2>1 DEF Beginnings
    <3>2. QED BY <3>1 DEF JoinedUpto
  <2>5. JoinedUpto(g, n + 1) = FlattenSeq(g)
    <3>1. PICK l \in Nat : l = n + 1
      OBVIOUS
    <3>2. g \in [1..l -> Seq(Nat)] /\ l \in 0..l
      BY <2>2, <3>1
    <3>3. JoinedUpto(g, l) = FlattenSeq(g)
      BY <3>2, JoinedStep
    <3>4. QED BY <3>1, <3>3
  <2>6. Beginnings' = g
    BY <1>9, <2>1 DEF Beginnings
  <2>7. FlattenSeq(Beginnings)' = FlattenSeq(g)
    BY <2>6
  <2>8. PICK old : old = [m \in 1..past |-> (m - 1) * k]
    OBVIOUS
  <2>9. FlattenSeq(Beginnings) = old
    BY <1>2, <2>8 DEF ImportGoes
  <2>10. g[n + 1] = begins
    BY <1>7, <1>9, <2>1
  <2>11. old \o begins = [m \in 1..(past + D) |-> (m - 1) * k]
    <3>1. old \in Seq(Nat) /\ Len(old) = past
      <4>1. ASSUME NEW m \in 1..past PROVE (m - 1) * k \in Nat
        <5>1. PICK x \in Nat : x = m - 1
          OBVIOUS
        <5>2. x * k \in Nat
          OBVIOUS
        <5>3. QED BY <5>1, <5>2
      <4>2. old \in [1..past -> Nat]
        BY <2>8, <4>1
      <4>3. QED BY <4>2
    <3>2. PICK both : both = old \o begins
      OBVIOUS
    <3>3. /\ both \in Seq(Nat) /\ Len(both) = past + D
          /\ \A m \in 1..past : both[m] = old[m]
          /\ \A m \in (past + 1)..(past + D) : both[m] = begins[m - past]
      <4>1. /\ old \o begins \in Seq(Nat) /\ Len(old \o begins) = past + D
            /\ \A m \in 1..(past + D) :
                   (old \o begins)[m] = IF m <= past THEN old[m] ELSE begins[m - past]
        BY <1>6, <3>1, ConcatProperties
      <4>2. \A m \in 1..past : m \in 1..(past + D) /\ m <= past
        BY <1>3
      <4>3. \A m \in (past + 1)..(past + D) : m \in 1..(past + D) /\ ~(m <= past)
        BY <1>3
      <4>4. QED BY <3>2, <4>1, <4>2, <4>3
    <3>4. ASSUME NEW m \in 1..(past + D) PROVE both[m] = (m - 1) * k
      <4>1. CASE m <= past
        BY <2>8, <3>3, <4>1
      <4>2. CASE m > past
        <5>1. m \in (past + 1)..(past + D) /\ m - past \in 1..D
          BY <4>2
        <5>2. both[m] = ((past + (m - past)) - 1) * k
          BY <1>4, <3>3, <5>1
        <5>3. (past + (m - past)) - 1 = m - 1
          OBVIOUS
        <5>4. QED BY <5>2, <5>3
      <4>3. QED BY <4>1, <4>2
    <3>5. both = [m \in 1..(past + D) |-> both[m]]
      BY <3>3
    <3>6. QED BY <3>2, <3>4, <3>5
  <2>12. QED BY <1>2, <2>3, <2>4, <2>5, <2>7, <2>9, <2>10, <2>11
<1>15. seconds_done' \in Nat /\ seconds_done' <= FileSeconds
  BY <1>2, <1>3
<1>16. QED BY <1>9, <1>12, <1>13, <1>14, <1>15 DEF ImportGoes, Closed

\* The injector opens the file, makes a scan of it, and saves what it has made.
LEMMA InjectorKeeps ==
  ASSUME GqrxInv, OpenRaw \/ ImportScan \/ SaveObservation
  PROVE  GqrxInv'
<1>1. /\ gqrx \in Program /\ Files(raw_files) /\ elapsed \in Nat /\ busy \in BOOLEAN
      /\ sample_rate \in Rates /\ failures \in Nat /\ GqrxTypes /\ ImportGoes
  BY DEF GqrxInv, GqrxTypes
<1>2. /\ gqrx' = gqrx /\ raw_files' = raw_files /\ order' = order /\ busy' = busy
      /\ before' = before /\ elapsed' = elapsed /\ dsp_enabled' = dsp_enabled
      /\ unstopped' = unstopped /\ meddled' = meddled
      /\ failures' = failures /\ sample_rate' = sample_rate
  BY DEF OpenRaw, ImportScan, SaveObservation, scheduled, injected
<1>3. at \in {"recorded", "import"} /\ at' \in Closed
  BY DEF OpenRaw, ImportScan, SaveObservation, Closed
<1>4. GqrxTypes'
  BY <1>1, <1>2, <1>3 DEF GqrxTypes, Places, Testing, Closed
<1>5. ASSUME ~meddled PROVE RecordingGoes'
  <2>1. RecordingGoes
    BY <1>5 DEF GqrxInv
  <2>2. ~(busy /\ ~order.now) /\ (dsp_enabled => gqrx.dsp)
    BY <1>3, <2>1 DEF RecordingGoes, SettingUp
  <2>3. QED BY <1>2, <1>3, <2>2 DEF RecordingGoes, SettingUp, Testing, Closed
<1>6. FileSeconds' = FileSeconds /\ FileSeconds \in Nat
  BY <1>1, <1>2, FileSecondsIs DEF FileSeconds, TotalSeconds, Recorded, Samples
<1>7. ASSUME imports' = imports, seconds_done' = seconds_done,
             at' \in {"import", "imported"} => seconds_done <= FileSeconds,
             at' = "imported" => seconds_done = FileSeconds
      PROVE  ImportGoes'
  <2>1. Follow'
    BY <1>1, <1>2, <1>6, <1>7 DEF ImportGoes, Follow, Samples
  <2>2. (FlattenSeq(Beginnings) = [n \in 1..seconds_done |-> (n - 1) * Samples(sample_rate)])'
    BY <1>1, <1>2, <1>7 DEF ImportGoes, Beginnings, Samples
  <2>3. QED BY <1>1, <1>3, <1>6, <1>7, <2>1, <2>2 DEF ImportGoes
<1>8. CASE OpenRaw
  <2>1. imports = <<>> /\ seconds_done = 0
    BY <1>1, <1>8 DEF OpenRaw, ImportGoes, Follow, Closed
  <2>2. at' \in {"import", "rejected"} /\ imports' = imports /\ seconds_done' = seconds_done
    BY <1>8 DEF OpenRaw, injected
  <2>3. ImportGoes'
    BY <1>6, <1>7, <2>1, <2>2
  <2>4. QED BY <1>2, <1>4, <1>5, <2>3 DEF GqrxInv
<1>9. CASE SaveObservation
  <2>1. /\ seconds_done = FileSeconds /\ at' = "imported"
        /\ imports' = imports /\ seconds_done' = seconds_done
    BY <1>9 DEF SaveObservation, injected, FileSeconds
  <2>2. ImportGoes'
    BY <1>6, <1>7, <2>1
  <2>3. QED BY <1>2, <1>4, <1>5, <2>2 DEF GqrxInv
<1>10. CASE ImportScan
  <2>1. seconds_done \in Nat /\ seconds_done <= FileSeconds /\ at = "import"
    BY <1>1, <1>10 DEF ImportScan, ImportGoes
  <2>2. PICK left \in Nat : left = FileSeconds - seconds_done
    BY <1>6, <2>1
  <2>3. PICK D \in Nat : /\ D = Min({ScanTime, left})
                         /\ D = IF ScanTime <= left THEN ScanTime ELSE left
    BY MinOfTwo, GqrxAssumption
  <2>4. PICK length \in Nat : length = Recorded(Last(raw_files))
    BY <1>1, FileSecondsIs
  <2>5. D = Min({ScanTime, TotalSeconds(length) - seconds_done})
    BY <2>2, <2>3, <2>4 DEF FileSeconds
  <2>6. PICK begins : begins = [sec \in 1..D |-> SampleStart(sec)]
    OBVIOUS
  <2>7. PICK new : new = [iter |-> Len(imports), start_idx |-> seconds_done,
                          duration |-> D, begins |-> begins]
    OBVIOUS
  <2>8. ScanOf(new, D)
    BY <2>6, <2>7 DEF ScanOf
  <2>9. /\ D > 0
        /\ IF \A sec \in 1..D : LoadsSamples(begins[sec], length)
           THEN /\ imports' = Append(imports, new) /\ seconds_done' = seconds_done + D
                /\ at' = at
           ELSE at' = "rejected" /\ imports' = imports /\ seconds_done' = seconds_done
    BY <1>10, <2>4, <2>5, <2>6, <2>7 DEF ImportScan
  <2>10. CASE \A sec \in 1..D : LoadsSamples(begins[sec], length)
    <3>1. PICK k \in Nat \ {0} : /\ k = Samples(sample_rate)
                                 /\ sample_rate = 2 * k \/ sample_rate = (2 * k) + 1
      BY <1>1, HalfRate
    <3>2. 1 \in 1..D /\ D \in 1..ScanTime /\ D <= left /\ (D = ScanTime \/ D = left)
      BY <2>3, <2>9, GqrxAssumption
    <3>3. PICK start \in Nat : start = begins[1]
      <4>1. PICK x \in Nat : x = seconds_done + 1 - 1
        BY <2>1
      <4>2. PICK y \in Nat : y = x * sample_rate
        <5>1. sample_rate \in Nat
          BY <1>1, GqrxAssumption
        <5>2. QED BY <5>1
      <4>3. SampleStart(1) = Samples(y)
        BY <4>1, <4>2 DEF SampleStart
      <4>4. begins[1] = SampleStart(1)
        BY <2>6, <3>2
      <4>5. QED BY <4>3, <4>4, HalfIs
    <3>4. LoadsSamples(start, length)
      BY <2>10, <3>2, <3>3
    <3>5. 2 * (Min({start + k, length}) - start) >= sample_rate
      BY <3>1, <3>4 DEF LoadsSamples
    <3>6. Min({start + k, length}) = IF start + k <= length THEN start + k ELSE length
      BY MinOfTwo
    <3>7. sample_rate = 2 * k
      BY <3>1, <3>5, <3>6
    <3>8. seconds_done + D <= FileSeconds /\ (D = ScanTime \/ seconds_done + D = FileSeconds)
      BY <1>6, <2>1, <2>2, <3>2
    <3>9. imports' = Append(imports, new) /\ seconds_done' = seconds_done + D /\ at' = at
      BY <2>9, <2>10
    <3>10. ImportGoes'
      BY <1>1, <1>2, <2>1, <2>8, <3>1, <3>2, <3>7, <3>8, <3>9, ScanFollows
    <3>11. QED BY <1>2, <1>4, <1>5, <3>10 DEF GqrxInv
  <2>11. CASE ~ \A sec \in 1..D : LoadsSamples(begins[sec], length)
    <3>1. ImportGoes'
      BY <1>7, <2>9, <2>11
    <3>2. QED BY <1>2, <1>4, <1>5, <3>1 DEF GqrxInv
  <2>12. QED BY <2>10, <2>11
<1>11. QED BY <1>8, <1>9, <1>10

\* Before the scheduler connects.
LEMMA GqrxStarts ==
  GqrxInit => GqrxInv
<1>1. SUFFICES ASSUME GqrxInit PROVE GqrxInv
  OBVIOUS
<1>2. gqrx \in [dsp : {busy, TRUE}, recording : {busy}, tuned : {"elsewhere"}, gains : {0}]
  BY <1>1 DEF GqrxInit
<1>3. gqrx \in Program /\ gqrx.recording = busy /\ busy \in BOOLEAN
  <2>1. busy \in BOOLEAN
    BY <1>1 DEF GqrxInit
  <2>2. PICK b \in BOOLEAN : b = busy
    BY <2>1
  <2>3. {b, TRUE} \subseteq BOOLEAN /\ gqrx.recording = b
    BY <1>2, <2>2
  <2>4. gqrx \in Program
    <3>1. gqrx \in [dsp : {b, TRUE}, recording : {b}, tuned : {"elsewhere"}, gains : {0}]
      BY <1>2, <2>2
    <3>2. PICK B, C : B = {b, TRUE} /\ C = {b}
      OBVIOUS
    <3>3. B \subseteq BOOLEAN /\ C \subseteq BOOLEAN
      BY <3>2, Zenon
    <3>4. gqrx \in [dsp : B, recording : C, tuned : {"elsewhere"}, gains : {0}]
      BY <3>1, <3>2
    <3>5. QED BY <3>3, <3>4 DEF Program
  <2>5. QED BY <2>1, <2>2, <2>3, <2>4
<1>4. Files(raw_files)
  <2>1. raw_files = <<1>>
    BY <1>1 DEF GqrxInit
  <2>2. QED BY <2>1 DEF Files
<1>5. GqrxTypes
  BY <1>1, <1>3, <1>4 DEF GqrxInit, GqrxTypes, Places, SettingUp, Testing
<1>6. RecordingGoes
  BY <1>1, <1>3 DEF GqrxInit, RecordingGoes, SettingUp, Testing
<1>7. imports = <<>> /\ seconds_done = 0 /\ at = "connect"
  BY <1>1 DEF GqrxInit
<1>8. Follow
  <2>1. Len(imports) = 0
    BY <1>7
  <2>2. QED BY <1>7, <2>1 DEF Follow
<1>9. FlattenSeq(Beginnings) = [n \in 1..seconds_done |-> (n - 1) * Samples(sample_rate)]
  <2>1. PICK g \in [1..0 -> Seq(Nat)] : g = [i \in 1..0 |-> imports[i].begins]
    <3>1. \A i \in 1..0 : imports[i].begins \in Seq(Nat)
      OBVIOUS
    <3>2. [i \in 1..0 |-> imports[i].begins] \in [1..0 -> Seq(Nat)]
      BY <3>1, Zenon
    <3>3. QED BY <3>2
  <2>2. Beginnings = g
    BY <1>7, <2>1 DEF Beginnings
  <2>3. JoinedUpto(g, 0) = <<>> /\ JoinedUpto(g, 0) = FlattenSeq(g)
    <3>1. 0 \in Nat /\ 0 \in 0..0
      OBVIOUS
    <3>2. QED BY <3>1, JoinedStep
  <2>4. [n \in 1..seconds_done |-> (n - 1) * Samples(sample_rate)] = <<>>
    BY <1>7
  <2>5. QED BY <2>2, <2>3, <2>4
<1>10. ImportGoes
  BY <1>7, <1>8, <1>9 DEF ImportGoes, Closed
<1>11. QED BY <1>5, <1>6, <1>10 DEF GqrxInv

\* The invariant holds for every duration and rate, and any number of failures.
THEOREM GqrxInvariant == GqrxSpec => []GqrxInv
<1>1. GqrxInv /\ [GqrxNext]_gqrxVars => GqrxInv'
  <2>1. SUFFICES ASSUME GqrxInv, [GqrxNext]_gqrxVars PROVE GqrxInv'
    OBVIOUS
  <2>2. CASE GqrxNext
    BY <2>1, <2>2, SetupSteps, BeginTestKeeps, StartKeeps, RecordKeeps, StopRecordingKeeps,
       QuietSteps, MeddleKeeps, InjectorKeeps DEF GqrxNext
  <2>3. CASE UNCHANGED gqrxVars
    <3>1. /\ at' = at /\ gqrx' = gqrx /\ raw_files' = raw_files /\ order' = order /\ busy' = busy
          /\ before' = before /\ elapsed' = elapsed /\ dsp_enabled' = dsp_enabled
          /\ unstopped' = unstopped /\ meddled' = meddled
          /\ failures' = failures /\ sample_rate' = sample_rate
          /\ imports' = imports /\ seconds_done' = seconds_done
      BY <2>3 DEF gqrxVars, scheduled, injected
    <3>2. GqrxTypes'
      BY <2>1, <3>1 DEF GqrxInv, GqrxTypes
    <3>3. (~meddled => RecordingGoes)'
      BY <2>1, <3>1 DEF GqrxInv, RecordingGoes
    <3>4. ImportGoes'
      BY <2>1, <3>1
      DEF GqrxInv, ImportGoes, Follow, Beginnings, FileSeconds, TotalSeconds, Recorded, Samples
    <3>5. QED BY <3>2, <3>3, <3>4 DEF GqrxInv
  <2>4. QED BY <2>1, <2>2, <2>3
<1>2. QED BY <1>1, GqrxStarts, PTL DEF GqrxSpec

\* However the session with GQRX ends, it does not record unless the command to
\* stop failed or the operator's recording went on; with success the whole
\* duration is in the file; and an import that succeeds has every second of it
\* once, in order, each with its own samples.
THEOREM RecordedAndImportedHolds == GqrxSpec => []RecordedAndImported
<1>1. GqrxInv => RecordedAndImported
  <2>1. SUFFICES ASSUME GqrxInv PROVE RecordedAndImported
    OBVIOUS
  <2>2. RecordingEnds
    BY <2>1 DEF GqrxInv, RecordingGoes, RecordingEnds
  <2>3. ImportIsTrue
    <3>1. SUFFICES ASSUME at = "imported"
                   PROVE  /\ FlattenSeq([i \in DOMAIN imports |-> imports[i].begins]) =
                                [n \in 1..FileSeconds |-> (n - 1) * Samples(sample_rate)]
                          /\ \A i \in DOMAIN imports :
                                /\ imports[i].iter = i - 1
                                /\ i < Len(imports) =>
                                      /\ imports[i].duration = ScanTime
                                      /\ imports[i + 1].start_idx
                                            = imports[i].start_idx + ScanTime
      BY DEF ImportIsTrue, FileSeconds
    <3>2. ImportGoes
      BY <2>1 DEF GqrxInv
    <3>3. PICK n \in Nat : n = Len(imports) /\ DOMAIN imports = 1..n
      BY <3>2 DEF ImportGoes
    <3>4. seconds_done = FileSeconds
      BY <3>1, <3>2 DEF ImportGoes
    <3>5. FlattenSeq(Beginnings) = [m \in 1..FileSeconds |-> (m - 1) * Samples(sample_rate)]
      BY <3>2, <3>4 DEF ImportGoes
    <3>6. Beginnings = [i \in DOMAIN imports |-> imports[i].begins]
      BY <3>3 DEF Beginnings
    <3>7. \A i \in 1..n : imports[i].iter = i - 1
      BY <3>2, <3>3 DEF ImportGoes, Follow
    <3>8. \A i \in 1..(n - 1) : /\ imports[i].duration = ScanTime
                                /\ imports[i + 1].start_idx = imports[i].start_idx + ScanTime
      BY <3>2, <3>3 DEF ImportGoes, Follow
    <3>9. \A i \in 1..n : i < n => i \in 1..(n - 1)
      BY <3>3
    <3>10. QED BY <3>3, <3>5, <3>6, <3>7, <3>8, <3>9
  <2>4. QED BY <2>2, <2>3 DEF RecordedAndImported
<1>2. QED BY <1>1, GqrxInvariant, PTL

(***************************************************************************)
(* Messages and answers.  What the processor holds is the peer's message   *)
(* in the words of this side, checked; an answer goes back over the same   *)
(* translation, by the version in the header it echoes.                    *)
(***************************************************************************)
\* What the proof needs to know of the interfaces.
LEMMA ApiIs ==
  ASSUME NEW i \in DOMAIN Api
  PROVE  LET a == Api[i] IN
         /\ a.version = IF i = "tm_dig" THEN "2.0" ELSE "1.0"
         /\ a.legacy = IF i = "tm_dig" THEN {"1.0", "1.1"} ELSE {}
         /\ "rsp" \in a.kinds
         /\ "debug" \in a.properties /\ "text" \in a.values
         /\ a.properties \subseteq IF i = "tm_dig" THEN {"debug", "own", "center_freq"}
                                   ELSE {"debug", "own"}
<1>1. DOMAIN Api = {"tm_sdp", "tm_ws", "imu_app", "tm_dm", "ws_dm", "sdp_dig", "tm_dig", "cmd"}
  BY DEF Api
<1>2. CASE i = "tm_sdp"
  BY <1>2 DEF Api, TmSdp, Plain
<1>3. CASE i = "tm_ws"
  BY <1>3 DEF Api, TmWs, Plain
<1>4. CASE i = "imu_app"
  BY <1>4 DEF Api, ImuApp, Plain
<1>5. CASE i = "tm_dm"
  BY <1>5 DEF Api, TmDm, Plain
<1>6. CASE i = "ws_dm"
  BY <1>6 DEF Api, WsDm, Plain
<1>7. CASE i = "sdp_dig"
  BY <1>7 DEF Api, SdpDig, Plain
<1>8. CASE i = "tm_dig"
  BY <1>8 DEF Api, TmDig, Plain
<1>9. CASE i = "cmd"
  BY <1>9 DEF Api, Command, Plain
<1>10. QED BY <1>1, <1>2, <1>3, <1>4, <1>5, <1>6, <1>7, <1>8, <1>9

\* m with other words, and another version and echo.
Worded(m, version, property, echo) ==
    [interface |-> m.interface, version |-> version, kind |-> m.kind,
     action |-> m.action, property |-> property, value |-> m.value,
     lacks |-> m.lacks, from |-> m.from, to |-> m.to, entity |-> m.entity,
     status |-> m.status, echo |-> echo]

\* A message of any sort.
AnyMessage(m) ==
    /\ m = Worded(m, m.version, m.property, m.echo)
    /\ m.interface \in DOMAIN Api /\ m.echo \in Seq(Versions)

\* Parts of m replaced, in the form the definitions of ApiExchange replace them.
Echoing(m, echo) == [m EXCEPT !.echo = echo]
Versioned(m, version) == [m EXCEPT !.version = version]
Propertied(m, property) == [m EXCEPT !.property = property]
Renamed(m, property, version) == [m EXCEPT !.property = property, !.version = version]

\* What replacing a part makes of a message that is spelled out.
LEMMA Reworded ==
  ASSUME NEW m, NEW v, NEW p, NEW e, NEW w, NEW q, NEW f
  PROVE  /\ Echoing(Worded(m, v, p, e), f) = Worded(m, v, p, f)
         /\ Versioned(Worded(m, v, p, e), w) = Worded(m, w, p, e)
         /\ Renamed(Worded(m, v, p, e), q, w) = Worded(m, w, q, e)
<1>1. Echoing(Worded(m, v, p, e), f) = Worded(m, v, p, f)
  BY DEF Worded, Echoing
<1>2. Versioned(Worded(m, v, p, e), w) = Worded(m, w, p, e)
  BY DEF Worded, Versioned
<1>3. Renamed(Worded(m, v, p, e), q, w) = Worded(m, w, q, e)
  <2>1. PICK x : x = Worded(m, v, p, e)
    OBVIOUS
  <2>2. Propertied(x, q) = Worded(m, v, q, e)
    BY <2>1 DEF Worded, Propertied
  <2>3. Versioned(Worded(m, v, q, e), w) = Worded(m, w, q, e)
    BY DEF Worded, Versioned
  <2>4. Renamed(x, q, w) = Versioned(Propertied(x, q), w)
    BY DEF Renamed, Versioned, Propertied
  <2>5. QED BY <2>1, <2>2, <2>3, <2>4
<1>4. QED BY <1>1, <1>2, <1>3

\* What a peer asks.
AskedBy(m) == AnyMessage(m) /\ m \in Messages /\ Sensible(m)

\* m in the words of this side, with its header echoed.
Understood(m) ==
    [Translated(Echoed(m), Api[m.interface].version) EXCEPT !.version = m.version]

\* A message that was understood.
Agreed(m) ==
    /\ Translatable(m.interface, m.version, Api[m.interface].version)
    /\ Valid(m.interface, Translated(Echoed(m), Api[m.interface].version))

\* The answer goes by what is held, in the version of the message or of this side.
Drafted ==
    /\ AnyMessage(answer)
    /\ answer.interface = held.interface /\ answer.action = held.action
    /\ answer.property = held.property /\ answer.echo = held.echo
    /\ answer.kind = "rsp" /\ answer.status \in {"success", "error"} /\ answer.lacks = {}
    /\ answer.from = held.to /\ answer.to = held.from
    /\ answer.version = Api[held.interface].version \/ (answer.version = held.version /\ Common)

\* The inductive invariant: what is held and drafted, at each point of progress.
ApiInv ==
    /\ progress \in {"asked", "held", "handled", "answered", "unanswered", "silent"}
    /\ AskedBy(message)
    /\ progress = "asked" => answer = message
    /\ progress \in {"held", "handled", "answered"} =>
         held = Understood(message) /\ Agreed(message)
    /\ progress = "held" => answer = message
    /\ progress = "handled" => Drafted
    /\ AnsweredInKind

\* A message that was understood, part by part.
LEMMA UnderstoodIs ==
  ASSUME NEW m, AskedBy(m)
  PROVE  LET h == Understood(m) IN
         /\ AnyMessage(h)
         /\ h.interface = m.interface /\ h.version = m.version /\ h.kind = m.kind
         /\ h.action = m.action /\ h.value = m.value /\ h.lacks = m.lacks
         /\ h.from = m.from /\ h.to = m.to /\ h.entity = m.entity
         /\ h.echo = Append(m.echo, m.version)
         /\ h.property = IF m.interface = "tm_dig" /\ m.version = "1.0" /\ m.property = "fc"
                         THEN "center_freq" ELSE m.property
<1>1. m.version \in Versions /\ m.interface \in DOMAIN Api
  BY DEF AskedBy, Messages
<1>2. Api[m.interface].version = IF m.interface = "tm_dig" THEN "2.0" ELSE "1.0"
  BY <1>1, ApiIs
<1>3. m.property \in {"fc", "center_freq"} => m.interface = "tm_dig"
  BY DEF AskedBy, Sensible
<1>4. m.echo \in Seq(Versions) /\ Append(m.echo, m.version) \in Seq(Versions)
  BY <1>1 DEF AskedBy, AnyMessage
<1>5. m = Worded(m, m.version, m.property, m.echo)
  BY DEF AskedBy, AnyMessage
<1>6. PICK echo : echo = Append(m.echo, m.version)
  OBVIOUS
<1>7. Echoed(m) = Worded(m, m.version, m.property, echo)
  <2>1. Echoed(m) = Echoing(m, echo)
    BY <1>6 DEF Echoed, Echoing
  <2>2. QED BY <1>5, <2>1, Reworded
<1>8. PICK property : property = IF /\ m.interface = "tm_dig" /\ m.version = "1.0"
                                    /\ m.property = "fc"
                                 THEN "center_freq" ELSE m.property
  OBVIOUS
<1>9. PICK here : here = Api[m.interface].version
  OBVIOUS
<1>10. property = IF m.version = "1.0" /\ here = "2.0" /\ m.property = "fc" THEN "center_freq"
                  ELSE IF m.version = "2.0" /\ here = "1.0" /\ m.property = "center_freq"
                  THEN "fc"
                  ELSE m.property
  BY <1>2, <1>3, <1>8, <1>9
<1>11. Translated(Echoed(m), here) = Worded(m, here, property, echo)
  <2>1. PICK e : e = Echoed(m)
    OBVIOUS
  <2>2. e.version = m.version /\ e.property = m.property
    BY <1>7, <2>1 DEF Worded
  <2>3. Translated(e, here) = Renamed(e, property, here)
    BY <1>10, <2>2 DEF Translated, Renamed
  <2>4. QED BY <1>7, <2>1, <2>3, Reworded
<1>12. Understood(m) = Worded(m, m.version, property, echo)
  <2>1. PICK t : t = Translated(Echoed(m), here)
    OBVIOUS
  <2>2. Understood(m) = Versioned(t, m.version)
    BY <1>9, <2>1 DEF Understood, Versioned
  <2>3. QED BY <1>11, <2>1, <2>2, Reworded
<1>13. QED BY <1>1, <1>4, <1>6, <1>8, <1>12 DEF AnyMessage, Worded

\* When a message is understood, by its own parts.
LEMMA AgreedIs ==
  ASSUME NEW m, AskedBy(m)
  PROVE  Agreed(m) <=>
         /\ m.version \in Api[m.interface].legacy \cup {Api[m.interface].version}
         /\ m.version \notin {"0.9", "1.1"}
         /\ m.lacks = {}
         /\ m.interface # "sdp_dig" =>
              /\ Understood(m).property \in Api[m.interface].properties \cup {Absent}
              /\ m.value \in Api[m.interface].values \cup {Absent}
         /\ (m.interface = "cmd" /\ m.kind = "req" /\ m.action = "set") => m.value = "text"
<1> DEFINE here == Api[m.interface].version
           t == Translated(Echoed(m), here)
<1>1. m.version \in Versions /\ m.interface \in DOMAIN Api
  BY DEF AskedBy, Messages
<1>2. /\ here = IF m.interface = "tm_dig" THEN "2.0" ELSE "1.0"
      /\ Api[m.interface].legacy = IF m.interface = "tm_dig" THEN {"1.0", "1.1"} ELSE {}
  BY <1>1, ApiIs
<1>3. /\ m.version \in Api[m.interface].legacy \cup {"0.9", here}
      /\ m.action \in Api[m.interface].actions /\ m.kind \in Api[m.interface].kinds
      /\ m.lacks \subseteq Required(m.interface, m)
  BY DEF AskedBy, Sensible
<1>4. m = [interface |-> m.interface, version |-> m.version, kind |-> m.kind,
            action |-> m.action, property |-> m.property, value |-> m.value,
            lacks |-> m.lacks, from |-> m.from, to |-> m.to, entity |-> m.entity,
            status |-> m.status, echo |-> m.echo]
  BY DEF AskedBy, AnyMessage, Worded
<1>5. /\ t.version = here /\ t.kind = m.kind /\ t.action = m.action /\ t.value = m.value
      /\ t.lacks = m.lacks /\ t.property = Understood(m).property
  BY <1>4 DEF Translated, Echoed, Understood
<1>6. Required(m.interface, t) = Required(m.interface, m)
  BY <1>5 DEF Required
<1>7. m.lacks \cap Required(m.interface, m) = {} <=> m.lacks = {}
  BY <1>3
<1>8. Translatable(m.interface, m.version, here) <=>
         /\ m.version \in Api[m.interface].legacy \cup {here}
         /\ m.version \notin {"0.9", "1.1"}
  BY <1>1, <1>2 DEF Translatable, Versions
<1> HIDE DEF here, t
<1>9. Valid(m.interface, t) <=>
         /\ m.lacks = {}
         /\ m.interface # "sdp_dig" =>
              /\ Understood(m).property \in Api[m.interface].properties \cup {Absent}
              /\ m.value \in Api[m.interface].values \cup {Absent}
         /\ (m.interface = "cmd" /\ m.kind = "req" /\ m.action = "set") => m.value = "text"
  BY <1>3, <1>5, <1>6, <1>7 DEF Valid, here
<1>10. QED BY <1>8, <1>9 DEF Agreed, here, t

\* A message that is not understood is one that cannot be.
LEMMA UnderstandKeeps ==
  ASSUME ApiInv, Understand
  PROVE  ApiInv'
<1>1. /\ message' = message /\ answer' = answer /\ answer = message
      /\ AskedBy(message) /\ progress = "asked"
  BY DEF ApiInv, Understand
<1>2. message.version \in Versions /\ message.interface \in DOMAIN Api
      /\ message.kind \in {"req", "adv"}
  BY <1>1 DEF AskedBy, Messages
<1>3. message.version \in
         Api[message.interface].legacy \cup {"0.9", Api[message.interface].version}
  BY <1>1 DEF AskedBy, Sensible
<1>4. message.interface = Echoed(message).interface /\ message.version = Echoed(message).version
  BY <1>1 DEF Echoed, AskedBy, AnyMessage, Worded
<1>5. IF Agreed(message) THEN progress' = "held" /\ held' = Understood(message)
      ELSE progress' = "silent"
  BY <1>4 DEF Understand, Agreed, Understood
<1>6. CASE Agreed(message)
  BY <1>1, <1>5, <1>6 DEF ApiInv, AnsweredInKind, Drafted
<1>7. CASE ~Agreed(message)
  <2>1. progress' = "silent"
    BY <1>5, <1>7
  <2>2. AnsweredInKind'
    <3>1. SUFFICES
            LET a == Api[message.interface]
                words == IF message.version = "1.0" THEN a.properties \cup {"fc"}
                         ELSE a.properties
            IN  \/ message.lacks # {} \/ message.version \in {"0.9", "1.1"}
                \/ message.property \notin words \cup {Absent}
                \/ {message.value, message.value} \ (a.values \cup {Absent}) # {}
                \/ message.interface = "cmd" /\ message.action = "set" /\ message.value # "text"
      BY <1>1, <2>1 DEF AnsweredInKind
    <3>2. \/ message.version \notin
                 Api[message.interface].legacy \cup {Api[message.interface].version}
          \/ message.version \in {"0.9", "1.1"}
          \/ message.lacks # {}
          \/ Understood(message).property \notin Api[message.interface].properties \cup {Absent}
          \/ message.value \notin Api[message.interface].values \cup {Absent}
          \/ message.interface = "cmd" /\ message.action = "set" /\ message.value # "text"
      BY <1>1, <1>7, AgreedIs
    <3>3. ASSUME Understood(message).property \notin
                    Api[message.interface].properties \cup {Absent}
          PROVE  message.property \notin
                    (IF message.version = "1.0" THEN Api[message.interface].properties \cup {"fc"}
                     ELSE Api[message.interface].properties) \cup {Absent}
      <4>1. Understood(message).property =
                IF /\ message.interface = "tm_dig" /\ message.version = "1.0"
                   /\ message.property = "fc"
                THEN "center_freq" ELSE message.property
        BY <1>1, UnderstoodIs
      <4>2. message.property = "fc" => message.interface = "tm_dig"
        BY <1>1 DEF AskedBy, Sensible
      <4>3. "center_freq" \in TmDig.properties /\ Api["tm_dig"] = TmDig
        BY DEF TmDig, Api
      <4>4. QED BY <3>3, <4>1, <4>2, <4>3
    <3>4. QED BY <1>3, <3>2, <3>3
  <2>3. QED BY <1>1, <2>1, <2>2 DEF ApiInv
<1>8. QED BY <1>6, <1>7

\* The processor's answers and the handler's are drafted from what is held.
LEMMA AnswersKeep ==
  ASSUME ApiInv, AnswerCommon \/ AnswerByHandler
  PROVE  ApiInv'
<1>1. /\ message' = message /\ held' = held /\ progress = "held"
      /\ AskedBy(message) /\ held = Understood(message) /\ Agreed(message)
  BY DEF ApiInv, AnswerCommon, AnswerByHandler
<1>2. AnyMessage(held) /\ held.interface \in DOMAIN Api /\ message.kind = held.kind
  BY <1>1, UnderstoodIs DEF AnyMessage
<1>3. held = [interface |-> held.interface, version |-> held.version, kind |-> held.kind,
              action |-> held.action, property |-> held.property, value |-> held.value,
              lacks |-> held.lacks, from |-> held.from, to |-> held.to, entity |-> held.entity,
              status |-> held.status, echo |-> held.echo]
  BY <1>2 DEF AnyMessage, Worded
<1>4. ASSUME NEW status \in {"success", "error"}, NEW value, NEW version,
             \/ version = Api[held.interface].version
             \/ version = held.version /\ Common,
             answer' = [interface |-> held.interface, version |-> version, kind |-> "rsp",
                        action |-> held.action, property |-> held.property, value |-> value,
                        lacks |-> {}, from |-> held.to, to |-> held.from,
                        entity |-> held.entity, status |-> status, echo |-> held.echo]
      PROVE  Drafted'
  <2>1. held.echo \in Seq(Versions)
    BY <1>2 DEF AnyMessage
  <2>2. Common' = Common
    BY <1>1 DEF Common, Entities
  <2>3. QED BY <1>1, <1>2, <1>4, <2>1, <2>2 DEF Drafted, AnyMessage, Worded
<1>5. CASE AnswerCommon
  <2>1. PICK status \in {"success", "error"} :
          answer' = [Turned(held, status) EXCEPT
                        !.value = IF held.to = "us" /\ held.property = "debug" THEN "text" ELSE @]
    BY <1>5 DEF AnswerCommon
  <2>2. PICK value : value = IF held.to = "us" /\ held.property = "debug" THEN "text"
                             ELSE held.value
    OBVIOUS
  <2>3. answer' = [interface |-> held.interface, version |-> held.version, kind |-> "rsp",
                   action |-> held.action, property |-> held.property, value |-> value,
                   lacks |-> {}, from |-> held.to, to |-> held.from,
                   entity |-> held.entity, status |-> status, echo |-> held.echo]
    BY <1>3, <2>1, <2>2 DEF Turned
  <2>4. Drafted'
    BY <1>4, <1>5, <2>3 DEF AnswerCommon
  <2>5. progress' = "handled"
    BY <1>5 DEF AnswerCommon
  <2>6. QED BY <1>1, <2>4, <2>5 DEF ApiInv, AnsweredInKind
<1>6. CASE AnswerByHandler
  <2>1. CASE HandlerIsMute
    <3>1. progress' = "unanswered" /\ answer' = answer
      BY <2>1 DEF HandlerIsMute
    <3>2. AnsweredInKind'
      BY <3>1 DEF AnsweredInKind
    <3>3. QED BY <1>1, <3>1, <3>2 DEF ApiInv
  <2>2. ASSUME NEW status \in {"success", "error"}, NEW value,
               answer' = [Turned(held, status) EXCEPT !.version = Api[held.interface].version,
                                                      !.value = value],
               progress' = "handled"
        PROVE  ApiInv'
    <3>1. PICK version : version = Api[held.interface].version
      OBVIOUS
    <3>2. answer' = [interface |-> held.interface, version |-> version, kind |-> "rsp",
                     action |-> held.action, property |-> held.property, value |-> value,
                     lacks |-> {}, from |-> held.to, to |-> held.from,
                     entity |-> held.entity, status |-> status, echo |-> held.echo]
      BY <1>3, <2>2, <3>1 DEF Turned
    <3>3. Drafted'
      BY <1>4, <3>1, <3>2
    <3>4. QED BY <1>1, <2>2, <3>3 DEF ApiInv, AnsweredInKind
  <2>3. QED BY <1>6, <2>1, <2>2 DEF AnswerByHandler, HandlerAnswers
<1>7. QED BY <1>5, <1>6

\* The way back: the last version echoed is the peer's, there is a translation to
\* it, and what an answer may fail on is its value.
LEMMA ReplyKeeps ==
  ASSUME ApiInv, Reply
  PROVE  ApiInv'
<1> DEFINE i == message.interface
           a == Api[message.interface]
<1>1. /\ message' = message /\ held' = held /\ progress = "handled"
      /\ AskedBy(message) /\ held = Understood(message) /\ Agreed(message) /\ Drafted
  BY DEF ApiInv, Reply
<1>2. message.version \in Versions /\ i \in DOMAIN Api /\ message.echo \in Seq(Versions)
  BY <1>1 DEF AskedBy, Messages, AnyMessage
<1>3. /\ held.interface = i /\ held.version = message.version /\ held.kind = message.kind
      /\ held.action = message.action /\ held.value = message.value
      /\ held.from = message.from /\ held.to = message.to
      /\ held.echo = Append(message.echo, message.version)
      /\ held.property = IF i = "tm_dig" /\ message.version = "1.0" /\ message.property = "fc"
                         THEN "center_freq" ELSE message.property
  BY <1>1, UnderstoodIs
<1>4. answer = [interface |-> i, version |-> answer.version, kind |-> "rsp",
                action |-> message.action, property |-> held.property, value |-> answer.value,
                lacks |-> {}, from |-> message.to, to |-> message.from,
                entity |-> answer.entity, status |-> answer.status, echo |-> held.echo]
  BY <1>1, <1>3 DEF Drafted, AnyMessage, Worded
<1>5. /\ answer.echo[Len(answer.echo)] = message.version
      /\ SubSeq(answer.echo, 1, Len(answer.echo) - 1) = message.echo
  <2>1. /\ Append(message.echo, message.version)[Len(Append(message.echo, message.version))]
              = message.version
        /\ SubSeq(Append(message.echo, message.version), 1,
                  Len(Append(message.echo, message.version)) - 1) = message.echo
    BY <1>2
  <2>2. QED BY <1>3, <1>4, <2>1
<1>6. /\ a.version = IF i = "tm_dig" THEN "2.0" ELSE "1.0"
      /\ a.legacy = IF i = "tm_dig" THEN {"1.0", "1.1"} ELSE {}
      /\ "rsp" \in a.kinds /\ "debug" \in a.properties /\ "text" \in a.values
      /\ a.properties \subseteq IF i = "tm_dig" THEN {"debug", "own", "center_freq"}
                                ELSE {"debug", "own"}
  BY <1>2, ApiIs
<1>7. /\ message.version \in a.legacy \cup {a.version} /\ message.version \notin {"0.9", "1.1"}
      /\ i # "sdp_dig" => held.property \in a.properties \cup {Absent}
  BY <1>1, AgreedIs
<1>8. answer.version \in {a.version, message.version}
      /\ (answer.version # a.version => Common)
      /\ answer.status \in {"success", "error"}
  BY <1>1, <1>3 DEF Drafted
<1>9. Translatable(i, answer.version, message.version)
  BY <1>6, <1>7, <1>8 DEF Translatable
<1>10. message.action \in a.actions
  BY <1>1 DEF AskedBy, Sensible
<1>11. CASE Valid(i, answer)
  <2>1. answer' = Translated(Unechoed(answer), message.version) /\ progress' = "answered"
    BY <1>4, <1>5, <1>9, <1>11 DEF Reply
  <2>2. PICK property :
          property = IF answer.version = "1.0" /\ message.version = "2.0" /\ held.property = "fc"
                     THEN "center_freq"
                     ELSE IF answer.version = "2.0" /\ message.version = "1.0"
                             /\ held.property = "center_freq" THEN "fc"
                     ELSE held.property
    OBVIOUS
  <2>3. answer' = [interface |-> i, version |-> message.version, kind |-> "rsp",
                   action |-> message.action, property |-> property, value |-> answer.value,
                   lacks |-> {}, from |-> message.to, to |-> message.from,
                   entity |-> answer.entity, status |-> answer.status, echo |-> message.echo]
    <3>1. PICK old : old = Worded(answer, answer.version, held.property, message.echo)
      OBVIOUS
    <3>2. Unechoed(answer) = old
      <4>1. Unechoed(answer) = Echoing(answer, message.echo)
        BY <1>5 DEF Unechoed, Echoing
      <4>2. answer = Worded(answer, answer.version, held.property, answer.echo)
        BY <1>1 DEF Drafted, AnyMessage
      <4>3. QED BY <3>1, <4>1, <4>2, Reworded
    <3>3. old.version = answer.version /\ old.property = held.property
      BY <3>1 DEF Worded
    <3>4. answer' = Renamed(old, property, message.version)
      BY <2>1, <2>2, <3>2, <3>3 DEF Translated, Renamed
    <3>5. answer' = Worded(answer, message.version, property, message.echo)
      BY <3>1, <3>4, Reworded
    <3>6. QED BY <1>4, <3>5 DEF Worded
  <2>4. i = "tm_dig" => Known(property, message.version)
                        \/ (held.property = "center_freq" /\ Common)
    BY <1>6, <1>7, <1>8, <2>2 DEF Known, Absent
  <2>5. Common' = Common
    BY <1>1 DEF Common, Entities
  <2>6. AnsweredInKind'
    BY <1>1, <1>8, <2>1, <2>3, <2>4, <2>5 DEF AnsweredInKind, NewWords
  <2>7. QED BY <1>1, <2>1, <2>6 DEF ApiInv
<1>12. CASE ~Valid(i, answer)
  <2>1. answer' = answer /\ progress' = "silent"
    BY <1>4, <1>5, <1>12 DEF Reply
  <2>2. answer.value \notin a.values \cup {Absent}
    <3>1. answer.kind = "rsp" /\ answer.lacks = {} /\ answer.action = message.action
          /\ answer.property = held.property
      BY <1>4
    <3>2. answer.version \in a.legacy \cup {a.version}
      BY <1>7, <1>8
    <3>3. QED BY <1>6, <1>7, <1>10, <1>12, <3>1, <3>2 DEF Valid
  <2>3. AnsweredInKind'
    BY <1>1, <2>1, <2>2 DEF AnsweredInKind
  <2>4. QED BY <1>1, <2>1, <2>3 DEF ApiInv
<1>13. QED BY <1>11, <1>12

\* Whatever a peer sends, and however many headers its message echoes: what the
\* processor holds is the message in this side's words, checked, and an answer
\* is drafted from it.
THEOREM ApiInvariant == ApiSpec => []ApiInv
<1>1. ApiInit => ApiInv
  <2>1. SUFFICES ASSUME ApiInit PROVE ApiInv
    OBVIOUS
  <2>2. message \in Messages /\ Sensible(message) /\ progress = "asked" /\ answer = message
    BY <2>1 DEF ApiInit
  <2>3. message.echo \in Seq(Versions)
    BY <2>2, EchoesAssumption DEF Messages
  <2>4. AnyMessage(message)
    BY <2>2, <2>3 DEF Messages, AnyMessage, Worded
  <2>5. QED BY <2>2, <2>4 DEF ApiInv, AskedBy, AnsweredInKind
<1>2. ApiInv /\ [ApiNext]_apiVars => ApiInv'
  <2>1. SUFFICES ASSUME ApiInv, [ApiNext]_apiVars PROVE ApiInv'
    OBVIOUS
  <2>2. CASE UNCHANGED apiVars
    <3>1. message' = message /\ held' = held /\ answer' = answer /\ progress' = progress
      BY <2>2 DEF apiVars
    <3>2. Common' = Common
      BY <3>1 DEF Common, Entities
    <3>3. AnsweredInKind'
      BY <2>1, <3>1, <3>2 DEF ApiInv, AnsweredInKind, NewWords
    <3>4. QED BY <2>1, <3>1, <3>2, <3>3 DEF ApiInv, Drafted
  <2>3. QED BY <2>1, <2>2, UnderstandKeeps, AnswersKeep, ReplyKeeps DEF ApiNext
<1>3. QED BY <1>1, <1>2, PTL DEF ApiSpec

\* A peer of any version that is answered is answered in kind; one that is not either
\* asked what cannot be understood, or was left without an answer by its handler, or the
\* answer had a value without a type (app_processor.py:180-300).
THEOREM PeersAnsweredInKind == ApiSpec => []AnsweredInKind
<1>1. ApiInv => AnsweredInKind
  BY DEF ApiInv
<1>2. QED BY <1>1, ApiInvariant, PTL
=============================================================================
