------------------------------ MODULE TcpSession ------------------------------
(***************************************************************************)
(* What the owner of a TCPClient (ipc/tcp_client.py) is promised: connect  *)
(* and disconnect events come in turns, the first is a connect event; the  *)
(* owner stops the client once.                                            *)
(***************************************************************************)

EXTENDS Naturals

VARIABLES
    told,      \* the last of the events put into the owner's queue, and its turn
    started    \* FALSE from the call of stop()

SessionInit == told = [kind |-> "none", turn |-> 0] /\ started = TRUE

Tell(kind) == told' = [kind |-> kind, turn |-> 1 - told.turn] /\ UNCHANGED started

TellConnected == told.kind # "connected" /\ Tell("connected")

TellDisconnected == told.kind = "connected" /\ Tell("disconnected")

Stop == started /\ started' = FALSE /\ UNCHANGED told

SessionNext == TellConnected \/ TellDisconnected \/ Stop

SessionSpec == SessionInit /\ [][SessionNext]_<<told, started>>
=============================================================================
