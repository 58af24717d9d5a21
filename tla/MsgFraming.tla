----------------------------- MODULE MsgFraming -----------------------------
(***************************************************************************)
(* How a message travels over a TCP connection (tcp_client.py and          *)
(* tcp_server.py, which hold the same code twice).  The sender cuts it     *)
(* into blocks and puts a header of two 16 bit numbers before each: the    *)
(* size of the block and the number of blocks that follow it.  The         *)
(* receiver gets a stream of bytes in pieces of any size and puts the      *)
(* messages together again.                                                *)
(*                                                                         *)
(* A header number has two digits to the base Base (256 in the code), so   *)
(* that a small instance reaches its limits.  A message is a sequence of   *)
(* bytes, a byte a number below Base.                                      *)
(***************************************************************************)
EXTENDS Naturals, Sequences, SequencesExt

CONSTANTS Base,      \* values of a byte
          MaxBlock,  \* largest number of payload bytes in one block
          Payloads,  \* messages that are sent
          MaxSent    \* bound on their number

ASSUME BaseAssumption == Base \in Nat /\ Base >= 2
\* tcp_client.py:30: MAX_BLOCK_SIZE is the largest size the header can hold.
ASSUME MaxBlockAssumption == MaxBlock \in 1..(Base * Base - 1)

ASSUME PayloadsAssumption == Payloads \subseteq Seq(0..(Base - 1)) /\ MaxSent \in Nat

HeaderLength == 4
Message == Seq(0..(Base - 1))

VARIABLES
    link,      \* the connection stands
    sent,      \* messages passed to send()
    wire,      \* bytes on their way
    receiver   \* see below

framingVars == <<link, sent, wire, receiver>>

-----------------------------------------------------------------------------
(* Sending. *)

\* struct.pack('>HH', size, remaining)
Header(size, remaining) ==
    <<size \div Base, size % Base, remaining \div Base, remaining % Base>>

\* Mutant: a last block that is not full is not counted.
BlocksFloor(bytes) == bytes \div MaxBlock

\* The number of blocks that hold so many bytes.
Blocks(bytes) == (bytes + MaxBlock - 1) \div MaxBlock

\* A message whose first header would not hold the number of blocks that
\* follow is not sent at all: struct.pack raises, and the link is dropped.
Numberable(message) == Blocks(Len(message)) <= Base * Base

\* _iter_framed_blocks: the bytes of the block that starts after offset bytes,
\* behind its header.
Framed(message, offset) ==
    LET block == SubSeq(message, offset + 1,
                        Min({offset + MaxBlock, Len(message)}))
    IN  Header(Len(block), Blocks(Len(message) - offset - Len(block))) \o block

\* What send() writes for one message.
Wire(message) ==
    FlattenSeq([i \in 1..Blocks(Len(message)) |->
                  Framed(message, (i - 1) * MaxBlock)])

-----------------------------------------------------------------------------
(* Receiving.  A receiver keeps the bytes it has not used yet, the message *)
(* it is putting together and the messages it has passed on.               *)

Receivers == [buffer : Seq(0..(Base - 1)), partial : Message,
              delivered : Seq(Message)]

NewReceiver == [buffer |-> <<>>, partial |-> <<>>, delivered |-> <<>>]

Number(high, low) == high * Base + low

\* Mutant: the message is passed on, but the next one is added to it.
TakeBlockKept(r) ==
    LET size    == Number(r.buffer[1], r.buffer[2])
        message == r.partial \o SubSeq(r.buffer, 5, HeaderLength + size)
        rest    == SubSeq(r.buffer, HeaderLength + size + 1, Len(r.buffer))
    IN  IF Number(r.buffer[3], r.buffer[4]) = 0
          THEN [buffer |-> rest, partial |-> message,
                delivered |-> Append(r.delivered, message)]
          ELSE [r EXCEPT !.buffer = rest, !.partial = message]

\* One complete block is taken out of the buffer and added to the message,
\* which is passed on if no block follows.
TakeBlock(r) ==
    LET size    == Number(r.buffer[1], r.buffer[2])
        message == r.partial \o SubSeq(r.buffer, 5, HeaderLength + size)
        rest    == SubSeq(r.buffer, HeaderLength + size + 1, Len(r.buffer))
    IN  IF Number(r.buffer[3], r.buffer[4]) = 0
          THEN [buffer |-> rest, partial |-> <<>>,
                delivered |-> Append(r.delivered, message)]
          ELSE [r EXCEPT !.buffer = rest, !.partial = message]

HasBlock(r) ==
    /\ Len(r.buffer) >= HeaderLength
    /\ Len(r.buffer) >= HeaderLength + Number(r.buffer[1], r.buffer[2])

\* The loop over all complete blocks of the buffer.
Drained[r \in Receivers] == IF HasBlock(r) THEN Drained[TakeBlock(r)] ELSE r

\* _process_msg: some bytes have come out of the socket.
Received(r, bytes) == Drained[[r EXCEPT !.buffer = @ \o bytes]]

-----------------------------------------------------------------------------

FramingInit ==
    /\ link = TRUE /\ sent = <<>> /\ wire = <<>>
    /\ receiver = NewReceiver

Send(message) ==
    /\ link /\ Len(sent) < MaxSent
    /\ IF Numberable(message)
         THEN /\ wire' = wire \o Wire(message)
              /\ sent' = Append(sent, message)
              /\ UNCHANGED link
         ELSE link' = FALSE /\ UNCHANGED <<sent, wire>>
    /\ UNCHANGED receiver

\* The socket returns some of the bytes.
Receive ==
    \E n \in 1..Len(wire) :
        /\ receiver' = Received(receiver, SubSeq(wire, 1, n))
        /\ wire' = SubSeq(wire, n + 1, Len(wire))
        /\ UNCHANGED <<link, sent>>

FramingNext == (\E message \in Payloads : Send(message)) \/ Receive

-----------------------------------------------------------------------------

\* What a receiver can get to know of a message: an empty one has no blocks.
Recognised(message) == IF message = <<>> THEN <<>> ELSE <<message>>

(* Whatever pieces the bytes arrive in, and whatever the messages contain  *)
(* and how many blocks they take, the receiver passes on a prefix of the   *)
(* messages sent, unchanged and in order, and all of them, with nothing    *)
(* kept back, when all bytes have arrived.                                 *)
MessagesArrive ==
    LET expected == FlattenSeq([i \in DOMAIN sent |-> Recognised(sent[i])])
    IN  /\ IsPrefix(receiver.delivered, expected)
        /\ wire = <<>> => receiver = [NewReceiver EXCEPT !.delivered = expected]
=============================================================================
