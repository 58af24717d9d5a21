---------------------------- MODULE MotorResponse ----------------------------
(***************************************************************************)
(* How the MD01 driver finds the controller's answer in the bytes it reads *)
(* (md01_driver.py, _send_md01_command_once).  An answer has Length bytes: *)
(* a start byte, digits and other bytes, an end byte.  The adapter between *)
(* the network and the serial line may put other bytes before the answer,  *)
(* among them start bytes.  The driver reads until the first Length bytes  *)
(* it holds are an answer.                                                 *)
(*                                                                         *)
(* A byte is abstracted to what the code asks of it: the start byte, the   *)
(* end byte, a byte that may stand for a digit (at most 9), or another.    *)
(***************************************************************************)
EXTENDS Naturals, Sequences, SequencesExt

CONSTANTS Length,   \* bytes of an answer (12 in the code)
          Digits,   \* the positions that must hold digits
          MaxBytes  \* bound on the bytes the socket returns

ASSUME LengthAssumption == Length \in Nat /\ Length >= 2
ASSUME DigitsAssumption == Digits \subseteq 2..(Length - 1) /\ MaxBytes \in Nat

VARIABLES stream,   \* the bytes the socket has returned
          reader    \* what the driver makes of them

answerVars == <<stream, reader>>

Start == "start"
End == "end"
Digit == "digit"
Other == "other"
Byte == {Start, End, Digit, Other}

\* What the driver holds, how many bytes it has thrown away, and whether it
\* has found the answer.
Readers == [held : Seq(Byte), discarded : Nat, found : BOOLEAN]
NewReader == [held |-> <<>>, discarded |-> 0, found |-> FALSE]

\* A candidate that begins with the start byte is a structurally valid answer.
IsAnswer(bytes) ==
    /\ bytes[Length] = End
    /\ \A i \in Digits : bytes[i] = Digit

\* Throw away the bytes before the first start byte.
Trimmed(r) ==
    LET noise == IF Contains(r.held, Start)
                   THEN SelectInSeq(r.held, LAMBDA b : b = Start) - 1
                   ELSE Len(r.held)
    IN  [r EXCEPT !.held = SubSeq(@, noise + 1, Len(@)), !.discarded = @ + noise]

\* Mutant: all of a candidate that is not an answer is thrown away.
RejectedWhole(r) ==
    [r EXCEPT !.held = SubSeq(@, Length + 1, Len(@)), !.discarded = @ + Length]

\* A candidate is not an answer: its start byte alone is thrown away.
Rejected(r) == [r EXCEPT !.held = Tail(@), !.discarded = @ + 1]

\* The part of the loop between two reads of the socket.
Searched[r \in Readers] ==
    LET t == Trimmed(r)
    IN  IF Len(t.held) < Length THEN t
        ELSE IF IsAnswer(SubSeq(t.held, 1, Length))
          THEN [t EXCEPT !.held = SubSeq(@, 1, Length), !.found = TRUE]
          ELSE Searched[Rejected(t)]

\* The socket is asked for what an answer still lacks and returns at most that.
Wanted(r) == Length - Len(r.held)
ReadBytes(r, bytes) == Searched[[r EXCEPT !.held = @ \o bytes]]

AnswerInit == stream = <<>> /\ reader = NewReader

\* recv() returns some bytes, as many as it was asked for or fewer.
Read ==
    /\ ~reader.found
    /\ \E n \in 1..Wanted(reader) :
         /\ Len(stream) + n <= MaxBytes
         /\ \E bytes \in [1..n -> Byte] :
              /\ stream' = stream \o bytes
              /\ reader' = ReadBytes(reader, bytes)

AnswerNext == Read

-----------------------------------------------------------------------------

\* The positions at which an answer begins in the stream.
AnswersAt ==
    {i \in 1..(Len(stream) - Length + 1) :
        stream[i] = Start /\ IsAnswer(SubSeq(stream, i, i + Length - 1))}

(* As soon as the bytes read contain an answer the driver has the first of *)
(* them, whatever start bytes precede it, even within Length bytes of it,  *)
(* and has read nothing beyond it; and it takes nothing else for one.      *)
ResponseFound ==
    IF AnswersAt = {} THEN ~reader.found
    ELSE LET i == Min(AnswersAt)
         IN  /\ reader.found
             /\ reader.held = SubSeq(stream, i, i + Length - 1)
             /\ Len(stream) = i + Length - 1
=============================================================================
