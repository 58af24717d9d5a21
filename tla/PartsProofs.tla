----------------------------- MODULE PartsProofs -----------------------------
(***************************************************************************)
(* Proofs about the modules of single parts that have no variables in      *)
(* common: the software defined radio (SdrStream), the motors of a mount   *)
(* (MotorPointing) and their answers (MotorResponse), the weather station  *)
(* (WeatherWatch), the framing of messages (MsgFraming), the plan of an    *)
(* observation's scans (ScanPlan), its ledger (ScanLedger), the archives   *)
(* of traces (TraceArchive) and the storing of models (ModelStore).        *)
(***************************************************************************)
EXTENDS SdrStream, MotorPointing, MotorResponse, WeatherWatch, MsgFraming,
        ScanPlan, ScanLedger, TraceArchive, ModelStore, DataLemmas

(***************************************************************************)
(* SdrStream: the ring (sdr/drivers/stream.py). What makes the blocks true *)
(* is that nothing is ever unaccounted for: the samples handed out,        *)
(* dropped, standing in the ring and on their way add up to those the      *)
(* device produced, and the ring holds the ones its counters say.          *)
(***************************************************************************)
\* Samples the producer has asked the device for and not yet written.
InFlight == IF producer.pc \in {"read", "write"} THEN chunk ELSE 0

\* The number of the oldest sample in the ring.
Oldest == origin + consumed + dropped

RingTypes ==
    /\ chunk \in Nat \ {0}
    /\ cells \in [0..(Capacity - 1) -> Int]
    /\ readPos \in 0..(Capacity - 1) /\ writePos \in 0..(Capacity - 1)
    /\ available \in 0..Capacity
    /\ consumed \in Nat /\ dropped \in Nat
    /\ next \in Int /\ origin \in Int /\ since \in Int
    /\ producer.pc \in {"none", "check", "read", "write", "end"}
    /\ DOMAIN producer = {"pc", "samples"}

\* Every sample produced was dropped or handed out, is in the ring or on its way.
Counted == Oldest + available + InFlight = next

Chunk == producer.pc \in {"read", "write"} =>
             producer.samples = [i \in 1..chunk |-> next - chunk + i - 1]

\* The ring holds consecutive samples.
RingHolds ==
    /\ writePos = (readPos + available) % Capacity
    /\ \A i \in 0..(available - 1) : cells[(readPos + i) % Capacity] = Oldest + i

RingInv == /\ RingTypes /\ Counted /\ Chunk /\ RingHolds /\ since <= Oldest

Waits(c) == calls[c].pc = "wait" /\ calls[c].answer = "none"

WorkerInv ==
    /\ calls \in [Callers -> [pc : {"idle", "call", "wait", "stop", "stopped"}, name : Names,
                              answer : {"none", "ok", "software", "hardware"}]]
    /\ commands \in Seq(Callers \cup {Sentinel})
    /\ worker \in [pc : {"get", "read", "rate", "start", "wait", "stop", "join", "fatal", "dead"},
                   for : Callers \cup {Nobody}]
    /\ worker.pc \in {"get", "fatal", "dead"} => worker.for = Nobody
    /\ worker.pc \in {"read", "rate", "start", "wait"} => worker.for # Nobody
    /\ terminal \in BOOLEAN /\ reached \in BOOLEAN
    /\ terminal => /\ worker.pc \in {"stop", "join", "dead"} /\ worker.for = Nobody
                   /\ \A c \in Callers : ~Waits(c)
    /\ ~terminal => \A c \in Callers : Waits(c) => worker.for = c \/ Contains(commands, c)

StreamInv == RingInv /\ WorkerInv /\ BlocksAreTrue

\* The ring takes at least one block.
LEMMA Sizes ==
  /\ Capacity \in Nat \ {0} /\ Block \in Nat \ {0} /\ Block <= Capacity
BY StreamAssumption

\* The numbers of the ring, for the arithmetic of the lemmas below.
LEMMA RingNumbers ==
  ASSUME RingInv
  PROVE  /\ chunk \in Nat \ {0} /\ readPos \in Nat /\ writePos \in Nat /\ readPos < Capacity
         /\ available \in Nat /\ available <= Capacity
         /\ consumed \in Nat /\ dropped \in Nat /\ next \in Int /\ origin \in Int
         /\ since \in Int /\ Oldest \in Int /\ InFlight \in Nat
         /\ Oldest = origin + consumed + dropped
BY Sizes DEF RingInv, RingTypes, Oldest, InFlight

\* Where the samples written now lie, seen from the reader.
LEMMA PutPart ==
  ASSUME RingInv, producer.pc = "write", chunk < Capacity, WritePart,
         NEW j \in 0..(available' - 1)
  PROVE  cells'[(readPos' + j) % Capacity] = Oldest + Overwritten(chunk) + j
<1>1. Capacity \in Nat \ {0}
  BY Sizes
<1>2. /\ chunk \in Nat \ {0} /\ readPos \in Nat /\ readPos < Capacity
      /\ available \in Nat /\ available <= Capacity
      /\ Oldest \in Int /\ next \in Int /\ Oldest + available + chunk = next
  BY RingNumbers DEF RingInv, Counted, InFlight
<1>3. PICK over \in Nat : /\ over = Overwritten(chunk)
                          /\ over <= available /\ available + chunk - over <= Capacity
  <2>1. /\ Overwritten(chunk) \in Nat /\ Overwritten(chunk) <= available
        /\ available + chunk - Overwritten(chunk) <= Capacity
    BY <1>1, <1>2 DEF Overwritten
  <2>2. QED BY <2>1
<1>4. /\ readPos' = (readPos + over) % Capacity
      /\ available' = available - over + chunk
      /\ cells' = Put(producer.samples, writePos)
  BY <1>3 DEF WritePart
<1>5. writePos = (readPos + available) % Capacity
  BY DEF RingInv, RingHolds
<1>6. j \in Int /\ j >= 0 /\ j < available - over + chunk
  BY <1>2, <1>4
<1>7. PICK m \in Nat : m = over + j
  BY <1>6
<1>8. (readPos' + j) % Capacity = (readPos + m) % Capacity
  <2>1. readPos + over \in Int
    BY <1>2
  <2>2. PICK s \in Int : s = readPos + over
    BY <2>1
  <2>3. ((s % Capacity) + j) % Capacity = (s + j) % Capacity
    BY <1>1, <1>6, ModSum
  <2>4. s + j = readPos + m
    BY <1>2, <1>6, <1>7, <2>2
  <2>5. QED BY <1>4, <2>2, <2>3, <2>4
<1>9. PICK pos \in 0..(Capacity - 1) : pos = (readPos + m) % Capacity
  <2>1. readPos + m \in Int
    BY <1>2
  <2>2. QED BY <1>1, <2>1, DivMod
<1>10. ((pos - writePos) % Capacity) = ((m - available) % Capacity)
  <2>1. readPos \in Int /\ m \in Int /\ available \in Int
    BY <1>2
  <2>2. (((readPos + m) % Capacity) - ((readPos + available) % Capacity)) % Capacity
          = (m - available) % Capacity
    BY <1>1, <2>1, ModBetween
  <2>3. QED BY <1>5, <1>9, <2>2, Zenon
<1>11. producer.samples = [i \in 1..chunk |-> next - chunk + i - 1]
  BY DEF RingInv, Chunk
<1>12. Len(producer.samples) = chunk
  BY <1>2, <1>11
<1>13. PICK k : k = ((m - available) % Capacity)
  OBVIOUS
<1>14. cells'[pos] = IF k < chunk THEN producer.samples[k + 1] ELSE cells[pos]
  BY <1>4, <1>9, <1>10, <1>12, <1>13 DEF Put
<1>15. CASE m < available
  <2>1. PICK x \in Int : x = m - available
    BY <1>2
  <2>2. x \in (-Capacity)..(-1)
    BY <1>1, <1>2, <1>15, <2>1
  <2>3. k = x + Capacity
    BY <1>1, <1>13, <2>1, <2>2, ModNear
  <2>4. ~(k < chunk)
    BY <1>1, <1>2, <1>3, <1>7, <1>6, <2>1, <2>3
  <2>5. cells'[pos] = cells[pos]
    BY <1>14, <2>4
  <2>6. m \in 0..(available - 1)
    BY <1>2, <1>15
  <2>7. cells[(readPos + m) % Capacity] = Oldest + m
    BY <2>6 DEF RingInv, RingHolds
  <2>8. Oldest + m = Oldest + over + j
    BY <1>2, <1>6, <1>7
  <2>9. cells'[pos] = Oldest + over + j
    BY <1>9, <2>5, <2>7, <2>8, Zenon
  <2>10. QED BY <1>3, <1>8, <1>9, <2>9, Zenon
<1>16. CASE ~(m < available)
  <2>1. PICK x \in Int : x = m - available
    BY <1>2
  <2>2. x \in 0..(Capacity - 1) /\ x < chunk
    BY <1>1, <1>2, <1>3, <1>6, <1>7, <1>16, <2>1
  <2>3. k = x
    BY <1>1, <1>13, <2>1, <2>2, ModNear
  <2>4. cells'[pos] = producer.samples[x + 1]
    BY <1>14, <2>2, <2>3
  <2>5. x + 1 \in 1..chunk
    BY <1>2, <2>2
  <2>6. producer.samples[x + 1] = next - chunk + (x + 1) - 1
    BY <1>11, <2>5
  <2>7. next - chunk + (x + 1) - 1 = Oldest + over + j
    BY <1>2, <1>6, <1>7, <2>1
  <2>8. cells'[pos] = Oldest + over + j
    BY <2>4, <2>6, <2>7, Zenon
  <2>9. QED BY <1>3, <1>8, <1>9, <2>8, Zenon
<1>17. QED BY <1>15, <1>16

\* Writing keeps the ring a ring of samples.
LEMMA PutTypes ==
  ASSUME NEW s \in Seq(Int), NEW from \in Int, cells \in [0..(Capacity - 1) -> Int]
  PROVE  Put(s, from) \in [0..(Capacity - 1) -> Int]
<1>1. Capacity \in Nat \ {0}
  BY Sizes
<1>2. ASSUME NEW i \in 0..(Capacity - 1)
      PROVE  (IF ((i - from) % Capacity) < Len(s) THEN s[((i - from) % Capacity) + 1]
                                                ELSE cells[i]) \in Int
  <2>1. PICK k \in Nat : k = ((i - from) % Capacity)
    <3>1. i - from \in Int
      OBVIOUS
    <3>2. ((i - from) % Capacity) \in 0..(Capacity - 1)
      BY <1>1, <3>1, DivMod
    <3>3. QED BY <1>1, <3>2
  <2>2. (IF k < Len(s) THEN s[k + 1] ELSE cells[i]) \in Int
    OBVIOUS
  <2>3. QED BY <2>1, <2>2
<1>3. QED BY <1>2 DEF Put

\* What a step may leave alone of the ring.
LEMMA RingKept ==
  ASSUME RingInv, UNCHANGED <<chunk, ringVars, producer, next, origin, since>>
  PROVE  RingInv'
BY DEF RingInv, RingTypes, Counted, Oldest, InFlight, Chunk, RingHolds, ringVars

\* A place in the stream is a number, and so is one counted from it.
LEMMA CountedPlace ==
  ASSUME NEW a \in Int, NEW b \in Nat, NEW c \in Nat
  PROVE  a + b + c \in Int
OBVIOUS

\* What moves samples between the device and the reader, and what is left to show for it.
LEMMA RingMoved ==
  ASSUME RingInv, chunk' = chunk,
         producer'.pc \in {"none", "check", "end"}, DOMAIN producer' = {"pc", "samples"},
         cells' \in [0..(Capacity - 1) -> Int],
         readPos' \in 0..(Capacity - 1), available' \in 0..Capacity,
         consumed' \in Nat, dropped' \in Nat, next' \in Int, origin' \in Int, since' \in Int,
         writePos' = (readPos' + available') % Capacity,
         Oldest' + available' = next', since' <= Oldest',
         \A i \in 0..(available' - 1) : cells'[(readPos' + i) % Capacity] = Oldest' + i
  PROVE  RingInv'
<1>1. writePos' \in 0..(Capacity - 1)
  <2>1. readPos' + available' \in Int /\ Capacity \in Nat \ {0}
    BY Sizes
  <2>2. ((readPos' + available') % Capacity) \in 0..(Capacity - 1)
    BY <2>1, DivMod
  <2>3. QED BY <2>2
<1>2. RingTypes'
  BY <1>1 DEF RingInv, RingTypes
<1>3. InFlight' = 0
  BY DEF InFlight
<1>4. Oldest' \in Int
  BY CountedPlace, Zenon DEF Oldest
<1>5. Counted' /\ Chunk'
  <2>1. Chunk'
    BY DEF Chunk
  <2>2. available' \in Int
    BY Sizes
  <2>3. Oldest' + available' + 0 = next'
    <3>1. PICK a \in Int : a = Oldest'
      BY <1>4
    <3>2. PICK b \in Int : b = available'
      BY <2>2
    <3>3. a + b = next'
      BY <3>1, <3>2, Zenon
    <3>4. a + b + 0 = a + b
      OBVIOUS
    <3>5. a + b + 0 = next'
      BY <3>3, <3>4, Zenon
    <3>6. QED BY <3>1, <3>2, <3>5, Zenon
  <2>4. Counted'
    BY <1>3, <2>3 DEF Counted
  <2>5. QED BY <2>1, <2>4
<1>6. RingHolds'
  BY DEF RingHolds
<1>7. QED BY <1>2, <1>5, <1>6 DEF RingInv

\* _write_ring with a chunk smaller than the ring.
LEMMA PartWritten ==
  ASSUME RingInv, producer.pc = "write", WritePart,
         producer' = [pc |-> "check", samples |-> <<>>],
         UNCHANGED <<consumed, chunk, next, origin, since>>
  PROVE  RingInv'
<1>1. Capacity \in Nat \ {0}
  BY Sizes
<1>2. /\ chunk \in Nat \ {0} /\ readPos \in Nat /\ readPos < Capacity
      /\ available \in Nat /\ available <= Capacity
      /\ consumed \in Nat /\ dropped \in Nat /\ origin \in Int /\ since \in Int
      /\ Oldest \in Int /\ next \in Int /\ Oldest + available + chunk = next
      /\ Oldest = origin + consumed + dropped /\ since <= Oldest
      /\ chunk < Capacity
  BY RingNumbers DEF RingInv, Counted, InFlight, WritePart
<1>3. PICK over \in Nat : /\ over = Overwritten(chunk)
                          /\ over <= available /\ available + chunk - over <= Capacity
  <2>1. /\ Overwritten(chunk) \in Nat /\ Overwritten(chunk) <= available
        /\ available + chunk - Overwritten(chunk) <= Capacity
    BY <1>1, <1>2 DEF Overwritten
  <2>2. QED BY <2>1
<1>4. /\ readPos' = (readPos + over) % Capacity
      /\ available' = available - over + chunk
      /\ dropped' = dropped + over
      /\ writePos' = (writePos + chunk) % Capacity
      /\ cells' = Put(producer.samples, writePos)
  BY <1>3 DEF WritePart
<1>5. readPos' \in 0..(Capacity - 1)
  <2>1. readPos + over \in Int
    BY <1>2
  <2>2. QED BY <1>1, <1>4, <2>1, DivMod
<1>6. available' \in 0..Capacity /\ dropped' \in Nat /\ consumed' \in Nat
  <2>1. available - over + chunk \in 0..Capacity
    BY <1>1, <1>2, <1>3
  <2>2. dropped + over \in Nat
    BY <1>2
  <2>3. QED BY <1>2, <1>4, <2>1, <2>2
<1>7. Oldest' = Oldest + over
  BY <1>2, <1>4 DEF Oldest
<1>8. Oldest' + available' = next' /\ since' <= Oldest'
  BY <1>2, <1>4, <1>7
<1>9. writePos' = (readPos' + available') % Capacity
  <2>1. PICK s \in Int : s = readPos + available
    BY <1>2
  <2>2. PICK t \in Int : t = readPos + over
    BY <1>2
  <2>3. writePos = s % Capacity
    BY <2>1 DEF RingInv, RingHolds
  <2>4. ((s % Capacity) + chunk) % Capacity = (s + chunk) % Capacity
    <3>1. chunk \in Int
      BY <1>2
    <3>2. QED BY <1>1, <3>1, ModSum
  <2>5. PICK a \in Int : a = available'
    BY <1>6
  <2>6. ((t % Capacity) + a) % Capacity = (t + a) % Capacity
    BY <1>1, ModSum
  <2>7. s + chunk = t + a
    BY <1>2, <1>4, <2>1, <2>2, <2>5
  <2>8. QED BY <1>4, <2>2, <2>3, <2>4, <2>5, <2>6, <2>7
<1>10. cells' \in [0..(Capacity - 1) -> Int]
  <2>1. producer.samples = [i \in 1..chunk |-> next - chunk + i - 1]
    BY DEF RingInv, Chunk
  <2>2. producer.samples \in Seq(Int)
    BY <1>2, <2>1
  <2>3. writePos \in Int /\ cells \in [0..(Capacity - 1) -> Int]
    BY Sizes DEF RingInv, RingTypes
  <2>4. QED BY <1>4, <2>2, <2>3, PutTypes
<1>11. \A i \in 0..(available' - 1) : cells'[(readPos' + i) % Capacity] = Oldest' + i
  <2>. TAKE i \in 0..(available' - 1)
  <2>1. cells'[(readPos' + i) % Capacity] = Oldest + Overwritten(chunk) + i
    BY <1>2, PutPart
  <2>2. QED BY <1>3, <1>7, <2>1
<1>12. QED BY <1>2, <1>5, <1>6, <1>8, <1>9, <1>10, <1>11, RingMoved

\* _write_ring with a chunk of the ring's size or more: its end stays.
LEMMA WholeWritten ==
  ASSUME RingInv, producer.pc = "write", WriteWhole,
         producer' = [pc |-> "check", samples |-> <<>>],
         UNCHANGED <<consumed, chunk, next, origin, since>>
  PROVE  RingInv'
<1>1. Capacity \in Nat \ {0}
  BY Sizes
<1>2. /\ chunk \in Nat \ {0}
      /\ available \in Nat /\ available <= Capacity
      /\ consumed \in Nat /\ dropped \in Nat /\ origin \in Int /\ since \in Int
      /\ Oldest \in Int /\ next \in Int /\ Oldest + available + chunk = next
      /\ Oldest = origin + consumed + dropped /\ since <= Oldest
      /\ chunk >= Capacity
  BY RingNumbers DEF RingInv, Counted, InFlight, WriteWhole
<1>3. /\ dropped' = dropped + available + chunk - Capacity
      /\ readPos' = 0 /\ writePos' = 0 /\ available' = Capacity
      /\ cells' = Put(SubSeq(producer.samples, chunk - Capacity + 1, chunk), 0)
  BY <1>1, <1>2 DEF WriteWhole, Overwritten
<1>4. Oldest' = next - Capacity
  BY <1>1, <1>2, <1>3 DEF Oldest
<1>5. writePos' = (readPos' + available') % Capacity
  BY <1>1, <1>3, ModNear
<1>6. producer.samples = [i \in 1..chunk |-> next - chunk + i - 1]
  BY DEF RingInv, Chunk
<1>7. PICK kept : kept = SubSeq(producer.samples, chunk - Capacity + 1, chunk)
  OBVIOUS
<1>8. /\ kept \in Seq(Int) /\ Len(kept) = Capacity
      /\ \A k \in 1..Capacity : kept[k] = next - Capacity + k - 1
  <2>1. PICK from \in 1..chunk : from = chunk - Capacity + 1
    BY <1>1, <1>2
  <2>2. \A k \in from..chunk : producer.samples[k] \in Int
    BY <1>2, <1>6
  <2>3. chunk \in Int /\ from \in Int /\ from <= chunk /\ chunk - from + 1 = Capacity
    BY <1>1, <1>2, <2>1
  <2>4. /\ SubSeq(producer.samples, from, chunk) \in Seq(Int)
        /\ Len(SubSeq(producer.samples, from, chunk)) =
               IF from <= chunk THEN chunk - from + 1 ELSE 0
        /\ \A k \in 1..(chunk - from + 1) :
               SubSeq(producer.samples, from, chunk)[k] = producer.samples[from + k - 1]
    BY <2>2, <2>3, SubSeqProperties
  <2>5. kept = SubSeq(producer.samples, from, chunk)
    BY <1>7, <2>1
  <2>6. /\ kept \in Seq(Int) /\ Len(kept) = Capacity
        /\ \A k \in 1..Capacity : kept[k] = producer.samples[from + k - 1]
    BY <2>3, <2>4, <2>5
  <2>7. ASSUME NEW k \in 1..Capacity PROVE kept[k] = next - Capacity + k - 1
    <3>1. PICK n \in 1..chunk : n = from + k - 1
      BY <1>1, <1>2, <2>1
    <3>2. producer.samples[n] = next - chunk + n - 1
      BY <1>6
    <3>3. kept[k] = producer.samples[n]
      BY <2>6, <3>1
    <3>4. QED BY <1>1, <1>2, <2>1, <3>1, <3>2, <3>3
  <2>8. QED BY <2>6, <2>7
<1>9. \A i \in 0..(Capacity - 1) : cells'[i] = next - Capacity + i
  <2>. TAKE i \in 0..(Capacity - 1)
  <2>1. ((i - 0) % Capacity) = i
    <3>1. i - 0 = i
      OBVIOUS
    <3>2. QED BY <1>1, <3>1, ModNear
  <2>2. cells'[i] = kept[i + 1]
    <3>1. cells'[i] = IF ((i - 0) % Capacity) < Len(kept)
                        THEN kept[((i - 0) % Capacity) + 1] ELSE cells[i]
      BY <1>3, <1>7 DEF Put
    <3>2. i < Len(kept)
      BY <1>1, <1>8
    <3>3. QED BY <2>1, <3>1, <3>2
  <2>3. i + 1 \in 1..Capacity
    BY <1>1
  <2>4. QED BY <1>1, <1>2, <1>8, <2>2, <2>3
<1>10. cells' \in [0..(Capacity - 1) -> Int]
  <2>1. cells \in [0..(Capacity - 1) -> Int] /\ kept \in Seq(Int) /\ 0 \in Int
    BY <1>8 DEF RingInv, RingTypes
  <2>2. Put(kept, 0) \in [0..(Capacity - 1) -> Int]
    BY <2>1, PutTypes
  <2>3. QED BY <1>3, <1>7, <2>2
<1>11. \A i \in 0..(available' - 1) : cells'[(readPos' + i) % Capacity] = Oldest' + i
  <2>. TAKE i \in 0..(available' - 1)
  <2>1. i \in 0..(Capacity - 1) /\ readPos' + i = i
    BY <1>1, <1>3
  <2>2. (i % Capacity) = i
    BY <1>1, <2>1, ModNear
  <2>3. QED BY <1>4, <1>9, <2>1, <2>2
<1>12. readPos' \in 0..(Capacity - 1) /\ available' \in 0..Capacity /\ dropped' \in Nat
  BY <1>1, <1>2, <1>3
<1>13. Oldest' + available' = next' /\ since' <= Oldest'
  BY <1>1, <1>2, <1>3, <1>4
<1>14. QED BY <1>2, <1>5, <1>10, <1>11, <1>12, <1>13, RingMoved

\* _read_ring hands out the oldest samples, with their numbers.
LEMMA BlockRead ==
  ASSUME RingInv, BlocksAreTrue, ReadRing
  PROVE  RingInv' /\ BlocksAreTrue'
<1>1. Capacity \in Nat \ {0} /\ Block \in Nat \ {0} /\ Block <= Capacity
  BY Sizes
<1>2. /\ readPos \in Nat /\ readPos < Capacity
      /\ available \in Nat /\ available <= Capacity /\ available >= Block
      /\ consumed \in Nat /\ dropped \in Nat /\ origin \in Int /\ since \in Int
      /\ Oldest \in Int /\ next \in Int /\ InFlight \in Nat
      /\ Oldest + available + InFlight = next
      /\ Oldest = origin + consumed + dropped /\ since <= Oldest
  BY RingNumbers DEF RingInv, Counted, ReadRing
<1>3. /\ block' = [start |-> origin + BlockStart, since |-> since,
                   samples |-> [i \in 1..Block |-> cells[(readPos + i - 1) % Capacity]]]
      /\ readPos' = (readPos + Block) % Capacity
      /\ available' = available - Block
      /\ consumed' = consumed + Block
      /\ UNCHANGED <<cells, writePos, dropped, chunk, producer, next, origin, since>>
  BY DEF ReadRing, threadVars
<1>4. \A i \in 0..(available - 1) : cells[(readPos + i) % Capacity] = Oldest + i
  BY DEF RingInv, RingHolds
<1>5. BlocksAreTrue'
  <2>1. origin + BlockStart = Oldest
    BY <1>2 DEF BlockStart
  <2>2. ASSUME NEW i \in 1..Block
        PROVE  cells[(readPos + i - 1) % Capacity] = Oldest + i - 1
    <3>1. PICK k \in 0..(available - 1) : k = i - 1
      BY <1>1, <1>2
    <3>2. readPos + k = readPos + i - 1 /\ Oldest + k = Oldest + i - 1
      BY <1>1, <1>2, <3>1
    <3>3. QED BY <1>4, <3>2
  <2>3. /\ block'.start = Oldest /\ block'.since = since
        /\ DOMAIN block'.samples = 1..Block
        /\ \A i \in 1..Block : block'.samples[i] = Oldest + i - 1
    BY <1>3, <2>1, <2>2
  <2>4. \A i \in 1..Block : Oldest + i - 1 >= since
    BY <1>1, <1>2
  <2>5. QED BY <2>3, <2>4 DEF BlocksAreTrue
<1>6. Oldest' = Oldest + Block
  BY <1>1, <1>2, <1>3 DEF Oldest
<1>7. InFlight' = InFlight
  BY <1>3 DEF InFlight
<1>8. RingTypes'
  <2>1. ((readPos + Block) % Capacity) \in 0..(Capacity - 1)
    <3>1. readPos + Block \in Int
      BY <1>1, <1>2
    <3>2. QED BY <1>1, <3>1, DivMod
  <2>2. available - Block \in 0..Capacity /\ consumed + Block \in Nat
    BY <1>1, <1>2
  <2>3. QED BY <1>3, <2>1, <2>2 DEF RingInv, RingTypes
<1>9. Counted' /\ Chunk'
  <2>1. Chunk'
    BY <1>3 DEF RingInv, Chunk
  <2>2. (Oldest + Block) + (available - Block) + InFlight = next
    BY <1>1, <1>2
  <2>3. QED BY <1>3, <1>6, <1>7, <2>1, <2>2 DEF Counted
<1>10. \A x \in Int : (readPos' + x) % Capacity = (readPos + Block + x) % Capacity
  <2>. TAKE x \in Int
  <2>1. PICK s \in Int : s = readPos + Block
    BY <1>1, <1>2
  <2>2. ((s % Capacity) + x) % Capacity = (s + x) % Capacity
    BY <1>1, ModSum
  <2>3. QED BY <1>3, <2>1, <2>2
<1>11. RingHolds'
  <2>1. writePos' = (readPos' + available') % Capacity
    <3>1. PICK a \in Int : a = available - Block
      BY <1>1, <1>2
    <3>2. readPos + Block + a = readPos + available
      BY <1>1, <1>2, <3>1
    <3>3. (readPos' + a) % Capacity = (readPos + Block + a) % Capacity
      BY <1>10
    <3>4. writePos = (readPos + available) % Capacity
      BY DEF RingInv, RingHolds
    <3>5. QED BY <1>3, <3>1, <3>2, <3>3, <3>4
  <2>2. ASSUME NEW i \in 0..(available' - 1)
        PROVE  cells'[(readPos' + i) % Capacity] = Oldest' + i
    <3>1. PICK k \in 0..(available - 1) : k = Block + i
      BY <1>1, <1>2, <1>3
    <3>2. readPos + k = readPos + Block + i
      BY <1>1, <1>2, <3>1
    <3>3. (readPos' + i) % Capacity = (readPos + k) % Capacity
      BY <1>10, <3>2
    <3>4. cells[(readPos + k) % Capacity] = Oldest + k
      BY <1>4
    <3>5. Oldest + k = Oldest' + i
      BY <1>1, <1>2, <1>6, <3>1
    <3>6. QED BY <1>3, <3>3, <3>4, <3>5
  <2>3. QED BY <2>1, <2>2 DEF RingHolds
<1>12. since' <= Oldest'
  BY <1>1, <1>2, <1>3, <1>6
<1>13. QED BY <1>5, <1>8, <1>9, <1>11, <1>12 DEF RingInv

\* The ring is emptied while no producer runs.
LEMMA RingEmptied ==
  ASSUME RingInv, producer.pc = "none", UNCHANGED <<chunk, producer, cells, next>>,
         readPos' = writePos', writePos' \in 0..(Capacity - 1), available' = 0,
         consumed' \in Nat, dropped' \in Nat, origin' \in Int,
         Oldest' = next, since' \in Int, since' <= next
  PROVE  RingInv'
<1>1. Capacity \in Nat \ {0} /\ next \in Int
  BY Sizes, RingNumbers
<1>2. writePos' = (readPos' + available') % Capacity
  <2>1. PICK w \in 0..(Capacity - 1) : w = writePos'
    OBVIOUS
  <2>2. (w % Capacity) = w
    BY <1>1, ModNear
  <2>3. w + 0 = w
    OBVIOUS
  <2>4. QED BY <2>1, <2>2, <2>3
<1>3. /\ producer'.pc \in {"none", "check", "end"} /\ DOMAIN producer' = {"pc", "samples"}
      /\ cells' \in [0..(Capacity - 1) -> Int] /\ chunk' = chunk
  BY DEF RingInv, RingTypes
<1>4. /\ readPos' \in 0..(Capacity - 1) /\ available' \in 0..Capacity /\ next' \in Int
  BY <1>1
<1>5. Oldest' + available' = next' /\ since' <= Oldest'
  BY <1>1
<1>6. \A i \in 0..(available' - 1) : cells'[(readPos' + i) % Capacity] = Oldest' + i
  BY <1>1
<1>7. QED BY <1>2, <1>3, <1>4, <1>5, <1>6, RingMoved

\* stream_reset counts what it discards.
LEMMA RingCleared ==
  ASSUME RingInv, ClearRing
  PROVE  RingInv'
<1>1. /\ readPos' = writePos /\ available' = 0 /\ dropped' = dropped + available
      /\ since' = next /\ producer.pc = "none"
      /\ UNCHANGED <<chunk, producer, cells, next, writePos, consumed, origin>>
  BY DEF ClearRing, Joined, Alive, threadVars
<1>2. InFlight = 0
  BY <1>1 DEF InFlight
<1>3. /\ available \in Nat /\ consumed \in Nat /\ dropped \in Nat /\ origin \in Int
      /\ next \in Int /\ origin + consumed + dropped + available = next
      /\ writePos \in 0..(Capacity - 1)
  <2>1. /\ available \in Nat /\ consumed \in Nat /\ dropped \in Nat /\ origin \in Int
        /\ next \in Int /\ Oldest = origin + consumed + dropped /\ Oldest \in Int
    BY RingNumbers
  <2>2. Oldest + available + 0 = next
    BY <1>2 DEF RingInv, Counted
  <2>3. QED BY <2>1, <2>2 DEF RingInv, RingTypes
<1>4. Oldest' = next
  BY <1>1, <1>3 DEF Oldest
<1>5. dropped' \in Nat /\ since' <= next
  BY <1>1, <1>3
<1>6. QED BY <1>1, <1>3, <1>4, <1>5, RingEmptied

\* _configure_ring numbers anew from what the device has produced.
LEMMA RingReconfigured ==
  ASSUME RingInv, Configure
  PROVE  RingInv'
<1>1. CASE Alive \/ device = "closed"
  <2>1. UNCHANGED <<chunk, ringVars, producer, next, origin, since>>
    BY <1>1 DEF Configure, threadVars
  <2>2. QED BY <2>1, RingKept
<1>2. CASE ~(Alive \/ device = "closed")
  <2>1. /\ readPos' = 0 /\ writePos' = 0 /\ available' = 0 /\ consumed' = 0 /\ dropped' = 0
        /\ origin' = next /\ producer.pc = "none"
        /\ UNCHANGED <<chunk, producer, cells, next, since>>
    BY <1>2 DEF Configure, ConfigureRing, threadVars, Alive
  <2>2. /\ available \in Nat /\ since \in Int /\ next \in Int /\ Oldest \in Int
        /\ since <= Oldest /\ InFlight \in Nat /\ Oldest + available + InFlight = next
    BY RingNumbers DEF RingInv, Counted
  <2>3. since <= next /\ 0 \in 0..(Capacity - 1)
    BY <2>2, Sizes
  <2>4. Oldest' = next
    BY <2>1, <2>2 DEF Oldest
  <2>5. QED BY <2>1, <2>2, <2>3, <2>4, RingEmptied
<1>3. QED BY <1>1, <1>2
(***************************************************************************)
(* SdrStream: the worker and its callers (env/device.py, sdr/facade.py). A *)
(* caller that waits without an answer is in the queue or in the worker's  *)
(* hand; Terminate, under _state_lock, leaves none.                        *)
(***************************************************************************)

Pcs == {"idle", "call", "wait", "stop", "stopped"}
Answers == {"none", "ok", "software", "hardware"}

\* A step of neither the worker nor a caller.
LEMMA WorkerKept ==
  ASSUME WorkerInv, UNCHANGED <<worker, commands, terminal, reached, calls>>
  PROVE  WorkerInv'
BY DEF WorkerInv, Waits, Contains

\* The worker goes on with the command it has in hand.
LEMMA WorkerWent ==
  ASSUME WorkerInv, NEW pc, Goto(pc), worker.pc \notin {"get", "fatal", "dead"},
         pc \in {"start", "wait", "join", "dead"},
         pc \in {"start", "wait"} => worker.pc \in {"read", "start"},
         pc = "dead" => worker.for = Nobody
  PROVE  WorkerInv'
<1>1. worker' = [worker EXCEPT !.pc = pc] /\ UNCHANGED <<commands, terminal, reached, calls>>
  BY DEF Goto
<1>2. worker \in [pc : {"get", "read", "rate", "start", "wait", "stop", "join", "fatal", "dead"},
                  for : Callers \cup {Nobody}]
  BY DEF WorkerInv
<1>3. worker'.pc = pc /\ worker'.for = worker.for
  BY <1>1, <1>2
<1>4. worker' \in [pc : {"get", "read", "rate", "start", "wait", "stop", "join", "fatal", "dead"},
                   for : Callers \cup {Nobody}]
  BY <1>1, <1>2
<1>5. \A c \in Callers : /\ Waits(c)' <=> Waits(c)
                         /\ Contains(commands, c)' <=> Contains(commands, c)
  BY <1>1 DEF Waits, Contains
<1>6. terminal => worker.pc \in {"stop", "join", "dead"} /\ worker.for = Nobody
  BY DEF WorkerInv
<1>7. terminal => pc \in {"join", "dead"}
  BY <1>6
<1>8. terminal' => /\ worker'.pc \in {"stop", "join", "dead"} /\ worker'.for = Nobody
                   /\ \A c \in Callers : ~Waits(c)'
  BY <1>1, <1>3, <1>5, <1>6, <1>7 DEF WorkerInv
<1>9. ~terminal' => \A c \in Callers : Waits(c)' => worker'.for = c \/ Contains(commands, c)'
  BY <1>1, <1>3, <1>5 DEF WorkerInv
<1>10. worker'.pc \in {"get", "fatal", "dead"} => worker'.for = Nobody
  BY <1>3
<1>11. worker'.pc \in {"read", "rate", "start", "wait"} => worker'.for # Nobody
  BY <1>3 DEF WorkerInv
<1>12. QED BY <1>1, <1>4, <1>8, <1>9, <1>10, <1>11 DEF WorkerInv

\* The future of the call in hand is set.
LEMMA CallAnswered ==
  ASSUME WorkerInv, NEW a \in {"ok", "software", "hardware"}, worker.for \in Callers,
         calls' = [calls EXCEPT ![worker.for].answer = a],
         worker' = [pc |-> IF a = "hardware" THEN "fatal" ELSE "get", for |-> Nobody],
         UNCHANGED <<commands, terminal, reached>>
  PROVE  WorkerInv'
<1>1. ~terminal
  BY StreamAssumption DEF WorkerInv
<1>2. PICK w \in Callers : w = worker.for
  OBVIOUS
<1>3. calls \in [Callers -> [pc : Pcs, name : Names, answer : Answers]]
  BY DEF WorkerInv, Pcs, Answers
<1>4. calls' \in [Callers -> [pc : Pcs, name : Names, answer : Answers]]
  <2>1. [calls[w] EXCEPT !.answer = a] \in [pc : Pcs, name : Names, answer : Answers]
    BY <1>3 DEF Answers
  <2>2. calls' = [calls EXCEPT ![w] = [calls[w] EXCEPT !.answer = a]]
    BY <1>2
  <2>3. QED BY <1>3, <2>1, <2>2
<1>5. \A c \in Callers : Waits(c)' => Waits(c) /\ c # w
  <2>1. calls'[w].answer = a
    BY <1>2, <1>3
  <2>2. \A c \in Callers : c # w => calls'[c] = calls[c]
    BY <1>2, <1>3
  <2>3. QED BY <2>1, <2>2 DEF Waits
<1>6. \A c \in Callers : Waits(c) => worker.for = c \/ Contains(commands, c)
  BY <1>1 DEF WorkerInv
<1>7. \A c \in Callers : Contains(commands, c)' <=> Contains(commands, c)
  BY DEF Contains
<1>8. worker' \in [pc : {"get", "read", "rate", "start", "wait", "stop", "join", "fatal", "dead"},
                   for : Callers \cup {Nobody}]
  OBVIOUS
<1>9. /\ worker'.pc \in {"get", "fatal", "dead"} => worker'.for = Nobody
      /\ worker'.pc \in {"read", "rate", "start", "wait"} => worker'.for # Nobody
  OBVIOUS
<1>10. ~terminal' => \A c \in Callers : Waits(c)' => worker'.for = c \/ Contains(commands, c)'
  BY <1>2, <1>5, <1>6, <1>7
<1>11. QED BY <1>1, <1>4, <1>8, <1>9, <1>10 DEF WorkerInv, Pcs, Answers

\* Who the worker works for, if for anybody, is a caller.
LEMMA InHand ==
  ASSUME WorkerInv, worker.for # Nobody
  PROVE  worker.for \in Callers
BY DEF WorkerInv

\* The command taken passes from the queue into the worker's hand.
LEMMA CommandTaken ==
  ASSUME WorkerInv, Get
  PROVE  WorkerInv'
<1>1. /\ worker.pc = "get" /\ commands # <<>> /\ worker.for = Nobody
      /\ commands \in Seq(Callers \cup {Sentinel}) /\ ~terminal
      /\ UNCHANGED <<calls, terminal, reached>>
  BY DEF WorkerInv, Get, At
<1>2. PICK h : h = Head(commands)
  OBVIOUS
<1>3. /\ h \in Callers \cup {Sentinel}
      /\ Tail(commands) \in Seq(Callers \cup {Sentinel})
      /\ Len(Tail(commands)) = Len(commands) - 1
      /\ \A i \in 1..Len(Tail(commands)) : Tail(commands)[i] = commands[i + 1]
      /\ h = commands[1]
  BY <1>1, <1>2, HeadTailProperties
<1>4. commands' = Tail(commands)
  BY DEF Get
<1>5. \A c : Contains(commands, c) => c = h \/ Contains(commands, c)'
  <2>. SUFFICES ASSUME NEW c, Contains(commands, c), c # h PROVE Contains(commands, c)'
    OBVIOUS
  <2>1. PICK i \in 1..Len(commands) : commands[i] = c
    BY DEF Contains
  <2>2. i - 1 \in 1..Len(Tail(commands)) /\ (i - 1) + 1 = i
    BY <1>1, <1>3, <2>1
  <2>3. Tail(commands)[i - 1] = c
    BY <1>3, <2>1, <2>2
  <2>4. QED BY <1>4, <2>2, <2>3 DEF Contains
<1>6. \A c \in Callers : Waits(c)' => Waits(c) /\ Contains(commands, c)
  <2>1. \A c \in Callers : Waits(c)' <=> Waits(c)
    BY <1>1 DEF Waits
  <2>2. \A c \in Callers : Waits(c) => worker.for = c \/ Contains(commands, c)
    BY <1>1 DEF WorkerInv
  <2>3. QED BY <1>1, <2>1, <2>2, StreamAssumption
<1>7. CASE h = Sentinel
  <2>1. worker' = [pc |-> "stop", for |-> Nobody]
    BY <1>2, <1>7 DEF Get
  <2>2. \A c \in Callers : Waits(c)' => worker'.for = c \/ Contains(commands, c)'
    BY <1>5, <1>6, <1>7, StreamAssumption
  <2>3. QED BY <1>1, <1>3, <1>4, <2>1, <2>2 DEF WorkerInv
<1>8. CASE h # Sentinel
  <2>1. h \in Callers /\ h # Nobody
    BY <1>3, <1>8, StreamAssumption
  <2>2. worker' = [pc |-> IF calls[h].name \in {"reset", "close"} THEN "stop" ELSE calls[h].name,
                   for |-> h]
    BY <1>2, <1>8 DEF Get
  <2>3. calls[h].name \in Names
    BY <2>1 DEF WorkerInv
  <2>4. worker'.for = h /\ worker'.pc \in {"stop", "read", "rate"}
    BY <2>2, <2>3 DEF Names
  <2>5. \A c \in Callers : Waits(c)' => worker'.for = c \/ Contains(commands, c)'
    BY <1>5, <1>6, <2>4
  <2>6. worker' \in [pc : {"get", "read", "rate", "start", "wait", "stop", "join", "fatal",
                          "dead"},
                     for : Callers \cup {Nobody}]
    BY <2>1, <2>2, <2>3 DEF Names
  <2>7. QED BY <1>1, <1>3, <1>4, <2>1, <2>4, <2>5, <2>6 DEF WorkerInv
<1>9. QED BY <1>7, <1>8

\* Every caller that waits has its failure, and none is admitted any more.
LEMMA WorkerTerminated ==
  ASSUME WorkerInv, Terminate
  PROVE  WorkerInv'
<1>1. /\ worker.pc = "fatal" /\ worker.for = Nobody /\ ~terminal
      /\ terminal' = TRUE /\ commands' = <<>> /\ reached' = reached
      /\ worker' = [pc |-> "stop", for |-> Nobody]
      /\ calls' = [c \in Callers |-> FailQueued(c)]
  BY DEF WorkerInv, Terminate, At
<1>2. calls \in [Callers -> [pc : Pcs, name : Names, answer : Answers]]
  BY DEF WorkerInv, Pcs, Answers
<1>3. \A c \in Callers : FailQueued(c) \in [pc : Pcs, name : Names, answer : Answers]
  BY <1>2 DEF FailQueued, Answers
<1>4. \A c \in Callers : ~Waits(c)'
  <2>. TAKE c \in Callers
  <2>1. CASE c \in Queued
    <3>1. calls'[c].answer = "hardware"
      BY <1>1, <1>2, <2>1 DEF FailQueued
    <3>2. QED BY <3>1 DEF Waits
  <2>2. CASE c \notin Queued
    <3>1. calls'[c] = calls[c] /\ ~Contains(commands, c)
      BY <1>1, <2>2 DEF FailQueued, Queued
    <3>2. ~Waits(c)
      BY <1>1, <3>1, StreamAssumption DEF WorkerInv
    <3>3. QED BY <3>1, <3>2 DEF Waits
  <2>3. QED BY <2>1, <2>2
<1>5. calls' \in [Callers -> [pc : Pcs, name : Names, answer : Answers]]
  BY <1>1, <1>3
<1>6. QED BY <1>1, <1>4, <1>5 DEF WorkerInv, Pcs, Answers

CallStates == [pc : Pcs, name : Names, answer : Answers]

\* A caller that does not wait, or is in the queue, may go where it likes.
LEMMA CallerMoved ==
  ASSUME WorkerInv, NEW c \in Callers, NEW rec \in CallStates, calls' = [calls EXCEPT ![c] = rec],
         ~(rec.pc = "wait" /\ rec.answer = "none") \/ (~terminal /\ Contains(commands', c)),
         commands' \in Seq(Callers \cup {Sentinel}),
         \A x \in Callers : Contains(commands, x) => Contains(commands', x),
         UNCHANGED <<worker, terminal>>, reached' \in BOOLEAN
  PROVE  WorkerInv'
<1>1. calls \in [Callers -> CallStates]
  BY DEF WorkerInv, Pcs, Answers, CallStates
<1>2. calls' \in [Callers -> CallStates] /\ calls'[c] = rec
  BY <1>1
<1>3. \A x \in Callers : Waits(x)' => \/ x # c /\ Waits(x)
                                      \/ x = c /\ ~terminal /\ Contains(commands', c)
  <2>1. \A x \in Callers : x # c => calls'[x] = calls[x]
    BY <1>1
  <2>2. QED BY <1>2, <2>1 DEF Waits
<1>4. terminal => /\ worker.pc \in {"stop", "join", "dead"} /\ worker.for = Nobody
                  /\ \A x \in Callers : ~Waits(x)
  BY DEF WorkerInv
<1>5. ~terminal => \A x \in Callers : Waits(x) => worker.for = x \/ Contains(commands, x)
  BY DEF WorkerInv
<1>6. terminal' => /\ worker'.pc \in {"stop", "join", "dead"} /\ worker'.for = Nobody
                   /\ \A x \in Callers : ~Waits(x)'
  BY <1>3, <1>4
<1>7. ~terminal' => \A x \in Callers : Waits(x)' => worker'.for = x \/ Contains(commands', x)
  BY <1>3, <1>5
<1>8. \A x : Contains(commands, x)' <=> Contains(commands', x)
  BY DEF Contains
<1>9. QED BY <1>2, <1>6, <1>7, <1>8 DEF WorkerInv, CallStates, Pcs, Answers

\* The queue grows at its end.
LEMMA QueueGrows ==
  ASSUME NEW s \in Seq(Callers \cup {Sentinel}), NEW e \in Callers \cup {Sentinel}
  PROVE  /\ Append(s, e) \in Seq(Callers \cup {Sentinel})
         /\ \A x : Contains(s, x) => Contains(Append(s, e), x)
         /\ Contains(Append(s, e), e)
<1>1. /\ Append(s, e) \in Seq(Callers \cup {Sentinel})
      /\ Len(Append(s, e)) = Len(s) + 1
      /\ \A i \in 1..Len(s) : Append(s, e)[i] = s[i]
      /\ Append(s, e)[Len(s) + 1] = e
  OBVIOUS
<1>2. 1..Len(s) \subseteq 1..(Len(s) + 1) /\ Len(s) + 1 \in 1..(Len(s) + 1)
  OBVIOUS
<1>3. QED BY <1>1, <1>2 DEF Contains

\* No step of a caller loses another's command.
LEMMA CallerSteps ==
  ASSUME WorkerInv, NEW c \in Callers, CallerStep(c)
  PROVE  WorkerInv'
<1>1. /\ calls \in [Callers -> CallStates] /\ calls[c] \in CallStates
      /\ commands \in Seq(Callers \cup {Sentinel}) /\ reached \in BOOLEAN
  BY DEF WorkerInv, Pcs, Answers, CallStates
<1>2. ASSUME NEW pc \in Pcs, pc # "wait", Move(c, pc), UNCHANGED <<worker, terminal>>,
             reached' \in BOOLEAN, commands' \in Seq(Callers \cup {Sentinel}),
             \A x \in Callers : Contains(commands, x) => Contains(commands', x)
      PROVE  WorkerInv'
  <2>1. PICK rec : rec = [calls[c] EXCEPT !.pc = pc]
    OBVIOUS
  <2>2. rec \in CallStates /\ rec.pc = pc
    BY <1>1, <2>1 DEF CallStates
  <2>3. calls' = [calls EXCEPT ![c] = rec]
    BY <1>2, <2>1 DEF Move
  <2>4. QED BY <1>2, <2>2, <2>3, CallerMoved
<1>3. ASSUME NEW call \in Names, Invoke(c, call) PROVE WorkerInv'
  <2>1. CASE reached /\ ~At("dead")
    <3>1. PICK rec : rec = [pc |-> "call", name |-> call, answer |-> "none"]
      OBVIOUS
    <3>2. rec \in CallStates /\ rec.pc = "call"
      BY <3>1 DEF CallStates, Pcs, Answers
    <3>3. calls' = [calls EXCEPT ![c] = rec] /\ UNCHANGED <<worker, commands, terminal, reached>>
      BY <1>3, <2>1, <3>1 DEF Invoke
    <3>4. QED BY <1>1, <3>2, <3>3, CallerMoved
  <2>2. CASE ~(reached /\ ~At("dead"))
    BY <1>3, <2>2, WorkerKept DEF Invoke
  <2>3. QED BY <2>1, <2>2
<1>4. CASE Gone(c)
  BY <1>1, <1>2, <1>4 DEF Gone, Pcs
<1>5. CASE Call(c)
  <2>1. CASE Admits
    <3>1. ~terminal /\ commands' = Append(commands, c) /\ Move(c, "wait")
          /\ UNCHANGED <<worker, terminal, reached>>
      BY <1>5, <2>1 DEF Call, Admits
    <3>2. PICK rec : rec = [calls[c] EXCEPT !.pc = "wait"]
      OBVIOUS
    <3>3. rec \in CallStates
      BY <1>1, <3>2 DEF CallStates, Pcs
    <3>4. calls' = [calls EXCEPT ![c] = rec]
      BY <3>1, <3>2 DEF Move
    <3>5. /\ commands' \in Seq(Callers \cup {Sentinel}) /\ Contains(commands', c)
          /\ \A x : Contains(commands, x) => Contains(commands', x)
      BY <1>1, <3>1, QueueGrows
    <3>6. QED BY <1>1, <3>1, <3>3, <3>4, <3>5, CallerMoved
  <2>2. CASE ~Admits
    <3>1. PICK a \in {"hardware", "software"} : a = IF terminal THEN "hardware" ELSE "software"
      OBVIOUS
    <3>2. PICK rec : rec = [calls[c] EXCEPT !.pc = "wait", !.answer = a]
      OBVIOUS
    <3>3. rec \in CallStates /\ rec.answer # "none"
      BY <1>1, <3>1, <3>2 DEF CallStates, Pcs, Answers
    <3>4. calls' = [calls EXCEPT ![c] = rec] /\ UNCHANGED <<commands, worker, terminal, reached>>
      BY <1>5, <2>2, <3>1, <3>2 DEF Call
    <3>5. QED BY <1>1, <3>3, <3>4, CallerMoved
  <2>3. QED BY <2>1, <2>2
<1>6. CASE Result(c)
  <2>1. /\ UNCHANGED <<worker, commands, terminal>> /\ reached' \in BOOLEAN
        /\ \E pc \in {"idle", "stop"} : Move(c, pc)
    BY <1>6 DEF Result
  <2>2. QED BY <1>1, <1>2, <2>1 DEF Pcs
<1>7. CASE Stop(c)
  <2>1. /\ Move(c, "stopped") /\ UNCHANGED <<worker, terminal, reached>>
        /\ commands' = commands \/ commands' = Append(commands, Sentinel)
    BY <1>7 DEF Stop
  <2>2. /\ commands' \in Seq(Callers \cup {Sentinel})
        /\ \A x : Contains(commands, x) => Contains(commands', x)
    BY <1>1, <2>1, QueueGrows
  <2>3. QED BY <1>1, <1>2, <2>1, <2>2 DEF Pcs
<1>8. CASE Leave(c)
  BY <1>1, <1>2, <1>8 DEF Leave, Pcs
<1>9. QED BY <1>3, <1>4, <1>5, <1>6, <1>7, <1>8 DEF CallerStep

\* Only _read_ring hands out a block.
LEMMA BlockKept ==
  ASSUME BlocksAreTrue, UNCHANGED block
  PROVE  BlocksAreTrue'
BY DEF BlocksAreTrue

\* The producer thread accounts for every sample it reads.
LEMMA ProducerSteps ==
  ASSUME StreamInv, BeginRead \/ EndRead \/ FailRead \/ EndThread \/ WriteRing
  PROVE  StreamInv'
<1>1. RingInv /\ WorkerInv /\ BlocksAreTrue
  BY DEF StreamInv
<1>2. UNCHANGED <<worker, commands, terminal, reached, calls, block>>
  BY DEF BeginRead, EndRead, FailRead, EndThread, WriteRing, facadeVars, history
<1>3. WorkerInv' /\ BlocksAreTrue'
  BY <1>1, <1>2, WorkerKept, BlockKept
<1>4. /\ chunk \in Nat \ {0} /\ next \in Int /\ Oldest \in Int /\ available \in Nat
      /\ Oldest + available + InFlight = next /\ InFlight \in Nat
  BY <1>1, RingNumbers DEF RingInv, Counted
<1>5. /\ producer.pc \in {"none", "check", "read", "write", "end"}
      /\ DOMAIN producer = {"pc", "samples"}
  BY <1>1 DEF RingInv, RingTypes
<1>6. ASSUME UNCHANGED <<ringVars, chunk, origin, since>>,
             next' \in Int, next' - InFlight' = next - InFlight,
             DOMAIN producer' = {"pc", "samples"},
             producer'.pc \in {"none", "check", "read", "write", "end"},
             producer'.pc \in {"read", "write"} =>
                 producer'.samples = [i \in 1..chunk |-> next' - chunk + i - 1]
      PROVE  RingInv'
  <2>1. RingTypes' /\ Chunk' /\ since' <= Oldest'
    BY <1>1, <1>6 DEF RingInv, RingTypes, Chunk, ringVars, Oldest
  <2>2. RingHolds'
    BY <1>1, <1>6 DEF RingInv, RingHolds, ringVars, Oldest
  <2>3. Oldest' = Oldest /\ available' = available
    BY <1>6 DEF Oldest, ringVars
  <2>4. InFlight' \in Nat
    BY <1>4, <1>6 DEF InFlight
  <2>5. Oldest + available + InFlight' = next'
    <3>1. PICK f \in Int : f = InFlight'
      BY <2>4
    <3>2. PICK g \in Int : g = InFlight
      BY <1>4
    <3>3. PICK n \in Int : n = next'
      BY <1>6
    <3>4. n - f = next - g /\ Oldest + available + g = next
      BY <1>4, <1>6, <3>1, <3>2, <3>3
    <3>5. Oldest + available + f = n
      BY <1>4, <3>4
    <3>6. QED BY <3>1, <3>3, <3>5
  <2>6. Counted'
    BY <2>3, <2>5 DEF Counted
  <2>7. QED BY <2>1, <2>2, <2>6 DEF RingInv
<1>7. CASE BeginRead
  <2>1. producer.pc = "check" /\ InFlight = 0 /\ UNCHANGED <<ringVars, chunk, origin, since>>
    BY <1>7 DEF BeginRead, InFlight, history
  <2>2. CASE running
    <3>1. /\ producer' = [pc |-> "read", samples |-> [i \in 1..chunk |-> next + i - 1]]
          /\ next' = next + chunk
      BY <1>7, <2>2 DEF BeginRead
    <3>2. InFlight' = chunk
      BY <2>1, <3>1 DEF InFlight
    <3>3. next' \in Int /\ next' - InFlight' = next - InFlight
      BY <1>4, <2>1, <3>1, <3>2
    <3>4. ASSUME NEW i \in 1..chunk PROVE next + i - 1 = next' - chunk + i - 1
      BY <1>4, <3>1
    <3>5. producer'.samples = [i \in 1..chunk |-> next' - chunk + i - 1]
      BY <3>1, <3>4
    <3>6. QED BY <1>3, <1>6, <2>1, <3>1, <3>3, <3>5 DEF StreamInv
  <2>3. CASE ~running
    <3>1. producer' = [producer EXCEPT !.pc = "none"] /\ next' = next
      BY <1>7, <2>3 DEF BeginRead
    <3>2. producer'.pc = "none" /\ DOMAIN producer' = {"pc", "samples"}
      BY <1>5, <3>1
    <3>3. InFlight' = 0
      BY <3>2 DEF InFlight
    <3>4. QED BY <1>3, <1>4, <1>6, <2>1, <3>1, <3>2, <3>3 DEF StreamInv
  <2>4. QED BY <2>2, <2>3
<1>8. CASE EndRead
  <2>1. /\ producer.pc = "read" /\ producer' = [producer EXCEPT !.pc = "write"]
        /\ UNCHANGED <<ringVars, chunk, origin, since, next>>
    BY <1>8 DEF EndRead, history
  <2>2. /\ producer'.pc = "write" /\ DOMAIN producer' = {"pc", "samples"}
        /\ producer'.samples = producer.samples
    BY <1>5, <2>1
  <2>3. InFlight' = InFlight
    BY <2>1, <2>2 DEF InFlight
  <2>4. producer'.samples = [i \in 1..chunk |-> next' - chunk + i - 1]
    BY <1>1, <2>1, <2>2 DEF RingInv, Chunk
  <2>5. QED BY <1>3, <1>4, <1>6, <2>1, <2>2, <2>3, <2>4 DEF StreamInv
<1>9. CASE FailRead
  <2>1. /\ producer.pc = "read" /\ producer' = [pc |-> "end", samples |-> <<>>]
        /\ next' = next - chunk /\ UNCHANGED <<ringVars, chunk, origin, since>>
    BY <1>9 DEF FailRead, history
  <2>2. InFlight = chunk /\ InFlight' = 0
    BY <2>1 DEF InFlight
  <2>3. next' \in Int /\ next' - InFlight' = next - InFlight
    BY <1>4, <2>1, <2>2
  <2>4. QED BY <1>3, <1>6, <2>1, <2>3 DEF StreamInv
<1>10. CASE EndThread
  <2>1. /\ producer.pc = "end" /\ producer' = [producer EXCEPT !.pc = "none"]
        /\ UNCHANGED <<ringVars, chunk, origin, since, next>>
    BY <1>10 DEF EndThread, history
  <2>2. producer'.pc = "none" /\ DOMAIN producer' = {"pc", "samples"}
    BY <1>5, <2>1
  <2>3. InFlight' = 0 /\ InFlight = 0
    BY <2>1, <2>2 DEF InFlight
  <2>4. QED BY <1>3, <1>4, <1>6, <2>1, <2>2, <2>3 DEF StreamInv
<1>11. CASE WriteRing
  <2>1. /\ producer.pc = "write" /\ producer' = [pc |-> "check", samples |-> <<>>]
        /\ UNCHANGED <<consumed, chunk, next, origin, since>>
        /\ WriteWhole \/ WritePart
    BY <1>11 DEF WriteRing, WriteWhole, WritePart, history
  <2>2. RingInv'
    BY <1>1, <2>1, PartWritten, WholeWritten
  <2>3. QED BY <1>3, <2>2 DEF StreamInv
<1>12. QED BY <1>7, <1>8, <1>9, <1>10, <1>11

\* The worker's steps, one case each.
LEMMA WorkerSteps ==
  ASSUME StreamInv, WorkerStep
  PROVE  StreamInv'
<1>1. RingInv /\ WorkerInv /\ BlocksAreTrue
  BY DEF StreamInv
<1>2. ASSUME UNCHANGED <<ringVars, chunk, producer, next, history>>, WorkerInv' PROVE StreamInv'
  BY <1>1, <1>2, RingKept, BlockKept DEF StreamInv, history
<1>3. CASE Get
  BY <1>1, <1>2, <1>3, CommandTaken DEF Get, threadVars
<1>4. CASE ReadCheck
  <2>1. worker.pc = "read" /\ worker.for \in Callers
    BY <1>1, <1>4 DEF ReadCheck, At, WorkerInv
  <2>2. Goto("start") \/ Answer("ok")
    BY <1>4 DEF ReadCheck
  <2>3. WorkerInv'
    BY <1>1, <2>1, <2>2, WorkerWent, CallAnswered DEF Answer
  <2>4. QED BY <1>2, <1>4, <2>3 DEF ReadCheck, threadVars
<1>5. CASE StartStream
  <2>1. worker.pc = "start" /\ Goto("wait")
    BY <1>5 DEF StartStream, At
  <2>2. WorkerInv'
    BY <1>1, <2>1, WorkerWent
  <2>3. CASE Alive
    BY <1>2, <1>5, <2>2, <2>3 DEF StartStream
  <2>4. CASE ~Alive
    <3>1. /\ producer.pc = "none" /\ producer' = [pc |-> "check", samples |-> <<>>]
          /\ UNCHANGED <<ringVars, chunk, next, history>>
      BY <1>5, <2>4 DEF StartStream, Alive
    <3>2. InFlight = 0 /\ InFlight' = 0
      BY <3>1 DEF InFlight
    <3>3. RingInv'
      BY <1>1, <3>1, <3>2 DEF RingInv, RingTypes, Counted, Oldest, Chunk, RingHolds,
         ringVars, history
    <3>4. QED BY <1>1, <2>2, <3>1, <3>3, BlockKept DEF StreamInv, history
  <2>5. QED BY <2>3, <2>4
<1>6. CASE ReadRing
  <2>1. worker.pc = "wait" /\ worker.for \in Callers /\ Answer("ok")
    BY <1>1, <1>6 DEF ReadRing, At, WorkerInv
  <2>2. WorkerInv'
    BY <1>1, <2>1, CallAnswered DEF Answer
  <2>3. QED BY <1>1, <1>6, <2>2, BlockRead DEF StreamInv
<1>7. CASE ReadFails
  <2>1. worker.pc = "wait" /\ worker.for \in Callers /\ Fatal
    BY <1>1, <1>7 DEF ReadFails, At, WorkerInv
  <2>2. WorkerInv'
    BY <1>1, <2>1, CallAnswered DEF Fatal
  <2>3. QED BY <1>2, <1>7, <2>2 DEF ReadFails, threadVars
<1>8. CASE StopStream
  <2>1. worker.pc = "stop" /\ Goto("join")
    BY <1>8 DEF StopStream, At
  <2>2. WorkerInv'
    BY <1>1, <2>1, WorkerWent
  <2>3. QED BY <1>2, <1>8, <2>2 DEF StopStream
<1>9. CASE ClearRing
  <2>1. worker.for \in Callers /\ Answer("ok")
    BY <1>1, <1>9, InHand DEF ClearRing
  <2>2. WorkerInv'
    BY <1>1, <2>1, CallAnswered DEF Answer
  <2>3. RingInv' /\ BlocksAreTrue'
    BY <1>1, <1>9, RingCleared, BlockKept DEF ClearRing
  <2>4. QED BY <2>2, <2>3 DEF StreamInv
<1>10. CASE CloseDevice
  <2>1. worker.pc = "join"
    BY <1>10 DEF CloseDevice, At
  <2>2. CASE worker.for = Nobody
    <3>1. Goto("dead")
      BY <1>10, <2>2 DEF CloseDevice
    <3>2. WorkerInv'
      BY <1>1, <2>1, <2>2, <3>1, WorkerWent
    <3>3. QED BY <1>2, <1>10, <3>2 DEF CloseDevice
  <2>3. CASE worker.for # Nobody
    <3>1. worker.for \in Callers /\ Answer("ok")
      BY <1>1, <1>10, <2>3, InHand DEF CloseDevice
    <3>2. WorkerInv'
      BY <1>1, <3>1, CallAnswered DEF Answer
    <3>3. QED BY <1>2, <1>10, <3>2 DEF CloseDevice
  <2>4. QED BY <2>2, <2>3
<1>11. CASE JoinFails
  <2>1. worker.pc = "join"
    BY <1>11 DEF JoinFails, At
  <2>2. CASE worker.for = Nobody
    <3>1. Goto("dead")
      BY <1>11, <2>2 DEF JoinFails
    <3>2. WorkerInv'
      BY <1>1, <2>1, <2>2, <3>1, WorkerWent
    <3>3. QED BY <1>2, <1>11, <3>2 DEF JoinFails, threadVars
  <2>3. CASE worker.for # Nobody
    <3>1. worker.for \in Callers /\ Fatal
      BY <1>1, <1>11, <2>3, InHand DEF JoinFails
    <3>2. WorkerInv'
      BY <1>1, <3>1, CallAnswered DEF Fatal
    <3>3. QED BY <1>2, <1>11, <3>2 DEF JoinFails, threadVars
  <2>4. QED BY <2>2, <2>3
<1>12. CASE Configure
  <2>1. worker.for \in Callers
    BY <1>1, <1>12 DEF Configure, At, WorkerInv
  <2>2. Answer("software") \/ Fatal \/ Answer("ok")
    BY <1>12 DEF Configure
  <2>3. WorkerInv'
    BY <1>1, <2>1, <2>2, CallAnswered DEF Answer, Fatal
  <2>4. RingInv' /\ BlocksAreTrue'
    BY <1>1, <1>12, RingReconfigured, BlockKept DEF Configure
  <2>5. QED BY <2>3, <2>4 DEF StreamInv
<1>13. CASE Terminate
  BY <1>1, <1>2, <1>13, WorkerTerminated DEF Terminate, threadVars
<1>14. QED BY <1>3, <1>4, <1>5, <1>6, <1>7, <1>8, <1>9, <1>10, <1>11, <1>12, <1>13 DEF WorkerStep

\* Whatever the producer, the worker and the callers do, and for every size of ring, block
\* and chunk, no sample is unaccounted for, the ring holds the samples its counters claim,
\* and a caller that waits is in the queue or in hand until the worker terminates
\* (stream.py: _write_ring, _read_ring, stream_reset; device.py: _state_lock).
THEOREM StreamIsWhole == StreamInit /\ [][StreamNext]_streamVars => []StreamInv
<1>1. StreamInit => StreamInv
  <2>. SUFFICES ASSUME StreamInit PROVE StreamInv
    OBVIOUS
  <2>1. RingInv
    <3>1. Capacity \in Nat \ {0} /\ chunk \in Nat \ {0}
      BY Sizes, StreamAssumption DEF StreamInit
    <3>2. (0 % Capacity) = 0
      BY <3>1, ModNear
    <3>3. InFlight = 0 /\ Oldest = 0
      BY DEF StreamInit, InFlight, Oldest
    <3>4. RingTypes
      BY <3>1 DEF StreamInit, RingTypes
    <3>5. Counted /\ Chunk /\ since <= Oldest
      BY <3>3 DEF StreamInit, Counted, Chunk
    <3>6. RingHolds
      BY <3>2 DEF StreamInit, RingHolds
    <3>7. QED BY <3>4, <3>5, <3>6 DEF RingInv
  <2>2. WorkerInv
    <3>1. \A c \in Callers : ~Waits(c)
      BY DEF StreamInit, Waits
    <3>2. calls \in [Callers -> [pc : {"idle", "call", "wait", "stop", "stopped"}, name : Names,
                                 answer : {"none", "ok", "software", "hardware"}]]
      BY DEF StreamInit, Names
    <3>3. commands \in Seq(Callers \cup {Sentinel})
      BY DEF StreamInit
    <3>4. QED BY <3>1, <3>2, <3>3 DEF StreamInit, WorkerInv
  <2>3. BlocksAreTrue
    BY DEF StreamInit, BlocksAreTrue
  <2>4. QED BY <2>1, <2>2, <2>3 DEF StreamInv
<1>2. StreamInv /\ [StreamNext]_streamVars => StreamInv'
  <2>. SUFFICES ASSUME StreamInv, [StreamNext]_streamVars PROVE StreamInv'
    OBVIOUS
  <2>1. CASE StreamNext
    <3>1. ASSUME NEW c \in Callers, CallerStep(c) PROVE StreamInv'
      <4>1. WorkerInv'
        BY <3>1, CallerSteps DEF StreamInv
      <4>2. UNCHANGED <<ringVars, chunk, producer, next, origin, since, block>>
        BY <3>1 DEF CallerStep, Invoke, Gone, Call, Result, Stop, Leave, threadVars, history
      <4>3. QED BY <4>1, <4>2, RingKept, BlockKept DEF StreamInv
    <3>2. QED BY <2>1, <3>1, ProducerSteps, WorkerSteps DEF StreamNext
  <2>2. CASE UNCHANGED streamVars
    BY <2>2, RingKept, WorkerKept, BlockKept
       DEF StreamInv, streamVars, threadVars, facadeVars, history
  <2>3. QED BY <2>1, <2>2
<1>3. QED BY <1>1, <1>2, PTL

\* A block handed out holds the samples its metadata claim, none of them asked for before the
\* last reset, and a hardware failure answers everybody (stream.py: sample_index_start;
\* device.py: "_fail_pending_commands").
THEOREM RadioAnswers == StreamInit /\ [][StreamNext]_streamVars => []RadioIsReliable
<1>1. StreamInv => RadioIsReliable
  BY DEF StreamInv, WorkerInv, Waits, RadioIsReliable, FailureAnswersAll
<1>2. QED BY <1>1, StreamIsWhole, PTL
(***************************************************************************)
(* MotorPointing (dsh/drivers/md01). The conversions lose less than a      *)
(* pulse, which is what the poll's comparison allows, and a position that  *)
(* can be reached is not cut short.                                        *)
(***************************************************************************)
\* A small difference of azimuths is recognised as one, whatever the circle.
LEMMA SmallTurn ==
  ASSUME NEW x \in Int, -Pulse < x, x < Pulse
  PROVE  Abs(((x + Half) % Circle) - Half) <= Pulse
<1>1. Half \in Nat \ {0} /\ Pulse \in Nat \ {0} /\ Circle \in Nat \ {0} /\ Circle = Half + Half
  BY PointingAssumption DEF Circle
<1>. DEFINE r == (x + Half) % Circle
<1>2. r \in 0..(Circle - 1)
  BY <1>1, DivMod
<1>3. CASE (x + Half) \in 0..(Circle - 1)
  <2>1. r = x + Half
    BY <1>1, <1>3, ModNear
  <2>. HIDE DEF r
  <2>2. QED BY <1>1, <2>1 DEF Abs
<1>4. CASE (x + Half) \notin 0..(Circle - 1)
  <2>. HIDE DEF r
  <2>1. Half <= Pulse
    BY <1>1, <1>4
  <2>2. Abs(r - Half) <= Half
    BY <1>1, <1>2 DEF Abs
  <2>3. r - Half \in Int /\ Abs(r - Half) \in Int
    BY <1>1, <1>2 DEF Abs
  <2>4. Abs(r - Half) <= Pulse
    BY <1>1, <2>1, <2>2, <2>3
  <2>5. QED BY <2>4 DEF r
<1>5. QED BY <1>3, <1>4

\* The numbers of the mount.
LEMMA Mounted ==
  ASSUME config \in Mounts
  PROVE  /\ config.alt[1] \in Int /\ config.alt[2] \in Int
         /\ config.az[1] \in Int /\ config.az[2] \in Int
         /\ config.offset[1] \in Int /\ config.offset[2] \in Int
         /\ config.shortWay \in BOOLEAN /\ config.alt[2] <= Quarter
<1>1. Quarter \in Int /\ Half \in Int /\ Circle \in Int
  BY PointingAssumption DEF Quarter, Circle
<1>2. config \in ValidMounts
  BY PointingAssumption
<1>3. config \in [alt : (-Quarter..Quarter) \X (-Quarter..Quarter),
                  az : (-Half..(3 * Half)) \X (-Half..(3 * Half)),
                  offset : (-Quarter..Quarter) \X (-Circle..Circle), shortWay : BOOLEAN]
  BY <1>2 DEF ValidMounts
<1>4. /\ config.alt \in (-Quarter..Quarter) \X (-Quarter..Quarter)
      /\ config.az \in (-Half..(3 * Half)) \X (-Half..(3 * Half))
      /\ config.offset \in (-Quarter..Quarter) \X (-Circle..Circle)
  BY <1>3
<1>5. /\ config.alt[1] \in -Quarter..Quarter /\ config.alt[2] \in -Quarter..Quarter
      /\ config.az[1] \in -Half..(3 * Half) /\ config.az[2] \in -Half..(3 * Half)
      /\ config.offset[1] \in -Quarter..Quarter /\ config.offset[2] \in -Circle..Circle
  BY <1>4
<1>6. QED BY <1>1, <1>3, <1>5

\* One axis: what is sent, what is read back, and what the poll compares it with.
LEMMA Axis ==
  ASSUME NEW w \in Int, NEW o \in Int, NEW n \in Int, n = (w + o + Circle) \div Pulse
  PROVE  LET c == ((n * Pulse) - Circle) - o
         IN  /\ c \in Int /\ c <= w /\ w < c + Pulse
             /\ -Pulse < c - Truncated(w) /\ c - Truncated(w) < Pulse
             /\ c - Truncated(w) \in Int
<1>1. Pulse \in Nat \ {0} /\ Circle \in Int
  BY PointingAssumption DEF Circle
<1>. DEFINE x == w + o + Circle
<1>2. x \in Int
  BY <1>1
<1>3. /\ (x % Pulse) \in 0..(Pulse - 1)
      /\ x = (Pulse * n) + (x % Pulse)
  BY <1>1, <1>2, DivMod
<1>4. /\ w \div Pulse \in Int /\ (w % Pulse) \in 0..(Pulse - 1)
      /\ w = (Pulse * (w \div Pulse)) + (w % Pulse)
  BY <1>1, DivMod
<1>5. PICK d \in Int : d = w \div Pulse
  BY <1>4
<1>6. PICK m \in 0..(Pulse - 1) : m = x % Pulse
  BY <1>3
<1>7. PICK l \in 0..(Pulse - 1) : l = w % Pulse
  BY <1>4
<1>8. w = (Pulse * d) + l /\ Truncated(w) = d * Pulse
  BY <1>4, <1>5, <1>7 DEF Truncated
<1>9. w + o + Circle = (Pulse * n) + m
  BY <1>3, <1>6
<1>10. PICK a \in Int : a = Pulse * n
  BY <1>1
<1>11. PICK b \in Int : b = Pulse * d
  BY <1>1
<1>12. n * Pulse = a /\ Truncated(w) = b
  BY <1>1, <1>8, <1>10, <1>11
<1>13. w = b + l /\ w + o + Circle = a + m
  BY <1>8, <1>9, <1>10, <1>11
<1>14. QED BY <1>1, <1>12, <1>13
PointingInv == /\ config \in Mounts
               /\ mount[1] \in Int /\ mount[2] \in Int
               /\ GoesWhereAsked

\* What a command that no limit cuts short leaves the mount at.
LEMMA Arrival ==
  ASSUME config \in Mounts, config' = config,
         NEW w, w[1] \in Int, w[2] \in Int, CanReach(w), mount' = SetAltAz(w)
  PROVE  /\ mount'[1] \in Int /\ mount'[2] \in Int
         /\ Within(CurrentAltAz', w)
         /\ (w[1] >= 0 /\ w[1] <= Quarter) => ArrivalSeen(CurrentAltAz', w)
         /\ w[1] > Quarter => config.offset[1] < 0
         /\ \A i \in 1..2 : Abs(CurrentAltAz'[i] - w[i]) < Pulse
<1>1. /\ config.offset[1] \in Int /\ config.offset[2] \in Int
      /\ config.alt[1] \in Int /\ config.alt[2] \in Int
      /\ config.az[1] \in Int /\ config.az[2] \in Int
      /\ config.alt[2] <= Quarter
  BY Mounted
<1>2. /\ Pulse \in Nat \ {0} /\ Circle \in Int /\ Half \in Int
      /\ Quarter \in Int /\ Pulse <= Quarter
  BY PointingAssumption DEF Circle, Quarter
<1>3. PICK o1 \in Int : o1 = config.offset[1]
  BY <1>1
<1>4. PICK o2 \in Int : o2 = config.offset[2]
  BY <1>1
<1>. DEFINE q == OffsetCorr(w)
<1>5. q[1] = w[1] + o1 /\ q[2] = w[2] + o2
  BY <1>3, <1>4 DEF OffsetCorr
<1>6. Clamped(q[1], config.alt) = q[1] /\ Clamped(q[2], config.az) = q[2]
  <2>1. /\ q[1] >= config.alt[1] /\ q[1] <= config.alt[2]
        /\ q[2] >= config.az[1] /\ q[2] <= config.az[2]
    BY DEF CanReach
  <2>2. q[1] \in Int /\ q[2] \in Int
    BY <1>3, <1>4, <1>5
  <2>. HIDE DEF q
  <2>3. QED BY <1>1, <2>1, <2>2 DEF Clamped
<1>7. mount' = Encoded(<<q[1], q[2]>>)
  BY <1>6 DEF SetAltAz
<1>. HIDE DEF q
<1>8. /\ mount'[1] = (w[1] + o1 + Circle) \div Pulse
      /\ mount'[2] = (w[2] + o2 + Circle) \div Pulse
  BY <1>5, <1>7 DEF Encoded
<1>9. mount'[1] \in Int /\ mount'[2] \in Int
  <2>1. w[1] + o1 + Circle \in Int /\ w[2] + o2 + Circle \in Int
    BY <1>2
  <2>2. /\ (w[1] + o1 + Circle) \div Pulse \in Int
        /\ (w[2] + o2 + Circle) \div Pulse \in Int
    BY <1>2, <2>1, DivMod
  <2>3. QED BY <1>8, <2>2
<1>10. PICK n1 \in Int : n1 = mount'[1]
  BY <1>9
<1>11. PICK n2 \in Int : n2 = mount'[2]
  BY <1>9
<1>12. PICK w1 \in Int : w1 = w[1]
  OBVIOUS
<1>13. PICK w2 \in Int : w2 = w[2]
  OBVIOUS
<1>14. PICK c1 \in Int : c1 = ((n1 * Pulse) - Circle) - o1
  BY <1>2
<1>15. PICK c2 \in Int : c2 = ((n2 * Pulse) - Circle) - o2
  BY <1>2
<1>16. CurrentAltAz'[1] = c1 /\ CurrentAltAz'[2] = c2
  <2>1. CurrentAltAz' = [i \in 1..2 |-> (mount'[i] * Pulse - Circle) - config'.offset[i]]
    BY DEF CurrentAltAz, OffsetInvCorr, Decoded
  <2>2. /\ CurrentAltAz'[1] = (mount'[1] * Pulse - Circle) - config.offset[1]
        /\ CurrentAltAz'[2] = (mount'[2] * Pulse - Circle) - config.offset[2]
    BY <2>1
  <2>3. QED BY <2>2, <1>3, <1>4, <1>10, <1>11, <1>14, <1>15
<1>17. n1 = (w1 + o1 + Circle) \div Pulse /\ n2 = (w2 + o2 + Circle) \div Pulse
  BY <1>8, <1>10, <1>11, <1>12, <1>13
<1>18. /\ c1 <= w1 /\ w1 < c1 + Pulse
       /\ -Pulse < c1 - Truncated(w1) /\ c1 - Truncated(w1) < Pulse
       /\ c1 - Truncated(w1) \in Int
  BY <1>14, <1>17, Axis
<1>19. /\ c2 <= w2 /\ w2 < c2 + Pulse
       /\ -Pulse < c2 - Truncated(w2) /\ c2 - Truncated(w2) < Pulse
       /\ c2 - Truncated(w2) \in Int
  BY <1>15, <1>17, Axis
<1>20. \A i \in 1..2 : Abs(CurrentAltAz'[i] - w[i]) < Pulse
  <2>1. Abs(c1 - w1) < Pulse /\ Abs(c2 - w2) < Pulse
    BY <1>2, <1>18, <1>19 DEF Abs
  <2>2. QED BY <2>1, <1>12, <1>13, <1>16
<1>21. Within(CurrentAltAz', w)
  <2>1. PICK d1 \in Int : d1 = c1 - Truncated(w1)
    BY <1>18
  <2>2. PICK d2 \in Int : d2 = c2 - Truncated(w2)
    BY <1>19
  <2>3. Abs(d1) <= Pulse
    BY <1>2, <1>18, <2>1 DEF Abs
  <2>4. Abs(((d2 + Half) % Circle) - Half) <= Pulse
    BY <1>19, <2>2, SmallTurn
  <2>5. /\ Abs(CurrentAltAz'[1] - Truncated(w[1])) <= Pulse
        /\ Abs((((CurrentAltAz'[2] - Truncated(w[2])) + Half) % Circle) - Half) <= Pulse
    BY <2>1, <2>2, <2>3, <2>4, <1>12, <1>13, <1>16
  <2>6. QED BY <2>5 DEF Within
<1>22. ASSUME w[1] >= 0, w[1] <= Quarter PROVE ArrivalSeen(CurrentAltAz', w)
  <2>1. Abs(c1) <= Quarter
    BY <1>2, <1>12, <1>18, <1>22 DEF Abs
  <2>2. QED BY <2>1, <1>16, <1>21 DEF ArrivalSeen
<1>23. ASSUME w[1] > Quarter PROVE config.offset[1] < 0
  <2>1. w1 + o1 <= config.alt[2]
    BY <1>5, <1>12 DEF CanReach, q
  <2>2. QED BY <1>1, <1>2, <1>3, <1>12, <1>23, <2>1
<1>24. QED BY <1>9, <1>20, <1>21, <1>22, <1>23

\* Both positions of a direction are angles.
LEMMA BothPositions ==
  ASSUME NEW p \in Directions
  PROVE  /\ p[1] \in Int /\ p[2] \in Int /\ Flipped(p)[1] \in Int /\ Flipped(p)[2] \in Int
         /\ p[1] >= 0 /\ Flipped(p)[1] >= 0
<1>1. Half \in Nat \ {0} /\ Circle \in Nat \ {0}
  BY PointingAssumption DEF Circle
<1>2. Quarter \in Int /\ Quarter <= Half
  BY <1>1, DivMod DEF Quarter
<1>3. p[1] \in 0..Quarter /\ p[2] \in Int
  BY <1>1, <1>2 DEF Directions
<1>4. ((p[2] + Half) % Circle) \in Int
  BY <1>1, <1>3
<1>5. QED BY <1>1, <1>2, <1>3, <1>4 DEF Flipped

\* What the controller reports is an angle.
LEMMA MountShown ==
  ASSUME config \in Mounts, mount[1] \in Int, mount[2] \in Int
  PROVE  CurrentAltAz[2] \in Int
<1>1. config.offset[2] \in Int /\ Pulse \in Int /\ Circle \in Int
  BY Mounted, PointingAssumption DEF Circle
<1>2. CurrentAltAz[2] = ((mount[2] * Pulse) - Circle) - config.offset[2]
  BY DEF CurrentAltAz, OffsetInvCorr, Decoded
<1>3. mount[2] * Pulse \in Int
  BY <1>1
<1>4. QED BY <1>1, <1>2, <1>3

\* Of the positions the mount can take, the one chosen is the nearest in azimuth.
LEMMA BestChosen ==
  ASSUME config \in Mounts, mount[1] \in Int, mount[2] \in Int,
         NEW p \in Directions, NEW w, w = SelectCommandAltAz(p)
  PROVE  /\ w \in Pointings(p)
         /\ w[1] \in Int /\ w[2] \in Int /\ w[1] >= 0
         /\ CanReach(w) => \A q \in Pointings(p) :
                CanReach(q) => Abs(w[2] - CurrentAltAz[2]) <= Abs(q[2] - CurrentAltAz[2])
         /\ ~CanReach(w) => \A q \in Pointings(p) : ~CanReach(q)
<1>1. /\ p[1] \in Int /\ p[2] \in Int /\ Flipped(p)[1] \in Int /\ Flipped(p)[2] \in Int
      /\ p[1] >= 0 /\ Flipped(p)[1] >= 0
  BY BothPositions
<1>2. PICK c \in Int : c = CurrentAltAz[2]
  BY MountShown
<1>3. PICK x \in Int : x = Abs(p[2] - c)
  BY <1>1 DEF Abs
<1>4. PICK y \in Int : y = Abs(Flipped(p)[2] - c)
  BY <1>1 DEF Abs
<1>5. CASE DoFlip(p)
  <2>1. /\ w = Flipped(p) /\ config.shortWay /\ CanReach(Flipped(p))
        /\ (~CanReach(p) \/ y < x)
    BY <1>2, <1>3, <1>4, <1>5 DEF DoFlip, SelectCommandAltAz
  <2>2. Pointings(p) = {p, Flipped(p)}
    BY <2>1 DEF Pointings
  <2>3. \A q \in Pointings(p) : CanReach(q) => Abs(w[2] - c) <= Abs(q[2] - c)
    <3>1. Abs(w[2] - c) = y
      BY <2>1, <1>4
    <3>2. CanReach(p) => y <= x
      BY <2>1
    <3>3. QED BY <3>1, <3>2, <2>2, <1>3, <1>4
  <2>4. QED BY <1>1, <1>2, <2>1, <2>2, <2>3
<1>6. CASE ~DoFlip(p)
  <2>1. /\ w = p
        /\ ((config.shortWay /\ CanReach(Flipped(p))) => (CanReach(p) /\ ~(y < x)))
    BY <1>2, <1>3, <1>4, <1>6 DEF DoFlip, SelectCommandAltAz
  <2>2. \A q \in Pointings(p) : (q = p) \/ (q = Flipped(p) /\ config.shortWay)
    BY Mounted DEF Pointings
  <2>3. p \in Pointings(p)
    BY DEF Pointings
  <2>4. ASSUME NEW q \in Pointings(p), CanReach(q)
        PROVE  CanReach(p) /\ Abs(w[2] - c) <= Abs(q[2] - c)
    <3>1. CASE q = p
      BY <3>1, <2>1, <2>4, <1>3
    <3>2. CASE q = Flipped(p) /\ config.shortWay
      <4>1. CanReach(p) /\ x <= y
        BY <3>2, <2>1, <2>4
      <4>2. Abs(w[2] - c) = x /\ Abs(q[2] - c) = y
        BY <3>2, <2>1, <1>3, <1>4
      <4>3. QED BY <4>1, <4>2
    <3>3. QED BY <3>1, <3>2, <2>2
  <2>5. QED BY <1>1, <1>2, <2>1, <2>3, <2>4
<1>7. QED BY <1>5, <1>6

\* A command, carried out or refused, is the answer to its direction.
LEMMA PointedRight ==
  ASSUME PointingInv, NEW p \in Directions, Point(p)
  PROVE  PointingInv'
<1>. USE DEF PointingInv
<1>1. PICK w : w = SelectCommandAltAz(p)
  OBVIOUS
<1>2. /\ asked' = p /\ config' = config /\ was' = CurrentAltAz
      /\ IF CanReach(w)
           THEN mount' = SetAltAz(w) /\ desired' = w /\ refused' = FALSE
           ELSE refused' = TRUE /\ UNCHANGED <<mount, desired>>
  BY <1>1 DEF Point
<1>3. /\ w \in Pointings(p)
      /\ w[1] \in Int /\ w[2] \in Int /\ w[1] >= 0
      /\ CanReach(w) => \A q \in Pointings(p) :
             CanReach(q) => Abs(w[2] - CurrentAltAz[2]) <= Abs(q[2] - CurrentAltAz[2])
      /\ ~CanReach(w) => \A q \in Pointings(p) : ~CanReach(q)
  BY <1>1, BestChosen
<1>4. \A q : CanReach(q)' <=> CanReach(q)
  BY <1>2 DEF CanReach, OffsetCorr
<1>5. Pointings(p)' = Pointings(p)
  BY <1>2 DEF Pointings, Flipped
<1>6. CASE CanReach(w)
  <2>1. mount' = SetAltAz(w) /\ desired' = w /\ refused' = FALSE
    BY <1>2, <1>6
  <2>2. /\ mount'[1] \in Int /\ mount'[2] \in Int
        /\ ArrivalSeen(CurrentAltAz', w) \/ (w[1] > Quarter /\ config.offset[1] < 0)
        /\ \A i \in 1..2 : Abs(CurrentAltAz'[i] - w[i]) < Pulse
    <3>1. Quarter \in Int
      BY PointingAssumption DEF Quarter
    <3>2. QED BY <1>2, <1>3, <1>6, <2>1, <3>1, Arrival
  <2>3. GoesWhereAsked'
    BY <1>2, <1>3, <1>4, <1>5, <1>6, <2>1, <2>2 DEF GoesWhereAsked
  <2>4. QED BY <1>2, <2>2, <2>3
<1>7. CASE ~CanReach(w)
  <2>1. GoesWhereAsked'
    BY <1>2, <1>3, <1>4, <1>5, <1>7 DEF GoesWhereAsked
  <2>2. QED BY <1>2, <1>7, <2>1
<1>8. QED BY <1>6, <1>7

\* For every mount the schema of its configuration lets through, a dish points where it was
\* asked to, by the nearer of its two positions; the next poll recognises that it has arrived
\* unless the position is beyond the zenith, which takes a negative offset in altitude; and a
\* command is refused only if neither position can be reached (md01_driver.py: do_flip,
\* can_reach, _slew; driver.py: get_current_altaz, _is_within_pointing_resolution).
THEOREM PointsWhereAsked == PointingInit /\ [][PointingNext]_pointingVars => []GoesWhereAsked
<1>1. PointingInit => PointingInv
  <2>. SUFFICES ASSUME PointingInit PROVE PointingInv
    OBVIOUS
  <2>1. config \in Mounts /\ asked = <<>>
    BY DEF PointingInit
  <2>2. /\ config.offset[1] \in Int /\ config.offset[2] \in Int
        /\ config.alt[1] \in Int /\ config.alt[2] \in Int
        /\ config.az[1] \in Int /\ config.az[2] \in Int
        /\ Pulse \in Nat \ {0} /\ Circle \in Int
    BY <2>1, Mounted, PointingAssumption DEF Circle
  <2>3. PICK a \in Int : a = Clamped(OffsetCorr(<<0, 0>>)[1], config.alt)
    BY <2>2 DEF Clamped, OffsetCorr
  <2>4. PICK b \in Int : b = Clamped(OffsetCorr(<<0, 0>>)[2], config.az)
    BY <2>2 DEF Clamped, OffsetCorr
  <2>5. mount = Encoded(<<a, b>>)
    BY <2>3, <2>4 DEF PointingInit, SetAltAz
  <2>6. mount[1] = (a + Circle) \div Pulse /\ mount[2] = (b + Circle) \div Pulse
    BY <2>5 DEF Encoded
  <2>7. mount[1] \in Int /\ mount[2] \in Int
    <3>1. PICK x \in Int, y \in Int : x = a + Circle /\ y = b + Circle
      BY <2>2
    <3>2. x \div Pulse \in Int /\ y \div Pulse \in Int
      BY <2>2, DivMod
    <3>3. QED BY <2>6, <3>1, <3>2
  <2>8. QED BY <2>1, <2>7 DEF PointingInv, GoesWhereAsked
<1>2. PointingInv /\ [PointingNext]_pointingVars => PointingInv'
  <2>. SUFFICES ASSUME PointingInv, [PointingNext]_pointingVars PROVE PointingInv'
    OBVIOUS
  <2>1. CASE PointingNext
    BY <2>1, PointedRight DEF PointingNext
  <2>2. CASE UNCHANGED pointingVars
    BY <2>2 DEF PointingInv, pointingVars, GoesWhereAsked, Pointings, Flipped, CanReach,
                OffsetCorr, OffsetInvCorr, CurrentAltAz, Decoded, Within
  <2>3. QED BY <2>1, <2>2
<1>3. PointingInv => GoesWhereAsked
  BY DEF PointingInv
<1>4. QED BY <1>1, <1>2, <1>3, PTL

(***************************************************************************)
(* WeatherWatch (ws/ws.py, models/ws.py, dsh/dm.py). A sample of the time  *)
(* of a storm does not say calm, wherever it is: being read, on its way or *)
(* kept.                                                                   *)
(***************************************************************************)

\* What the station reports of a storm that has begun is not calm.
ReportsAreTrue(samples) ==
    /\ IsFiniteSet(samples)
    /\ \A s \in samples :
          /\ s.time \in 0..now
          /\ s.wind \in {"calm", "storm", "unknown"}
          /\ wind = "storm" /\ s.time > stormFrom => s.wind # "calm"

WatchInv ==
    /\ now \in Nat /\ stormFrom \in 0..now /\ created \in 0..now
    /\ wind \in {"calm", "storm"}
    /\ ReportsAreTrue(underway) /\ ReportsAreTrue(store)

\* Nothing has been read at first.
LEMMA WatchStart == WeatherInit => WatchInv
BY FS_EmptySet DEF WeatherInit, WatchInv, ReportsAreTrue

\* Losing or forgetting samples makes no report false.
LEMMA FewerReports ==
  ASSUME NEW S, NEW T \in SUBSET S, ReportsAreTrue(S)
  PROVE  ReportsAreTrue(T)
BY FS_Subset DEF ReportsAreTrue

\* A sample that is on its way may be kept.
LEMMA OneMoreReport ==
  ASSUME NEW S, NEW s \in S, NEW T, ReportsAreTrue(S), ReportsAreTrue(T)
  PROVE  ReportsAreTrue(T \cup {s})
BY FS_AddElement DEF ReportsAreTrue

\* A reading is of the wind as it is.
LEMMA ReadingsAreTrue ==
  ASSUME WatchInv, NEW read \in Readings
  PROVE  ReportsAreTrue(underway \cup read)
<1>1. read = {} \/ \E w \in {wind, "unknown"} : read = {[time |-> now, wind |-> w]}
  BY DEF Readings
<1>2. CASE read = {}
  BY <1>2 DEF WatchInv
<1>3. ASSUME NEW w \in {wind, "unknown"}, read = {[time |-> now, wind |-> w]}
      PROVE  ReportsAreTrue(underway \cup read)
  <2>1. IsFiniteSet(underway \cup read)
    BY <1>3, FS_AddElement DEF WatchInv, ReportsAreTrue
  <2>2. QED BY <1>3, <2>1 DEF WatchInv, ReportsAreTrue
<1>4. QED BY <1>1, <1>2, <1>3

\* Every step keeps the samples true: the one kept and the ones lost.
LEMMA WatchStep == WatchInv /\ [WeatherNext]_weatherVars => WatchInv'
<1> SUFFICES ASSUME WatchInv, [WeatherNext]_weatherVars
             PROVE  WatchInv'
  OBVIOUS
<1>1. ASSUME NEW S, NEW T, ReportsAreTrue(S), T \subseteq S,
             UNCHANGED <<wind, stormFrom>>, now' >= now, now' \in Nat
      PROVE  IsFiniteSet(T) /\ \A s \in T :
          /\ s.time \in 0..now'
          /\ s.wind \in {"calm", "storm", "unknown"}
          /\ wind' = "storm" /\ s.time > stormFrom' => s.wind # "calm"
  BY <1>1, FS_Subset DEF WatchInv, ReportsAreTrue
<1>2. CASE Tick
  BY <1>2 DEF Tick, stationVars, watchVars, WatchInv, ReportsAreTrue
<1>3. CASE WindChanges
  BY <1>3 DEF WindChanges, stationVars, watchVars, WatchInv, ReportsAreTrue
<1>4. CASE LinkChanges
  BY <1>4, FS_Subset DEF LinkChanges, stationVars, WatchInv, ReportsAreTrue
<1>5. CASE TimerFires \/ BeginPoll \/ ResyncStation \/ RestartStation \/ UNCHANGED weatherVars
  BY <1>5 DEF TimerFires, BeginPoll, ResyncStation, RestartStation, weatherVars, stationVars,
              watchVars, WatchInv, ReportsAreTrue
<1>6. CASE EndPoll
  <2>1. UNCHANGED <<now, wind, stormFrom, store, created>>
    BY <1>6 DEF EndPoll
  <2>2. underway' = underway \/ \E read \in Readings : underway' = underway \cup read
    BY <1>6 DEF EndPoll
  <2>3. ReportsAreTrue(underway')
    BY <2>2, ReadingsAreTrue DEF WatchInv
  <2>4. QED BY <2>1, <2>3 DEF WatchInv, ReportsAreTrue
<1>7. ASSUME NEW sample \in underway, StoreSample(sample)
      PROVE  WatchInv'
  <2>1. underway' \subseteq underway /\ store' \subseteq store \cup {sample}
    BY <1>7 DEF StoreSample
  <2>2. ReportsAreTrue(underway) /\ ReportsAreTrue(store)
    BY DEF WatchInv
  <2>3. ReportsAreTrue(store \cup {sample})
    BY <2>2, OneMoreReport
  <2>4. ReportsAreTrue(underway') /\ ReportsAreTrue(store')
    BY <2>1, <2>2, <2>3, FewerReports
  <2>5. UNCHANGED <<now, wind, stormFrom, created>>
    BY <1>7 DEF StoreSample
  <2>6. QED BY <2>4, <2>5 DEF WatchInv, ReportsAreTrue
<1>8. CASE ResyncManager
  BY <1>8, FS_EmptySet DEF ResyncManager, stationVars, WatchInv, ReportsAreTrue
<1>9. QED BY <1>2, <1>3, <1>4, <1>5, <1>6, <1>7, <1>8 DEF WeatherNext, Deliver

\* With only true samples, either there are none or all of them tell of the storm.
LEMMA StormIsSeen == WatchInv => DangerIsSeen
<1> SUFFICES ASSUME WatchInv, wind = "storm", now - stormFrom > Timeout
             PROVE  Alarm \/ now - created < Timeout \/ (Winds = {} /\ Recent # {})
  BY DEF DangerIsSeen
<1>1. CASE Recent = {}
  BY <1>1, WeatherAssumption DEF Alarm, WatchInv
<1>2. CASE Winds # {}
  <2>1. Storms = Winds
    BY WeatherAssumption DEF Storms, Winds, Recent, WatchInv, ReportsAreTrue
  <2>2. IsFiniteSet(Winds)
    BY FS_Subset DEF Winds, Recent, WatchInv, ReportsAreTrue
  <2>3. Cardinality(Winds) \in Nat /\ Cardinality(Winds) # 0
    BY <1>2, <2>2, FS_CardinalityType, FS_EmptySet
  <2>4. 3 * Cardinality(Storms) > 2 * Cardinality(Winds)
    BY <2>1, <2>3
  <2>5. QED BY <2>4 DEF Alarm
<1>3. QED BY <1>1, <1>2

\* Samples of a storm do not say calm, in whatever order polls, losses, restarts and
\* deliveries happen (ws.py: the poll handler; models/ws.py: append).
THEOREM StationIsTruthful == WeatherInit /\ [][WeatherNext]_weatherVars => []WatchInv
<1>1. QED BY WatchStart, WatchStep, PTL

\* A storm that has lasted longer than the timeout is alarmed about, by the wind or by the
\* silence, for every period, threshold and retention (models/ws.py: get_alarm_metrics).
THEOREM DangerIsNeverMissed == WeatherInit /\ [][WeatherNext]_weatherVars => []DangerIsSeen
<1>1. QED BY StormIsSeen, StationIsTruthful, PTL

(***************************************************************************)
(* MotorResponse.  A byte that is thrown away does not begin an answer, now *)
(* or with what is still to come (RuledOut); so what the driver holds, which *)
(* is the end of what it has read, keeps the first answer (Follows).  The  *)
(* search is a recursive function: it exists because each rejection leaves *)
(* fewer bytes (SearchedIs), and so does the induction over them (SearchEnds). *)
(***************************************************************************)
\* An answer begins at a place of a stream.
AnswerBegins(s, i) ==
    /\ s[i] = Start /\ s[i + Length - 1] = End
    /\ \A d \in Digits : s[i + d - 1] = Digit

\* No answer can begin there, whatever is still to come.
RuledOut(s, i) == s[i] # Start \/ (i + Length - 1 <= Len(s) /\ ~AnswerBegins(s, i))

\* A driver holds the end of a stream, and has thrown away no beginning of an answer.
Follows(r, s) ==
    /\ r \in Readers /\ ~r.found
    /\ Len(s) = r.discarded + Len(r.held)
    /\ \A j \in 1..Len(r.held) : r.held[j] = s[r.discarded + j]
    /\ \A i \in 1..r.discarded : RuledOut(s, i)

\* It has found the answer, which ends the stream.
Answered(r, s) ==
    /\ r \in Readers /\ r.found
    /\ Len(s) = r.discarded + Length /\ Len(r.held) = Length
    /\ \A j \in 1..Length : r.held[j] = s[r.discarded + j]
    /\ AnswerBegins(s, r.discarded + 1)
    /\ \A i \in 1..r.discarded : RuledOut(s, i)

\* What a driver holds begins with a start byte.
AtStart(r) == r.held = <<>> \/ r.held[1] = Start

\* Throwing away what precedes the first start byte loses no answer.
LEMMA TrimmedFollows ==
  ASSUME NEW s \in Seq(Byte), NEW r, Follows(r, s)
  PROVE  /\ Follows(Trimmed(r), s) /\ AtStart(Trimmed(r))
         /\ Len(Trimmed(r).held) <= Len(r.held)
<1>1. /\ r.held \in Seq(Byte) /\ r.discarded \in Nat /\ r.found = FALSE
      /\ r = [held |-> r.held, discarded |-> r.discarded, found |-> r.found]
  BY DEF Follows, Readers
<1>2. PICK q \in Seq(Byte) : q = r.held
  BY <1>1
<1>3. Len(q) \in Nat
  BY <1>2
<1>4. PICK noise : noise = IF Contains(r.held, Start)
                           THEN SelectInSeq(r.held, LAMBDA b : b = Start) - 1
                           ELSE Len(r.held)
  OBVIOUS
<1>5. /\ noise \in 0..Len(q) /\ \A j \in 1..noise : q[j] # Start
      /\ noise < Len(q) => q[noise + 1] = Start
  <2>1. CASE Contains(q, Start)
    <3>1. PICK I : I = {i \in 1..Len(q) : q[i] = Start}
      OBVIOUS
    <3>2. I \subseteq Nat /\ I # {}
      BY <2>1, <3>1 DEF Contains
    <3>3. PICK x \in I : \A y \in I : x <= y
      BY <3>2, LeastNumber
    <3>4. Min(I) \in I /\ \A y \in I : Min(I) <= y
      BY <3>3 DEF Min
    <3>5. noise = Min(I) - 1
      BY <1>2, <1>4, <2>1, <3>1, <3>2 DEF SelectInSeq
    <3>6. PICK m \in 1..Len(q) : m = Min(I) /\ q[m] = Start /\ \A y \in I : m <= y
      BY <3>1, <3>4
    <3>7. \A j \in 1..(m - 1) : q[j] # Start
      BY <1>3, <3>1, <3>6
    <3>8. QED BY <1>3, <3>5, <3>6, <3>7
  <2>2. CASE ~Contains(q, Start)
    BY <1>2, <1>3, <1>4, <2>2 DEF Contains
  <2>3. QED BY <2>1, <2>2
<1>6. PICK t : t = SubSeq(q, noise + 1, Len(q))
  OBVIOUS
<1>7. t \in Seq(Byte) /\ Len(t) = Len(q) - noise /\ \A i \in 1..Len(t) : t[i] = q[noise + i]
  <2>1. noise \in 0..Len(q)
    BY <1>5
  <2>2. /\ SubSeq(q, noise + 1, Len(q)) \in Seq(Byte)
        /\ Len(SubSeq(q, noise + 1, Len(q))) = Len(q) - noise
        /\ \A i \in 1..(Len(q) - noise) : SubSeq(q, noise + 1, Len(q))[i] = q[noise + i]
    BY <2>1, Rest
  <2>3. QED BY <1>6, <2>2
<1>8. Trimmed(r) = [held |-> t, discarded |-> r.discarded + noise, found |-> FALSE]
  <2>1. Trimmed(r) = [r EXCEPT !.held = SubSeq(@, noise + 1, Len(@)), !.discarded = @ + noise]
    BY <1>4 DEF Trimmed, SelectInSeq
  <2>2. QED BY <1>1, <1>2, <1>6, <2>1
<1>9. PICK d \in Nat : d = r.discarded
  BY <1>1
<1>10. /\ Len(s) = d + Len(q) /\ \A j \in 1..Len(q) : q[j] = s[d + j]
       /\ \A i \in 1..d : RuledOut(s, i)
  BY <1>2, <1>9 DEF Follows
<1>11. Trimmed(r) \in Readers
  BY <1>5, <1>7, <1>8, <1>9 DEF Readers
<1>12. \A j \in 1..Len(t) : t[j] = s[d + noise + j]
  <2>. SUFFICES ASSUME NEW j \in 1..Len(t) PROVE t[j] = s[d + noise + j]
    OBVIOUS
  <2>1. noise + j \in 1..Len(q) /\ d + (noise + j) = d + noise + j
    BY <1>3, <1>5, <1>7
  <2>2. QED BY <1>7, <1>10, <2>1
<1>13. \A i \in 1..(d + noise) : RuledOut(s, i)
  <2>. SUFFICES ASSUME NEW i \in 1..(d + noise), i > d PROVE RuledOut(s, i)
    BY <1>10, <1>5
  <2>1. PICK j \in 1..noise : i = d + j
    <3>1. i - d \in 1..noise /\ i = d + (i - d)
      BY <1>5
    <3>2. QED BY <3>1
  <2>2. s[i] # Start
    <3>1. j \in 1..Len(q)
      BY <1>3, <1>5
    <3>2. q[j] # Start /\ q[j] = s[d + j]
      BY <1>5, <1>10, <3>1
    <3>3. QED BY <2>1, <3>2
  <2>3. QED BY <2>2 DEF RuledOut
<1>14. Len(s) = d + noise + Len(t)
  BY <1>3, <1>5, <1>7, <1>10
<1>15. Follows(Trimmed(r), s)
  BY <1>8, <1>9, <1>11, <1>12, <1>13, <1>14 DEF Follows
<1>16. AtStart(Trimmed(r))
  <2>1. CASE noise = Len(q)
    <3>1. Len(t) = 0
      BY <1>3, <1>7, <2>1
    <3>2. t = <<>>
      BY <1>7, <3>1
    <3>3. QED BY <1>8, <3>2 DEF AtStart
  <2>2. CASE noise # Len(q)
    <3>1. noise < Len(q) /\ 1 \in 1..Len(t)
      BY <1>3, <1>5, <1>7, <2>2
    <3>2. t[1] = Start
      BY <1>5, <1>7, <3>1
    <3>3. QED BY <1>8, <3>2 DEF AtStart
  <2>3. QED BY <2>1, <2>2
<1>17. Len(Trimmed(r).held) <= Len(r.held)
  BY <1>2, <1>3, <1>5, <1>7, <1>8
<1>18. QED BY <1>15, <1>16, <1>17

\* The fields of a reader that has rejected a candidate.
LEMMA RejectedIs ==
  ASSUME NEW r, r = [held |-> r.held, discarded |-> r.discarded, found |-> r.found]
  PROVE  Rejected(r) =
           [held |-> Tail(r.held), discarded |-> r.discarded + 1, found |-> r.found]
<1>1. PICK h : h = Tail(r.held)
  OBVIOUS
<1>2. Rejected(r) = [r EXCEPT !.held = h, !.discarded = @ + 1]
  BY <1>1 DEF Rejected
<1>3. QED BY <1>1, <1>2

\* The start byte of what is not an answer is thrown away.
LEMMA RejectedFollows ==
  ASSUME NEW s \in Seq(Byte), NEW r, Follows(r, s), Len(r.held) >= Length,
         ~IsAnswer(SubSeq(r.held, 1, Length))
  PROVE  Follows(Rejected(r), s) /\ Len(Rejected(r).held) = Len(r.held) - 1
<1>1. /\ r.held \in Seq(Byte) /\ r.discarded \in Nat /\ r.found = FALSE
      /\ r = [held |-> r.held, discarded |-> r.discarded, found |-> r.found]
  BY DEF Follows, Readers
<1>2. PICK q \in Seq(Byte) : q = r.held
  BY <1>1
<1>3. PICK d \in Nat : d = r.discarded
  BY <1>1
<1>4. /\ Len(s) = d + Len(q) /\ \A j \in 1..Len(q) : q[j] = s[d + j]
      /\ \A i \in 1..d : RuledOut(s, i)
  BY <1>2, <1>3 DEF Follows
<1>5. Length \in Nat /\ Length >= 2 /\ Len(q) \in Nat /\ Len(q) >= Length
  BY <1>2, LengthAssumption
<1>6. PICK t : t = Tail(q)
  OBVIOUS
<1>7. t \in Seq(Byte) /\ Len(t) = Len(q) - 1 /\ \A i \in 1..Len(t) : t[i] = q[i + 1]
  BY <1>5, <1>6, HeadTailProperties
<1>8. PICK x : x = Rejected(r)
  OBVIOUS
<1>9. x \in Readers /\ x.held = t /\ x.discarded = d + 1 /\ ~x.found
  <2>1. x = [held |-> t, discarded |-> d + 1, found |-> FALSE]
    BY <1>1, <1>2, <1>3, <1>6, <1>8, RejectedIs
  <2>2. QED BY <1>7, <2>1 DEF Readers
<1>10. ~AnswerBegins(s, d + 1)
  <2>1. SubSeq(q, 1, Length)[Length] # End \/ \E i \in Digits : SubSeq(q, 1, Length)[i] # Digit
    BY <1>2 DEF IsAnswer
  <2>2. \A i \in 1..Length : SubSeq(q, 1, Length)[i] = q[i]
    BY <1>5, Beginning
  <2>3. \A i \in 1..Length : q[i] = s[d + 1 + i - 1]
    <3>. SUFFICES ASSUME NEW i \in 1..Length PROVE q[i] = s[d + 1 + i - 1]
      OBVIOUS
    <3>1. i \in 1..Len(q) /\ d + 1 + i - 1 = d + i
      BY <1>5
    <3>2. QED BY <1>4, <3>1
  <2>4. Length \in 1..Length /\ Digits \subseteq 1..Length
    BY <1>5, DigitsAssumption
  <2>5. QED BY <2>1, <2>2, <2>3, <2>4 DEF AnswerBegins
<1>11. RuledOut(s, d + 1)
  BY <1>4, <1>5, <1>10 DEF RuledOut
<1>12. \A i \in 1..(d + 1) : RuledOut(s, i)
  BY <1>4, <1>11
<1>13. \A j \in 1..Len(t) : t[j] = s[d + 1 + j]
  <2>. SUFFICES ASSUME NEW j \in 1..Len(t) PROVE t[j] = s[d + 1 + j]
    OBVIOUS
  <2>1. j + 1 \in 1..Len(q) /\ d + (j + 1) = d + 1 + j
    BY <1>5, <1>7
  <2>2. QED BY <1>4, <1>7, <2>1
<1>14. Len(s) = d + 1 + Len(t)
  BY <1>4, <1>5, <1>7
<1>15. QED BY <1>2, <1>7, <1>8, <1>9, <1>12, <1>13, <1>14 DEF Follows

\* What the driver holds is too short for an answer, or one.
Ends(r) == Len(Trimmed(r).held) < Length \/ IsAnswer(SubSeq(Trimmed(r).held, 1, Length))

\* What the search makes of it then.
SearchResult(r) ==
    IF Len(Trimmed(r).held) < Length THEN Trimmed(r)
    ELSE [Trimmed(r) EXCEPT !.held = SubSeq(@, 1, Length), !.found = TRUE]

\* Whatever the bytes, throwing away leaves a reader, which holds no more.
LEMMA TrimmedReader ==
  ASSUME NEW r \in Readers
  PROVE  /\ Trimmed(r) \in Readers /\ Len(Trimmed(r).held) <= Len(r.held)
         /\ Trimmed(r).found = r.found
<1>1. /\ r.held \in Seq(Byte) /\ r.discarded \in Nat /\ r.found \in BOOLEAN
      /\ r = [held |-> r.held, discarded |-> r.discarded, found |-> r.found]
  BY DEF Readers
<1>2. PICK q \in Seq(Byte) : q = r.held
  BY <1>1
<1>3. Len(q) \in Nat
  BY <1>2
<1>4. PICK noise : noise = IF Contains(r.held, Start)
                           THEN SelectInSeq(r.held, LAMBDA b : b = Start) - 1
                           ELSE Len(r.held)
  OBVIOUS
<1>5. noise \in 0..Len(q)
  <2>1. CASE Contains(q, Start)
    <3>1. PICK I : I = {i \in 1..Len(q) : q[i] = Start}
      OBVIOUS
    <3>2. I \subseteq Nat /\ I # {}
      BY <2>1, <3>1 DEF Contains
    <3>3. PICK x \in I : \A y \in I : x <= y
      BY <3>2, LeastNumber
    <3>4. Min(I) \in I
      BY <3>3 DEF Min
    <3>5. noise = Min(I) - 1
      BY <1>2, <1>4, <2>1, <3>1, <3>2 DEF SelectInSeq
    <3>6. PICK m \in 1..Len(q) : m = Min(I)
      BY <3>1, <3>4
    <3>7. QED BY <1>3, <3>5, <3>6
  <2>2. QED BY <1>2, <1>3, <1>4, <2>1
<1>6. PICK t : t = SubSeq(q, noise + 1, Len(q))
  OBVIOUS
<1>7. t \in Seq(Byte) /\ Len(t) = Len(q) - noise
  <2>1. noise \in 0..Len(q)
    BY <1>5
  <2>2. /\ SubSeq(q, noise + 1, Len(q)) \in Seq(Byte)
        /\ Len(SubSeq(q, noise + 1, Len(q))) = Len(q) - noise
        /\ \A i \in 1..(Len(q) - noise) : SubSeq(q, noise + 1, Len(q))[i] = q[noise + i]
    BY <2>1, Rest
  <2>3. QED BY <1>6, <2>2
<1>8. Trimmed(r) = [held |-> t, discarded |-> r.discarded + noise, found |-> r.found]
  <2>1. Trimmed(r) = [r EXCEPT !.held = SubSeq(@, noise + 1, Len(@)), !.discarded = @ + noise]
    BY <1>4 DEF Trimmed, SelectInSeq
  <2>2. QED BY <1>1, <1>2, <1>6, <2>1
<1>9. QED BY <1>1, <1>2, <1>3, <1>5, <1>7, <1>8 DEF Readers

\* The search is the function its definition says.
LEMMA SearchedIs ==
  ASSUME NEW r \in Readers
  PROVE  Searched[r] = IF Ends(r) THEN SearchResult(r) ELSE Searched[Rejected(Trimmed(r))]
<1>1. PICK size : size = [x \in Readers |-> Len(x.held)]
  OBVIOUS
<1>2. PICK stop : stop = [x \in Readers |-> Ends(x)]
  OBVIOUS
<1>3. PICK last : last = [x \in Readers |-> SearchResult(x)]
  OBVIOUS
<1>4. PICK succ : succ = [x \in Readers |-> IF Ends(x) THEN x ELSE Rejected(Trimmed(x))]
  OBVIOUS
<1>5. \A x \in Readers : Len(x.held) \in Nat
  BY DEF Readers
<1>6. PICK V : V = {SearchResult(x) : x \in Readers}
  OBVIOUS
<1>7. \A x \in Readers : Ends(x) \in BOOLEAN /\ SearchResult(x) \in V
  BY <1>6 DEF Ends, IsAnswer
<1>8. ASSUME NEW x \in Readers, ~Ends(x)
      PROVE  /\ Rejected(Trimmed(x)) \in Readers
             /\ Len(Rejected(Trimmed(x)).held) < Len(x.held)
  <2>1. PICK t \in Readers : t = Trimmed(x) /\ Len(t.held) <= Len(x.held)
    BY TrimmedReader
  <2>2. Len(t.held) >= Length /\ Length >= 2 /\ Length \in Nat
    <3>1. ~(Len(t.held) < Length)
      BY <1>8, <2>1 DEF Ends
    <3>2. QED BY <1>5, <2>1, <3>1, LengthAssumption
  <2>3. /\ t.held \in Seq(Byte) /\ t.discarded \in Nat /\ t.found \in BOOLEAN
        /\ t = [held |-> t.held, discarded |-> t.discarded, found |-> t.found]
    BY DEF Readers
  <2>4. Tail(t.held) \in Seq(Byte) /\ Len(Tail(t.held)) = Len(t.held) - 1
    BY <2>2, <2>3, HeadTailProperties
  <2>5. Rejected(t) = [held |-> Tail(t.held), discarded |-> t.discarded + 1, found |-> t.found]
    BY <2>3, RejectedIs
  <2>6. Rejected(t) \in Readers /\ Rejected(t).held = Tail(t.held)
    BY <2>3, <2>4, <2>5 DEF Readers
  <2>7. QED BY <1>5, <2>1, <2>4, <2>6
<1>9. size \in [Readers -> Nat] /\ stop \in [Readers -> BOOLEAN] /\ last \in [Readers -> V]
  BY <1>1, <1>2, <1>3, <1>5, <1>7
<1>10. succ \in [Readers -> Readers]
  BY <1>4, <1>8
<1>11. Descends(Readers, size, stop, succ)
  BY <1>1, <1>2, <1>4, <1>8 DEF Descends
<1>12. PICK f \in [Readers -> V] : Recurs(f, Readers, stop, last, succ)
  BY <1>9, <1>10, <1>11, TailRecursion
<1>13. f = [x \in Readers |->
              LET t == Trimmed(x)
              IN  IF Len(t.held) < Length THEN t
                  ELSE IF IsAnswer(SubSeq(t.held, 1, Length))
                    THEN [t EXCEPT !.held = SubSeq(@, 1, Length), !.found = TRUE]
                    ELSE f[Rejected(t)]]
  <2>. SUFFICES ASSUME NEW x \in Readers
                PROVE  f[x] =
                       LET t == Trimmed(x)
                       IN  IF Len(t.held) < Length THEN t
                           ELSE IF IsAnswer(SubSeq(t.held, 1, Length))
                             THEN [t EXCEPT !.held = SubSeq(@, 1, Length), !.found = TRUE]
                             ELSE f[Rejected(t)]
    OBVIOUS
  <2>1. PICK t : t = Trimmed(x)
    OBVIOUS
  <2>2. (stop[x] <=> Ends(x)) /\ last[x] = SearchResult(x)
    BY <1>2, <1>3
  <2>3. ~Ends(x) => succ[x] = Rejected(t)
    BY <1>4, <2>1
  <2>4. f[x] = IF stop[x] THEN last[x] ELSE f[succ[x]]
    BY <1>12 DEF Recurs
  <2>5. QED BY <2>1, <2>2, <2>3, <2>4 DEF Ends, SearchResult
<1>14. Searched = [x \in Readers |->
              LET t == Trimmed(x)
              IN  IF Len(t.held) < Length THEN t
                  ELSE IF IsAnswer(SubSeq(t.held, 1, Length))
                    THEN [t EXCEPT !.held = SubSeq(@, 1, Length), !.found = TRUE]
                    ELSE Searched[Rejected(t)]]
  BY <1>13, Zenon DEF Searched
<1>15. PICK t : t = Trimmed(r)
  OBVIOUS
<1>16. Searched[r] = IF Len(t.held) < Length THEN t
                     ELSE IF IsAnswer(SubSeq(t.held, 1, Length))
                       THEN [t EXCEPT !.held = SubSeq(@, 1, Length), !.found = TRUE]
                       ELSE Searched[Rejected(t)]
  BY <1>14, <1>15
<1>17. QED BY <1>15, <1>16 DEF Ends, SearchResult

\* How the search may leave the driver.
Searches(q, s) == Answered(q, s) \/ (Follows(q, s) /\ Len(q.held) < Length)

\* The search ends with the answer, or with too little for one.
LEMMA SearchEnds ==
  ASSUME NEW s \in Seq(Byte), NEW r, Follows(r, s), Len(r.held) <= Length
  PROVE  Searches(Searched[r], s)
<1>1. PICK T : T = {n \in Nat : \E x \in Readers :
                      /\ Len(x.held) = n /\ n <= Length /\ Follows(x, s)
                      /\ ~Searches(Searched[x], s)}
  OBVIOUS
<1>2. \A x \in Readers : Len(x.held) \in Nat
  BY DEF Readers
<1>3. ASSUME T # {} PROVE FALSE
  <2>1. PICK n \in T : \A m \in T : n <= m
    <3>1. T \subseteq Nat
      BY <1>1
    <3>2. QED BY <1>3, <3>1, LeastNumber
  <2>2. PICK x \in Readers : /\ Len(x.held) = n /\ n <= Length /\ Follows(x, s)
                             /\ ~Searches(Searched[x], s)
    BY <1>1
  <2>3. PICK t : t = Trimmed(x)
    OBVIOUS
  <2>4. Follows(t, s) /\ AtStart(t) /\ t \in Readers /\ Len(t.held) <= n /\ Len(t.held) \in Nat
    <3>1. Follows(t, s) /\ AtStart(t) /\ Len(t.held) <= n
      BY <2>2, <2>3, TrimmedFollows
    <3>2. t \in Readers
      BY <3>1 DEF Follows
    <3>3. QED BY <1>2, <3>1, <3>2
  <2>5. Length \in Nat /\ Length >= 2 /\ n \in Nat
    BY <1>1, LengthAssumption
  <2>6. CASE Len(t.held) < Length
    <3>1. Searched[x] = t
      BY <2>2, <2>3, <2>6, SearchedIs DEF Ends, SearchResult
    <3>2. QED BY <2>2, <2>4, <2>6, <3>1 DEF Searches
  <2>7. CASE ~(Len(t.held) < Length) /\ IsAnswer(SubSeq(t.held, 1, Length))
    <3>1. Searched[x] = [t EXCEPT !.held = SubSeq(@, 1, Length), !.found = TRUE]
      BY <2>2, <2>3, <2>7, SearchedIs DEF Ends, SearchResult
    <3>2. Len(t.held) = Length /\ n = Length
      BY <2>2, <2>4, <2>5, <2>7
    <3>3. PICK q \in Seq(Byte) : q = t.held
      BY <2>4 DEF Readers
    <3>4. PICK h : h = SubSeq(q, 1, Length)
      OBVIOUS
    <3>5. h \in Seq(Byte) /\ Len(h) = Length /\ \A i \in 1..Length : h[i] = q[i]
      BY <2>5, <3>2, <3>3, <3>4, Beginning
    <3>6. PICK y : y = Searched[x]
      OBVIOUS
    <3>7. y = [held |-> h, discarded |-> t.discarded, found |-> TRUE]
      <4>1. t = [held |-> t.held, discarded |-> t.discarded, found |-> t.found]
        BY <2>4 DEF Readers
      <4>2. y = [t EXCEPT !.held = h, !.found = TRUE]
        BY <3>1, <3>3, <3>4, <3>6
      <4>3. QED BY <4>1, <4>2
    <3>8. PICK d \in Nat : d = t.discarded
      BY <2>4 DEF Readers
    <3>9. /\ y \in Readers /\ y.held = h /\ y.discarded = d /\ y.found
      BY <3>5, <3>7, <3>8 DEF Readers
    <3>10. /\ Len(s) = d + Length /\ \A j \in 1..Length : q[j] = s[d + j]
           /\ \A i \in 1..d : RuledOut(s, i)
      BY <2>4, <3>2, <3>3, <3>8 DEF Follows
    <3>11. AnswerBegins(s, d + 1)
      <4>1. h[Length] = End /\ \A i \in Digits : h[i] = Digit
        BY <2>7, <3>3, <3>4 DEF IsAnswer
      <4>2. q[1] = Start
        <5>1. q # <<>>
          BY <2>5, <3>2, <3>3
        <5>2. QED BY <2>4, <3>3, <5>1 DEF AtStart
      <4>3. Length \in 1..Length /\ 1 \in 1..Length /\ Digits \subseteq 1..Length
        BY <2>5, DigitsAssumption
      <4>4. \A i \in 1..Length : h[i] = s[d + 1 + i - 1]
        <5>. SUFFICES ASSUME NEW i \in 1..Length PROVE h[i] = s[d + 1 + i - 1]
          OBVIOUS
        <5>1. d + 1 + i - 1 = d + i
          OBVIOUS
        <5>2. QED BY <3>5, <3>10, <5>1
      <4>5. s[d + 1] = Start
        BY <3>10, <4>2, <4>3
      <4>6. s[d + 1 + Length - 1] = End
        BY <4>1, <4>3, <4>4
      <4>7. \A i \in Digits : s[d + 1 + i - 1] = Digit
        BY <4>1, <4>3, <4>4
      <4>8. QED BY <4>5, <4>6, <4>7 DEF AnswerBegins
    <3>12. Answered(y, s)
      BY <3>5, <3>9, <3>10, <3>11 DEF Answered
    <3>13. QED BY <2>2, <3>6, <3>12 DEF Searches
  <2>8. CASE ~(Len(t.held) < Length) /\ ~IsAnswer(SubSeq(t.held, 1, Length))
    <3>1. Searched[x] = Searched[Rejected(t)]
      BY <2>2, <2>3, <2>8, SearchedIs DEF Ends
    <3>2. Follows(Rejected(t), s) /\ Len(Rejected(t).held) = Len(t.held) - 1
      BY <2>4, <2>5, <2>8, RejectedFollows
    <3>3. PICK m : m = Len(Rejected(t).held)
      OBVIOUS
    <3>4. m \in Nat /\ m < n /\ m <= Length /\ Rejected(t) \in Readers
      BY <2>2, <2>4, <2>5, <2>8, <3>2, <3>3 DEF Follows
    <3>5. m \in T
      BY <1>1, <2>2, <3>1, <3>2, <3>3, <3>4
    <3>6. QED BY <2>1, <2>5, <3>4, <3>5
  <2>9. QED BY <2>6, <2>7, <2>8
<1>4. r \in Readers
  BY DEF Follows
<1>5. QED BY <1>1, <1>2, <1>3, <1>4

\* What the driver holds is the end of what it has read.
AnswerInv == stream \in Seq(Byte) /\ Searches(reader, stream)

\* Whatever bytes the socket returns, the driver still holds the end of the stream.
LEMMA ReadKeeps ==
  ASSUME AnswerInv, Read
  PROVE  AnswerInv'
<1>1. ~reader.found /\ stream \in Seq(Byte)
  BY DEF Read, AnswerInv
<1>2. Follows(reader, stream) /\ Len(reader.held) < Length
  BY <1>1 DEF AnswerInv, Searches, Answered
<1>3. PICK n \in 1..Wanted(reader) : \E bytes \in [1..n -> Byte] :
             stream' = stream \o bytes /\ reader' = ReadBytes(reader, bytes)
  BY DEF Read
<1>4. PICK bytes \in [1..n -> Byte] :
             stream' = stream \o bytes /\ reader' = ReadBytes(reader, bytes)
  BY <1>3
<1>5. PICK q \in Seq(Byte) : q = reader.held
  BY <1>2 DEF Follows, Readers
<1>6. Length \in Nat /\ Len(q) \in Nat /\ Len(stream) \in Nat /\ Len(q) < Length
  BY <1>1, <1>2, <1>5, LengthAssumption
<1>7. n \in Nat /\ n <= Length - Len(q) /\ bytes \in Seq(Byte) /\ Len(bytes) = n
  BY <1>5, <1>6 DEF Wanted
<1>8. PICK h : h = q \o bytes
  OBVIOUS
<1>9. /\ h \in Seq(Byte) /\ Len(h) = Len(q) + n
      /\ \A i \in 1..(Len(q) + n) : h[i] = IF i <= Len(q) THEN q[i] ELSE bytes[i - Len(q)]
  BY <1>7, <1>8, ConcatProperties
<1>10. PICK s : s = stream'
  OBVIOUS
<1>11. /\ s \in Seq(Byte) /\ Len(s) = Len(stream) + n
       /\ \A i \in 1..(Len(stream) + n) :
             s[i] = IF i <= Len(stream) THEN stream[i] ELSE bytes[i - Len(stream)]
  BY <1>1, <1>4, <1>7, <1>10, ConcatProperties
<1>12. PICK d \in Nat : d = reader.discarded
  BY <1>2 DEF Follows, Readers
<1>13. /\ Len(stream) = d + Len(q) /\ \A j \in 1..Len(q) : q[j] = stream[d + j]
       /\ \A i \in 1..d : RuledOut(stream, i)
  BY <1>2, <1>5, <1>12 DEF Follows
<1>14. PICK r : r = [reader EXCEPT !.held = @ \o bytes]
  OBVIOUS
<1>15. r \in Readers /\ r.held = h /\ r.discarded = d /\ ~r.found
  <2>1. /\ reader = [held |-> reader.held, discarded |-> reader.discarded, found |-> reader.found]
        /\ reader.discarded \in Nat /\ reader.found \in BOOLEAN
    BY <1>2 DEF Follows, Readers
  <2>2. r = [reader EXCEPT !.held = h]
    BY <1>5, <1>8, <1>14
  <2>3. r = [held |-> h, discarded |-> reader.discarded, found |-> reader.found]
    BY <2>1, <2>2
  <2>4. QED BY <1>1, <1>9, <1>12, <2>1, <2>3 DEF Readers
<1>16. \A j \in 1..Len(h) : h[j] = s[d + j]
  <2>. SUFFICES ASSUME NEW j \in 1..Len(h) PROVE h[j] = s[d + j]
    OBVIOUS
  <2>1. j \in 1..(Len(q) + n) /\ d + j \in 1..(Len(stream) + n)
    BY <1>6, <1>7, <1>9, <1>13
  <2>2. CASE j <= Len(q)
    BY <1>6, <1>9, <1>11, <1>13, <2>1, <2>2
  <2>3. CASE ~(j <= Len(q))
    <3>1. h[j] = bytes[j - Len(q)] /\ s[d + j] = bytes[(d + j) - Len(stream)]
      BY <1>6, <1>9, <1>11, <1>13, <2>1, <2>3
    <3>2. (d + j) - Len(stream) = j - Len(q)
      BY <1>6, <1>13
    <3>3. QED BY <3>1, <3>2
  <2>4. QED BY <2>2, <2>3
<1>17. \A i \in 1..d : RuledOut(s, i)
  <2>. SUFFICES ASSUME NEW i \in 1..d PROVE RuledOut(s, i)
    OBVIOUS
  <2>1. RuledOut(stream, i) /\ i \in 1..(Len(stream) + n) /\ i <= Len(stream)
    BY <1>6, <1>7, <1>13
  <2>2. s[i] = stream[i]
    BY <1>11, <2>1
  <2>3. CASE stream[i] # Start
    BY <2>2, <2>3 DEF RuledOut
  <2>4. CASE i + Length - 1 <= Len(stream) /\ ~AnswerBegins(stream, i)
    <3>1. \A k \in i..(i + Length - 1) : s[k] = stream[k]
      BY <1>6, <1>7, <1>11, <2>4
    <3>2. i + Length - 1 \in i..(i + Length - 1)
      BY <1>6
    <3>3. \A k \in Digits : i + k - 1 \in i..(i + Length - 1)
      BY <1>6, DigitsAssumption
    <3>4. ~AnswerBegins(s, i)
      BY <2>2, <2>4, <3>1, <3>2, <3>3 DEF AnswerBegins
    <3>5. i + Length - 1 <= Len(s)
      BY <1>6, <1>7, <1>11, <2>4
    <3>6. QED BY <3>4, <3>5 DEF RuledOut
  <2>5. QED BY <2>1, <2>3, <2>4 DEF RuledOut
<1>18. Len(s) = d + Len(h)
  BY <1>6, <1>7, <1>9, <1>11, <1>13
<1>19. Follows(r, s)
  BY <1>15, <1>16, <1>17, <1>18 DEF Follows
<1>20. Len(r.held) <= Length
  BY <1>6, <1>7, <1>9, <1>15
<1>21. Searches(Searched[r], s)
  BY <1>11, <1>19, <1>20, SearchEnds
<1>22. reader' = Searched[r]
  BY <1>4, <1>14 DEF ReadBytes
<1>23. QED BY <1>10, <1>11, <1>21, <1>22 DEF AnswerInv

\* The behaviours of the driver's reading.
AnswerSpec == AnswerInit /\ [][AnswerNext]_answerVars

\* The driver holds the end of what it has read and has let no answer pass.
THEOREM ReaderInvariant == AnswerSpec => []AnswerInv
<1>1. AnswerInit => AnswerInv
  <2>. SUFFICES ASSUME AnswerInit PROVE AnswerInv
    OBVIOUS
  <2>1. stream = <<>> /\ reader = [held |-> <<>>, discarded |-> 0, found |-> FALSE]
    BY DEF AnswerInit, NewReader
  <2>2. reader \in Readers /\ Len(reader.held) = 0 /\ Len(stream) = 0 /\ stream \in Seq(Byte)
    BY <2>1 DEF Readers
  <2>3. Follows(reader, stream)
    BY <2>1, <2>2 DEF Follows
  <2>4. QED BY <2>2, <2>3, LengthAssumption DEF AnswerInv, Searches
<1>2. AnswerInv /\ [AnswerNext]_answerVars => AnswerInv'
  <2>. SUFFICES ASSUME AnswerInv, [AnswerNext]_answerVars PROVE AnswerInv'
    OBVIOUS
  <2>1. CASE Read
    BY <2>1, ReadKeeps
  <2>2. CASE UNCHANGED answerVars
    BY <2>2 DEF answerVars, AnswerInv
  <2>3. QED BY <2>1, <2>2 DEF AnswerNext
<1>3. QED BY <1>1, <1>2, PTL DEF AnswerSpec

\* As soon as the bytes read contain an answer the driver has the first of
\* them, and takes nothing else for one.
THEOREM FirstAnswerFound == AnswerSpec => []ResponseFound
<1>1. ASSUME AnswerInv PROVE ResponseFound
  <2>1. /\ stream \in Seq(Byte) /\ Len(stream) \in Nat /\ Length \in Nat /\ Length >= 2
        /\ reader \in Readers
    BY <1>1, LengthAssumption DEF AnswerInv, Searches, Answered, Follows
  <2>2. PICK d \in Nat : d = reader.discarded
    BY <2>1 DEF Readers
  <2>3. \A i \in 1..(Len(stream) - Length + 1) : i \in AnswersAt <=> AnswerBegins(stream, i)
    <3>. SUFFICES ASSUME NEW i \in 1..(Len(stream) - Length + 1)
                  PROVE  (stream[i] = Start /\ IsAnswer(SubSeq(stream, i, i + Length - 1)))
                            <=> AnswerBegins(stream, i)
      BY DEF AnswersAt
    <3>1. \A k \in 1..Length : SubSeq(stream, i, i + Length - 1)[k] = stream[i + k - 1]
      <4>1. \A k \in i..(i + Length - 1) : stream[k] \in Byte
        BY <2>1
      <4>2. i \in Int /\ i + Length - 1 \in Int /\ (i + Length - 1) - i + 1 = Length
        BY <2>1
      <4>3. QED BY <4>1, <4>2, SubSeqProperties
    <3>2. Length \in 1..Length /\ Digits \subseteq 1..Length
      BY <2>1, DigitsAssumption
    <3>3. QED BY <3>1, <3>2 DEF IsAnswer, AnswerBegins
  <2>4. \A i \in AnswersAt : i \in 1..(Len(stream) - Length + 1)
    BY DEF AnswersAt
  <2>5. ASSUME \A i \in 1..d : RuledOut(stream, i) PROVE \A i \in AnswersAt : i > d
    <3>. SUFFICES ASSUME NEW i \in AnswersAt, i <= d PROVE FALSE
      BY <2>1, <2>4
    <3>1. i \in 1..d /\ AnswerBegins(stream, i)
      BY <2>1, <2>3, <2>4
    <3>2. QED BY <2>5, <3>1 DEF RuledOut, AnswerBegins
  <2>6. CASE Answered(reader, stream)
    <3>1. /\ Len(stream) = d + Length /\ Len(reader.held) = Length
          /\ \A j \in 1..Length : reader.held[j] = stream[d + j]
          /\ AnswerBegins(stream, d + 1) /\ reader.found
          /\ \A i \in AnswersAt : i > d
      BY <2>2, <2>5, <2>6 DEF Answered
    <3>2. d + 1 \in AnswersAt /\ \A i \in AnswersAt : d + 1 <= i
      BY <2>1, <2>3, <2>4, <3>1
    <3>3. Min(AnswersAt) = d + 1
      <4>1. Min(AnswersAt) \in AnswersAt /\ Min(AnswersAt) <= d + 1
        BY <3>2 DEF Min
      <4>2. QED BY <2>4, <3>2, <4>1
    <3>4. PICK h : h = SubSeq(stream, d + 1, d + 1 + Length - 1)
      OBVIOUS
    <3>5. /\ h \in Seq(Byte) /\ Len(h) = Length
          /\ \A k \in 1..Length : h[k] = stream[d + 1 + k - 1]
      <4>1. \A k \in (d + 1)..(d + 1 + Length - 1) : stream[k] \in Byte
        BY <2>1, <3>1
      <4>2. d + 1 \in Int /\ d + 1 + Length - 1 \in Int
            /\ (d + 1 + Length - 1) - (d + 1) + 1 = Length /\ d + 1 <= d + 1 + Length - 1
        BY <2>1
      <4>3. QED BY <3>4, <4>1, <4>2, SubSeqProperties
    <3>6. reader.held = h
      <4>1. reader.held \in Seq(Byte)
        BY <2>1 DEF Readers
      <4>2. \A k \in 1..Length : reader.held[k] = h[k]
        <5>. SUFFICES ASSUME NEW k \in 1..Length PROVE reader.held[k] = h[k]
          OBVIOUS
        <5>1. d + 1 + k - 1 = d + k
          OBVIOUS
        <5>2. QED BY <3>1, <3>5, <5>1
      <4>3. QED BY <3>1, <3>5, <4>1, <4>2, SeqEqual
    <3>7. QED BY <2>1, <3>1, <3>2, <3>3, <3>4, <3>6 DEF ResponseFound
  <2>7. CASE Follows(reader, stream) /\ Len(reader.held) < Length
    <3>1. /\ Len(stream) = d + Len(reader.held) /\ ~reader.found
          /\ Len(reader.held) \in Nat
          /\ \A i \in AnswersAt : i > d
      BY <2>2, <2>5, <2>7 DEF Follows, Readers
    <3>2. AnswersAt = {}
      BY <2>1, <2>4, <2>7, <3>1
    <3>3. QED BY <3>1, <3>2 DEF ResponseFound
  <2>8. QED BY <1>1, <2>6, <2>7 DEF AnswerInv, Searches
<1>2. QED BY <1>1, ReaderInvariant, PTL

(***************************************************************************)
(* ScanLedger, for every number of targets, bands, iterations, aborts and  *)
(* restarts.  A planned scan keeps the number it was planned with until it *)
(* is complete (OpenKeepsNumber), and no two planned scans of a band ever  *)
(* have the same number (Distinct): a number is taken over only when no scan *)
(* of the band has it.  So the indexes of an open scan always lead to that *)
(* scan.  The search for the next scan leaves no open scan behind          *)
(* (EarlierDone).                                                          *)
(***************************************************************************)
OpenKeepsNumber == \A p \in Position \ done : number[p] = p[3]

Distinct == \A p, q \in Position :
                BandOf(p) = BandOf(q) /\ number[p] = number[q] => p = q

EarlierDone == \A p \in Position : p[1] < cur[1] => p \in done

CurNotDone == state = "scanning" /\ pending = 0 => cur \notin done

IInv == LedgerTypeOK /\ OpenKeepsNumber /\ Distinct /\ EarlierDone /\ CurNotDone

-----------------------------------------------------------------------------

\* The parts of a position, which the steps below reason about.
LEMMA PositionParts ==
  ASSUME NEW p \in Position
  PROVE  /\ p = <<p[1], p[2], p[3]>>
         /\ p[1] \in 0..(Targets - 1) /\ p[1] \in Nat /\ p[1] < Targets
         /\ p[2] \in 0..(Bands - 1) /\ p[2] \in Nat
         /\ p[3] \in 0..(Iterations - 1) /\ p[3] \in Nat
BY SizeAssumption DEF Position

\* A position is known from its band and its number.
LEMMA PositionIsItsBandAndNumber ==
  ASSUME NEW p \in Position, NEW q \in Position, BandOf(p) = BandOf(q), p[3] = q[3]
  PROVE  p = q
BY PositionParts DEF BandOf

\* No position is before itself.
LEMMA Irreflexive ==
  ASSUME NEW p \in Position
  PROVE  ~Before(p, p)
BY PositionParts DEF Before

\* The first position is one.
LEMMA FirstInPosition == First \in Position
BY SizeAssumption DEF First, Position

\* The end is behind the last target.
LEMMA OverNotPosition == Over \notin Position /\ Over[1] = Targets
BY SizeAssumption DEF Over, Position

\* What a look-up by number returns are scans of that band and number, and it
\* returns every such scan, because there is at most one.
LEMMA LookUp ==
  ASSUME Distinct, NEW b, NEW n
  PROVE  ByIndex(b, n) = {p \in Position : BandOf(p) = b /\ number[p] = n}
<1> DEFINE S == {p \in Position : BandOf(p) = b /\ number[p] = n}
<1>1. \A p, q \in S : p = q
  BY DEF Distinct
<1>2. \A p \in S : \A q \in S : ~Before(q, p)
  BY <1>1, Irreflexive
<1>3. FirstOf(S) = S
  BY <1>2 DEF FirstOf
<1> QED
  BY <1>3 DEF ByIndex

\* The planned scans that a report is put down to: at most one, of its band. If
\* it does not have the number of the report, no scan of the band has.
LEMMA FoundScan ==
  ASSUME IInv, NEW r \in Report
  PROVE  /\ ById(r) \subseteq Position
         /\ \A p \in ById(r) : BandOf(p) = r.band
         /\ \A p, q \in ById(r) : p = q
         /\ \A p \in ById(r) :
              number[p] # r.number =>
                \A q \in Position : BandOf(q) = r.band => number[q] # r.number
<1>1. ByIndex(r.band, r.number)
        = {p \in Position : BandOf(p) = r.band /\ number[p] = r.number}
  BY LookUp DEF IInv
<1>2. CASE ByIndex(r.band, r.number) # {}
  <2>1. ById(r) = {p \in Position : BandOf(p) = r.band /\ number[p] = r.number}
    BY <1>1, <1>2 DEF ById
  <2> QED
    BY <2>1 DEF IInv, Distinct
<1>3. CASE ByIndex(r.band, r.number) = {}
  <2>1. ById(r) = {p \in Current : BandOf(p) = r.band}
    BY <1>3 DEF ById
  <2>2. ByIndex(BandOf(cur), cur[3])
          = {p \in Position : BandOf(p) = BandOf(cur) /\ number[p] = cur[3]}
    BY LookUp DEF IInv
  <2>3. Current \subseteq {p \in Position : BandOf(p) = BandOf(cur) /\ number[p] = cur[3]}
    BY <2>2 DEF Current
  <2>4. \A q \in Position : BandOf(q) = r.band => number[q] # r.number
    BY <1>1, <1>3
  <2> QED
    BY <2>1, <2>3, <2>4 DEF IInv, Distinct
<1> QED
  BY <1>2, <1>3

\* The invariant holds at the start.
LEMMA InitIInv == LedgerInit => IInv
<1> SUFFICES ASSUME LedgerInit PROVE IInv
  OBVIOUS
<1>1. LedgerTypeOK
  <2>1. number \in [Position -> Nat]
    BY PositionParts DEF LedgerInit
  <2>2. BandOf(First) \in Band
    BY SizeAssumption DEF BandOf, First, Band
  <2>3. reports \in Seq(Report)
    BY DEF LedgerInit
  <2> QED
    BY <2>1, <2>2, <2>3, FirstInPosition DEF LedgerInit, LedgerTypeOK
<1>2. OpenKeepsNumber
  BY DEF LedgerInit, OpenKeepsNumber
<1>3. Distinct
  BY PositionIsItsBandAndNumber DEF LedgerInit, Distinct
<1>4. EarlierDone
  BY PositionParts DEF LedgerInit, EarlierDone, First
<1>5. CurNotDone
  BY DEF LedgerInit, CurNotDone
<1> QED
  BY <1>1, <1>2, <1>3, <1>4, <1>5 DEF IInv

\* Marking keeps the numbers of the open scans and keeps all numbers apart.
LEMMA MarkStep ==
  ASSUME IInv, Mark
  PROVE  IInv'
<1> DEFINE r == Head(reports)
           found == ById(r)
<1>1. /\ r \in Report /\ r.number \in Nat
      /\ Tail(reports) \in Seq(Report)
  <2>1. reports \in Seq(Report) /\ reports # <<>>
    BY DEF IInv, LedgerTypeOK, Mark
  <2>2. Head(reports) \in Report /\ Tail(reports) \in Seq(Report)
    BY <2>1
  <2> QED
    BY <2>2 DEF Report
<1>2. /\ found \subseteq Position
      /\ \A p \in found : BandOf(p) = r.band
      /\ \A p, q \in found : p = q
      /\ \A p \in found :
           number[p] # r.number =>
             \A q \in Position : BandOf(q) = r.band => number[q] # r.number
  BY <1>1, FoundScan
<1>3. /\ number' = [p \in Position |-> IF p \in found THEN r.number ELSE number[p]]
      /\ done' = done \cup found
      /\ pending' = pending + 1 /\ reports' = Tail(reports)
      /\ UNCHANGED <<cur, state, count, taken, resetting, troubles>>
  BY DEF Mark
<1> HIDE DEF r, found
<1>4. LedgerTypeOK'
  <2>1. number' \in [Position -> Nat]
    BY <1>1, <1>3 DEF IInv, LedgerTypeOK
  <2> QED
    BY <1>1, <1>2, <1>3, <2>1 DEF IInv, LedgerTypeOK
<1>5. OpenKeepsNumber'
  BY <1>3 DEF IInv, OpenKeepsNumber
<1>6. Distinct'
  <2> SUFFICES ASSUME NEW p \in Position, NEW q \in Position,
                      BandOf(p) = BandOf(q), number'[p] = number'[q]
               PROVE  p = q
    BY DEF Distinct
  <2>1. CASE p \in found /\ q \in found
    BY <1>2, <2>1
  <2>2. CASE p \in found /\ q \notin found
    <3>1. number[q] = r.number
      BY <1>3, <2>2
    <3>2. number[p] = r.number
      BY <1>2, <2>2, <3>1
    <3> QED
      BY <3>1, <3>2 DEF IInv, Distinct
  <2>3. CASE p \notin found /\ q \in found
    <3>1. number[p] = r.number
      BY <1>3, <2>3
    <3>2. number[q] = r.number
      BY <1>2, <2>3, <3>1
    <3> QED
      BY <3>1, <3>2 DEF IInv, Distinct
  <2>4. CASE p \notin found /\ q \notin found
    BY <1>3, <2>4 DEF IInv, Distinct
  <2> QED
    BY <2>1, <2>2, <2>3, <2>4
<1>7. EarlierDone'
  BY <1>3 DEF IInv, EarlierDone
<1>8. CurNotDone'
  BY <1>3 DEF IInv, LedgerTypeOK, CurNotDone
<1> QED
  BY <1>4, <1>5, <1>6, <1>7, <1>8 DEF IInv

\* The search for the next scan leaves no open one behind and ends at an open
\* one or past the last.
LEMMA NextScanStep ==
  ASSUME IInv, NextScan, UNCHANGED <<number, done>>
  PROVE  cur' \in (Position \ done) \cup {Over} /\ EarlierDone'
<1>1. CASE \E p \in FirstOf(OpenFrom(cur[1])) : cur' = p
  <2> PICK p \in FirstOf(OpenFrom(cur[1])) : cur' = p
    BY <1>1
  <2>1. p \in Position \ done /\ \A q \in OpenFrom(cur[1]) : ~Before(q, p)
    BY DEF FirstOf, OpenFrom
  <2>2. ASSUME NEW q \in Position, q[1] < p[1], q \notin done
        PROVE  FALSE
    <3>1. ~(q[1] < cur[1])
      BY <2>2 DEF IInv, EarlierDone
    <3>2. q \in OpenFrom(cur[1])
      <4>1. q[1] \in Nat /\ cur[1] \in Nat
        BY PositionParts, OverNotPosition, SizeAssumption DEF IInv, LedgerTypeOK
      <4> QED
        BY <2>2, <3>1, <4>1 DEF OpenFrom
    <3> QED
      BY <2>1, <2>2, <3>2 DEF Before
  <2> QED
    BY <2>1, <2>2 DEF EarlierDone
<1>2. CASE OpenFrom(cur[1]) = {} /\ cur' = Over
  <2>1. ASSUME NEW q \in Position, q \notin done
        PROVE  FALSE
    <3>1. q[1] \in Nat /\ cur[1] \in Nat
      BY PositionParts, OverNotPosition, SizeAssumption DEF IInv, LedgerTypeOK
    <3>2. q[1] < cur[1]
      BY <1>2, <2>1, <3>1 DEF OpenFrom
    <3> QED
      BY <2>1, <3>2 DEF IInv, EarlierDone
  <2> QED
    BY <1>2, <2>1 DEF EarlierDone
<1> QED
  BY <1>1, <1>2 DEF NextScan

\* Going on to the next scan keeps the invariant.
LEMMA AdvanceStep ==
  ASSUME IInv, Advance
  PROVE  IInv'
<1>1. /\ pending > 0 /\ pending' = pending - 1
      /\ UNCHANGED <<number, done, state, count, taken, reports, resetting, troubles>>
  BY DEF Advance, processor
<1>2. CASE state = "scanning" /\ cur # Over
  <2>1. cur' \in (Position \ done) \cup {Over} /\ EarlierDone'
    BY <1>1, <1>2, NextScanStep DEF Advance
  <2>2. CurNotDone'
    BY <1>1, <2>1, OverNotPosition DEF CurNotDone, IInv, LedgerTypeOK
  <2> QED
    BY <1>1, <2>1, <2>2 DEF IInv, LedgerTypeOK, OpenKeepsNumber, Distinct
<1>3. CASE ~(state = "scanning" /\ cur # Over)
  <2>1. UNCHANGED cur
    BY <1>3 DEF Advance
  <2>2. CurNotDone'
    BY <1>1, <1>3, <2>1, OverNotPosition DEF CurNotDone, IInv, LedgerTypeOK
  <2> QED
    BY <1>1, <2>1, <2>2 DEF IInv, LedgerTypeOK, OpenKeepsNumber, Distinct, EarlierDone
<1> QED
  BY <1>2, <1>3

\* A step that leaves the plan, the indexes, the state and the waiting
\* transitions alone.
LEMMA LedgerKept ==
  ASSUME IInv, UNCHANGED ledger, LedgerTypeOK'
  PROVE  IInv'
BY DEF IInv, ledger, OpenKeepsNumber, Distinct, EarlierDone, CurNotDone

\* Every step keeps the invariant.
LEMMA NextIInv == IInv /\ [LedgerNext]_ledgerVars => IInv'
<1> SUFFICES ASSUME IInv, [LedgerNext]_ledgerVars PROVE IInv'
  OBVIOUS
<1>t. LedgerTypeOK
  BY DEF IInv
<1>1. CASE GiveUp
  BY <1>1, <1>t, LedgerKept DEF GiveUp, ledger, LedgerTypeOK
<1>2. CASE CompleteScan
  <2>1. [band |-> taken, number |-> count[taken]] \in Report
    BY <1>t DEF LedgerTypeOK, Report
  <2>2. reports' \in Seq(Report)
    BY <1>2, <1>t, <2>1 DEF CompleteScan, LedgerTypeOK
  <2>3. LedgerTypeOK'
    BY <1>2, <1>t, <2>2 DEF CompleteScan, ledger, LedgerTypeOK
  <2> QED
    BY <1>2, <2>3, LedgerKept DEF CompleteScan
<1>3. CASE DigitiserRestarts
  BY <1>3, <1>t, LedgerKept DEF DigitiserRestarts, ledger, LedgerTypeOK
<1>4. CASE SdpResets
  BY <1>4, <1>t, LedgerKept DEF SdpResets, ledger, LedgerTypeOK
<1>5. CASE Mark
  BY <1>5, MarkStep
<1>6. CASE Advance
  BY <1>6, AdvanceStep
<1>7. CASE Instruct
  <2>1. cur \in Position
    BY <1>7, <1>t DEF Instruct, LedgerTypeOK
  <2>2. BandOf(cur) \in Band
    BY <2>1, PositionParts DEF BandOf, Band
  <2> QED
    BY <1>7, <1>t, <2>2, LedgerKept DEF Instruct, ledger, LedgerTypeOK
<1>8. CASE Abort
  BY <1>8, <1>t DEF Abort, processor, IInv, LedgerTypeOK, OpenKeepsNumber, Distinct,
                    EarlierDone, CurNotDone
<1>9. CASE Reset
  <2>1. LedgerTypeOK'
    <3>1. number' \in [Position -> Nat]
      BY <1>9, PositionParts DEF Reset
    <3> QED
      BY <1>9, <1>t, <3>1, FirstInPosition DEF Reset, processor, LedgerTypeOK
  <2>2. OpenKeepsNumber' /\ CurNotDone'
    BY <1>9 DEF Reset, OpenKeepsNumber, CurNotDone
  <2>3. Distinct'
    BY <1>9, PositionIsItsBandAndNumber DEF Reset, Distinct
  <2>4. EarlierDone'
    BY <1>9, PositionParts DEF Reset, EarlierDone, First
  <2> QED
    BY <2>1, <2>2, <2>3, <2>4 DEF IInv
<1>10. CASE UNCHANGED ledgerVars
  BY <1>10, <1>t, LedgerKept DEF ledgerVars, ledger, LedgerTypeOK
<1> QED
  BY <1>1, <1>2, <1>3, <1>4, <1>5, <1>6, <1>7, <1>8, <1>9, <1>10 DEF LedgerNext

THEOREM PlanInvariant == LedgerSpec => []IInv
BY InitIInv, NextIInv, PTL DEF LedgerSpec

\* The indexes of an open scan lead to it.
LEMMA OpenScanIsCurrent == IInv => CurrentIsOpen
<1> SUFFICES ASSUME IInv, state = "scanning", pending = 0, cur # Over
             PROVE  Current = {cur} /\ cur \notin done
  BY DEF CurrentIsOpen
<1>1. cur \in Position \ done
  BY DEF IInv, LedgerTypeOK, CurNotDone
<1>2. Current = {p \in Position : BandOf(p) = BandOf(cur) /\ number[p] = cur[3]}
  BY LookUp DEF IInv, Current
<1>3. number[cur] = cur[3]
  BY <1>1 DEF IInv, OpenKeepsNumber
<1> QED
  BY <1>1, <1>2, <1>3 DEF IInv, Distinct

\* Whatever numbers the processor gives its scans, and however often it starts
\* them anew, the indexes of an observation that is scanning lead to a scan of
\* the plan that is not complete.
THEOREM IndexesLeadToOpenScan == LedgerSpec => []CurrentIsOpen
BY OpenScanIsCurrent, PlanInvariant, PTL

\* An observation does not end while a planned scan is open.
THEOREM EndsWithPlan == LedgerSpec => []OverMeansDone
<1>1. IInv => OverMeansDone
  BY PositionParts, OverNotPosition DEF IInv, LedgerTypeOK, EarlierDone, OverMeansDone
<1> QED
  BY <1>1, PlanInvariant, PTL

-----------------------------------------------------------------------------
(* Every report counts.                                                     *)

\* Nothing before the current scan is open.
PassedDone == \A p \in Position : Before(p, cur) => p \in done

\* A band the observation has got to.
Reached(b) == b[1] < cur[1] \/ (b[1] = cur[1] /\ b[2] <= cur[2])

\* The numbers of a band go up from the scans that were ticked off, over the reports on
\* their way in their order, to the number the processor takes next.
NumbersRise ==
    /\ \A p \in done : number[p] < count[BandOf(p)]
    /\ \A i \in 1..Len(reports) :
          /\ reports[i].number < count[reports[i].band]
          /\ \A p \in done : BandOf(p) = reports[i].band => number[p] < reports[i].number
    /\ \A i, j \in 1..Len(reports) :
          i < j /\ reports[i].band = reports[j].band => reports[i].number < reports[j].number

\* The processor takes what the observation has got to.
TakenIsReached == Reached(taken) /\ \A i \in 1..Len(reports) : Reached(reports[i].band)

Undisturbed == troubles = 0 =>
    state = "scanning" /\ ~resetting /\ NumbersRise /\ TakenIsReached

CountInv == IInv /\ PassedDone /\ Undisturbed

\* The parts of a band are numbers.
LEMMA BandParts ==
  ASSUME NEW b \in Band
  PROVE  /\ b = <<b[1], b[2]>>
         /\ b[1] \in Nat /\ b[1] < Targets
         /\ b[2] \in Nat /\ b[2] < Bands
BY SizeAssumption DEF Band

\* The parts of the current position are numbers.
LEMMA CurParts ==
  ASSUME LedgerTypeOK
  PROVE  cur[1] \in Nat /\ cur[2] \in Nat /\ cur[3] \in Nat
<1>1. CASE cur = Over
  BY <1>1, SizeAssumption DEF Over
<1>2. QED BY <1>1, PositionParts DEF LedgerTypeOK

\* The parts of a report.
LEMMA ReportParts ==
  ASSUME LedgerTypeOK, NEW i \in 1..Len(reports)
  PROVE  reports[i].band \in Band /\ reports[i].number \in Nat
<1>1. reports[i] \in Report
  BY DEF LedgerTypeOK
<1>2. QED BY <1>1 DEF Report

\* The search for the next scan passes over what is done, and nothing else.
LEMMA NextScanPasses ==
  ASSUME IInv, PassedDone, NextScan, UNCHANGED done
  PROVE  /\ PassedDone'
         /\ \A b \in Band : Reached(b) => Reached(b)'
<1>1. LedgerTypeOK /\ EarlierDone
  BY DEF IInv
<1>2. cur[1] \in Nat /\ cur[2] \in Nat /\ cur[3] \in Nat
  BY <1>1, CurParts
<1>3. ASSUME NEW q \in Position, q \notin done
      PROVE  q \in OpenFrom(cur[1]) /\ ~Before(q, cur)
  <2>1. q[1] \in Nat /\ ~(q[1] < cur[1]) /\ ~Before(q, cur)
    BY <1>1, <1>3, PositionParts DEF EarlierDone, PassedDone
  <2>2. QED BY <1>2, <1>3, <2>1 DEF OpenFrom
<1>4. CASE \E p \in FirstOf(OpenFrom(cur[1])) : cur' = p
  <2>1. PICK p \in FirstOf(OpenFrom(cur[1])) : cur' = p
    BY <1>4
  <2>2. p \in Position \ done /\ \A q \in OpenFrom(cur[1]) : ~Before(q, p)
    BY <2>1 DEF FirstOf, OpenFrom
  <2>3. PassedDone'
    BY <1>3, <2>1, <2>2 DEF PassedDone
  <2>4. ~Before(p, cur) /\ p[1] \in Nat /\ p[2] \in Nat /\ p[3] \in Nat
    BY <1>3, <2>2, PositionParts
  <2>5. ASSUME NEW b \in Band, Reached(b)
        PROVE  Reached(b)'
    BY <1>2, <2>1, <2>4, <2>5, BandParts DEF Reached, Before
  <2>6. QED BY <2>3, <2>5
<1>5. CASE OpenFrom(cur[1]) = {} /\ cur' = Over
  <2>1. PassedDone'
    BY <1>3, <1>5 DEF PassedDone
  <2>2. \A b \in Band : Reached(b)'
    BY <1>5, OverNotPosition, BandParts DEF Reached
  <2>3. QED BY <2>1, <2>2
<1>6. QED BY <1>4, <1>5 DEF NextScan

\* Ticking off by the report at the head keeps the numbers rising.
LEMMA MarkCounts ==
  ASSUME CountInv, Mark
  PROVE  CountInv'
<1>1. IInv /\ LedgerTypeOK /\ PassedDone /\ Undisturbed
  BY DEF CountInv, IInv
<1>2. IInv'
  BY <1>1, MarkStep
<1> DEFINE r == Head(reports)
           found == ById(r)
<1>3. /\ number' = [p \in Position |-> IF p \in found THEN r.number ELSE number[p]]
      /\ done' = done \cup found
      /\ reports' = Tail(reports)
      /\ UNCHANGED <<cur, state, count, taken, resetting, troubles>>
  BY DEF Mark
<1>4. /\ reports \in Seq(Report) /\ reports # <<>> /\ Len(reports) \in Nat \ {0}
      /\ r = reports[1] /\ r \in Report
      /\ Len(reports') = Len(reports) - 1
      /\ \A i \in 1..Len(reports') : reports'[i] = reports[i + 1] /\ reports[i + 1] \in Report
  BY <1>1, <1>3 DEF Mark, LedgerTypeOK
<1>5. /\ found \subseteq Position
      /\ \A p \in found : BandOf(p) = r.band
  BY <1>1, <1>4, FoundScan
<1> HIDE DEF r, found
<1>6. PassedDone'
  BY <1>1, <1>3 DEF PassedDone
<1>7. ASSUME troubles = 0
      PROVE  state = "scanning" /\ ~resetting /\ NumbersRise' /\ TakenIsReached'
  <2>1. state = "scanning" /\ ~resetting /\ NumbersRise /\ TakenIsReached
    BY <1>1, <1>7 DEF Undisturbed
  <2>2. TakenIsReached'
    BY <1>3, <1>4, <2>1 DEF TakenIsReached, Reached
  <2>3. \A p \in done' : number'[p] < count[BandOf(p)]
    BY <1>1, <1>3, <1>4, <1>5, <2>1 DEF NumbersRise, LedgerTypeOK
  <2>4. \A i \in 1..Len(reports') : i + 1 \in 1..Len(reports)
    BY <1>4
  <2>5. ASSUME NEW i \in 1..Len(reports')
        PROVE  /\ reports'[i].number < count[reports'[i].band]
               /\ \A p \in done' : BandOf(p) = reports'[i].band => number'[p] < reports'[i].number
    <3>1. /\ reports'[i] = reports[i + 1] /\ i + 1 \in 1..Len(reports)
          /\ 1 < i + 1 /\ 1 \in 1..Len(reports)
      BY <1>4, <2>4
    <3>2. reports[i + 1].number < count[reports[i + 1].band]
      BY <2>1, <3>1 DEF NumbersRise
    <3>3. r.band = reports[i + 1].band => r.number < reports[i + 1].number
      BY <1>4, <2>1, <3>1 DEF NumbersRise
    <3>4. \A p \in done : BandOf(p) = reports[i + 1].band => number[p] < reports[i + 1].number
      BY <2>1, <3>1 DEF NumbersRise
    <3>5. ASSUME NEW p \in done', BandOf(p) = reports[i + 1].band
          PROVE  number'[p] < reports[i + 1].number
      <4>1. p \in Position
        BY <1>1, <1>3, <1>5 DEF LedgerTypeOK
      <4>2. CASE p \in found
        BY <1>3, <1>5, <3>3, <3>5, <4>1, <4>2
      <4>3. CASE p \notin found
        BY <1>3, <3>4, <3>5, <4>1, <4>3
      <4>4. QED BY <4>2, <4>3
    <3>6. QED BY <3>1, <3>2, <3>5
  <2>6. ASSUME NEW i \in 1..Len(reports'), NEW j \in 1..Len(reports'),
               i < j, reports'[i].band = reports'[j].band
        PROVE  reports'[i].number < reports'[j].number
    <3>1. /\ reports'[i] = reports[i + 1] /\ reports'[j] = reports[j + 1] /\ i + 1 < j + 1
          /\ i + 1 \in 1..Len(reports) /\ j + 1 \in 1..Len(reports)
      BY <1>4, <2>4, <2>6
    <3>2. QED BY <2>1, <2>6, <3>1 DEF NumbersRise
  <2>7. NumbersRise'
    BY <1>3, <2>3, <2>5, <2>6 DEF NumbersRise
  <2>8. QED BY <2>1, <2>2, <2>7
<1>8. Undisturbed'
  BY <1>3, <1>7 DEF Undisturbed
<1>9. QED BY <1>2, <1>6, <1>8 DEF CountInv

\* A complete scan is reported with a number above those of its band before it.
LEMMA CompleteCounts ==
  ASSUME CountInv, CompleteScan
  PROVE  CountInv'
<1>1. IInv /\ LedgerTypeOK /\ PassedDone /\ Undisturbed
  BY DEF CountInv, IInv
<1>2. IInv'
  BY <1>1, NextIInv DEF LedgerNext
<1> DEFINE r == [band |-> taken, number |-> count[taken]]
<1>3. /\ reports' = Append(reports, r) /\ count' = [count EXCEPT ![taken] = @ + 1]
      /\ UNCHANGED <<number, done, cur, state, taken, resetting, troubles>>
  BY DEF CompleteScan, ledger
<1>4. r.band = taken /\ r.number = count[taken]
  OBVIOUS
<1> HIDE DEF r
<1>5. /\ Len(reports) \in Nat /\ Len(reports') = Len(reports) + 1
      /\ reports'[Len(reports) + 1] = r
      /\ \A i \in 1..Len(reports) : reports'[i] = reports[i] /\ reports[i] \in Report
  BY <1>1, <1>3 DEF LedgerTypeOK
<1>6. /\ \A b \in Band : count[b] \in Nat /\ count'[b] \in Nat /\ count[b] <= count'[b]
      /\ taken \in Band /\ count'[taken] = count[taken] + 1
  BY <1>1, <1>3 DEF LedgerTypeOK
<1>7. \A p \in done : p \in Position /\ BandOf(p) \in Band /\ number[p] \in Nat
  BY <1>1, PositionParts DEF LedgerTypeOK, BandOf, Band
<1>8. \A i \in 1..Len(reports) : reports[i].band \in Band /\ reports[i].number \in Nat
  BY <1>1, ReportParts
<1>9. ASSUME troubles = 0
      PROVE  state = "scanning" /\ ~resetting /\ NumbersRise' /\ TakenIsReached'
  <2>1. state = "scanning" /\ ~resetting /\ NumbersRise /\ TakenIsReached
    BY <1>1, <1>9 DEF Undisturbed
  <2>2. \A i \in 1..Len(reports') : \/ i \in 1..Len(reports)
                                    \/ i = Len(reports) + 1 /\ reports'[i] = r
    BY <1>5
  <2>3. TakenIsReached'
    BY <1>3, <1>4, <1>5, <2>1, <2>2 DEF TakenIsReached, Reached
  <2>4. \A p \in done' : number'[p] < count'[BandOf(p)]
    BY <1>3, <1>6, <1>7, <2>1 DEF NumbersRise
  <2>5. ASSUME NEW i \in 1..Len(reports')
        PROVE  /\ reports'[i].number < count'[reports'[i].band]
               /\ \A p \in done' : BandOf(p) = reports'[i].band => number'[p] < reports'[i].number
    <3>1. CASE i \in 1..Len(reports)
      <4>1. reports[i].number < count[reports[i].band]
        BY <2>1, <3>1 DEF NumbersRise
      <4>2. reports'[i].number < count'[reports'[i].band]
        BY <1>5, <1>6, <1>8, <3>1, <4>1
      <4>3. QED BY <1>3, <1>5, <2>1, <3>1, <4>2 DEF NumbersRise
    <3>2. CASE reports'[i] = r
      BY <1>3, <1>4, <1>6, <2>1, <3>2 DEF NumbersRise
    <3>3. QED BY <2>2, <3>1, <3>2
  <2>6. ASSUME NEW i \in 1..Len(reports'), NEW j \in 1..Len(reports'),
               i < j, reports'[i].band = reports'[j].band
        PROVE  reports'[i].number < reports'[j].number
    <3>1. i \in 1..Len(reports) /\ reports'[i] = reports[i]
      BY <1>5, <2>6
    <3>2. CASE j \in 1..Len(reports)
      BY <1>5, <2>1, <2>6, <3>1, <3>2 DEF NumbersRise
    <3>3. CASE reports'[j] = r
      <4>1. reports[i].number < count[reports[i].band] /\ reports[i].band = taken
        BY <1>4, <2>1, <2>6, <3>1, <3>3 DEF NumbersRise
      <4>2. QED BY <1>4, <3>1, <3>3, <4>1
    <3>4. QED BY <2>2, <3>2, <3>3
  <2>7. NumbersRise'
    BY <2>4, <2>5, <2>6 DEF NumbersRise
  <2>8. QED BY <2>1, <2>3, <2>7
<1>10. Undisturbed' /\ PassedDone'
  BY <1>1, <1>3, <1>9 DEF Undisturbed, PassedDone
<1>11. QED BY <1>2, <1>10 DEF CountInv

\* Every step keeps the order of the reports.
LEMMA CountStep == CountInv /\ [LedgerNext]_ledgerVars => CountInv'
<1> SUFFICES ASSUME CountInv, [LedgerNext]_ledgerVars
             PROVE  CountInv'
  OBVIOUS
<1>1. IInv /\ LedgerTypeOK /\ PassedDone /\ Undisturbed
  BY DEF CountInv, IInv
<1>2. IInv'
  BY <1>1, NextIInv
<1>3. CASE GiveUp
  <2>1. /\ UNCHANGED <<number, done, cur, state, taken, reports, resetting, troubles>>
        /\ count' = [count EXCEPT ![taken] = @ + 1]
    BY <1>3 DEF GiveUp, ledger
  <2>2. \A b \in Band : count[b] \in Nat /\ count'[b] \in Nat /\ count[b] <= count'[b]
    BY <1>1, <2>1 DEF LedgerTypeOK
  <2>3. \A p \in done : BandOf(p) \in Band /\ number[p] \in Nat
    BY <1>1, PositionParts DEF LedgerTypeOK, BandOf, Band
  <2>4. \A i \in 1..Len(reports) : reports[i].band \in Band /\ reports[i].number \in Nat
    BY <1>1, ReportParts
  <2>5. NumbersRise => NumbersRise'
    BY <2>1, <2>2, <2>3, <2>4 DEF NumbersRise
  <2>6. QED BY <1>1, <1>2, <2>1, <2>5
            DEF CountInv, Undisturbed, PassedDone, TakenIsReached, Reached
<1>4. CASE CompleteScan
  BY <1>4, CompleteCounts
<1>5. CASE DigitiserRestarts
  BY <1>1, <1>2, <1>5
     DEF DigitiserRestarts, ledger, CountInv, Undisturbed, PassedDone, LedgerTypeOK
<1>6. CASE SdpResets
  BY <1>1, <1>2, <1>6 DEF SdpResets, ledger, CountInv, Undisturbed, PassedDone
<1>7. CASE Mark
  BY <1>7, MarkCounts
<1>8. CASE Advance
  <2>1. UNCHANGED <<number, done, state, count, taken, reports, resetting, troubles>>
    BY <1>8 DEF Advance, processor
  <2>2. taken \in Band /\ \A i \in 1..Len(reports) : reports[i].band \in Band
    BY <1>1, ReportParts DEF LedgerTypeOK
  <2>3. PassedDone' /\ (\A b \in Band : Reached(b) => Reached(b)')
    BY <1>1, <1>8, <2>1, NextScanPasses DEF Advance, PassedDone, Reached
  <2>4. TakenIsReached => TakenIsReached'
    BY <2>1, <2>2, <2>3 DEF TakenIsReached, Reached
  <2>5. QED BY <1>1, <1>2, <2>1, <2>3, <2>4 DEF CountInv, Undisturbed, NumbersRise
<1>9. CASE Instruct
  <2>1. /\ UNCHANGED <<number, done, cur, state, count, reports, resetting, troubles>>
        /\ taken' = BandOf(cur)
    BY <1>9 DEF Instruct, ledger
  <2>2. cur[2] \in Nat
    BY <1>1, CurParts
  <2>3. TakenIsReached => TakenIsReached'
    BY <2>1, <2>2 DEF TakenIsReached, Reached, BandOf
  <2>4. QED BY <1>1, <1>2, <2>1, <2>3 DEF CountInv, Undisturbed, NumbersRise, PassedDone
<1>10. CASE Abort
  BY <1>1, <1>2, <1>10 DEF Abort, processor, CountInv, Undisturbed, PassedDone, LedgerTypeOK
<1>11. CASE Reset
  <2>1. troubles' = troubles /\ troubles # 0 /\ cur' = First
    BY <1>1, <1>11 DEF Reset, Undisturbed
  <2>2. \A p \in Position : ~Before(p, First)
    BY PositionParts DEF Before, First
  <2>3. QED BY <1>2, <2>1, <2>2 DEF CountInv, Undisturbed, PassedDone
<1>12. CASE UNCHANGED ledgerVars
  BY <1>1, <1>2, <1>12
     DEF ledgerVars, CountInv, Undisturbed, PassedDone, NumbersRise, TakenIsReached,
         Reached
<1>13. QED BY <1>3, <1>4, <1>5, <1>6, <1>7, <1>8, <1>9, <1>10, <1>11, <1>12 DEF LedgerNext

\* At the start there are no reports.
LEMMA CountStart == LedgerInit => CountInv
<1> SUFFICES ASSUME LedgerInit
             PROVE  CountInv
  OBVIOUS
<1>1. PassedDone
  BY PositionParts DEF LedgerInit, PassedDone, Before, First
<1>2. NumbersRise /\ TakenIsReached
  BY DEF LedgerInit, NumbersRise, TakenIsReached, Reached, First, BandOf
<1>3. QED BY <1>1, <1>2, InitIInv DEF LedgerInit, CountInv, Undisturbed

\* The scan a report ticks off.
LEMMA MarkTicksOff ==
  ASSUME CountInv, Mark, troubles = 0, pending = 0
  PROVE  \/ \E p \in Position \ done : done' = done \cup {p}
         \/ \A p \in Position : BandOf(p) = Head(reports).band => p \in done
<1>1. IInv /\ LedgerTypeOK /\ PassedDone /\ NumbersRise /\ TakenIsReached /\ state = "scanning"
  BY DEF CountInv, IInv, Undisturbed
<1> DEFINE r == Head(reports)
<1>2. done' = done \cup ById(r)
  BY DEF Mark
<1>3. r = reports[1] /\ 1 \in 1..Len(reports) /\ r \in Report
  BY <1>1 DEF Mark, LedgerTypeOK
<1> HIDE DEF r
<1>4. ByIndex(r.band, r.number) = {p \in Position : BandOf(p) = r.band /\ number[p] = r.number}
  BY <1>1, LookUp DEF IInv
<1>5. CASE ByIndex(r.band, r.number) # {}
  <2>1. PICK p \in Position : BandOf(p) = r.band /\ number[p] = r.number
    BY <1>4, <1>5
  <2>2. ById(r) = {p}
    BY <1>1, <1>4, <1>5, <2>1 DEF ById, IInv, Distinct
  <2>3. p \notin done
    <3>1. ASSUME p \in done
          PROVE  FALSE
      <4>1. number[p] < r.number
        BY <1>1, <1>3, <2>1, <3>1 DEF NumbersRise
      <4>2. number[p] \in Nat
        BY <1>1 DEF LedgerTypeOK
      <4>3. QED BY <2>1, <4>1, <4>2
    <3>2. QED BY <3>1
  <2>4. QED BY <1>2, <2>2, <2>3
<1>6. CASE ByIndex(r.band, r.number) = {} /\ cur = Over
  BY <1>1, <1>6, PositionParts, OverNotPosition DEF IInv, EarlierDone
<1>7. CASE ByIndex(r.band, r.number) = {} /\ cur # Over
  <2>1. Current = {cur} /\ cur \in Position \ done
    BY <1>1, <1>7, OpenScanIsCurrent DEF CurrentIsOpen, LedgerTypeOK
  <2>2. CASE BandOf(cur) = r.band
    <3>1. ById(r) = {cur}
      BY <1>7, <2>1, <2>2 DEF ById
    <3>2. QED BY <1>2, <2>1, <3>1
  <2>3. CASE BandOf(cur) # r.band
    <3>1. Reached(r.band) /\ r.band \in Band
      BY <1>1, <1>3 DEF TakenIsReached, Report
    <3>2. \A p \in Position : BandOf(p) = r.band => Before(p, cur)
      <4>1. r.band[1] < cur[1] \/ (r.band[1] = cur[1] /\ r.band[2] < cur[2])
        BY <2>1, <2>3, <3>1, BandParts, PositionParts DEF Reached, BandOf
      <4>2. QED BY <4>1 DEF Before, BandOf
    <3>3. QED BY <1>1, <3>2 DEF PassedDone, r
  <2>4. QED BY <2>2, <2>3
<1>8. QED BY <1>5, <1>6, <1>7 DEF r

\* The inductive invariant of the counting: until the digitiser restarts or the
\* observation is aborted, the numbers of a band rise from the scans that were ticked
\* off over the reports under way to the processor's counter (sdp.py:305, tm.py:797).
THEOREM NumbersKeepRising == LedgerSpec => []CountInv
<1>1. QED BY CountStart, CountStep, PTL DEF LedgerSpec

\* A report ticks off an open scan, unless its band is complete: the two numberings
\* may part without losing a scan to the plan (models/target.py).
THEOREM ReportsCount == LedgerSpec => EveryReportCounts
<1>1. CountInv /\ [LedgerNext]_ledgerVars
        => [Mark /\ troubles = 0 /\ pending = 0 =>
              \/ \E p \in Position \ done : done' = done \cup {p}
              \/ \A p \in Position : BandOf(p) = Head(reports).band => p \in done]_ledgerVars
  BY MarkTicksOff
<1>2. QED BY <1>1, NumbersKeepRising, PTL DEF LedgerSpec, EveryReportCounts

(***************************************************************************)
(* MsgFraming. A receiver to which all bytes on their way had come would   *)
(* have delivered all that was sent (FramingInv). The loop over the blocks *)
(* is a recursive function: it exists because each block leaves fewer      *)
(* bytes (DrainedIs), and bytes may be worked off when they come or later  *)
(* (DrainWorks), so it does not matter what pieces they come in.           *)
(***************************************************************************)
\* A receiver into whose buffer more bytes come.
With(r, w) == [buffer |-> r.buffer \o w, partial |-> r.partial, delivered |-> r.delivered]

\* The size of the block at the head of a buffer, the number of blocks behind it,
\* its bytes, and the bytes behind it.
Size(b) == Number(b[1], b[2])
Left(b) == Number(b[3], b[4])
Body(b) == SubSeq(b, 5, HeaderLength + Size(b))
After(b) == SubSeq(b, HeaderLength + Size(b) + 1, Len(b))

\* The buffer begins with a block.
Begins(b) == Len(b) >= HeaderLength /\ Len(b) >= HeaderLength + Size(b)

\* What a block is put together with, and whether it is the last, does the rest.
Taken(b, partial, delivered) ==
    IF Left(b) = 0 THEN [buffer |-> After(b), partial |-> <<>>,
                         delivered |-> Append(delivered, partial \o Body(b))]
    ELSE [buffer |-> After(b), partial |-> partial \o Body(b), delivered |-> delivered]

\* The fields of a receiver.
LEMMA ReceiverIs ==
  ASSUME NEW r \in Receivers
  PROVE  /\ r = [buffer |-> r.buffer, partial |-> r.partial, delivered |-> r.delivered]
         /\ r.buffer \in Message /\ r.partial \in Message /\ r.delivered \in Seq(Message)
         /\ Len(r.buffer) \in Nat
BY DEF Receivers, Message

\* What taking out a block does depends on what the buffer begins with.
LEMMA TakeBlockIs ==
  ASSUME NEW r \in Receivers
  PROVE  /\ HasBlock(r) <=> Begins(r.buffer)
         /\ TakeBlock(r) = Taken(r.buffer, r.partial, r.delivered)
<1>1. HasBlock(r) <=> Begins(r.buffer)
  BY DEF HasBlock, Begins, Size
<1>2. PICK a : a = After(r.buffer)
  OBVIOUS
<1>3. PICK m : m = r.partial \o Body(r.buffer)
  OBVIOUS
<1>4. TakeBlock(r) = IF Left(r.buffer) = 0
                       THEN [buffer |-> a, partial |-> <<>>, delivered |-> Append(r.delivered, m)]
                       ELSE [r EXCEPT !.buffer = a, !.partial = m]
  BY <1>2, <1>3 DEF TakeBlock, After, Body, Size, Left
<1>5. [r EXCEPT !.buffer = a, !.partial = m]
        = [buffer |-> a, partial |-> m, delivered |-> r.delivered]
  <2>1. r = [buffer |-> r.buffer, partial |-> r.partial, delivered |-> r.delivered]
    BY ReceiverIs
  <2>2. PICK y : y = [r EXCEPT !.buffer = a, !.partial = m]
    OBVIOUS
  <2>3. y = [buffer |-> a, partial |-> m, delivered |-> r.delivered]
    BY <2>1, <2>2
  <2>4. QED BY <2>2, <2>3
<1>6. QED BY <1>1, <1>2, <1>3, <1>4, <1>5 DEF Taken

\* The sizes of the header are numbers.
LEMMA BlockParts ==
  ASSUME NEW b \in Message, Begins(b)
  PROVE  /\ Size(b) \in Nat /\ Left(b) \in Nat /\ Len(b) \in Nat
         /\ HeaderLength + Size(b) \in 4..Len(b)
         /\ Body(b) \in Message /\ Len(Body(b)) = Size(b)
         /\ \A i \in 1..Size(b) : Body(b)[i] = b[4 + i]
         /\ After(b) \in Message /\ Len(After(b)) = Len(b) - 4 - Size(b)
         /\ \A i \in 1..(Len(b) - 4 - Size(b)) : After(b)[i] = b[4 + Size(b) + i]
<1>1. Len(b) \in Nat /\ Len(b) >= 4 /\ Base \in Nat
  BY BaseAssumption DEF Begins, HeaderLength, Message
<1>2. \A i \in 1..Len(b) : b[i] \in 0..(Base - 1) /\ b[i] \in Nat
  BY <1>1 DEF Message
<1>3. b[1] \in Nat /\ b[2] \in Nat /\ b[3] \in Nat /\ b[4] \in Nat
  BY <1>1, <1>2
<1>4. \A x, y \in Nat : x * Base + y \in Nat
  BY <1>1
<1>5. Size(b) \in Nat /\ Left(b) \in Nat
  BY <1>3, <1>4 DEF Size, Left, Number
<1>6. PICK n \in Nat : n = Size(b)
  BY <1>5
<1>7. 4 + n <= Len(b)
  BY <1>6 DEF Begins, HeaderLength
<1>8. /\ Body(b) \in Message /\ Len(Body(b)) = n
      /\ \A i \in 1..n : Body(b)[i] = b[4 + i]
  <2>1. \A i \in 5..(4 + n) : b[i] \in 0..(Base - 1)
    BY <1>1, <1>2, <1>7
  <2>2. PICK c : c = SubSeq(b, 5, 4 + n)
    OBVIOUS
  <2>3. /\ c \in Seq(0..(Base - 1)) /\ Len(c) = IF 5 <= 4 + n THEN (4 + n) - 5 + 1 ELSE 0
        /\ \A i \in 1..((4 + n) - 5 + 1) : c[i] = b[5 + i - 1]
    BY <2>1, <2>2, SubSeqProperties
  <2>4. \A i \in 1..n : 5 + i - 1 = 4 + i
    OBVIOUS
  <2>5. Body(b) = c
    BY <1>6, <2>2 DEF Body, HeaderLength
  <2>6. Len(c) = n /\ \A i \in 1..n : c[i] = b[4 + i]
    BY <2>3, <2>4
  <2>7. QED BY <2>3, <2>5, <2>6 DEF Message
<1>9. /\ After(b) \in Message /\ Len(After(b)) = Len(b) - 4 - n
      /\ \A i \in 1..(Len(b) - 4 - n) : After(b)[i] = b[4 + n + i]
  <2>1. PICK k \in 0..Len(b) : k = 4 + n
    BY <1>1, <1>7
  <2>2. /\ SubSeq(b, k + 1, Len(b)) \in Seq(0..(Base - 1))
        /\ Len(SubSeq(b, k + 1, Len(b))) = Len(b) - k
        /\ \A i \in 1..(Len(b) - k) : SubSeq(b, k + 1, Len(b))[i] = b[k + i]
    BY Rest DEF Message
  <2>3. After(b) = SubSeq(b, k + 1, Len(b))
    BY <1>6, <2>1 DEF After, HeaderLength
  <2>4. Len(b) - k = Len(b) - 4 - n
    BY <1>1, <2>1
  <2>5. QED BY <2>1, <2>2, <2>3, <2>4 DEF Message
<1>10. QED BY <1>1, <1>5, <1>6, <1>7, <1>8, <1>9 DEF HeaderLength

\* A block is taken out whole: the receiver remains one, and has less to do.
LEMMA BlockTaken ==
  ASSUME NEW r \in Receivers, HasBlock(r)
  PROVE  TakeBlock(r) \in Receivers /\ Len(TakeBlock(r).buffer) < Len(r.buffer)
<1>1. PICK b \in Message : b = r.buffer /\ Begins(b)
  BY ReceiverIs, TakeBlockIs
<1>2. PICK p \in Message : p = r.partial
  BY ReceiverIs
<1>3. PICK d \in Seq(Message) : d = r.delivered
  BY ReceiverIs
<1>4. /\ Size(b) \in Nat /\ Len(b) \in Nat /\ Body(b) \in Message
      /\ After(b) \in Message /\ Len(After(b)) = Len(b) - 4 - Size(b)
  BY <1>1, BlockParts
<1>5. p \o Body(b) \in Message
  BY <1>4, ConcatProperties DEF Message
<1>6. Append(d, p \o Body(b)) \in Seq(Message)
  BY <1>5, AppendProperties
<1>7. <<>> \in Message
  BY DEF Message
<1>8. PICK t : t = TakeBlock(r)
  OBVIOUS
<1>9. t = Taken(b, p, d)
  BY <1>1, <1>2, <1>3, <1>8, TakeBlockIs
<1>10. CASE Left(b) = 0
  <2>1. t = [buffer |-> After(b), partial |-> <<>>, delivered |-> Append(d, p \o Body(b))]
    BY <1>9, <1>10 DEF Taken
  <2>2. QED BY <1>1, <1>4, <1>6, <1>7, <1>8, <2>1 DEF Receivers, Message
<1>11. CASE Left(b) # 0
  <2>1. t = [buffer |-> After(b), partial |-> p \o Body(b), delivered |-> d]
    BY <1>9, <1>11 DEF Taken
  <2>2. QED BY <1>1, <1>4, <1>5, <1>8, <2>1 DEF Receivers, Message
<1>12. QED BY <1>10, <1>11

\* The loop is the function its definition says.
LEMMA DrainedIs ==
  ASSUME NEW r \in Receivers
  PROVE  Drained[r] = IF HasBlock(r) THEN Drained[TakeBlock(r)] ELSE r
<1>1. PICK size : size = [x \in Receivers |-> Len(x.buffer)]
  OBVIOUS
<1>2. PICK stop : stop = [x \in Receivers |-> ~HasBlock(x)]
  OBVIOUS
<1>3. PICK last : last = [x \in Receivers |-> x]
  OBVIOUS
<1>4. PICK succ : succ = [x \in Receivers |-> IF HasBlock(x) THEN TakeBlock(x) ELSE x]
  OBVIOUS
<1>5. \A x \in Receivers : Len(x.buffer) \in Nat
  BY ReceiverIs
<1>6. /\ size \in [Receivers -> Nat] /\ stop \in [Receivers -> BOOLEAN]
      /\ last \in [Receivers -> Receivers]
  BY <1>1, <1>2, <1>3, <1>5
<1>7. succ \in [Receivers -> Receivers]
  BY <1>4, BlockTaken
<1>8. Descends(Receivers, size, stop, succ)
  BY <1>1, <1>2, <1>4, BlockTaken DEF Descends
<1>9. PICK f \in [Receivers -> Receivers] : Recurs(f, Receivers, stop, last, succ)
  BY <1>6, <1>7, <1>8, TailRecursion
<1>10. f = [x \in Receivers |-> IF HasBlock(x) THEN f[TakeBlock(x)] ELSE x]
  <2>. SUFFICES ASSUME NEW x \in Receivers
                PROVE  f[x] = IF HasBlock(x) THEN f[TakeBlock(x)] ELSE x
    OBVIOUS
  <2>1. (stop[x] <=> ~HasBlock(x)) /\ last[x] = x
    BY <1>2, <1>3
  <2>2. HasBlock(x) => succ[x] = TakeBlock(x)
    BY <1>4
  <2>3. f[x] = IF stop[x] THEN last[x] ELSE f[succ[x]]
    BY <1>9 DEF Recurs
  <2>4. QED BY <2>1, <2>2, <2>3
<1>11. Drained = [x \in Receivers |-> IF HasBlock(x) THEN Drained[TakeBlock(x)] ELSE x]
  BY <1>10, Zenon DEF Drained
<1>12. QED BY <1>11

\* A receiver with more bytes is one.
LEMMA WithIs ==
  ASSUME NEW r \in Receivers, NEW w \in Message
  PROVE  With(r, w) \in Receivers /\ With(r, w).buffer = r.buffer \o w
<1>1. PICK c \in Message : c = r.buffer \o w
  <2>1. r.buffer \o w \in Message
    BY ReceiverIs, ConcatProperties DEF Message
  <2>2. QED BY <2>1
<1>2. With(r, w) = [buffer |-> c, partial |-> r.partial, delivered |-> r.delivered]
  BY <1>1 DEF With
<1>3. c \in Seq(0..(Base - 1))
  BY DEF Message
<1>4. QED BY <1>1, <1>2, <1>3, ReceiverIs DEF Receivers

\* A block in the buffer is taken out alike whatever comes behind it.
LEMMA MoreBytes ==
  ASSUME NEW r \in Receivers, HasBlock(r), NEW w \in Message
  PROVE  HasBlock(With(r, w)) /\ TakeBlock(With(r, w)) = With(TakeBlock(r), w)
<1>1. PICK b \in Message : b = r.buffer /\ Begins(b)
  BY ReceiverIs, TakeBlockIs
<1>2. PICK c : c = b \o w
  OBVIOUS
<1>3. /\ c \in Message /\ Len(c) = Len(b) + Len(w) /\ Len(b) \in Nat /\ Len(w) \in Nat
      /\ \A i \in 1..(Len(b) + Len(w)) : c[i] = IF i <= Len(b) THEN b[i] ELSE w[i - Len(b)]
  BY <1>2, ConcatProperties DEF Message
<1>4. /\ Size(b) \in Nat /\ HeaderLength + Size(b) \in 4..Len(b)
      /\ Body(b) \in Message /\ Len(Body(b)) = Size(b)
      /\ \A i \in 1..Size(b) : Body(b)[i] = b[4 + i]
      /\ After(b) \in Message /\ Len(After(b)) = Len(b) - 4 - Size(b)
      /\ \A i \in 1..(Len(b) - 4 - Size(b)) : After(b)[i] = b[4 + Size(b) + i]
  BY <1>1, BlockParts
<1>5. PICK n \in Nat : n = Size(b) /\ 4 + n <= Len(b)
  BY <1>3, <1>4 DEF HeaderLength
<1>6. Size(c) = n /\ Left(c) = Left(b)
  <2>1. c[1] = b[1] /\ c[2] = b[2] /\ c[3] = b[3] /\ c[4] = b[4]
    BY <1>3, <1>5
  <2>2. QED BY <1>5, <2>1 DEF Size, Left
<1>7. Begins(c)
  BY <1>3, <1>5, <1>6 DEF Begins, HeaderLength
<1>8. /\ Body(c) \in Message /\ Len(Body(c)) = n
      /\ \A i \in 1..n : Body(c)[i] = c[4 + i]
      /\ After(c) \in Message /\ Len(After(c)) = Len(c) - 4 - n
      /\ \A i \in 1..(Len(c) - 4 - n) : After(c)[i] = c[4 + n + i]
  BY <1>3, <1>6, <1>7, BlockParts
<1>9. Body(c) = Body(b)
  <2>1. \A i \in 1..n : Body(c)[i] = Body(b)[i]
    <3>. SUFFICES ASSUME NEW i \in 1..n PROVE Body(c)[i] = Body(b)[i]
      OBVIOUS
    <3>1. 4 + i \in 1..(Len(b) + Len(w)) /\ 4 + i <= Len(b)
      BY <1>3, <1>5
    <3>2. QED BY <1>3, <1>4, <1>5, <1>8, <3>1
  <2>2. QED BY <1>4, <1>5, <1>8, <2>1, SeqEqual DEF Message
<1>10. After(c) = After(b) \o w
  <2>1. PICK a \in Message : a = After(b)
    BY <1>4
  <2>2. PICK m \in Nat : m = Len(a) /\ m = Len(b) - 4 - n
    BY <1>3, <1>4, <1>5, <2>1
  <2>3. PICK e : e = a \o w
    OBVIOUS
  <2>4. /\ e \in Message /\ Len(e) = m + Len(w)
        /\ \A i \in 1..(m + Len(w)) : e[i] = IF i <= m THEN a[i] ELSE w[i - m]
    <3>1. /\ e \in Message /\ Len(e) = Len(a) + Len(w)
          /\ \A i \in 1..(Len(a) + Len(w)) : e[i] = IF i <= Len(a) THEN a[i] ELSE w[i - Len(a)]
      BY <2>3, ConcatProperties DEF Message
    <3>2. QED BY <2>2, <3>1
  <2>5. Len(After(c)) = m + Len(w)
    BY <1>3, <1>8, <2>2
  <2>6. \A i \in 1..(m + Len(w)) : After(c)[i] = e[i]
    <3>. SUFFICES ASSUME NEW i \in 1..(m + Len(w)) PROVE After(c)[i] = e[i]
      OBVIOUS
    <3>1. /\ i \in 1..(Len(c) - 4 - n) /\ 4 + n + i \in 1..(Len(b) + Len(w))
          /\ (4 + n + i <= Len(b)) <=> (i <= m)
          /\ (4 + n + i) - Len(b) = i - m
      BY <1>3, <2>2
    <3>2. After(c)[i] = IF i <= m THEN b[4 + n + i] ELSE w[i - m]
      BY <1>3, <1>8, <3>1
    <3>3. i <= m => a[i] = b[4 + n + i]
      BY <1>4, <1>5, <2>1, <2>2
    <3>4. QED BY <2>4, <3>2, <3>3
  <2>7. After(c) = e
    BY <1>8, <2>4, <2>5, <2>6, SeqEqual DEF Message
  <2>8. QED BY <2>1, <2>3, <2>7
<1>11. With(r, w) \in Receivers /\ With(r, w).buffer = c
  BY <1>1, <1>2, WithIs
<1>12. PICK p : p = r.partial
  OBVIOUS
<1>13. PICK d : d = r.delivered
  OBVIOUS
<1>14. With(r, w).partial = p /\ With(r, w).delivered = d
  BY <1>12, <1>13 DEF With
<1>15. TakeBlock(r) = Taken(b, p, d) /\ TakeBlock(With(r, w)) = Taken(c, p, d)
  BY <1>1, <1>11, <1>12, <1>13, <1>14, TakeBlockIs
<1>16. HasBlock(With(r, w))
  BY <1>7, <1>11, TakeBlockIs
<1>17. Taken(c, p, d) = With(Taken(b, p, d), w)
  <2>1. CASE Left(b) = 0
    <3>1. Taken(b, p, d) = [buffer |-> After(b), partial |-> <<>>,
                            delivered |-> Append(d, p \o Body(b))]
      BY <2>1 DEF Taken
    <3>2. Taken(c, p, d) = [buffer |-> After(b) \o w, partial |-> <<>>,
                            delivered |-> Append(d, p \o Body(b))]
      BY <1>6, <1>9, <1>10, <2>1 DEF Taken
    <3>3. QED BY <3>1, <3>2 DEF With
  <2>2. CASE Left(b) # 0
    <3>1. Taken(b, p, d) = [buffer |-> After(b), partial |-> p \o Body(b), delivered |-> d]
      BY <2>2 DEF Taken
    <3>2. Taken(c, p, d) = [buffer |-> After(b) \o w, partial |-> p \o Body(b), delivered |-> d]
      BY <1>6, <1>9, <1>10, <2>2 DEF Taken
    <3>3. QED BY <3>1, <3>2 DEF With
  <2>3. QED BY <2>1, <2>2
<1>18. QED BY <1>15, <1>16, <1>17

\* What the loop leaves is a receiver without a block, and bytes may be worked
\* off when they come or later.
Works(r, w) ==
    /\ Drained[r] \in Receivers /\ ~HasBlock(Drained[r])
    /\ Drained[With(Drained[r], w)] = Drained[With(r, w)]
    /\ IsPrefix(r.delivered, Drained[r].delivered)

\* Taking out a block does not change what has been delivered.
LEMMA DeliveredGrows ==
  ASSUME NEW r \in Receivers, HasBlock(r)
  PROVE  IsPrefix(r.delivered, TakeBlock(r).delivered)
<1>1. PICK b \in Message : b = r.buffer /\ Begins(b)
  BY ReceiverIs, TakeBlockIs
<1>2. PICK p \in Message : p = r.partial
  BY ReceiverIs
<1>3. PICK d \in Seq(Message) : d = r.delivered
  BY ReceiverIs
<1>4. p \o Body(b) \in Message
  BY <1>1, BlockParts, ConcatProperties DEF Message
<1>5. IsPrefix(d, d) /\ IsPrefix(d, Append(d, p \o Body(b)))
  BY <1>4, PrefixOf
<1>6. TakeBlock(r) = Taken(b, p, d)
  BY <1>1, <1>2, <1>3, TakeBlockIs
<1>7. TakeBlock(r).delivered = d \/ TakeBlock(r).delivered = Append(d, p \o Body(b))
  BY <1>6 DEF Taken
<1>8. QED BY <1>3, <1>5, <1>7

\* The loop does what it is for.
LEMMA DrainWorks ==
  ASSUME NEW r \in Receivers, NEW w \in Message
  PROVE  Works(r, w)
<1>1. PICK T : T = {n \in Nat : \E x \in Receivers : Len(x.buffer) = n /\ ~Works(x, w)}
  OBVIOUS
<1>2. ASSUME T # {} PROVE FALSE
  <2>1. PICK n \in T : \A m \in T : n <= m
    BY <1>1, <1>2, LeastNumber
  <2>2. PICK x \in Receivers : Len(x.buffer) = n /\ ~Works(x, w)
    BY <1>1
  <2>3. CASE HasBlock(x)
    <3>1. PICK t \in Receivers : t = TakeBlock(x) /\ Len(t.buffer) < n
      BY <2>2, <2>3, BlockTaken
    <3>2. Len(t.buffer) \in Nat /\ n \in Nat
      BY <1>1, ReceiverIs
    <3>3. Works(t, w)
      BY <1>1, <2>1, <3>1, <3>2
    <3>4. Drained[x] = Drained[t]
      BY <2>3, <3>1, DrainedIs
    <3>5. With(x, w) \in Receivers /\ HasBlock(With(x, w)) /\ TakeBlock(With(x, w)) = With(t, w)
      BY <2>3, <3>1, WithIs, MoreBytes
    <3>6. Drained[With(x, w)] = Drained[With(t, w)]
      BY <3>5, DrainedIs
    <3>7. IsPrefix(x.delivered, Drained[t].delivered)
      <4>1. IsPrefix(x.delivered, t.delivered) /\ IsPrefix(t.delivered, Drained[t].delivered)
        BY <2>3, <3>1, <3>3, DeliveredGrows DEF Works
      <4>2. /\ x.delivered \in Seq(Message) /\ t.delivered \in Seq(Message)
            /\ Drained[t].delivered \in Seq(Message)
        BY <3>3, ReceiverIs DEF Works
      <4>3. QED BY <4>1, <4>2, PrefixThrough
    <3>8. Works(x, w)
      BY <3>3, <3>4, <3>6, <3>7 DEF Works
    <3>9. QED BY <2>2, <3>8
  <2>4. CASE ~HasBlock(x)
    <3>1. Drained[x] = x
      BY <2>4, DrainedIs
    <3>2. IsPrefix(x.delivered, x.delivered)
      <4>1. x.delivered \in Seq(Message) /\ <<>> \in Message
        BY ReceiverIs DEF Message
      <4>2. QED BY <4>1, PrefixOf
    <3>3. QED BY <2>2, <2>4, <3>1, <3>2 DEF Works
  <2>5. QED BY <2>3, <2>4
<1>3. Len(r.buffer) \in Nat
  BY ReceiverIs
<1>4. QED BY <1>1, <1>2, <1>3

\* The number of blocks is the one that is needed.
LEMMA BlocksNeeded ==
  ASSUME NEW l \in Nat
  PROVE  /\ Blocks(l) \in Nat /\ l <= Blocks(l) * MaxBlock /\ Blocks(l) * MaxBlock < l + MaxBlock
         /\ \A i \in Nat : i * MaxBlock <= l => Blocks(l - i * MaxBlock) = Blocks(l) - i
         /\ Blocks(0) = 0
<1>1. PICK d \in Nat \ {0} : d = MaxBlock
  BY MaxBlockAssumption, BaseAssumption
<1>2. PICK x \in Int : x = l + d - 1
  OBVIOUS
<1>3. PICK q \in Int : q = (x \div d)
  BY DivMod
<1>4. PICK r \in 0..(d - 1) : x = (d * q) + r
  BY <1>3, DivMod
<1>5. Blocks(l) = q
  BY <1>1, <1>2, <1>3 DEF Blocks
<1>6. l <= q * d /\ q * d < l + d
  BY <1>2, <1>4
<1>7. q \in Nat
  <2>1. CASE q < 0
    <3>1. q * d <= -d
      BY <2>1
    <3>2. QED BY <1>6, <3>1
  <2>2. QED BY <2>1
<1>8. ASSUME NEW i \in Nat, i * d <= l PROVE Blocks(l - i * d) = q - i
  <2>1. PICK y \in Int : y = l - i * d + d - 1
    OBVIOUS
  <2>2. y = (d * (q - i)) + r
    BY <1>2, <1>4, <2>1
  <2>3. PICK p \in Int : p = q - i
    OBVIOUS
  <2>4. y = (d * p) + r
    BY <2>2, <2>3
  <2>5. (y \div d) = p
    BY <2>4, DivUnique
  <2>6. QED BY <1>1, <2>1, <2>3, <2>5 DEF Blocks
<1>9. Blocks(0) = 0
  <2>1. PICK y \in Int : y = 0 + d - 1
    OBVIOUS
  <2>2. y = (d * 0) + (d - 1) /\ d - 1 \in 0..(d - 1)
    BY <2>1
  <2>3. (y \div d) = 0
    BY <2>2, DivUnique
  <2>4. QED BY <1>1, <2>1, <2>3 DEF Blocks
<1>10. QED BY <1>1, <1>5, <1>6, <1>7, <1>8, <1>9

\* A number of two digits comes out of the header as it went in.
LEMMA TwoDigits ==
  ASSUME NEW x \in 0..(Base * Base - 1)
  PROVE  /\ x \div Base \in 0..(Base - 1) /\ (x % Base) \in 0..(Base - 1)
         /\ Number(x \div Base, x % Base) = x
<1>1. PICK b \in Nat \ {0} : b = Base
  BY BaseAssumption
<1>. x \in Int
  BY <1>1
<1>2. PICK q \in Int : q = (x \div b)
  BY DivMod
<1>3. PICK r \in 0..(b - 1) : r = (x % b) /\ x = (b * q) + r
  BY <1>2, DivMod
<1>4. q >= 0
  <2>1. CASE q < 0
    <3>1. b * q <= -b
      BY <2>1
    <3>2. QED BY <1>3, <3>1
  <2>2. QED BY <2>1
<1>5. q < b
  <2>1. CASE q >= b
    <3>1. b * q >= b * b
      BY <2>1
    <3>2. x < b * b
      BY <1>1
    <3>3. QED BY <1>3, <3>1, <3>2
  <2>2. QED BY <2>1
<1>6. q * b + r = x
  BY <1>3
<1>7. QED BY <1>1, <1>2, <1>3, <1>4, <1>5, <1>6 DEF Number

\* The header of a block tells its size and how many blocks follow.
LEMMA HeaderIs ==
  ASSUME NEW s \in 0..(Base * Base - 1), NEW l \in 0..(Base * Base - 1)
  PROVE  /\ Header(s, l) \in Message /\ Len(Header(s, l)) = 4
         /\ Size(Header(s, l)) = s /\ Left(Header(s, l)) = l
<1>1. /\ s \div Base \in 0..(Base - 1) /\ (s % Base) \in 0..(Base - 1)
      /\ l \div Base \in 0..(Base - 1) /\ (l % Base) \in 0..(Base - 1)
      /\ Number(s \div Base, s % Base) = s /\ Number(l \div Base, l % Base) = l
  BY TwoDigits
<1>2. PICK a \in 0..(Base - 1), b \in 0..(Base - 1), c \in 0..(Base - 1), d \in 0..(Base - 1) :
         a = s \div Base /\ b = (s % Base) /\ c = l \div Base /\ d = (l % Base)
  BY <1>1
<1>3. Header(s, l) = <<a, b, c, d>>
  BY <1>2 DEF Header
<1>4. <<a, b, c, d>> \in Message /\ Len(<<a, b, c, d>>) = 4
  BY DEF Message
<1>5. Size(<<a, b, c, d>>) = s /\ Left(<<a, b, c, d>>) = l
  BY <1>1, <1>2 DEF Size, Left
<1>6. QED BY <1>3, <1>4, <1>5

\* The bytes of a message that are in its first blocks.
Upto(message, i) == SubSeq(message, 1, Min({i * MaxBlock, Len(message)}))

\* A block as it is sent.
IsBlock(g, message, i) ==
    /\ g \in Message /\ Begins(g)
    /\ Left(g) = Blocks(Len(message)) - i
    /\ After(g) = <<>>
    /\ Upto(message, i - 1) \o Body(g) = Upto(message, i)
    /\ i = Blocks(Len(message)) => Upto(message, i) = message

\* What the sender writes for a part of a message is a block.
LEMMA BlockSent ==
  ASSUME NEW message \in Message, Numberable(message), NEW i \in 1..Blocks(Len(message))
  PROVE  IsBlock(Framed(message, (i - 1) * MaxBlock), message, i)
<1>1. PICK l \in Nat : l = Len(message)
  BY DEF Message
<1>2. PICK n \in Nat : n = Blocks(l)
  BY BlocksNeeded
<1>3. PICK d \in Nat \ {0} : d = MaxBlock
  BY MaxBlockAssumption, BaseAssumption
<1>4. l <= n * d /\ n * d < l + d /\ n <= Base * Base
  BY <1>1, <1>2, <1>3, BlocksNeeded DEF Numberable
<1>5. PICK o \in Nat : o = (i - 1) * d
  <2>1. i - 1 \in Nat
    OBVIOUS
  <2>2. QED BY <2>1
<1>6. PICK k \in Nat : k = i * d
  OBVIOUS
<1>7. k = o + d
  BY <1>5, <1>6
<1>8. o < l
  <2>1. i <= n
    BY <1>1, <1>2
  <2>2. k <= n * d
    BY <1>6, <2>1
  <2>3. QED BY <1>4, <1>7, <2>2
<1>9. PICK e \in Nat : e = IF k <= l THEN k ELSE l
  OBVIOUS
<1>10. e \in (o + 1)..l /\ e - o \in 1..d
  BY <1>7, <1>8, <1>9
<1>11. Min({k, l}) = e /\ Min({o, l}) = o
  BY <1>8, <1>9, MinOfTwo
<1>12. (i = n => e = l) /\ Blocks(l - e) = n - i
  <2>1. CASE i = n
    <3>1. e = l
      BY <1>4, <1>6, <1>9, <2>1
    <3>2. l - e = 0 /\ n - i = 0
      BY <2>1, <3>1
    <3>3. QED BY <3>1, <3>2, BlocksNeeded
  <2>2. CASE i # n
    <3>1. i + 1 <= n
      BY <1>1, <1>2, <2>2
    <3>2. k + d <= n * d
      <4>1. (i + 1) * d <= n * d
        BY <3>1
      <4>2. (i + 1) * d = k + d
        BY <1>6
      <4>3. QED BY <4>1, <4>2
    <3>3. k <= l /\ e = k
      BY <1>4, <1>9, <3>2
    <3>4. Blocks(l - i * d) = n - i
      BY <1>2, <1>3, <1>6, <3>3, BlocksNeeded
    <3>5. QED BY <1>6, <2>2, <3>3, <3>4
  <2>3. QED BY <2>1, <2>2
<1>13. PICK c : c = SubSeq(message, o + 1, e)
  OBVIOUS
<1>14. c \in Message /\ Len(c) = e - o
  <2>1. \A j \in (o + 1)..e : message[j] \in 0..(Base - 1)
    <3>1. message \in Seq(0..(Base - 1)) /\ \A j \in (o + 1)..e : j \in 1..Len(message)
      BY <1>1, <1>10 DEF Message
    <3>2. QED BY <3>1, ElementOfSeq
  <2>2. /\ c \in Seq(0..(Base - 1))
        /\ Len(c) = IF o + 1 <= e THEN e - (o + 1) + 1 ELSE 0
    BY <1>13, <2>1, SubSeqProperties
  <2>3. QED BY <1>10, <2>2 DEF Message
<1>15. PICK s \in 0..(Base * Base - 1) : s = e - o
  BY <1>3, <1>10, MaxBlockAssumption, BaseAssumption
<1>16. PICK x \in 0..(Base * Base - 1) : x = n - i
  BY <1>1, <1>2, <1>4, BaseAssumption
<1>17. PICK h : h = Header(s, x)
  OBVIOUS
<1>18. h \in Message /\ Len(h) = 4 /\ Size(h) = s /\ Left(h) = x
  BY <1>17, HeaderIs
<1>19. PICK g : g = h \o c
  OBVIOUS
<1>20. Framed(message, (i - 1) * MaxBlock) = g
  <2>1. (i - 1) * MaxBlock = o /\ o + MaxBlock = k
    BY <1>3, <1>5, <1>7
  <2>2. SubSeq(message, o + 1, Min({k, l})) = c
    BY <1>11, <1>13
  <2>3. l - o - Len(c) = l - e
    BY <1>10, <1>14
  <2>4. Blocks(l - o - Len(c)) = x
    BY <1>12, <1>16, <2>3
  <2>5. QED BY <1>1, <1>14, <1>15, <1>17, <1>19, <2>1, <2>2, <2>4 DEF Framed
<1>21. /\ g \in Message /\ Len(g) = 4 + s
       /\ \A j \in 1..(4 + s) : g[j] = IF j <= 4 THEN h[j] ELSE c[j - 4]
  <2>1. /\ g \in Message /\ Len(g) = Len(h) + Len(c)
        /\ \A j \in 1..(Len(h) + Len(c)) : g[j] = IF j <= Len(h) THEN h[j] ELSE c[j - Len(h)]
    BY <1>14, <1>18, <1>19, ConcatProperties DEF Message
  <2>2. QED BY <1>14, <1>15, <1>18, <2>1
<1>22. Size(g) = s /\ Left(g) = x
  <2>1. g[1] = h[1] /\ g[2] = h[2] /\ g[3] = h[3] /\ g[4] = h[4]
    BY <1>21
  <2>2. QED BY <1>18, <2>1 DEF Size, Left
<1>23. Begins(g)
  BY <1>21, <1>22 DEF Begins, HeaderLength
<1>24. /\ Body(g) \in Message /\ Len(Body(g)) = s
       /\ \A j \in 1..s : Body(g)[j] = g[4 + j]
       /\ After(g) \in Message /\ Len(After(g)) = Len(g) - 4 - s
  BY <1>21, <1>22, <1>23, BlockParts
<1>25. After(g) = <<>>
  <2>1. Len(After(g)) = 0
    BY <1>21, <1>24
  <2>2. QED BY <1>24, <2>1 DEF Message
<1>26. Body(g) = c
  <2>1. \A j \in 1..s : Body(g)[j] = c[j]
    <3>. SUFFICES ASSUME NEW j \in 1..s PROVE Body(g)[j] = c[j]
      OBVIOUS
    <3>1. 4 + j \in 1..(4 + s) /\ ~(4 + j <= 4) /\ (4 + j) - 4 = j
      OBVIOUS
    <3>2. QED BY <1>21, <1>24, <3>1
  <2>2. QED BY <1>14, <1>15, <1>24, <2>1, SeqEqual DEF Message
<1>27. Upto(message, i - 1) = SubSeq(message, 1, o) /\ Upto(message, i) = SubSeq(message, 1, e)
  BY <1>1, <1>3, <1>5, <1>6, <1>11 DEF Upto
<1>28. SubSeq(message, 1, o) \o c = SubSeq(message, 1, e)
  <2>1. /\ 1 \in 1..(Len(message) + 1) /\ o \in (1 - 1)..Len(message)
        /\ e \in o..Len(message)
    BY <1>1, <1>8, <1>10
  <2>2. QED BY <1>13, <2>1, ConcatAdjacentSubSeq DEF Message
<1>29. i = n => Upto(message, i) = message
  BY <1>1, <1>12, <1>27, SubSeqFull DEF Message
<1>30. QED BY <1>1, <1>2, <1>16, <1>20, <1>21, <1>22, <1>23, <1>25, <1>26, <1>27, <1>28, <1>29
       DEF IsBlock

\* A receiver that has nothing left to do.
Holding(buffer, partial, delivered) ==
    [buffer |-> buffer, partial |-> partial, delivered |-> delivered]

\* A receiver made of its fields.
LEMMA AtIs ==
  ASSUME NEW b \in Message, NEW p \in Message, NEW d \in Seq(Message)
  PROVE  /\ Holding(b, p, d) \in Receivers
         /\ Holding(b, p, d).buffer = b /\ Holding(b, p, d).partial = p
         /\ Holding(b, p, d).delivered = d
         /\ b = <<>> => Drained[Holding(b, p, d)] = Holding(b, p, d)
<1>1. Holding(b, p, d) \in Receivers /\ Holding(b, p, d).buffer = b
      /\ Holding(b, p, d).partial = p /\ Holding(b, p, d).delivered = d
  BY DEF Holding, Receivers, Message
<1>2. ASSUME b = <<>> PROVE ~HasBlock(Holding(b, p, d))
  <2>1. Len(b) = 0
    BY <1>2
  <2>2. QED BY <1>1, <2>1 DEF HasBlock, HeaderLength
<1>3. QED BY <1>1, <1>2, DrainedIs

\* The blocks of a message that have come are in the message put together, and
\* the message is passed on with the last.
LEMMA MessageComes ==
  ASSUME NEW message \in Message, message # <<>>, Numberable(message), NEW d \in Seq(Message)
  PROVE  /\ Wire(message) \in Message
         /\ Drained[Holding(Wire(message), <<>>, d)] = Holding(<<>>, <<>>, Append(d, message))
<1>1. PICK n \in Nat : n = Blocks(Len(message)) /\ n > 0
  <2>1. Len(message) \in Nat /\ Len(message) > 0
    BY DEF Message
  <2>2. PICK n \in Nat : n = Blocks(Len(message)) /\ Len(message) <= n * MaxBlock
    BY <2>1, BlocksNeeded
  <2>3. n # 0
    <3>1. CASE n = 0
      <4>1. n * MaxBlock = 0
        BY <3>1, MaxBlockAssumption, BaseAssumption
      <4>2. QED BY <2>1, <2>2, <4>1
    <3>2. QED BY <3>1
  <2>4. QED BY <2>2, <2>3
<1>2. PICK g : g = [i \in 1..n |-> Framed(message, (i - 1) * MaxBlock)]
  OBVIOUS
<1>3. \A i \in 1..n : IsBlock(g[i], message, i)
  BY <1>1, <1>2, BlockSent
<1>4. g \in [1..n -> Seq(0..(Base - 1))]
  <2>1. \A i \in 1..n : g[i] \in Seq(0..(Base - 1))
    BY <1>3 DEF IsBlock, Message
  <2>2. QED BY <1>2, <2>1
<1>5. Wire(message) = JoinedUpto(g, n)
  <2>1. Wire(message) = FlattenSeq(g)
    BY <1>1, <1>2 DEF Wire
  <2>2. n \in 0..n
    OBVIOUS
  <2>3. QED BY <1>4, <2>1, <2>2, JoinedStep
<1>6. PICK moved : moved = [k \in 0..n |->
                       IF k = n THEN Holding(<<>>, <<>>, Append(d, message))
                       ELSE Holding(<<>>, Upto(message, k), d)]
  OBVIOUS
<1>7. PICK T : T = {k \in 0..n : Drained[Holding(JoinedUpto(g, k), <<>>, d)] # moved[k]}
  OBVIOUS
<1>8. \A k \in 0..n : JoinedUpto(g, k) \in Message
  BY <1>4, JoinedStep DEF Message
<1>9. <<>> \in Message
  BY DEF Message
<1>10. \A k \in 0..n : Upto(message, k) \in Message
  <2>. SUFFICES ASSUME NEW k \in 0..n PROVE Upto(message, k) \in Message
    OBVIOUS
  <2>1. PICK x \in Nat : x = k * MaxBlock
    BY MaxBlockAssumption, BaseAssumption
  <2>2. PICK l \in Nat : l = Len(message)
    BY DEF Message
  <2>3. Min({x, l}) \in 0..Len(message)
    BY <2>2, MinOfTwo
  <2>4. QED BY <2>1, <2>2, <2>3, Beginning DEF Upto, Message
<1>11. ASSUME T # {} PROVE FALSE
  <2>1. PICK k \in T : \A m \in T : k <= m
    <3>1. T \subseteq Nat
      BY <1>7
    <3>2. QED BY <1>11, <3>1, LeastNumber
  <2>2. k \in 0..n /\ k \in Nat /\ Drained[Holding(JoinedUpto(g, k), <<>>, d)] # moved[k]
    BY <1>7
  <2>3. k # 0
    <3>1. CASE k = 0
      <4>1. JoinedUpto(g, 0) = <<>>
        BY <1>4, <2>2, JoinedStep
      <4>2. Drained[Holding(<<>>, <<>>, d)] = Holding(<<>>, <<>>, d)
        BY <1>9, AtIs
      <4>3. Upto(message, 0) = <<>>
        <5>1. PICK l \in Nat : l = Len(message)
          BY DEF Message
        <5>2. 0 * MaxBlock = 0 /\ Min({0, l}) = 0
          BY MinOfTwo, MaxBlockAssumption, BaseAssumption
        <5>3. SubSeq(message, 1, 0) = <<>>
          BY SubSeqEmpty
        <5>4. QED BY <5>1, <5>2, <5>3 DEF Upto
      <4>4. QED BY <1>1, <1>6, <2>2, <3>1, <4>1, <4>2, <4>3
    <3>2. QED BY <3>1
  <2>4. k \in 1..n /\ k - 1 \in 0..n /\ k - 1 # n /\ k - 1 \notin T
    BY <2>1, <2>2, <2>3
  <2>5. PICK p \in Message : p = Upto(message, k - 1)
    BY <1>10, <2>4
  <2>6. Drained[Holding(JoinedUpto(g, k - 1), <<>>, d)] = Holding(<<>>, p, d)
    BY <1>6, <1>7, <2>4, <2>5
  <2>7. PICK q \in Message : q = JoinedUpto(g, k - 1)
    BY <1>8, <2>4
  <2>8. PICK b \in Message : b = g[k] /\ IsBlock(b, message, k)
    BY <1>3, <2>4 DEF IsBlock
  <2>9. JoinedUpto(g, k) = q \o b
    <3>1. k > 0
      BY <2>2, <2>3
    <3>2. JoinedUpto(g, k) = JoinedUpto(g, k - 1) \o g[k]
      <4>1. PICK S : S = 0..(Base - 1)
        OBVIOUS
      <4>2. g \in [1..n -> Seq(S)]
        BY <1>4, <4>1
      <4>3. k \in 0..n
        BY <2>2
      <4>4. k > 0 => JoinedUpto(g, k) = JoinedUpto(g, k - 1) \o g[k]
        BY <4>2, <4>3, JoinedStep
      <4>5. QED BY <3>1, <4>4
    <3>3. QED BY <2>7, <2>8, <3>2
  <2>10. Holding(JoinedUpto(g, k), <<>>, d) = With(Holding(q, <<>>, d), b)
    BY <2>9 DEF Holding, With
  <2>11. With(Holding(<<>>, p, d), b) = Holding(b, p, d)
    <3>1. <<>> \o b = b
      BY ConcatEmptySeq DEF Message
    <3>2. QED BY <3>1 DEF Holding, With
  <2>12. Drained[Holding(JoinedUpto(g, k), <<>>, d)] = Drained[Holding(b, p, d)]
    <3>1. Works(Holding(q, <<>>, d), b)
      BY <1>9, AtIs, DrainWorks
    <3>2. QED BY <2>6, <2>7, <2>10, <2>11, <3>1 DEF Works
  <2>13. HasBlock(Holding(b, p, d)) /\ TakeBlock(Holding(b, p, d)) = Taken(b, p, d)
    <3>1. PICK r : r = Holding(b, p, d)
      OBVIOUS
    <3>2. r \in Receivers /\ r.buffer = b /\ r.partial = p /\ r.delivered = d
      BY <3>1, AtIs
    <3>3. /\ HasBlock(r) <=> Begins(r.buffer)
          /\ TakeBlock(r) = Taken(r.buffer, r.partial, r.delivered)
      BY <3>2, TakeBlockIs
    <3>4. Begins(b)
      BY <2>8 DEF IsBlock
    <3>5. QED BY <3>1, <3>2, <3>3, <3>4
  <2>14. Drained[Holding(b, p, d)] = Drained[Taken(b, p, d)]
    BY <2>13, AtIs, DrainedIs
  <2>15. Taken(b, p, d) = moved[k]
    <3>1. p \o Body(b) = Upto(message, k) /\ After(b) = <<>> /\ Left(b) = n - k
      BY <1>1, <2>5, <2>8 DEF IsBlock
    <3>2. CASE k = n
      <4>1. Upto(message, k) = message /\ Left(b) = 0
        BY <1>1, <2>8, <3>1, <3>2 DEF IsBlock
      <4>2. QED BY <1>6, <2>2, <3>1, <3>2, <4>1 DEF Taken, Holding
    <3>3. CASE k # n
      <4>1. Left(b) # 0
        BY <2>2, <3>1, <3>3
      <4>2. QED BY <1>6, <2>2, <3>1, <3>3, <4>1 DEF Taken, Holding
    <3>4. QED BY <3>2, <3>3
  <2>16. Drained[moved[k]] = moved[k]
    <3>1. Append(d, message) \in Seq(Message)
      BY AppendProperties
    <3>2. Upto(message, k) \in Message
      BY <1>10, <2>2
    <3>3. CASE k = n
      <4>1. PICK a \in Seq(Message) : a = Append(d, message)
        BY <3>1
      <4>2. moved[k] = Holding(<<>>, <<>>, a)
        BY <1>6, <2>2, <3>3, <4>1
      <4>3. QED BY <1>9, <4>2, AtIs
    <3>4. CASE k # n
      <4>1. moved[k] = Holding(<<>>, Upto(message, k), d)
        BY <1>6, <2>2, <3>4
      <4>2. QED BY <1>9, <3>2, <4>1, AtIs
    <3>5. QED BY <3>3, <3>4
  <2>17. QED BY <2>2, <2>12, <2>14, <2>15, <2>16
<1>12. n \in 0..n /\ n \notin T
  BY <1>11
<1>13. QED BY <1>5, <1>6, <1>7, <1>8, <1>12

\* The messages a receiver can get to know of, in order.
Expected(s) == FlattenSeq([i \in DOMAIN s |-> Recognised(s[i])])

\* One message more is expected when it has been sent, unless it is empty.
LEMMA ExpectedIs ==
  ASSUME NEW s \in Seq(Message), NEW m \in Message
  PROVE  /\ Expected(s) \in Seq(Message) /\ Expected(<<>>) = <<>>
         /\ Expected(Append(s, m)) = Expected(s) \o Recognised(m)
<1>1. PICK n \in Nat : n = Len(s) /\ DOMAIN s = 1..n
  OBVIOUS
<1>2. PICK a \in Seq(Message) : a = Append(s, m)
  BY AppendProperties
<1>3. Len(a) = n + 1 /\ DOMAIN a = 1..(n + 1) /\ a[n + 1] = m /\ \A i \in 1..n : a[i] = s[i]
  BY <1>1, <1>2, AppendProperties, LenProperties
<1>4. PICK g : g = [i \in 1..(n + 1) |-> Recognised(a[i])]
  OBVIOUS
<1>5. g \in [1..(n + 1) -> Seq(Message)]
  <2>1. \A x \in Message : Recognised(x) \in Seq(Message)
    <3>1. <<>> \in Seq(Message) /\ \A x \in Message : <<x>> \in Seq(Message)
      OBVIOUS
    <3>2. QED BY <3>1 DEF Recognised
  <2>2. \A i \in 1..(n + 1) : a[i] \in Message
    BY <1>2, <1>3, ElementOfSeq
  <2>3. QED BY <1>4, <2>1, <2>2
<1>6. n + 1 \in Nat /\ n + 1 \in 0..(n + 1) /\ n \in 0..(n + 1) /\ n + 1 > 0 /\ (n + 1) - 1 = n
  OBVIOUS
<1>7. /\ JoinedUpto(g, n + 1) = JoinedUpto(g, n) \o g[n + 1]
      /\ JoinedUpto(g, n + 1) = FlattenSeq(g)
      /\ JoinedUpto(g, n) \in Seq(Message) /\ JoinedUpto(g, 0) = <<>>
  <2>1. PICK k \in Nat : k = n + 1
    OBVIOUS
  <2>2. g \in [1..k -> Seq(Message)] /\ k \in 1..k /\ n \in 0..k /\ k - 1 = n
    BY <1>5, <2>1
  <2>3. JoinedUpto(g, k) = JoinedUpto(g, k - 1) \o g[k]
    BY <2>2, JoinedOne
  <2>4. /\ JoinedUpto(g, n) \in Seq(Message) /\ JoinedUpto(g, 0) = <<>>
        /\ JoinedUpto(g, k) = FlattenSeq(g)
    BY <2>2, JoinedStep
  <2>5. QED BY <2>1, <2>2, <2>3, <2>4
<1>8. FlattenSeq(g) = Expected(a)
  BY <1>3, <1>4 DEF Expected
<1>9. JoinedUpto(g, n) = Expected(s)
  <2>1. [i \in 1..n |-> g[i]] = [i \in DOMAIN s |-> Recognised(s[i])]
    BY <1>1, <1>3, <1>4
  <2>2. QED BY <2>1 DEF Expected, JoinedUpto
<1>10. Expected(<<>>) = <<>>
  <2>1. [i \in DOMAIN <<>> |-> Recognised(<<>>[i])] = [i \in 1..0 |-> g[i]]
    OBVIOUS
  <2>2. QED BY <1>7, <2>1 DEF Expected, JoinedUpto
<1>11. g[n + 1] = Recognised(m)
  BY <1>3, <1>4, <1>6
<1>12. QED BY <1>2, <1>7, <1>8, <1>9, <1>10, <1>11

\* Bytes may come in one piece or in two.
LEMMA WithTwice ==
  ASSUME NEW r \in Receivers, NEW a \in Message, NEW b \in Message
  PROVE  With(With(r, a), b) = With(r, a \o b)
<1>1. (r.buffer \o a) \o b = r.buffer \o (a \o b)
  <2>1. PICK q \in Message : q = r.buffer
    BY ReceiverIs
  <2>2. (q \o a) \o b = q \o (a \o b)
    BY ConcatAssociative DEF Message
  <2>3. QED BY <2>1, <2>2
<1>2. QED BY <1>1 DEF With

\* What has come, and what is on its way, makes the messages sent.
FramingInv ==
    /\ receiver \in Receivers /\ ~HasBlock(receiver)
    /\ wire \in Message /\ sent \in Seq(Message)
    /\ Drained[With(receiver, wire)] = Holding(<<>>, <<>>, Expected(sent))

\* Nothing is on its way when nothing has been sent.
LEMMA NothingSent == FramingInit => FramingInv
<1>. SUFFICES ASSUME FramingInit PROVE FramingInv
  OBVIOUS
<1>1. wire = <<>> /\ sent = <<>> /\ receiver = Holding(<<>>, <<>>, <<>>)
  BY DEF FramingInit, NewReceiver, Holding
<1>2. <<>> \in Message /\ <<>> \in Seq(Message)
  BY DEF Message
<1>3. receiver \in Receivers /\ Drained[receiver] = receiver /\ receiver.buffer = <<>>
  <2>1. PICK b \in Message, d \in Seq(Message) : b = <<>> /\ d = <<>>
    BY <1>2
  <2>2. /\ Holding(b, b, d) \in Receivers /\ Holding(b, b, d).buffer = b
        /\ b = <<>> => Drained[Holding(b, b, d)] = Holding(b, b, d)
    BY AtIs
  <2>3. QED BY <1>1, <2>1, <2>2
<1>4. ~HasBlock(receiver)
  BY <1>3 DEF HasBlock, HeaderLength
<1>5. With(receiver, wire) = receiver
  <2>1. <<>> \o <<>> = <<>>
    BY <1>2, ConcatEmptySeq
  <2>2. QED BY <1>1, <2>1 DEF With, Holding
<1>6. Expected(sent) = <<>>
  BY <1>1, <1>2, ExpectedIs
<1>7. QED BY <1>1, <1>2, <1>3, <1>4, <1>5, <1>6 DEF FramingInv

\* A message that is sent is on its way behind the others.
LEMMA MessageSent ==
  ASSUME FramingInv, NEW m \in Payloads, Send(m)
  PROVE  FramingInv'
<1>1. m \in Message
  BY PayloadsAssumption DEF Message
<1>2. CASE ~Numberable(m)
  BY <1>2 DEF Send, FramingInv
<1>3. CASE Numberable(m)
  <2>1. wire' = wire \o Wire(m) /\ sent' = Append(sent, m) /\ receiver' = receiver
    BY <1>3 DEF Send
  <2>2. /\ receiver \in Receivers /\ ~HasBlock(receiver)
        /\ wire \in Message /\ sent \in Seq(Message)
        /\ Drained[With(receiver, wire)] = Holding(<<>>, <<>>, Expected(sent))
    BY DEF FramingInv
  <2>3. sent' \in Seq(Message)
    BY <1>1, <2>1, <2>2, AppendProperties
  <2>4. PICK e \in Seq(Message) : e = Expected(sent)
    BY <1>1, <2>2, ExpectedIs
  <2>5. Expected(sent') = e \o Recognised(m)
    BY <1>1, <2>1, <2>2, <2>4, ExpectedIs
  <2>6. CASE m = <<>>
    <3>1. Wire(m) = <<>>
      <4>1. Len(m) = 0
        BY <2>6
      <4>2. Blocks(Len(m)) = 0
        BY <4>1, BlocksNeeded
      <4>3. [i \in 1..0 |-> Framed(m, (i - 1) * MaxBlock)] = <<>>
        OBVIOUS
      <4>4. FlattenSeq(<<>>) = <<>>
        BY DEF FlattenSeq
      <4>5. QED BY <4>2, <4>3, <4>4 DEF Wire
    <3>2. wire' = wire
      BY <2>1, <2>2, <3>1, ConcatEmptySeq DEF Message
    <3>3. Expected(sent') = e
      <4>1. Recognised(m) = <<>>
        BY <2>6 DEF Recognised
      <4>2. QED BY <2>4, <2>5, <4>1, ConcatEmptySeq
    <3>4. QED BY <2>1, <2>2, <2>3, <2>4, <3>2, <3>3 DEF FramingInv
  <2>7. CASE m # <<>>
    <3>1. PICK w \in Message : w = Wire(m)
      BY <1>1, <1>3, <2>7, MessageComes
    <3>2. Drained[Holding(w, <<>>, e)] = Holding(<<>>, <<>>, Append(e, m))
      BY <1>1, <1>3, <2>4, <2>7, <3>1, MessageComes
    <3>3. PICK r \in Receivers : r = With(receiver, wire)
      BY <2>2, WithIs
    <3>4. Drained[With(Drained[r], w)] = Drained[With(r, w)]
      BY DrainWorks DEF Works
    <3>5. Drained[r] = Holding(<<>>, <<>>, e)
      BY <2>2, <2>4, <3>3
    <3>6. With(Holding(<<>>, <<>>, e), w) = Holding(w, <<>>, e)
      <4>1. <<>> \o w = w
        BY ConcatEmptySeq DEF Message
      <4>2. QED BY <4>1 DEF With, Holding
    <3>7. With(r, w) = With(receiver, wire')
      BY <2>1, <2>2, <3>1, <3>3, WithTwice
    <3>8. wire' \in Message
      BY <2>1, <2>2, <3>1, ConcatProperties DEF Message
    <3>9. Expected(sent') = Append(e, m)
      <4>1. Recognised(m) = <<m>>
        BY <2>7 DEF Recognised
      <4>2. QED BY <1>1, <2>4, <2>5, <4>1, AppendIsConcat
    <3>10. Drained[With(receiver, wire')] = Holding(<<>>, <<>>, Append(e, m))
      BY <3>2, <3>4, <3>5, <3>6, <3>7
    <3>11. QED BY <2>1, <2>2, <2>3, <3>8, <3>9, <3>10 DEF FramingInv
  <2>8. QED BY <2>6, <2>7
<1>4. QED BY <1>2, <1>3

\* Bytes that come are no longer on their way.
LEMMA BytesCome ==
  ASSUME FramingInv, Receive
  PROVE  FramingInv'
<1>1. PICK n \in 1..Len(wire) :
          /\ receiver' = Received(receiver, SubSeq(wire, 1, n))
          /\ wire' = SubSeq(wire, n + 1, Len(wire))
          /\ sent' = sent
  BY DEF Receive
<1>2. /\ receiver \in Receivers /\ wire \in Message /\ sent \in Seq(Message)
      /\ Drained[With(receiver, wire)] = Holding(<<>>, <<>>, Expected(sent))
  BY DEF FramingInv
<1>3. PICK a : a = SubSeq(wire, 1, n)
  OBVIOUS
<1>4. PICK b : b = SubSeq(wire, n + 1, Len(wire))
  OBVIOUS
<1>5. n \in 0..Len(wire) /\ Len(wire) \in Nat
  BY <1>2 DEF Message
<1>6. a \in Message /\ b \in Message
  BY <1>2, <1>3, <1>4, <1>5, Beginning, Rest DEF Message
<1>7. a \o b = wire
  <2>1. /\ 1 \in 1..(Len(wire) + 1) /\ n \in (1 - 1)..Len(wire)
        /\ Len(wire) \in n..Len(wire)
    BY <1>5
  <2>2. a \o b = SubSeq(wire, 1, Len(wire))
    BY <1>2, <1>3, <1>4, <2>1, ConcatAdjacentSubSeq DEF Message
  <2>3. QED BY <1>2, <2>2, SubSeqFull DEF Message
<1>8. PICK r \in Receivers : r = With(receiver, a)
  BY <1>2, <1>6, WithIs
<1>9. receiver' = Drained[r]
  <2>1. PICK c : c = receiver.buffer \o a
    OBVIOUS
  <2>2. receiver = [buffer |-> receiver.buffer, partial |-> receiver.partial,
                    delivered |-> receiver.delivered]
    BY <1>2, ReceiverIs
  <2>3. PICK y : y = [receiver EXCEPT !.buffer = c]
    OBVIOUS
  <2>4. y = [buffer |-> c, partial |-> receiver.partial, delivered |-> receiver.delivered]
    BY <2>2, <2>3
  <2>5. y = r
    BY <1>8, <2>1, <2>4 DEF With
  <2>6. receiver' = Drained[y]
    BY <1>1, <1>3, <2>1, <2>3 DEF Received
  <2>7. QED BY <2>5, <2>6
<1>10. /\ Drained[r] \in Receivers /\ ~HasBlock(Drained[r])
       /\ Drained[With(Drained[r], b)] = Drained[With(r, b)]
  BY <1>6, DrainWorks DEF Works
<1>11. With(r, b) = With(receiver, wire)
  BY <1>2, <1>6, <1>7, <1>8, WithTwice
<1>12. ~HasBlock(receiver)'
  BY <1>9, <1>10 DEF HasBlock
<1>13. Drained[With(receiver, wire)]' = Holding(<<>>, <<>>, Expected(sent))'
  BY <1>1, <1>2, <1>4, <1>9, <1>10, <1>11
<1>14. QED BY <1>1, <1>2, <1>4, <1>6, <1>9, <1>10, <1>12, <1>13 DEF FramingInv

\* What has come is in order, and when nothing is on its way nothing is kept back.
LEMMA AllHasCome ==
  ASSUME FramingInv
  PROVE  MessagesArrive
<1>1. /\ receiver \in Receivers /\ ~HasBlock(receiver)
      /\ wire \in Message /\ sent \in Seq(Message)
      /\ Drained[With(receiver, wire)] = Holding(<<>>, <<>>, Expected(sent))
  BY DEF FramingInv
<1>2. PICK e : e = Expected(sent)
  OBVIOUS
<1>3. PICK r \in Receivers : r = With(receiver, wire)
  BY <1>1, WithIs
<1>4. IsPrefix(receiver.delivered, e)
  <2>1. <<>> \in Message
    BY DEF Message
  <2>2. IsPrefix(r.delivered, Drained[r].delivered)
    BY <2>1, DrainWorks DEF Works
  <2>3. r.delivered = receiver.delivered /\ Drained[r].delivered = e
    BY <1>1, <1>2, <1>3 DEF With, Holding
  <2>4. QED BY <2>2, <2>3
<1>5. ASSUME wire = <<>> PROVE receiver = [NewReceiver EXCEPT !.delivered = e]
  <2>1. receiver.buffer \o wire = receiver.buffer
    BY <1>1, <1>5, ReceiverIs, ConcatEmptySeq DEF Message
  <2>2. With(receiver, wire) = receiver
    BY <1>1, <2>1, ReceiverIs DEF With
  <2>3. receiver = Holding(<<>>, <<>>, e)
    BY <1>1, <1>2, <2>2, DrainedIs
  <2>4. QED BY <2>3 DEF Holding, NewReceiver
<1>6. QED BY <1>2, <1>4, <1>5 DEF MessagesArrive, Expected

\* Whatever pieces the bytes come in, what has come and what is on its way
\* makes the messages sent.
THEOREM FramingIsWhole == FramingInit /\ [][FramingNext]_framingVars => []FramingInv
<1>1. FramingInv /\ [FramingNext]_framingVars => FramingInv'
  <2>. SUFFICES ASSUME FramingInv, [FramingNext]_framingVars PROVE FramingInv'
    OBVIOUS
  <2>1. CASE \E m \in Payloads : Send(m)
    BY <2>1, MessageSent
  <2>2. CASE Receive
    BY <2>2, BytesCome
  <2>3. CASE UNCHANGED framingVars
    BY <2>3 DEF framingVars, FramingInv, HasBlock
  <2>4. QED BY <2>1, <2>2, <2>3 DEF FramingNext
<1>2. QED BY <1>1, NothingSent, PTL

\* The receiver passes on the messages sent, unchanged and in order, and all
\* of them when all bytes have come, for every base, block size and message.
THEOREM EveryMessageArrives ==
    FramingInit /\ [][FramingNext]_framingVars => []MessagesArrive
<1>1. FramingInv => MessagesArrive
  BY AllHasCome
<1>2. QED BY <1>1, FramingIsWhole, PTL

(***************************************************************************)
(* ScanPlan. The targets of a plan are those of the design in the          *)
(* directions they ask for, however often the observation is planned       *)
(* (PlannedInv): expanding them again changes nothing (ExpandedAgain).     *)
(* Each frequency is in the usable part of a capture (FrequencyCovered),   *)
(* and the iterations together are as long as the time asked for           *)
(* (TimeCovered).                                                          *)
(***************************************************************************)
\* A division that rounds up.
LEMMA CeilIs ==
  ASSUME NEW a \in Nat, NEW b \in Nat \ {0}
  PROVE  CeilDiv(a, b) \in Nat /\ b * CeilDiv(a, b) >= a /\ b * CeilDiv(a, b) < a + b
<1>1. PICK x \in Int : x = -a
  OBVIOUS
<1>2. PICK q \in Int : q = (x \div b)
  BY DivMod
<1>3. PICK r \in 0..(b - 1) : x = (b * q) + r
  BY <1>2, DivMod
<1>4. PICK c \in Int : c = -q
  OBVIOUS
<1>5. CeilDiv(a, b) = c
  BY <1>1, <1>2, <1>4 DEF CeilDiv
<1>6. b * c = a + r
  <2>1. b * c = -(b * q)
    BY <1>4
  <2>2. QED BY <1>1, <1>3, <2>1
<1>7. c >= 0
  <2>1. CASE c < 0
    <3>1. b * c <= -b
      BY <2>1
    <3>2. QED BY <1>6, <3>1
  <2>2. QED BY <2>1
<1>8. QED BY <1>5, <1>6, <1>7

\* Of 40 parts of the sample rate 26 are usable.
LEMMA RateParts ==
  \E r \in Nat \ {0} : /\ Rate = 40 * r /\ UsableRate = 26 * r
                       /\ (Rate - UsableRate) \div 2 = 7 * r /\ Rate \div 2 = 20 * r
<1>1. Rate \in Nat \ {0} /\ (Rate % 40) = 0
  BY PlanAssumption
<1>2. PICK r \in Int : r = (Rate \div 40)
  BY <1>1, DivMod
<1>3. Rate = (40 * r) + 0
  BY <1>1, <1>2, DivMod
<1>4. r \in Nat \ {0} /\ Rate = 40 * r
  BY <1>1, <1>3
<1>5. UsableRate = 26 * r
  <2>1. PICK x \in Int : x = Rate * 13
    BY <1>1
  <2>2. x = (20 * (26 * r)) + 0 /\ 26 * r \in Int
    BY <1>4, <2>1
  <2>3. (x \div 20) = 26 * r
    BY <2>2, DivUnique
  <2>4. QED BY <2>1, <2>3 DEF UsableRate
<1>6. (Rate - UsableRate) \div 2 = 7 * r
  <2>1. PICK x \in Int : x = Rate - UsableRate
    BY <1>4, <1>5
  <2>2. x = (2 * (7 * r)) + 0 /\ 7 * r \in Int
    BY <1>4, <1>5, <2>1
  <2>3. (x \div 2) = 7 * r
    BY <2>2, DivUnique
  <2>4. QED BY <2>1, <2>3
<1>7. Rate \div 2 = 20 * r
  <2>1. Rate = (2 * (20 * r)) + 0 /\ 20 * r \in Int
    BY <1>4
  <2>2. QED BY <1>1, <2>1, DivUnique
<1>8. QED BY <1>4, <1>5, <1>6, <1>7

\* The numbers of a source; its bandwidth is even.
LEMMA SourceIs ==
  ASSUME NEW c \in Sources
  PROVE  /\ c.kind \in {"plain", "five"} /\ c.bandwidth \in Nat /\ c.time \in Nat
         /\ \E h \in Nat : c.bandwidth = 2 * h /\ c.bandwidth \div 2 = h
<1>1. c.kind \in {"plain", "five"} /\ c.bandwidth \in Nat /\ c.time \in Nat
      /\ (c.bandwidth % 2) = 0
  BY PlanAssumption
<1>2. PICK h \in Int : h = (c.bandwidth \div 2)
  BY <1>1, DivMod
<1>3. c.bandwidth = (2 * h) + 0
  BY <1>1, <1>2, DivMod
<1>4. QED BY <1>1, <1>2, <1>3

\* Each frequency is in the usable part of a capture.
LEMMA FrequencyCovered ==
  ASSUME NEW c \in Sources, NEW x \in 0..c.bandwidth
  PROVE  /\ FreqScans(c) \in Nat \ {0} /\ FreqScale(c) \in Nat
         /\ \E f \in 0..(FreqScans(c) - 1) :
              /\ StartFreq(c, f) \in Int
              /\ 2 * StartFreq(c, f) + FreqScale(c) * (Rate - UsableRate) <= 2 * x * FreqScale(c)
              /\ 2 * x * FreqScale(c) <= 2 * StartFreq(c, f) + FreqScale(c) * (Rate + UsableRate)
<1>1. PICK r \in Nat \ {0} : /\ Rate = 40 * r /\ UsableRate = 26 * r
                             /\ (Rate - UsableRate) \div 2 = 7 * r /\ Rate \div 2 = 20 * r
  BY RateParts
<1>2. PICK h \in Nat : c.bandwidth = 2 * h /\ c.bandwidth \div 2 = h
  BY SourceIs
<1>3. PICK u \in Nat \ {0} : u = UsableRate /\ u = 26 * r
  BY <1>1
<1>4. PICK b \in Nat : b = c.bandwidth /\ b = 2 * h
  BY <1>2
<1>5. PICK q \in Nat : q = CeilDiv(b, u) /\ u * q >= b /\ u * q < b + u
  BY CeilIs
<1>6. FreqScans(c) = IF 1 >= q THEN 1 ELSE q
  BY <1>3, <1>4, <1>5, MaxOfTwo DEF FreqScans
<1>7. PICK n \in Nat \ {0} : n = FreqScans(c)
  BY <1>6
<1>8. PICK s \in Nat : s = FreqScale(c) /\ s = IF 1 >= n - 1 THEN 1 ELSE n - 1
  <2>1. n - 1 \in Int
    OBVIOUS
  <2>2. FreqScale(c) = IF 1 >= n - 1 THEN 1 ELSE n - 1
    BY <1>7, <2>1, MaxOfTwo DEF FreqScale
  <2>3. QED BY <2>2
<1>9. PICK y \in Nat : y = x /\ y <= b
  BY <1>4
<1>10. CASE n = 1
  <2>1. b <= u
    <3>1. q <= 1
      BY <1>6, <1>7, <1>10
    <3>2. u * q <= u
      BY <3>1
    <3>3. QED BY <1>5, <3>2
  <2>2. StartFreq(c, 0) = h - 20 * r
    BY <1>1, <1>2, <1>7, <1>10 DEF StartFreq
  <2>3. s = 1 /\ 0 \in 0..(n - 1)
    BY <1>8, <1>10
  <2>4. /\ 2 * (h - 20 * r) + 1 * (Rate - UsableRate) <= 2 * y * 1
        /\ 2 * y * 1 <= 2 * (h - 20 * r) + 1 * (Rate + UsableRate)
    BY <1>1, <1>3, <1>4, <1>9, <2>1
  <2>5. QED BY <1>7, <1>8, <1>9, <2>2, <2>3, <2>4
<1>11. CASE n # 1
  <2>1. n = q /\ s = n - 1 /\ s >= 1
    BY <1>6, <1>7, <1>8, <1>11
  <2>2. PICK d \in Nat \ {0} : d = b - u /\ d <= s * u
    <3>1. u * n = s * u + u
      BY <2>1
    <3>2. b <= s * u + u /\ s * u < b
      BY <1>5, <2>1, <3>1
    <3>3. s * u >= u
      BY <2>1
    <3>4. b - u > 0 /\ b - u <= s * u
      BY <3>2, <3>3
    <3>5. QED BY <3>4
  <2>3. \E f \in 0..s : f * d <= y * s /\ y * s <= f * d + s * u
    <3>1. PICK z \in Nat : z = y * s
      <4>1. s \in Nat
        BY <2>1, <1>7
      <4>2. y * s \in Nat
        BY <4>1, SMTT(30)
      <4>3. QED BY <4>2
    <3>2. /\ (z \div d) \in Int /\ (z % d) \in 0..(d - 1)
          /\ z = (d * (z \div d)) + (z % d)
      <4>1. z \in Int
        OBVIOUS
      <4>2. QED BY <4>1, DivMod
    <3>3. PICK g \in Int, t \in 0..(d - 1) : z = (d * g) + t
      BY <3>2
    <3>4. g >= 0
      <4>1. CASE g < 0
        <5>1. d * g <= -d
          BY <4>1
        <5>2. QED BY <3>3, <5>1
      <4>2. QED BY <4>1
    <3>5. CASE g <= s
      <4>1. g \in 0..s /\ g * d <= z /\ z <= g * d + s * u
        BY <2>2, <3>3, <3>4, <3>5
      <4>2. QED BY <3>1, <4>1
    <3>6. CASE g > s
      <4>1. d * g >= d * s
        BY <3>6
      <4>2. s * d <= z
        BY <3>3, <4>1
      <4>3. s * b = s * d + s * u
        BY <2>2
      <4>4. z <= s * b
        BY <1>9, <3>1
      <4>5. s \in 0..s
        OBVIOUS
      <4>6. QED BY <3>1, <4>2, <4>3, <4>4, <4>5
    <3>7. QED BY <3>5, <3>6
  <2>4. PICK f \in 0..s : f * d <= y * s /\ y * s <= f * d + s * u
    BY <2>3
  <2>5. StartFreq(c, f) = f * d - s * (7 * r)
    BY <1>1, <1>3, <1>4, <1>7, <1>8, <1>11, <2>2 DEF StartFreq
  <2>6. PICK st \in Int : st = f * d - s * (7 * r)
    OBVIOUS
  <2>7. /\ s * (Rate - UsableRate) = 2 * (s * (7 * r))
        /\ s * (Rate + UsableRate) = 2 * (s * (7 * r)) + 2 * (s * u)
    BY <1>1, <1>3
  <2>8. 2 * y * s = 2 * (y * s)
    OBVIOUS
  <2>9. /\ 2 * st + s * (Rate - UsableRate) <= 2 * y * s
        /\ 2 * y * s <= 2 * st + s * (Rate + UsableRate)
    BY <2>4, <2>6, <2>7, <2>8
  <2>10. f \in 0..(n - 1)
    BY <2>1
  <2>11. QED BY <1>7, <1>8, <1>9, <2>5, <2>6, <2>9, <2>10
<1>12. QED BY <1>10, <1>11

\* The iterations of a target are not too long, and together as long as its time.
LEMMA TimeCovered ==
  ASSUME NEW c \in Sources
  PROVE  /\ ScanIterations(c) \in Nat /\ ScanDuration(c) \in Nat
         /\ ScanIterations(c) > 0 => ScanDuration(c) <= MaxDuration
         /\ c.time <= ScanIterations(c) * ScanDuration(c)
         /\ ScanIterations(c) * ScanDuration(c) <= c.time + 2 * ScanIterations(c)
<1>1. PICK t \in Nat : t = c.time
  BY SourceIs
<1>2. MaxDuration \in Nat \ {0} /\ (MaxDuration % 2) = 0
  BY PlanAssumption
<1>3. PICK h \in Int : h = (MaxDuration \div 2)
  BY <1>2, DivMod
<1>4. MaxDuration = 2 * h /\ h > 0
  <2>1. MaxDuration = (2 * h) + 0
    BY <1>2, <1>3, DivMod
  <2>2. QED BY <1>2, <2>1
<1>5. PICK n \in Nat : /\ n = ScanIterations(c)
                       /\ MaxDuration * n >= t /\ MaxDuration * n < t + MaxDuration
  BY <1>1, <1>2, CeilIs DEF ScanIterations
<1>6. CASE n > 1
  <2>1. PICK m \in Nat \ {0} : m = 2 * n
    BY <1>6
  <2>2. PICK k \in Nat : k = CeilDiv(t, m) /\ m * k >= t /\ m * k < t + m
    BY CeilIs
  <2>3. ScanDuration(c) = 2 * k
    BY <1>1, <1>5, <1>6, <2>1, <2>2 DEF ScanDuration
  <2>4. k <= h
    <3>1. CASE k > h
      <4>1. m * k >= m * (h + 1)
        BY <1>4, <3>1
      <4>2. m * (h + 1) = MaxDuration * n + m
        BY <1>4, <2>1
      <4>3. QED BY <1>2, <1>5, <2>2, <4>1, <4>2
    <3>2. QED BY <3>1
  <2>5. n * (2 * k) = m * k
    BY <2>1
  <2>6. QED BY <1>1, <1>4, <1>5, <2>1, <2>2, <2>3, <2>4, <2>5
<1>7. CASE n <= 1
  <2>1. ScanDuration(c) = t
    BY <1>1, <1>5, <1>7 DEF ScanDuration
  <2>2. CASE n = 0
    <3>1. MaxDuration * n = 0 /\ n * t = 0
      BY <1>2, <2>2
    <3>2. t = 0
      BY <1>5, <3>1
    <3>3. QED BY <1>1, <1>5, <2>1, <2>2, <3>2
  <2>3. CASE n = 1
    <3>1. MaxDuration * n = MaxDuration /\ n * t = t
      BY <1>2, <2>3
    <3>2. QED BY <1>1, <1>5, <2>1, <2>3, <3>1
  <2>4. QED BY <1>7, <2>2, <2>3
<1>8. QED BY <1>6, <1>7

\* The iterations a plan consists of.
Iters(p) == {p[k].scan_iter : k \in DOMAIN p}

\* Its scans bear the index of their target and are not too long.
Labelled(p, idx) ==
    \A k \in DOMAIN p : p[k].tgt_idx = idx /\ p[k].duration <= MaxDuration

\* Each iteration has each frequency in the usable part of a capture.
CoversBand(p, c) ==
    \A iter \in Iters(p), x \in 0..c.bandwidth :
      \E k \in DOMAIN p :
        /\ p[k].scan_iter = iter
        /\ UsableFrom(p[k], c) <= 2 * x * FreqScale(c)
        /\ 2 * x * FreqScale(c) <= UsableTo(p[k], c)

\* The scans of a target are the iterations of its captures.
LEMMA ScansOf ==
  ASSUME NEW t, t.source \in Sources
  PROVE  /\ Cardinality(Iters(Scans(t))) = ScanIterations(t.source)
         /\ Labelled(Scans(t), t.idx) /\ CoversBand(Scans(t), t.source)
<1>1. PICK c \in Sources : c = t.source
  OBVIOUS
<1>2. PICK n \in Nat : n = ScanIterations(c) /\ (n > 0 => ScanDuration(c) <= MaxDuration)
  BY TimeCovered
<1>3. PICK m \in Nat \ {0} : m = FreqScans(c)
  <2>1. 0 \in 0..c.bandwidth
    BY SourceIs
  <2>2. QED BY <2>1, FrequencyCovered
<1>4. PICK q : q = Scans(t)
  OBVIOUS
<1>5. q = [i \in 1..(m * n) |->
             [tgt_idx |-> t.idx, freq_scan |-> (i - 1) \div n, scan_iter |-> (i - 1) % n,
              start |-> StartFreq(c, (i - 1) \div n), duration |-> ScanDuration(c)]]
  BY <1>1, <1>2, <1>3, <1>4 DEF Scans
<1>6. DOMAIN q = 1..(m * n)
  BY <1>5
<1>7. ASSUME NEW k \in 1..(m * n)
      PROVE  /\ n > 0 /\ q[k].tgt_idx = t.idx /\ q[k].duration = ScanDuration(c)
             /\ q[k].scan_iter = (k - 1) % n /\ q[k].start = StartFreq(c, (k - 1) \div n)
             /\ (k - 1) % n \in 0..(n - 1)
  <2>1. n > 0
    <3>1. CASE n = 0
      <4>1. m * n = 0
        BY <3>1
      <4>2. QED BY <1>7, <4>1
    <3>2. QED BY <3>1
  <2>2. /\ q[k].tgt_idx = t.idx /\ q[k].duration = ScanDuration(c)
        /\ q[k].scan_iter = (k - 1) % n /\ q[k].start = StartFreq(c, (k - 1) \div n)
    BY <1>5
  <2>3. PICK x \in Int, d \in Nat \ {0} : x = k - 1 /\ d = n
    BY <2>1
  <2>4. (x % d) \in 0..(d - 1)
    BY DivMod
  <2>5. QED BY <2>1, <2>2, <2>3, <2>4
<1>8. ASSUME NEW f \in 0..(m - 1), NEW j \in 0..(n - 1)
      PROVE  \E k \in 1..(m * n) : ((k - 1) \div n) = f /\ ((k - 1) % n) = j
  <2>1. PICK d \in Nat \ {0} : d = n
    BY <1>8
  <2>2. PICK x \in Int : x = (d * f) + j
    BY <2>1
  <2>3. (x \div d) = f /\ (x % d) = j
    BY <1>8, <2>1, <2>2, DivUnique, ModUnique
  <2>4. x + 1 \in 1..(m * d)
    <3>1. x >= 0
      <4>1. d * f >= 0
        OBVIOUS
      <4>2. QED BY <2>2, <4>1
    <3>2. x + 1 <= d * (f + 1)
      BY <2>1, <2>2
    <3>3. d * (f + 1) <= d * m
      OBVIOUS
    <3>4. d * m = m * d
      OBVIOUS
    <3>5. QED BY <3>1, <3>2, <3>3, <3>4
  <2>5. (x + 1) - 1 = x
    OBVIOUS
  <2>6. QED BY <2>1, <2>3, <2>4, <2>5
<1>9. PICK iters : iters = {q[k].scan_iter : k \in 1..(m * n)} /\ iters = Iters(q)
  BY <1>6 DEF Iters
<1>10. iters = 0..(n - 1)
  <2>1. iters \subseteq 0..(n - 1)
    BY <1>7, <1>9
  <2>2. ASSUME NEW j \in 0..(n - 1) PROVE j \in iters
    <3>1. 0 \in 0..(m - 1)
      OBVIOUS
    <3>2. PICK k \in 1..(m * n) : ((k - 1) % n) = j
      BY <1>8, <3>1
    <3>3. QED BY <1>7, <1>9, <3>2
  <2>3. QED BY <2>1, <2>2
<1>11. Cardinality(iters) = n
  <2>1. Cardinality(0..(n - 1)) = IF 0 > n - 1 THEN 0 ELSE (n - 1) - 0 + 1
    BY FS_Interval
  <2>2. QED BY <1>10, <2>1
<1>12. ASSUME NEW iter \in iters, NEW x \in 0..c.bandwidth
       PROVE  \E k \in 1..(m * n) :
                /\ q[k].scan_iter = iter
                /\ UsableFrom(q[k], c) <= 2 * x * FreqScale(c)
                /\ 2 * x * FreqScale(c) <= UsableTo(q[k], c)
  <2>1. PICK f \in 0..(m - 1) :
          /\ 2 * StartFreq(c, f) + FreqScale(c) * (Rate - UsableRate) <= 2 * x * FreqScale(c)
          /\ 2 * x * FreqScale(c) <= 2 * StartFreq(c, f) + FreqScale(c) * (Rate + UsableRate)
    BY <1>3, FrequencyCovered
  <2>2. PICK k \in 1..(m * n) : ((k - 1) \div n) = f /\ ((k - 1) % n) = iter
    BY <1>8, <1>10
  <2>3. q[k].scan_iter = iter /\ q[k].start = StartFreq(c, f)
    BY <1>7, <2>2
  <2>4. QED BY <2>1, <2>3 DEF UsableFrom, UsableTo
<1>13. \A k \in 1..(m * n) : q[k].tgt_idx = t.idx /\ q[k].duration <= MaxDuration
  BY <1>2, <1>7
<1>14. Labelled(q, t.idx)
  BY <1>6, <1>13 DEF Labelled
<1>15. CoversBand(q, c)
  BY <1>6, <1>9, <1>12 DEF CoversBand
<1>16. QED BY <1>1, <1>2, <1>4, <1>9, <1>11, <1>14, <1>15

\* A target that is pointed at in one direction.
Headings == {"none", "C", "N", "S", "E", "W"}
Ready == {t \in [source : Sources, direction : Headings, idx : Int] :
            t.source.kind = "five" => t.direction # "none"}

\* What each target of the design, or of the plan, is pointed at for.
Pointed(s) == IF s.kind = "five" THEN [k \in 1..5 |-> <<s, Points[k]>>]
              ELSE << <<s, "none">> >>
PointsOf(ts) == [i \in DOMAIN ts |-> <<ts[i].source, ts[i].direction>>]
Aims == Sources \X Headings

\* What targets joined are pointed at for.
LEMMA PointsJoined ==
  ASSUME NEW a \in Seq(Ready), NEW b \in Seq(Ready)
  PROVE  /\ PointsOf(a) \in Seq(Aims) /\ Len(PointsOf(a)) = Len(a)
         /\ PointsOf(a \o b) = PointsOf(a) \o PointsOf(b)
<1>1. ASSUME NEW c \in Seq(Ready)
      PROVE  /\ PointsOf(c) \in Seq(Aims) /\ Len(PointsOf(c)) = Len(c)
             /\ \A i \in 1..Len(c) : PointsOf(c)[i] = <<c[i].source, c[i].direction>>
  <2>1. PICK n \in Nat : n = Len(c) /\ DOMAIN c = 1..n
    OBVIOUS
  <2>2. PICK p : p = [i \in 1..n |-> <<c[i].source, c[i].direction>>]
    OBVIOUS
  <2>3. p = PointsOf(c)
    BY <2>1, <2>2 DEF PointsOf
  <2>4. \A i \in 1..n : c[i].source \in Sources /\ c[i].direction \in Headings
    <3>1. \A i \in 1..n : c[i] \in Ready
      BY <2>1, ElementOfSeq
    <3>2. QED BY <3>1 DEF Ready
  <2>5. \A i \in 1..n : p[i] \in Aims
    BY <2>2, <2>4 DEF Aims
  <2>6. p \in Seq(Aims) /\ Len(p) = n
    BY <2>2, <2>5
  <2>7. QED BY <2>1, <2>2, <2>3, <2>6
<1>2. PICK m \in Nat, n \in Nat : m = Len(a) /\ n = Len(b)
  OBVIOUS
<1>3. PICK c \in Seq(Ready) : c = a \o b
  BY ConcatProperties
<1>4. Len(c) = m + n /\ \A i \in 1..(m + n) : c[i] = IF i <= m THEN a[i] ELSE b[i - m]
  BY <1>2, <1>3, ConcatProperties
<1>5. PICK p \in Seq(Aims) : /\ p = PointsOf(a) /\ Len(p) = m
                                  /\ \A i \in 1..m : p[i] = <<a[i].source, a[i].direction>>
  BY <1>1, <1>2
<1>6. PICK q \in Seq(Aims) : /\ q = PointsOf(b) /\ Len(q) = n
                                  /\ \A i \in 1..n : q[i] = <<b[i].source, b[i].direction>>
  BY <1>1, <1>2
<1>7. PICK r \in Seq(Aims) :
         /\ r = PointsOf(c) /\ Len(r) = m + n
         /\ \A i \in 1..(m + n) : r[i] = <<c[i].source, c[i].direction>>
  BY <1>1, <1>4
<1>8. /\ p \o q \in Seq(Aims) /\ Len(p \o q) = m + n
      /\ \A i \in 1..(m + n) : (p \o q)[i] = IF i <= m THEN p[i] ELSE q[i - m]
  <2>1. /\ p \o q \in Seq(Aims) /\ Len(p \o q) = Len(p) + Len(q)
        /\ \A i \in 1..(Len(p) + Len(q)) :
              (p \o q)[i] = IF i <= Len(p) THEN p[i] ELSE q[i - Len(p)]
    BY ConcatProperties
  <2>2. QED BY <1>5, <1>6, <2>1
<1>9. \A i \in 1..(m + n) : r[i] = (p \o q)[i]
  <2>. SUFFICES ASSUME NEW i \in 1..(m + n) PROVE r[i] = (p \o q)[i]
    OBVIOUS
  <2>1. CASE i <= m
    <3>1. i \in 1..m
      BY <2>1
    <3>2. r[i] = <<a[i].source, a[i].direction>>
      BY <1>4, <1>7, <2>1
    <3>3. QED BY <1>5, <1>8, <2>1, <3>1, <3>2
  <2>2. CASE ~(i <= m)
    <3>1. i - m \in 1..n
      BY <2>2
    <3>2. QED BY <1>4, <1>6, <1>7, <1>8, <2>2, <3>1
  <2>3. QED BY <2>1, <2>2
<1>10. r = p \o q
  BY <1>7, <1>8, <1>9, SeqEqual
<1>11. QED BY <1>1, <1>3, <1>5, <1>6, <1>7, <1>10

\* A target of the design is pointed at in the directions it asks for.
LEMMA ExpandedOnce ==
  ASSUME NEW s \in Sources
  PROVE  /\ Expanded(Target(s)) \in Seq(Ready)
         /\ PointsOf(Expanded(Target(s))) = Pointed(s)
<1>1. PICK t : t = Target(s)
  OBVIOUS
<1>2. t = [source |-> s, direction |-> "none", idx |-> -1]
  BY <1>1 DEF Target
<1>3. CASE s.kind = "five"
  <2>1. PICK q : q = [i \in 1..5 |-> [source |-> s, direction |-> Points[i], idx |-> -1]]
    OBVIOUS
  <2>2. Expanded(t) = q
    <3>1. \A x : [t EXCEPT !.direction = x] = [source |-> s, direction |-> x, idx |-> -1]
      BY <1>2
    <3>2. Expanded(t) = [i \in 1..5 |-> [t EXCEPT !.direction = Points[i]]]
      BY <1>2, <1>3 DEF Expanded
    <3>3. QED BY <2>1, <3>1, <3>2
  <2>3. \A i \in 1..5 : Points[i] \in {"C", "N", "S", "E", "W"}
    BY DEF Points
  <2>4. \A i \in 1..5 : q[i] \in Ready
    BY <2>1, <2>3 DEF Ready, Headings
  <2>5. q \in Seq(Ready) /\ DOMAIN q = 1..5
    BY <2>1, <2>4
  <2>6. PointsOf(q) = [k \in 1..5 |-> <<s, Points[k]>>]
    BY <2>1, <2>5 DEF PointsOf
  <2>7. QED BY <1>1, <1>3, <2>2, <2>5, <2>6 DEF Pointed
<1>4. CASE s.kind # "five"
  <2>1. Expanded(t) = <<t>>
    BY <1>2, <1>4 DEF Expanded
  <2>2. t \in Ready
    BY <1>2, <1>4 DEF Ready, Headings
  <2>3. PointsOf(<<t>>) = << <<s, "none">> >>
    BY <1>2 DEF PointsOf
  <2>4. QED BY <1>1, <1>4, <2>1, <2>2, <2>3 DEF Pointed
<1>5. QED BY <1>3, <1>4

\* The targets of an observation that was not planned before are those of the
\* design, in the directions they ask for.
LEMMA ExpandedAll ==
  ASSUME NEW q \in Seq(Sources)
  PROVE  \E all \in Seq(Ready) :
           /\ all = FlattenSeq([i \in DOMAIN q |-> Expanded(Target(q[i]))])
           /\ PointsOf(all) = FlattenSeq([i \in DOMAIN q |-> Pointed(q[i])])
<1>1. PICK n \in Nat : n = Len(q) /\ DOMAIN q = 1..n
  OBVIOUS
<1>2. PICK g : g = [i \in 1..n |-> Expanded(Target(q[i]))]
  OBVIOUS
<1>3. PICK h : h = [i \in 1..n |-> Pointed(q[i])]
  OBVIOUS
<1>4. \A i \in 1..n : g[i] \in Seq(Ready) /\ PointsOf(g[i]) = h[i]
  <2>1. \A i \in 1..n : q[i] \in Sources
    BY <1>1, ElementOfSeq
  <2>2. QED BY <1>2, <1>3, <2>1, ExpandedOnce
<1>5. g \in [1..n -> Seq(Ready)]
  BY <1>2, <1>4
<1>6. h \in [1..n -> Seq(Aims)]
  BY <1>3, <1>4, PointsJoined
<1>7. PICK T : T = {k \in 0..n : PointsOf(JoinedUpto(g, k)) # JoinedUpto(h, k)}
  OBVIOUS
<1>8. ASSUME T # {} PROVE FALSE
  <2>1. PICK k \in T : \A m \in T : k <= m
    <3>1. T \subseteq Nat
      BY <1>7
    <3>2. QED BY <1>8, <3>1, LeastNumber
  <2>2. k \in 0..n /\ k \in Nat /\ PointsOf(JoinedUpto(g, k)) # JoinedUpto(h, k)
    BY <1>7
  <2>3. k # 0
    <3>1. JoinedUpto(g, 0) = <<>> /\ JoinedUpto(h, 0) = <<>>
      BY <1>5, <1>6, <2>2, JoinedStep
    <3>2. PointsOf(<<>>) = <<>>
      BY DEF PointsOf
    <3>3. QED BY <2>2, <3>1, <3>2
  <2>4. k > 0 /\ k \in 1..n /\ k - 1 \in 0..n /\ k - 1 \notin T
    BY <2>1, <2>2, <2>3
  <2>5. PICK a \in Seq(Ready) : a = JoinedUpto(g, k - 1)
    BY <1>5, <2>4, JoinedStep
  <2>6. PICK b \in Seq(Ready) : b = g[k] /\ PointsOf(b) = h[k]
    BY <1>4, <2>4
  <2>7. JoinedUpto(g, k) = a \o b
    <3>1. JoinedUpto(g, k) = JoinedUpto(g, k - 1) \o g[k]
      BY <1>5, <2>4, JoinedOne
    <3>2. QED BY <2>5, <2>6, <3>1
  <2>8. JoinedUpto(h, k) = JoinedUpto(h, k - 1) \o h[k]
    BY <1>6, <2>4, JoinedOne
  <2>9. PointsOf(a) = JoinedUpto(h, k - 1)
    BY <1>7, <2>4, <2>5
  <2>10. PointsOf(a \o b) = PointsOf(a) \o PointsOf(b)
    BY PointsJoined
  <2>11. QED BY <2>2, <2>6, <2>7, <2>8, <2>9, <2>10
<1>9. n \in 0..n /\ n \notin T
  BY <1>8
<1>10. PICK all \in Seq(Ready) : all = JoinedUpto(g, n)
  BY <1>5, <1>9, JoinedStep
<1>11. JoinedUpto(g, n) = FlattenSeq(g) /\ JoinedUpto(h, n) = FlattenSeq(h)
  BY <1>5, <1>6, <1>9, JoinedStep
<1>12. QED BY <1>1, <1>2, <1>3, <1>7, <1>9, <1>10, <1>11

\* Those that have been expanded remain as they are.
LEMMA ExpandedAgain ==
  ASSUME NEW ts \in Seq(Ready)
  PROVE  FlattenSeq([i \in DOMAIN ts |-> Expanded(ts[i])]) = ts
<1>1. PICK n \in Nat : n = Len(ts) /\ DOMAIN ts = 1..n
  OBVIOUS
<1>2. PICK g : g = [i \in 1..n |-> Expanded(ts[i])]
  OBVIOUS
<1>3. \A i \in 1..n : ts[i] \in Ready /\ g[i] = <<ts[i]>>
  <2>1. \A i \in 1..n : ts[i] \in Ready
    BY <1>1, ElementOfSeq
  <2>2. \A t \in Ready : Expanded(t) = <<t>>
    BY DEF Expanded, Ready
  <2>3. QED BY <1>2, <2>1, <2>2
<1>4. g \in [1..n -> Seq(Ready)]
  <2>1. \A t \in Ready : <<t>> \in Seq(Ready)
    OBVIOUS
  <2>2. QED BY <1>2, <1>3, <2>1
<1>5. PICK T : T = {k \in 0..n : JoinedUpto(g, k) # SubSeq(ts, 1, k)}
  OBVIOUS
<1>6. ASSUME T # {} PROVE FALSE
  <2>1. PICK k \in T : \A m \in T : k <= m
    <3>1. T \subseteq Nat
      BY <1>5
    <3>2. QED BY <1>6, <3>1, LeastNumber
  <2>2. k \in 0..n /\ k \in Nat /\ JoinedUpto(g, k) # SubSeq(ts, 1, k)
    BY <1>5
  <2>3. k # 0
    <3>1. JoinedUpto(g, 0) = <<>>
      BY <1>4, <2>2, JoinedStep
    <3>2. SubSeq(ts, 1, 0) = <<>>
      BY SubSeqEmpty
    <3>3. QED BY <2>2, <3>1, <3>2
  <2>4. k > 0 /\ k \in 1..n /\ k - 1 \in 0..n /\ k - 1 \notin T
    BY <2>1, <2>2, <2>3
  <2>5. JoinedUpto(g, k) = JoinedUpto(g, k - 1) \o g[k]
    BY <1>4, <2>4, JoinedOne
  <2>6. SubSeq(ts, 1, k) = SubSeq(ts, 1, k - 1) \o <<ts[k]>>
    BY <1>1, <2>4, SubSeqRecursiveSecond
  <2>7. QED BY <1>3, <1>5, <2>2, <2>4, <2>5, <2>6
<1>7. n \in 0..n /\ n \notin T
  BY <1>6
<1>8. FlattenSeq(g) = JoinedUpto(g, n)
  BY <1>4, <1>7, JoinedStep
<1>9. SubSeq(ts, 1, n) = ts
  BY <1>1, SubSeqFull
<1>10. QED BY <1>1, <1>2, <1>5, <1>7, <1>8, <1>9

\* An observation that has not been planned, and one that has.
Fresh == plan = <<>> /\ targets = [i \in DOMAIN sources |-> Target(sources[i])]

Planned ==
    /\ targets \in Seq(Ready)
    /\ PointsOf(targets) = FlattenSeq([i \in DOMAIN sources |-> Pointed(sources[i])])
    /\ \A i \in DOMAIN targets : targets[i].idx = i - 1
    /\ plan = [i \in DOMAIN targets |-> Scans(targets[i])]

PlannedInv == sources \in Seq(Sources) /\ (Fresh \/ Planned)

\* Targets get their index, and nothing else, by their place.
LEMMA Numbered ==
  ASSUME NEW all \in Seq(Ready),
         NEW ts, ts = [i \in DOMAIN all |-> [all[i] EXCEPT !.idx = i - 1]]
  PROVE  /\ ts \in Seq(Ready) /\ PointsOf(ts) = PointsOf(all)
         /\ \A i \in DOMAIN ts : ts[i].idx = i - 1
         /\ (\A i \in DOMAIN all : all[i].idx = i - 1) => ts = all
<1>1. PICK n \in Nat : n = Len(all) /\ DOMAIN all = 1..n /\ DOMAIN ts = 1..n
  OBVIOUS
<1>2. ASSUME NEW i \in 1..n
      PROVE  /\ ts[i] \in Ready /\ ts[i].source = all[i].source
             /\ ts[i].direction = all[i].direction /\ ts[i].idx = i - 1
             /\ all[i].idx = i - 1 => ts[i] = all[i]
  <2>1. PICK t \in Ready : t = all[i]
    BY <1>1, ElementOfSeq
  <2>2. t = [source |-> t.source, direction |-> t.direction, idx |-> t.idx]
        /\ t.source \in Sources /\ t.direction \in Headings
        /\ (t.source.kind = "five" => t.direction # "none")
    BY DEF Ready
  <2>3. PICK x : x = [t EXCEPT !.idx = i - 1]
    OBVIOUS
  <2>4. x = [source |-> t.source, direction |-> t.direction, idx |-> i - 1]
    BY <2>2, <2>3
  <2>5. ts[i] = x
    BY <1>1, <2>1, <2>3
  <2>6. x \in Ready
    BY <2>2, <2>4 DEF Ready
  <2>7. QED BY <2>1, <2>2, <2>4, <2>5, <2>6
<1>3. ts = [i \in 1..n |-> ts[i]]
  BY <1>1
<1>4. ts \in Seq(Ready)
  BY <1>2, <1>3
<1>5. PointsOf(ts) = PointsOf(all)
  BY <1>1, <1>2 DEF PointsOf
<1>6. ASSUME \A i \in 1..n : all[i].idx = i - 1 PROVE ts = all
  <2>1. \A i \in 1..n : ts[i] = all[i]
    BY <1>2, <1>6
  <2>2. QED BY <1>1, <1>3, <2>1
<1>7. QED BY <1>1, <1>2, <1>4, <1>5, <1>6

\* An observation starts without a plan.
LEMMA NotPlanned == PlanInit => PlannedInv
<1>. SUFFICES ASSUME PlanInit PROVE PlannedInv
  OBVIOUS
<1>1. sources \in SeqOf(Sources, MaxTargets) /\ Fresh
  BY DEF PlanInit, Fresh
<1>2. PICK m \in 0..MaxTargets : sources \in [1..m -> Sources]
  BY <1>1 DEF SeqOf
<1>3. sources \in Seq(Sources)
  BY <1>2, PlanAssumption
<1>4. QED BY <1>1, <1>3 DEF PlannedInv

\* START and RESET plan the same.
LEMMA ScansDetermined ==
  ASSUME PlannedInv, DetermineScans
  PROVE  PlannedInv'
<1>1. /\ targets' = ExpandedTargets(targets) /\ sources' = sources
      /\ plan' = [i \in DOMAIN targets' |-> Scans(targets'[i])]
  BY DEF DetermineScans
<1>2. PICK all : all = FlattenSeq([i \in DOMAIN targets |-> Expanded(targets[i])])
  OBVIOUS
<1>3. targets' = [i \in DOMAIN all |-> [all[i] EXCEPT !.idx = i - 1]]
  BY <1>1, <1>2 DEF ExpandedTargets
<1>4. /\ all \in Seq(Ready)
      /\ PointsOf(all) = FlattenSeq([i \in DOMAIN sources |-> Pointed(sources[i])])
  <2>1. sources \in Seq(Sources)
    BY DEF PlannedInv
  <2>2. CASE Fresh
    <3>1. [i \in DOMAIN targets |-> Expanded(targets[i])]
            = [i \in DOMAIN sources |-> Expanded(Target(sources[i]))]
      BY <2>2 DEF Fresh
    <3>2. QED BY <1>2, <2>1, <3>1, ExpandedAll
  <2>3. CASE Planned
    <3>1. all = targets
      BY <1>2, <2>3, ExpandedAgain DEF Planned
    <3>2. QED BY <2>3, <3>1 DEF Planned
  <2>4. QED BY <2>2, <2>3 DEF PlannedInv
<1>5. /\ targets' \in Seq(Ready) /\ PointsOf(targets') = PointsOf(all)
      /\ \A i \in DOMAIN targets' : targets'[i].idx = i - 1
  BY <1>3, <1>4, Numbered
<1>6. Planned'
  BY <1>1, <1>4, <1>5 DEF Planned
<1>7. QED BY <1>1, <1>6 DEF PlannedInv

\* A plan of targets expanded once covers the design.
LEMMA PlanIsRight ==
  ASSUME PlannedInv
  PROVE  PlanCovers
<1>. SUFFICES ASSUME plan # <<>> PROVE PlanCovers
  BY DEF PlanCovers
<1>1. Planned /\ sources \in Seq(Sources)
  BY DEF PlannedInv, Fresh
<1>2. PICK n \in Nat : n = Len(targets) /\ DOMAIN targets = 1..n
  BY <1>1 DEF Planned
<1>3. DOMAIN plan = 1..n /\ Len(plan) = n /\ \A i \in 1..n : plan[i] = Scans(targets[i])
  BY <1>1, <1>2 DEF Planned
<1>4. [i \in DOMAIN targets |-> <<targets[i].source, targets[i].direction>>] =
         FlattenSeq([i \in DOMAIN sources |->
           IF sources[i].kind = "five"
             THEN [k \in 1..5 |-> <<sources[i], Points[k]>>]
             ELSE << <<sources[i], "none">> >>])
  BY <1>1 DEF Planned, PointsOf, Pointed
<1>5. ASSUME NEW i \in 1..n
      PROVE  LET c == targets[i].source
                 iters == {plan[i][k].scan_iter : k \in DOMAIN plan[i]}
                 length == Cardinality(iters) * ScanDuration(c)
             IN  /\ \A k \in DOMAIN plan[i] :
                      /\ plan[i][k].tgt_idx = i - 1
                      /\ plan[i][k].duration <= MaxDuration
                 /\ c.time <= length /\ length <= c.time + 2 * Cardinality(iters)
                 /\ \A iter \in iters, x \in 0..c.bandwidth :
                      \E k \in DOMAIN plan[i] :
                        LET s == plan[i][k]
                        IN  /\ s.scan_iter = iter
                            /\ UsableFrom(s, c) <= 2 * x * FreqScale(c)
                            /\ 2 * x * FreqScale(c) <= UsableTo(s, c)
  <2>1. PICK t \in Ready : t = targets[i]
    BY <1>1, <1>2, ElementOfSeq DEF Planned
  <2>2. PICK c \in Sources : c = t.source
    BY DEF Ready
  <2>3. PICK p : p = plan[i]
    OBVIOUS
  <2>4. t.idx = i - 1 /\ p = Scans(t)
    BY <1>1, <1>2, <1>3, <2>1, <2>3 DEF Planned
  <2>5. /\ Cardinality(Iters(p)) = ScanIterations(c)
        /\ Labelled(p, i - 1) /\ CoversBand(p, c)
    BY <2>2, <2>4, ScansOf
  <2>6. /\ c.time <= ScanIterations(c) * ScanDuration(c)
        /\ ScanIterations(c) * ScanDuration(c) <= c.time + 2 * ScanIterations(c)
    BY TimeCovered
  <2>7. \A k \in DOMAIN p : p[k].tgt_idx = i - 1 /\ p[k].duration <= MaxDuration
    BY <2>5 DEF Labelled
  <2>8. Iters(p) = {p[k].scan_iter : k \in DOMAIN p}
    BY DEF Iters
  <2>9. \A iter \in {p[k].scan_iter : k \in DOMAIN p}, x \in 0..c.bandwidth :
          \E k \in DOMAIN p :
            /\ p[k].scan_iter = iter
            /\ UsableFrom(p[k], c) <= 2 * x * FreqScale(c)
            /\ 2 * x * FreqScale(c) <= UsableTo(p[k], c)
    BY <2>5, <2>8 DEF CoversBand
  <2>10. QED BY <2>1, <2>2, <2>3, <2>5, <2>6, <2>7, <2>8, <2>9
<1>6. QED BY <1>2, <1>3, <1>4, <1>5 DEF PlanCovers

\* The targets are expanded once, whenever the observation is planned.
THEOREM PlannedOnce == PlanInit /\ [][DetermineScans]_planVars => []PlannedInv
<1>1. PlannedInv /\ [DetermineScans]_planVars => PlannedInv'
  <2>. SUFFICES ASSUME PlannedInv, [DetermineScans]_planVars PROVE PlannedInv'
    OBVIOUS
  <2>1. CASE DetermineScans
    BY <2>1, ScansDetermined
  <2>2. CASE UNCHANGED planVars
    BY <2>2 DEF planVars, PlannedInv, Fresh, Planned
  <2>3. QED BY <2>1, <2>2
<1>2. QED BY <1>1, NotPlanned, PTL

\* The scans planned are those the design asks for, for every sample rate,
\* bandwidth, integration time and number of targets.
THEOREM DesignIsCovered == PlanInit /\ [][DetermineScans]_planVars => []PlanCovers
<1>1. PlannedInv => PlanCovers
  BY PlanIsRight
<1>2. QED BY <1>1, PlannedOnce, PTL

-----------------------------------------------------------------------------
(***************************************************************************)
(* TraceArchive: no trace that was moved aside is lost (util/html_trace.py)*)
(* The two processes share nothing but the directory, so the invariant is  *)
(* about what names a file can have: one file of a name and a form, no     *)
(* archive next to a claimed archive of its name, and for either process   *)
(* what it has seen of the directory and still relies on. None of it holds *)
(* once a name was given back while the owner was looking at it, and       *)
(* TracesKept does not speak of that case.                                 *)
(***************************************************************************)
FileNames == Seq(Nat)

TraceTypes ==
    /\ files \subseteq [name : FileNames, form : {"html", "gz", "claimed", "tmp"},
                        trace : Int, time : Int]
    /\ IsFiniteSet(files)
    /\ active \in Int /\ name \in FileNames
    /\ todo \subseteq FileNames /\ job \in [from : FileNames, to : FileNames]
    /\ listed \subseteq FileNames \X {"html", "gz"}

OneOfAName == \A f, g \in files : (f.name = g.name /\ f.form = g.form) => f = g

\* Claiming an archive, or giving its name back, overwrites nothing.
NamesApart == \A f, g \in files : (f.form = "html" /\ g.form = "claimed") => f.name # g.name

\* What the owner has seen of the name it considers is still so.
OwnerRelies ==
    /\ owner \in {"gz", "claimed", "move"} => ~Exists(name, "html")
    /\ owner = "move" => ~Exists(name, "claimed")

\* The source is there until it is dropped, and what was written is a copy of it.
ManagerRelies ==
    /\ manager \in {"write", "publish", "stamp", "drop"} => Exists(job.from, "claimed")
    /\ manager = "write" => ~Exists(job.to, "tmp")
    /\ manager \in {"write", "publish"} => ~Exists(job.to, "gz")
    /\ manager = "publish" =>
          \E f \in Named(job.from, "claimed"), g \in Named(job.to, "tmp") : f.trace = g.trace

\* Only the owner deletes compressed archives, and nothing takes their names.
ListStands == \A n \in FileNames : <<n, "gz">> \in listed => Exists(n, "gz")

\* An archive that will not be deleted, whether it is claimed in between or not.
Spared(f) == <<f.name, IF f.form = "gz" THEN "gz" ELSE "html">> \notin listed

SafeTraces == {f.trace : f \in {g \in Archives : Spared(g)}}

\* The owner deletes nothing that would leave less than it has to keep.
EnoughStays == (owner = "unlink" /\ listed # {}) =>
                   (Cardinality(SafeTraces) >= Backups \/ Doubled)

TraceInv == /\ TraceTypes /\ OneOfAName /\ NamesApart /\ OwnerRelies /\ ManagerRelies
            /\ ListStands /\ EnoughStays

\* Every archive is there after a step, if under another name, and is not
\* to be deleted if it was not.
Carried ==
    /\ listed' = listed
    /\ \E move \in [Archives -> Archives'] :
          /\ \A f \in Archives : /\ move[f].trace = f.trace
                                 /\ Spared(f) => Spared(move[f])
          /\ \A f, g \in Archives : move[f] = move[g] => f = g

LEMMA ArchivesCarried ==
  ASSUME listed' = listed, Archives \subseteq Archives'
  PROVE  Carried
<1>1. PICK move : move = [f \in Archives |-> f]
  OBVIOUS
<1>2. QED BY <1>1 DEF Carried

LEMMA ArchiveCarried ==
  ASSUME listed' = listed, NEW c, NEW d, Archives \ {c} \subseteq Archives',
         c \in Archives => /\ d \in Archives' /\ d \notin Archives \ {c}
                           /\ d.trace = c.trace
                           /\ Spared(c) => Spared(d)
  PROVE  Carried
<1>1. PICK move : move = [f \in Archives |-> IF f = c THEN d ELSE f]
  OBVIOUS
<1>2. move \in [Archives -> Archives']
  BY <1>1
<1>3. \A f \in Archives : /\ move[f].trace = f.trace
                          /\ Spared(f) => Spared(move[f])
  BY <1>1
<1>4. \A f, g \in Archives : move[f] = move[g] => f = g
  BY <1>1
<1>5. QED BY <1>2, <1>3, <1>4 DEF Carried

\* No trace is lost by a step that carries every archive over.
LEMMA CarriedKept ==
  ASSUME Carried
  PROVE  Kept \subseteq Kept'
BY DEF Carried, Kept

LEMMA CarriedDoubled ==
  ASSUME Carried, Doubled
  PROVE  Doubled'
<1>1. PICK move \in [Archives -> Archives'] :
          /\ \A f \in Archives : move[f].trace = f.trace
          /\ \A f, g \in Archives : move[f] = move[g] => f = g
  BY DEF Carried
<1>2. PICK f \in Archives, g \in Archives : f # g /\ f.trace = g.trace
  BY DEF Doubled
<1>3. /\ move[f] \in Archives' /\ move[g] \in Archives' /\ move[f] # move[g]
      /\ move[f].trace = move[g].trace
  BY <1>1, <1>2
<1>4. QED BY <1>3 DEF Doubled

LEMMA CarriedSafe ==
  ASSUME Carried
  PROVE  SafeTraces \subseteq SafeTraces'
<1>1. PICK move \in [Archives -> Archives'] :
          \A f \in Archives : /\ move[f].trace = f.trace
                              /\ Spared(f) => Spared(move[f])
  BY DEF Carried
<1>3. listed' = listed
  BY DEF Carried
<1>4. SUFFICES ASSUME NEW f \in Archives, Spared(f)
               PROVE  f.trace \in SafeTraces'
  BY DEF SafeTraces
<1>5. /\ move[f] \in Archives' /\ move[f].trace = f.trace
      /\ Spared(move[f])
  BY <1>1, <1>4
<1>6. Spared(move[f])'
  BY <1>3, <1>5 DEF Spared
<1>7. QED BY <1>5, <1>6 DEF SafeTraces

LEMMA TracesFinite ==
  ASSUME IsFiniteSet(files)
  PROVE  IsFiniteSet(Kept) /\ IsFiniteSet(SafeTraces) /\ SafeTraces \subseteq Kept
<1>1. IsFiniteSet(Archives)
  <2>1. Archives \subseteq files
    BY DEF Archives
  <2>2. QED BY <2>1, FS_Subset
<1>2. PICK g : g = [f \in Archives |-> f.trace]
  OBVIOUS
<1>3. Kept = {g[f] : f \in Archives}
  BY <1>2 DEF Kept
<1>4. IsFiniteSet(Kept)
  <2>1. g \in Surjection(Archives, Kept)
    BY <1>2, <1>3 DEF Surjection
  <2>2. QED BY <1>1, <2>1, FS_Surjection
<1>5. SafeTraces \subseteq Kept
  BY DEF SafeTraces, Kept
<1>6. QED BY <1>4, <1>5, FS_Subset

\* What is enough stays enough.
LEMMA CarriedEnough ==
  ASSUME Carried, owner' = owner, EnoughStays, IsFiniteSet(files)'
  PROVE  EnoughStays'
<1>1. SUFFICES ASSUME owner = "unlink", listed # {}
               PROVE  Cardinality(SafeTraces') >= Backups \/ Doubled'
  BY DEF EnoughStays, Carried
<1>2. CASE Doubled
  BY <1>2, CarriedDoubled
<1>3. CASE Cardinality(SafeTraces) >= Backups
  <2>1. SafeTraces \subseteq SafeTraces'
    BY CarriedSafe
  <2>2. IsFiniteSet(SafeTraces)'
    BY TracesFinite, PTL
  <2>3. IsFiniteSet(SafeTraces')
    BY <2>2
  <2>4. /\ IsFiniteSet(SafeTraces) /\ Cardinality(SafeTraces) <= Cardinality(SafeTraces')
        /\ Cardinality(SafeTraces) \in Nat /\ Cardinality(SafeTraces') \in Nat
    BY <2>1, <2>3, FS_Subset, FS_CardinalityType
  <2>5. QED BY <1>3, <2>4, TraceAssumption
<1>4. QED BY <1>1, <1>2, <1>3 DEF EnoughStays


\* A name is left for a compressed archive: there are more numbers than files.
LEMMA FreeName ==
  ASSUME TraceTypes, NEW n \in FileNames
  PROVE  /\ NextFree(n) \in FileNames
         /\ ~Exists(NextFree(n), "gz") /\ ~Exists(NextFree(n), "tmp")
<1>. DEFINE InUse(m) == Exists(m, "gz") \/ Exists(m, "tmp")
            c == Cardinality(files)
            free == {k \in 1..(c + 1) : ~InUse(Append(n, k))}
<1>1. c \in Nat
  BY FS_CardinalityType DEF TraceTypes
<1>2. free # {}
  <2>1. SUFFICES ASSUME free = {} PROVE FALSE
    OBVIOUS
  <2>2. \A k \in 1..(c + 1) : \E f \in files : f.name = Append(n, k)
    BY <2>1 DEF Exists, Named
  <2>3. PICK g : g = [k \in 1..(c + 1) |-> CHOOSE f \in files : f.name = Append(n, k)]
    OBVIOUS
  <2>4. \A k \in 1..(c + 1) : g[k] \in files /\ g[k].name = Append(n, k)
    BY <2>2, <2>3
  <2>5. g \in [1..(c + 1) -> files]
    BY <2>3, <2>4
  <2>6. \A k, l \in 1..(c + 1) : g[k] = g[l] => k = l
    <3>1. SUFFICES ASSUME NEW k \in 1..(c + 1), NEW l \in 1..(c + 1), Append(n, k) = Append(n, l)
                   PROVE  k = l
      BY <2>4
    <3>2. n \in Seq(Nat) /\ k \in Nat /\ l \in Nat
      BY <1>1 DEF FileNames
    <3>3. /\ Append(n, k)[Len(n) + 1] = k /\ Append(n, l)[Len(n) + 1] = l
      BY <3>2
    <3>4. QED BY <3>1, <3>3
  <2>7. g \in Injection(1..(c + 1), files)
    BY <2>5, <2>6 DEF Injection, IsInjective
  <2>8. Cardinality(1..(c + 1)) <= c
    BY <2>7, FS_Injection DEF TraceTypes
  <2>9. Cardinality(1..(c + 1)) = c + 1
    BY <1>1, FS_Interval
  <2>10. QED BY <1>1, <2>8, <2>9
<1>3. PICK k \in free : \A l \in free : k <= l
  <2>1. free \subseteq Nat
    BY <1>1
  <2>2. QED BY <1>2, <2>1, LeastNumber
<1>4. Min(free) \in free
  BY <1>3 DEF Min
<1>5. ~InUse(NextFree(n)) /\ NextFree(n) = (IF InUse(n) THEN Append(n, Min(free)) ELSE n)
  BY <1>4 DEF NextFree
<1>6. Min(free) \in Nat
  BY <1>1, <1>4
<1>7. NextFree(n) \in FileNames
  BY <1>5, <1>6 DEF FileNames
<1>8. QED BY <1>5, <1>7

\* The file of a name, as another form.
LEMMA RenamedIs ==
  ASSUME TraceTypes, OneOfAName, NEW n, NEW from, NEW to, NEW c \in Named(n, from),
         ~Exists(n, to)
  PROVE  Renamed(n, from, to) = (files \ {c}) \cup {File(n, to, c.trace, c.time)}
<1>1. Named(n, from) = {c}
  BY DEF OneOfAName, Named
<1>2. Named(n, to) = {}
  BY DEF Exists
<1>3. c \in [name : FileNames, form : {"html", "gz", "claimed", "tmp"}, trace : Int, time : Int]
  BY DEF Named, TraceTypes
<1>4. [c EXCEPT !.form = to] = File(n, to, c.trace, c.time)
  BY <1>1, <1>3 DEF File, Named
<1>5. {[f EXCEPT !.form = to] : f \in Named(n, from)} = {[c EXCEPT !.form = to]}
  BY <1>1
<1>6. QED BY <1>1, <1>2, <1>4, <1>5 DEF Renamed

\* Renaming a file to a name no file has.
Moves(c, d) == /\ c \in files /\ d \notin files
               /\ d \in [name : FileNames, form : {"html", "gz", "claimed", "tmp"},
                         trace : Int, time : Int]
               /\ \A f \in files : ~(f.name = d.name /\ f.form = d.form)
               /\ d.trace = c.trace

LEMMA RenamedMoves ==
  ASSUME TraceTypes, OneOfAName, NEW n, NEW from, NEW to \in {"html", "gz", "claimed", "tmp"},
         NEW c \in Named(n, from), ~Exists(n, to)
  PROVE  Moves(c, File(n, to, c.trace, c.time))
BY DEF TraceTypes, Named, Exists, Moves, File

LEMMA MovedFiles ==
  ASSUME TraceTypes, OneOfAName, NEW c, NEW d, Moves(c, d), NEW rest,
         rest \subseteq (files \ {c}) \cup {d}
  PROVE  /\ rest \subseteq [name : FileNames, form : {"html", "gz", "claimed", "tmp"},
                            trace : Int, time : Int]
         /\ IsFiniteSet(rest)
         /\ \A f, g \in rest : (f.name = g.name /\ f.form = g.form) => f = g
<1>1. IsFiniteSet((files \ {c}) \cup {d})
  BY FS_RemoveElement, FS_AddElement DEF TraceTypes
<1>2. IsFiniteSet(rest)
  BY <1>1, FS_Subset
<1>3. QED BY <1>2 DEF TraceTypes, OneOfAName, Moves


\* Nothing but the owner's place and what it knows changes.
LEMMA LogKeeps ==
  ASSUME TraceInv, Log \/ Rollover
  PROVE  TraceInv'
<1>1. /\ files' = files /\ active' = active /\ todo' = todo /\ job' = job
      /\ listed' = listed /\ manager' = manager /\ name' \in {name, <<>>}
      /\ owner' \in {"log", "html"}
  BY DEF Log, Rollover, managerVars
<1>2. TraceTypes'
  <2>1. <<>> \in FileNames
    BY DEF FileNames
  <2>2. QED BY <1>1, <2>1 DEF TraceInv, TraceTypes
<1>3. OneOfAName' /\ NamesApart'
  BY <1>1 DEF TraceInv, OneOfAName, NamesApart
<1>4. OwnerRelies' /\ EnoughStays'
  BY <1>1 DEF OwnerRelies, EnoughStays
<1>5. ManagerRelies' /\ ListStands'
  <2>1. \A n, form : Named(n, form)' = Named(n, form)
    BY <1>1 DEF Named
  <2>2. QED BY <1>1, <2>1 DEF TraceInv, ManagerRelies, ListStands, Exists
<1>6. QED BY <1>2, <1>3, <1>4, <1>5 DEF TraceInv

LEMMA LookKeeps ==
  ASSUME TraceInv, NEW i \in DOMAIN UsedForms, Look(i)
  PROVE  TraceInv'
<1>1. /\ files' = files /\ active' = active /\ todo' = todo /\ job' = job
      /\ listed' = listed /\ manager' = manager
      /\ IF Exists(name, UsedForms[i])
           THEN /\ owner' = "html"
                /\ name' = IF name = <<>> THEN <<1>> ELSE <<name[1] + 1>>
           ELSE /\ owner' = IF i = Len(UsedForms) THEN "move" ELSE UsedForms[i + 1]
                /\ name' = name
      /\ owner = UsedForms[i]
  BY DEF Look, managerVars
<1>2. i \in {1, 2, 3} /\ UsedForms = <<"html", "gz", "claimed">>
  BY DEF UsedForms
<1>3. \/ owner' = "html" /\ name' = (IF name = <<>> THEN <<1>> ELSE <<name[1] + 1>>)
      \/ owner = "html" /\ owner' = "gz" /\ name' = name /\ ~Exists(name, "html")
      \/ owner = "gz" /\ owner' = "claimed" /\ name' = name
      \/ owner = "claimed" /\ owner' = "move" /\ name' = name /\ ~Exists(name, "claimed")
  BY <1>1, <1>2
<1>4. TraceTypes'
  <2>1. <<1>> \in FileNames
    BY DEF FileNames
  <2>2. name # <<>> => <<name[1] + 1>> \in FileNames
    BY DEF TraceInv, TraceTypes, FileNames
  <2>3. name \in FileNames /\ name' \in FileNames
    BY <1>3, <2>1, <2>2 DEF TraceInv, TraceTypes
  <2>4. QED BY <1>1, <2>3 DEF TraceInv, TraceTypes
<1>5. OneOfAName' /\ NamesApart'
  BY <1>1 DEF TraceInv, OneOfAName, NamesApart
<1>6. OwnerRelies'
  <2>1. \A n, form : Exists(n, form)' <=> Exists(n, form)
    BY <1>1 DEF Exists, Named
  <2>2. CASE owner' = "html"
    BY <2>2 DEF OwnerRelies
  <2>3. CASE name' = name /\ ~(owner' = "html")
    <3>1. /\ owner' \in {"gz", "claimed", "move"} => ~Exists(name, "html")
          /\ owner' = "move" => ~Exists(name, "claimed")
      BY <1>3, <2>3 DEF TraceInv, OwnerRelies
    <3>2. QED BY <1>1, <2>3, <3>1 DEF OwnerRelies, Exists, Named
  <2>4. QED BY <1>3, <2>2, <2>3
<1>7. owner' # "unlink" /\ EnoughStays'
  BY <1>3 DEF EnoughStays
<1>8. ManagerRelies' /\ ListStands'
  <2>1. \A n, form : Named(n, form)' = Named(n, form)
    BY <1>1 DEF Named
  <2>2. QED BY <1>1, <2>1 DEF TraceInv, ManagerRelies, ListStands, Exists
<1>9. QED BY <1>4, <1>5, <1>6, <1>7, <1>8 DEF TraceInv

\* The file gets a name that is free.
LEMMA MoveAsideKeeps ==
  ASSUME TraceInv, MoveAside
  PROVE  /\ TraceInv'
         /\ Kept \subseteq Kept'
<1>1. PICK d : d = File(name, "html", active, active)
  OBVIOUS
<1>2. /\ d.name = name /\ d.form = "html"
      /\ d \in [name : FileNames, form : {"html", "gz", "claimed", "tmp"},
                trace : Int, time : Int]
  BY <1>1 DEF File, TraceInv, TraceTypes
<1>3. ~Exists(name, "html") /\ ~Exists(name, "claimed")
  BY DEF MoveAside, TraceInv, OwnerRelies
<1>4. /\ files' = files \cup {d}
      /\ \A f \in files : f.name = name => f.form # "html" /\ f.form # "claimed"
  BY <1>1, <1>3 DEF MoveAside, Exists, Named
<1>5. /\ active' = active /\ todo' = todo /\ job' = job /\ name' = name
      /\ listed' = listed /\ manager' = manager /\ owner' = "list html"
  BY DEF MoveAside, managerVars
<1>6. TraceTypes'
  <2>1. IsFiniteSet(files')
    BY <1>4, FS_AddElement DEF TraceInv, TraceTypes
  <2>2. QED BY <1>2, <1>4, <1>5, <2>1 DEF TraceInv, TraceTypes
<1>7. OneOfAName' /\ NamesApart'
  BY <1>2, <1>4 DEF TraceInv, OneOfAName, NamesApart
<1>8. OwnerRelies' /\ EnoughStays'
  BY <1>5 DEF OwnerRelies, EnoughStays
<1>9. ManagerRelies' /\ ListStands'
  <2>2. \A n, form : form # "html" => Named(n, form)' = Named(n, form)
    BY <1>2, <1>4 DEF Named
  <2>3. ManagerRelies'
    BY <1>5, <2>2 DEF TraceInv, ManagerRelies, Exists
  <2>4. ListStands'
    BY <1>5, <2>2 DEF TraceInv, ListStands, Exists
  <2>5. QED BY <2>3, <2>4
<1>10. Archives \subseteq Archives'
  BY <1>4, <1>5 DEF Archives
<1>11. QED BY <1>6, <1>7, <1>8, <1>9, <1>10 DEF TraceInv, Kept

LEMMA ListKeeps ==
  ASSUME TraceInv, ListArchives
  PROVE  TraceInv'
<1>1. /\ files' = files /\ active' = active /\ todo' = todo /\ job' = job
      /\ name' = name /\ manager' = manager /\ owner' \in {"list gz", "sort"}
      /\ listed' \subseteq (listed \cup {<<f.name, f.form>> : f \in
                                           {g \in files : g.form \in {"html", "gz"}}})
  BY DEF ListArchives, managerVars
<1>2. \A f \in files : f.name \in FileNames
  BY DEF TraceInv, TraceTypes
<1>3. TraceTypes'
  <2>1. {<<f.name, f.form>> : f \in {g \in files : g.form \in {"html", "gz"}}}
           \subseteq FileNames \X {"html", "gz"}
    BY <1>2
  <2>2. listed' \subseteq FileNames \X {"html", "gz"}
    BY <1>1, <2>1 DEF TraceInv, TraceTypes
  <2>3. QED BY <1>1, <2>2 DEF TraceInv, TraceTypes
<1>4. OneOfAName' /\ NamesApart'
  BY <1>1 DEF TraceInv, OneOfAName, NamesApart
<1>5. OwnerRelies' /\ EnoughStays'
  BY <1>1 DEF OwnerRelies, EnoughStays
<1>6. ManagerRelies'
  <2>1. \A n, form : Named(n, form)' = Named(n, form)
    BY <1>1 DEF Named
  <2>2. QED BY <1>1, <2>1 DEF TraceInv, ManagerRelies, Exists
<1>7. ListStands'
  BY <1>1 DEF TraceInv, ListStands, Exists, Named
<1>8. QED BY <1>3, <1>4, <1>5, <1>6, <1>7 DEF TraceInv

\* What stays of the listed archives is as much as has to stay, and is spared.
LEMMA SortKeeps ==
  ASSUME TraceInv, SortArchives
  PROVE  TraceInv'
<1>1. /\ files' = files /\ active' = active /\ todo' = todo /\ job' = job
      /\ name' = name /\ manager' = manager /\ owner' = "unlink"
  BY DEF SortArchives, managerVars
<1>2. \/ listed' = {}
      \/ \E kept \in SUBSET Found : /\ Cardinality(kept) = Backups
                                    /\ listed' = {<<g.name, g.form>> : g \in Found \ kept}
  BY DEF SortArchives, Spare
<1>3. listed' \subseteq listed
  BY <1>2 DEF Found
<1>4. TraceTypes'
  BY <1>1, <1>3 DEF TraceInv, TraceTypes
<1>5. OneOfAName' /\ NamesApart'
  BY <1>1 DEF TraceInv, OneOfAName, NamesApart
<1>6. OwnerRelies'
  BY <1>1 DEF OwnerRelies
<1>7. ManagerRelies'
  <2>1. \A n, form : Named(n, form)' = Named(n, form)
    BY <1>1 DEF Named
  <2>2. QED BY <1>1, <2>1 DEF TraceInv, ManagerRelies, Exists
<1>8. ListStands'
  BY <1>1, <1>3 DEF TraceInv, ListStands, Exists, Named
<1>9. EnoughStays'
  <2>1. SUFFICES ASSUME listed' # {}, ~Doubled'
                 PROVE  Cardinality(SafeTraces') >= Backups
    BY DEF EnoughStays
  <2>2. PICK kept \in SUBSET Found : /\ Cardinality(kept) = Backups
                                     /\ listed' = {<<g.name, g.form>> : g \in Found \ kept}
    BY <1>2, <2>1
  <2>3. Archives' = Archives
    BY <1>1 DEF Archives
  <2>4. \A f \in Found : f \in files /\ f.form \in {"html", "gz"}
    BY DEF Found, TraceInv, TraceTypes
  <2>5. ASSUME NEW f \in kept
        PROVE  f \in Archives' /\ Spared(f)'
    <3>1. f \in files /\ f.form \in {"html", "gz"} /\ f \in Archives'
      BY <2>2, <2>3, <2>4 DEF Archives
    <3>2. <<f.name, f.form>> \notin listed'
      BY <2>2, <2>4, <3>1 DEF TraceInv, OneOfAName
    <3>3. QED BY <3>1, <3>2 DEF Spared
  <2>6. PICK g : g = [f \in kept |-> f.trace]
    OBVIOUS
  <2>7. PICK T : T = {g[f] : f \in kept}
    OBVIOUS
  <2>8. T \subseteq SafeTraces'
    BY <2>5, <2>6, <2>7 DEF SafeTraces
  <2>9. \A x, y \in kept : g[x] = g[y] => x = y
    BY <2>1, <2>5, <2>6 DEF Doubled
  <2>10. IsFiniteSet(kept)
    BY <2>4, FS_Subset DEF TraceInv, TraceTypes
  <2>11. Cardinality(T) = Backups
    BY <2>2, <2>7, <2>9, <2>10, ImageCounted
  <2>12. IsFiniteSet(SafeTraces)'
    BY <1>4, TracesFinite, PTL DEF TraceTypes
  <2>13. IsFiniteSet(SafeTraces')
    BY <2>12
  <2>14. /\ Cardinality(T) <= Cardinality(SafeTraces')
         /\ Cardinality(SafeTraces') \in Nat
    BY <2>8, <2>13, FS_Subset, FS_CardinalityType
  <2>15. QED BY <2>11, <2>14
<1>10. QED BY <1>4, <1>5, <1>6, <1>7, <1>8, <1>9 DEF TraceInv


\* Deleting what was listed leaves what is spared.
LEMMA DeleteKeeps ==
  ASSUME TraceInv, DeleteArchives
  PROVE  /\ TraceInv'
         /\ \A t \in Kept \ Kept' : Cardinality(Kept') >= Backups \/ Doubled
<1>1. /\ files' = files \ Found /\ todo' = todo /\ job' = job
      /\ name' = name /\ manager' = manager /\ owner' = "log" /\ listed' = {}
      /\ active' = active + 1 /\ owner = "unlink"
  BY DEF DeleteArchives, managerVars
<1>2. TraceTypes'
  <2>1. IsFiniteSet(files')
    BY <1>1, FS_Subset DEF TraceInv, TraceTypes
  <2>2. QED BY <1>1, <2>1 DEF TraceInv, TraceTypes
<1>3. OneOfAName' /\ NamesApart'
  BY <1>1 DEF TraceInv, OneOfAName, NamesApart
<1>4. OwnerRelies' /\ EnoughStays' /\ ListStands'
  BY <1>1 DEF OwnerRelies, EnoughStays, ListStands
<1>5. \A f \in Found : f.form \in {"html", "gz"}
  BY DEF Found, TraceInv, TraceTypes
<1>6. ManagerRelies'
  <2>1. \A n : /\ Named(n, "claimed")' = Named(n, "claimed")
               /\ Named(n, "tmp")' = Named(n, "tmp")
               /\ Named(n, "gz")' \subseteq Named(n, "gz")
    BY <1>1, <1>5 DEF Named
  <2>2. QED BY <1>1, <2>1 DEF TraceInv, ManagerRelies, Exists
<1>7. TraceInv'
  BY <1>2, <1>3, <1>4, <1>6 DEF TraceInv
<1>8. CASE listed = {}
  <2>1. Archives' = Archives
    BY <1>1, <1>8 DEF Archives, Found
  <2>2. Kept' = Kept
    BY <2>1 DEF Kept
  <2>3. QED BY <1>7, <2>2
<1>9. CASE listed # {} /\ ~Doubled
  <2>1. Cardinality(SafeTraces) >= Backups
    BY <1>1, <1>9 DEF TraceInv, EnoughStays
  <2>2. SafeTraces \subseteq Kept'
    <3>1. SUFFICES ASSUME NEW f \in Archives, Spared(f)
                   PROVE  f \in Archives'
      BY DEF SafeTraces, Kept
    <3>2. f \in files' /\ (f.form = "html" \/ f.form = "gz" \/ f.form = "claimed")
      BY <1>1, <1>5, <3>1 DEF Archives, Found, Spared
    <3>3. QED BY <1>1, <3>1, <3>2 DEF Archives
  <2>3. IsFiniteSet(Kept)'
    BY <1>2, TracesFinite, PTL DEF TraceTypes
  <2>4. IsFiniteSet(Kept')
    BY <2>3
  <2>5. /\ Cardinality(SafeTraces) <= Cardinality(Kept')
        /\ Cardinality(SafeTraces) \in Nat /\ Cardinality(Kept') \in Nat
    BY <2>2, <2>4, FS_Subset, FS_CardinalityType
  <2>6. Backups \in Nat
    BY TraceAssumption
  <2>7. Cardinality(Kept') >= Backups
    BY <2>1, <2>5, <2>6
  <2>8. QED BY <1>7, <2>7
<1>10. QED BY <1>7, <1>8, <1>9

-----------------------------------------------------------------------------
\* Files move only to names that are free, and the manager's place changes.
LEMMA StillTypes ==
  ASSUME TraceInv, UNCHANGED ownerVars, IsFiniteSet(files'),
         files' \subseteq [name : FileNames, form : {"html", "gz", "claimed", "tmp"},
                           trace : Int, time : Int],
         todo' \subseteq FileNames, job' \in [from : FileNames, to : FileNames]
  PROVE  TraceTypes'
BY DEF TraceInv, TraceTypes, ownerVars

LEMMA RecoverKeeps ==
  ASSUME TraceInv, Recover
  PROVE  TraceInv' /\ Carried
<1>1. /\ files' = {f \in files : f.form # "tmp"} /\ todo' = todo /\ job' = job
      /\ manager = "recover" /\ manager' = "restore" /\ UNCHANGED ownerVars
      /\ listed' = listed /\ owner' = owner /\ name' = name
  BY DEF Recover, ownerVars
<1>2. TraceTypes'
  <2>1. IsFiniteSet(files')
    BY <1>1, FS_Subset DEF TraceInv, TraceTypes
  <2>2. QED BY <1>1, <2>1, StillTypes DEF TraceInv, TraceTypes
<1>3. OneOfAName' /\ NamesApart'
  BY <1>1 DEF TraceInv, OneOfAName, NamesApart
<1>4. \A n, form : form # "tmp" => Named(n, form)' = Named(n, form)
  BY <1>1 DEF Named
<1>5. OwnerRelies' /\ ManagerRelies' /\ ListStands'
  BY <1>1, <1>4 DEF TraceInv, OwnerRelies, ManagerRelies, ListStands, Exists
<1>6. Carried
  <2>1. Archives \subseteq Archives'
    BY <1>1 DEF Archives
  <2>2. QED BY <1>1, <2>1, ArchivesCarried
<1>7. EnoughStays'
  BY <1>1, <1>2, <1>6, CarriedEnough DEF TraceInv, TraceTypes
<1>8. QED BY <1>2, <1>3, <1>5, <1>6, <1>7 DEF TraceInv

\* A claimed archive gets its name back: no archive has it, and the owner is
\* not about to give it to another.
LEMMA GivenBackKeeps ==
  ASSUME TraceInv, UNCHANGED ownerVars, todo' = todo, job' = job,
         NEW c \in files, c.form = "claimed", ~Exists(c.name, "html"),
         NEW gone, \A f \in gone : f.form = "tmp",
         files' = Renamed(c.name, "claimed", "html") \ gone,
         manager' \in {"restore", "claim"}
  PROVE  /\ Carried
         /\ ~Considered(c.name) => TraceInv'
<1>1. PICK d : d = File(c.name, "html", c.trace, c.time)
  OBVIOUS
<1>2. c \in Named(c.name, "claimed") /\ TraceTypes /\ OneOfAName
  BY DEF Named, TraceInv
<1>3. /\ Renamed(c.name, "claimed", "html") = (files \ {c}) \cup {d}
      /\ Moves(c, d)
  BY <1>1, <1>2, RenamedIs, RenamedMoves
<1>4. /\ d.name = c.name /\ d.form = "html" /\ d.trace = c.trace /\ d \notin gone
      /\ d \notin files /\ c \notin files'
  BY <1>1, <1>3 DEF File, Moves
<1>5. files' \subseteq (files \ {c}) \cup {d} /\ d \in files'
  BY <1>3, <1>4
<1>6. \A f \in files : (f # c /\ f.form # "tmp") => f \in files'
  BY <1>3
<1>7. /\ files' \subseteq [name : FileNames, form : {"html", "gz", "claimed", "tmp"},
                            trace : Int, time : Int]
      /\ IsFiniteSet(files')
      /\ \A f, g \in files' : (f.name = g.name /\ f.form = g.form) => f = g
  BY <1>2, <1>3, <1>5, MovedFiles
<1>8. listed' = listed /\ owner' = owner /\ name' = name
  BY DEF ownerVars
<1>9. Carried
  <2>1. Archives \ {c} \subseteq Archives'
    BY <1>6 DEF Archives
  <2>2. d \in Archives' /\ d \notin Archives
    BY <1>4, <1>5 DEF Archives
  <2>3. Spared(c) => Spared(d)
    BY <1>4 DEF Spared
  <2>4. QED BY <1>4, <1>8, <2>1, <2>2, <2>3, ArchiveCarried
<1>10. ASSUME ~Considered(c.name) PROVE TraceInv'
  <2>1. TraceTypes'
    BY <1>7, StillTypes DEF TraceInv, TraceTypes
  <2>2. OneOfAName' /\ NamesApart'
    BY <1>2, <1>4, <1>5, <1>7 DEF TraceInv, OneOfAName, NamesApart
  <2>3. OwnerRelies'
    <3>1. \A f \in files' : f = d \/ f \in files
      BY <1>5
    <3>2. QED BY <1>4, <1>8, <1>10, <3>1 DEF TraceInv, OwnerRelies, Considered, Exists, Named
  <2>4. ManagerRelies'
    BY DEF ManagerRelies
  <2>5. ListStands'
    BY <1>6, <1>8 DEF TraceInv, ListStands, Exists, Named
  <2>6. EnoughStays'
    BY <1>7, <1>8, <1>9, CarriedEnough DEF TraceInv
  <2>7. QED BY <2>1, <2>2, <2>3, <2>4, <2>5, <2>6 DEF TraceInv
<1>11. QED BY <1>9, <1>10


LEMMA RestoreKeeps ==
  ASSUME TraceInv, Restore
  PROVE  Carried /\ (~givenBack' => TraceInv')
<1>1. PICK n \in Restorable : /\ files' = Renamed(n, "claimed", "html")
                              /\ givenBack' = (givenBack \/ Considered(n))
  BY DEF Restore
<1>2. PICK c \in files : c.form = "claimed" /\ ~Exists(c.name, "html") /\ c.name = n
  BY <1>1 DEF Restorable
<1>3. /\ UNCHANGED ownerVars /\ todo' = todo /\ job' = job /\ manager' = "restore"
  BY DEF Restore, managerVars
<1>4. PICK gone : gone = {}
  OBVIOUS
<1>5. /\ files' = Renamed(c.name, "claimed", "html") \ gone
      /\ \A f \in gone : f.form = "tmp"
      /\ givenBack' = (givenBack \/ Considered(c.name))
  BY <1>1, <1>2, <1>4
<1>6. Carried /\ (~Considered(c.name) => TraceInv')
  BY <1>2, <1>3, <1>5, GivenBackKeeps
<1>7. QED BY <1>5, <1>6

\* The name of the source is still free: its archive was claimed.
LEMMA GiveBackKeeps ==
  ASSUME TraceInv, GiveBack, UNCHANGED ownerVars,
         manager \in {"write", "publish", "stamp", "drop"}
  PROVE  Carried /\ (~givenBack' => TraceInv')
<1>1. PICK c \in files : c.form = "claimed" /\ c.name = job.from
  BY DEF TraceInv, ManagerRelies, Exists, Named
<1>2. ~Exists(c.name, "html")
  BY <1>1 DEF TraceInv, NamesApart, Exists, Named
<1>3. /\ files' = Renamed(c.name, "claimed", "html") \ Named(job.to, "tmp")
      /\ givenBack' = (givenBack \/ Considered(c.name))
      /\ todo' = todo /\ job' = job /\ manager' = "claim"
  BY <1>1, <1>2 DEF GiveBack
<1>4. \A f \in Named(job.to, "tmp") : f.form = "tmp"
  BY DEF Named
<1>5. Carried /\ (~Considered(c.name) => TraceInv')
  BY <1>1, <1>2, <1>3, <1>4, GivenBackKeeps
<1>6. QED BY <1>3, <1>5

\* Steps that touch no file and begin nothing.
LEMMA ManagerMoves ==
  ASSUME TraceInv, files' = files, UNCHANGED ownerVars, job' = job, todo' \subseteq FileNames,
         manager' \notin {"write", "publish", "stamp", "drop"}
  PROVE  TraceInv' /\ Carried
<1>1. listed' = listed /\ owner' = owner /\ name' = name
  BY DEF ownerVars
<1>2. TraceTypes'
  BY StillTypes DEF TraceInv, TraceTypes
<1>3. OneOfAName' /\ NamesApart'
  BY DEF TraceInv, OneOfAName, NamesApart
<1>4. OwnerRelies' /\ ManagerRelies' /\ ListStands'
  BY <1>1 DEF TraceInv, OwnerRelies, ManagerRelies, ListStands, Exists, Named
<1>5. Carried
  <2>1. Archives \subseteq Archives'
    BY DEF Archives
  <2>2. QED BY <1>1, <2>1, ArchivesCarried
<1>6. EnoughStays'
  BY <1>1, <1>2, <1>5, CarriedEnough DEF TraceInv, TraceTypes
<1>7. QED BY <1>2, <1>3, <1>4, <1>5, <1>6 DEF TraceInv

LEMMA IdleKeeps ==
  ASSUME TraceInv, Scan \/ Wait \/ Crash \/ Restart
  PROVE  TraceInv' /\ Carried
<1>1. /\ files' = files /\ UNCHANGED ownerVars /\ job' = job
      /\ manager' \notin {"write", "publish", "stamp", "drop"}
  BY DEF Scan, Wait, Crash, Restart
<1>2. todo' \subseteq FileNames
  <2>1. CASE Scan
    BY <2>1 DEF Scan, TraceInv, TraceTypes
  <2>2. CASE todo' \subseteq todo
    BY <2>2 DEF TraceInv, TraceTypes
  <2>3. QED BY <2>1, <2>2 DEF Wait, Crash, Restart
<1>3. QED BY <1>1, <1>2, ManagerMoves

\* An archive is claimed under its own name, and none was claimed under it.
LEMMA ClaimKeeps ==
  ASSUME TraceInv, Claim
  PROVE  TraceInv' /\ Carried
<1>1. PICK n \in todo :
          /\ todo' = todo \ {n}
          /\ IF Exists(n, "html")
               THEN /\ files' = Renamed(n, "html", "claimed")
                    /\ job' = [from |-> n, to |-> NextFree(n)]
                    /\ manager' = "write"
               ELSE UNCHANGED <<files, job, manager>>
  BY DEF Claim
<1>2. /\ manager = "claim" /\ UNCHANGED ownerVars
      /\ listed' = listed /\ owner' = owner /\ name' = name
      /\ todo' \subseteq FileNames /\ n \in FileNames
  BY <1>1 DEF Claim, ownerVars, TraceInv, TraceTypes
<1>3. CASE ~Exists(n, "html")
  BY <1>1, <1>2, <1>3, ManagerMoves
<1>4. CASE Exists(n, "html")
  <2>1. PICK c \in files : c.name = n /\ c.form = "html"
    BY <1>4 DEF Exists, Named
  <2>2. c \in Named(n, "html") /\ ~Exists(n, "claimed")
    BY <2>1 DEF Named, Exists, TraceInv, NamesApart
  <2>3. PICK d : d = File(n, "claimed", c.trace, c.time)
    OBVIOUS
  <2>4. files' = (files \ {c}) \cup {d} /\ Moves(c, d)
    BY <1>1, <1>4, <2>2, <2>3, RenamedIs, RenamedMoves DEF TraceInv
  <2>5. d.name = n /\ d.form = "claimed" /\ d.trace = c.trace /\ d \notin files
    BY <2>3, <2>4 DEF File, Moves
  <2>6. PICK to \in FileNames : /\ to = NextFree(n)
                                /\ ~Exists(to, "gz") /\ ~Exists(to, "tmp")
    BY <1>2, FreeName DEF TraceInv
  <2>7. /\ manager' = "write" /\ job'.from = n /\ job'.to = to
        /\ job' \in [from : FileNames, to : FileNames]
    BY <1>1, <1>2, <1>4, <2>6
  <2>8. /\ files' \subseteq [name : FileNames, form : {"html", "gz", "claimed", "tmp"},
                              trace : Int, time : Int]
        /\ IsFiniteSet(files')
        /\ \A f, g \in files' : (f.name = g.name /\ f.form = g.form) => f = g
    BY <2>4, MovedFiles DEF TraceInv
  <2>9. TraceTypes'
    BY <1>2, <2>7, <2>8, StillTypes
  <2>10. OneOfAName' /\ NamesApart'
    BY <2>1, <2>4, <2>5, <2>8 DEF TraceInv, OneOfAName, NamesApart
  <2>11. Carried
    <3>1. Archives \ {c} \subseteq Archives'
      BY <1>2, <2>4, <2>7 DEF Archives
    <3>2. d \in Archives' /\ d \notin Archives
      BY <2>4, <2>5, <2>7 DEF Archives
    <3>3. Spared(c) => Spared(d)
      BY <2>1, <2>5 DEF Spared
    <3>4. QED BY <1>2, <2>5, <3>1, <3>2, <3>3, ArchiveCarried
  <2>12. \A m, form : form \notin {"html", "claimed"} => Named(m, form)' = Named(m, form)
    BY <2>1, <2>4, <2>5 DEF Named
  <2>13. OwnerRelies'
    <3>1. \A m : Exists(m, "html")' => Exists(m, "html")
      BY <2>4, <2>5 DEF Exists, Named
    <3>2. \A m : Exists(m, "claimed")' => Exists(m, "claimed") \/ m = n
      BY <2>4, <2>5 DEF Exists, Named
    <3>3. QED BY <1>2, <1>4, <3>1, <3>2 DEF TraceInv, OwnerRelies
  <2>14. ManagerRelies'
    <3>1. Exists(n, "claimed")'
      BY <2>4, <2>5 DEF Exists, Named
    <3>2. Named(to, "gz")' = {} /\ Named(to, "tmp")' = {}
      BY <2>6, <2>12 DEF Exists
    <3>3. QED BY <2>7, <3>1, <3>2 DEF ManagerRelies, Exists, Named
  <2>15. ListStands'
    BY <1>2, <2>12 DEF TraceInv, ListStands, Exists
  <2>16. EnoughStays'
    BY <1>2, <2>8, <2>11, CarriedEnough DEF TraceInv
  <2>17. QED BY <2>9, <2>10, <2>11, <2>13, <2>14, <2>15, <2>16 DEF TraceInv
<1>5. QED BY <1>3, <1>4


\* What is written is a copy of the source.
LEMMA SourceThere ==
  ASSUME TraceInv, manager \in {"write", "publish", "stamp", "drop"}
  PROVE  /\ Source \in files /\ Source.name = job.from /\ Source.form = "claimed"
         /\ \A f \in files : (f.name = job.from /\ f.form = "claimed") => f = Source
<1>1. \E f \in files : f.name = job.from /\ f.form = "claimed"
  BY DEF TraceInv, ManagerRelies, Exists, Named
<1>2. Source \in files /\ Source.name = job.from /\ Source.form = "claimed"
  BY <1>1 DEF Source
<1>3. QED BY <1>2 DEF TraceInv, OneOfAName

LEMMA WriteKeeps ==
  ASSUME TraceInv, Write
  PROVE  TraceInv' /\ Carried
<1>1. /\ manager = "write" /\ manager' = "publish" /\ UNCHANGED ownerVars
      /\ listed' = listed /\ owner' = owner /\ name' = name /\ todo' = todo /\ job' = job
      /\ files' = files \cup {File(job.to, "tmp", Source.trace, active)}
  BY DEF Write, ownerVars
<1>2. PICK d : d = File(job.to, "tmp", Source.trace, active)
  OBVIOUS
<1>3. /\ d.name = job.to /\ d.form = "tmp" /\ d.trace = Source.trace
      /\ d \in [name : FileNames, form : {"html", "gz", "claimed", "tmp"},
                trace : Int, time : Int]
  BY <1>1, <1>2, SourceThere DEF File, TraceInv, TraceTypes
<1>4. /\ files' = files \cup {d}
      /\ \A f \in files : ~(f.name = d.name /\ f.form = d.form)
  BY <1>1, <1>2, <1>3 DEF TraceInv, ManagerRelies, Exists, Named
<1>5. IsFiniteSet(files')
  BY <1>4, FS_AddElement DEF TraceInv, TraceTypes
<1>6. TraceTypes'
  BY <1>1, <1>3, <1>4, <1>5, StillTypes DEF TraceInv, TraceTypes
<1>7. OneOfAName' /\ NamesApart'
  BY <1>3, <1>4 DEF TraceInv, OneOfAName, NamesApart
<1>8. \A n, form : form # "tmp" => Named(n, form)' = Named(n, form)
  BY <1>3, <1>4 DEF Named
<1>9. OwnerRelies' /\ ListStands'
  BY <1>1, <1>8 DEF TraceInv, OwnerRelies, ListStands, Exists
<1>10. ManagerRelies'
  <2>1. Source \in Named(job.from, "claimed")' /\ d \in Named(job.to, "tmp")'
    BY <1>1, <1>3, <1>4, SourceThere DEF Named
  <2>2. /\ Exists(job.from, "claimed")' /\ ~Exists(job.to, "gz")'
    BY <1>1, <1>8 DEF TraceInv, ManagerRelies, Exists
  <2>3. QED BY <1>1, <1>3, <2>1, <2>2 DEF ManagerRelies, Exists, Named
<1>11. Carried
  <2>1. Archives \subseteq Archives'
    BY <1>1, <1>4 DEF Archives
  <2>2. QED BY <1>1, <2>1, ArchivesCarried
<1>12. EnoughStays'
  BY <1>1, <1>5, <1>11, CarriedEnough DEF TraceInv
<1>13. QED BY <1>6, <1>7, <1>9, <1>10, <1>11, <1>12 DEF TraceInv

\* From here on the compressed file counts, and its source does not.
LEMMA PublishKeeps ==
  ASSUME TraceInv, Publish
  PROVE  TraceInv' /\ Carried
<1>1. /\ manager = "publish" /\ manager' = "stamp" /\ UNCHANGED ownerVars
      /\ listed' = listed /\ owner' = owner /\ name' = name /\ todo' = todo /\ job' = job
      /\ files' = Renamed(job.to, "tmp", "gz")
  BY DEF Publish, ownerVars
<1>2. PICK f \in Named(job.from, "claimed"), c \in Named(job.to, "tmp") : f.trace = c.trace
  BY <1>1 DEF TraceInv, ManagerRelies
<1>3. ~Exists(job.to, "gz")
  BY <1>1 DEF TraceInv, ManagerRelies
<1>4. PICK d : d = File(job.to, "gz", c.trace, c.time)
  OBVIOUS
<1>5. files' = (files \ {c}) \cup {d} /\ Moves(c, d)
  BY <1>1, <1>2, <1>3, <1>4, RenamedIs, RenamedMoves DEF TraceInv
<1>6. /\ d.name = job.to /\ d.form = "gz" /\ d.trace = c.trace /\ d \notin files
      /\ c.form = "tmp" /\ f.form = "claimed" /\ f.name = job.from /\ f \in files
  BY <1>2, <1>4, <1>5 DEF File, Moves, Named
<1>7. /\ files' \subseteq [name : FileNames, form : {"html", "gz", "claimed", "tmp"},
                            trace : Int, time : Int]
      /\ IsFiniteSet(files')
      /\ \A g, h \in files' : (g.name = h.name /\ g.form = h.form) => g = h
  BY <1>5, MovedFiles DEF TraceInv
<1>8. TraceTypes'
  BY <1>1, <1>7, StillTypes DEF TraceInv, TraceTypes
<1>9. OneOfAName' /\ NamesApart'
  BY <1>5, <1>6, <1>7 DEF TraceInv, OneOfAName, NamesApart
<1>10. \A n, form : form \in {"html", "claimed"} => Named(n, form)' = Named(n, form)
  BY <1>5, <1>6 DEF Named
<1>11. OwnerRelies' /\ ManagerRelies'
  BY <1>1, <1>10 DEF TraceInv, OwnerRelies, ManagerRelies, Exists
<1>12. ListStands'
  <2>1. \A n : Exists(n, "gz") => Exists(n, "gz")'
    BY <1>5, <1>6 DEF Exists, Named
  <2>2. QED BY <1>1, <2>1 DEF TraceInv, ListStands
<1>13. Carried
  <2>1. \A g \in Archives : (g.form = "claimed" /\ g.name = job.from) => g = f
    BY <1>6 DEF Archives, TraceInv, OneOfAName
  <2>2. Archives \ {f} \subseteq Archives'
    BY <1>1, <1>5, <1>6, <2>1 DEF Archives
  <2>3. d \in Archives' /\ d \notin Archives
    BY <1>5, <1>6 DEF Archives
  <2>4. Spared(d)
    BY <1>3, <1>6 DEF Spared, TraceInv, TraceTypes, ListStands
  <2>5. QED BY <1>1, <1>2, <1>6, <2>2, <2>3, <2>4, ArchiveCarried
<1>14. EnoughStays'
  BY <1>1, <1>7, <1>13, CarriedEnough DEF TraceInv
<1>15. QED BY <1>8, <1>9, <1>11, <1>12, <1>13, <1>14 DEF TraceInv

LEMMA StampKeeps ==
  ASSUME TraceInv, Stamp
  PROVE  TraceInv' /\ Carried
<1>1. /\ manager = "stamp" /\ manager' = "drop" /\ UNCHANGED ownerVars
      /\ listed' = listed /\ owner' = owner /\ name' = name /\ todo' = todo /\ job' = job
      /\ Exists(job.to, "gz")
      /\ files' = (files \ Named(job.to, "gz"))
                     \cup {[f EXCEPT !.time = Source.time] : f \in Named(job.to, "gz")}
  BY DEF Stamp, ownerVars
<1>2. PICK c \in files : c.name = job.to /\ c.form = "gz"
  BY <1>1 DEF Exists, Named
<1>3. PICK d : d = File(job.to, "gz", c.trace, Source.time)
  OBVIOUS
<1>4. files' = (files \ {c}) \cup {d}
  <2>1. Named(job.to, "gz") = {c}
    BY <1>2 DEF TraceInv, OneOfAName, Named
  <2>2. [c EXCEPT !.time = Source.time] = d
    BY <1>2, <1>3 DEF TraceInv, TraceTypes, File
  <2>3. QED BY <1>1, <2>1, <2>2
<1>5. /\ d.name = c.name /\ d.form = c.form /\ d.trace = c.trace
      /\ d \in [name : FileNames, form : {"html", "gz", "claimed", "tmp"},
                trace : Int, time : Int]
  BY <1>1, <1>2, <1>3, SourceThere DEF File, TraceInv, TraceTypes
<1>6. /\ IsFiniteSet(files')
      /\ files' \subseteq [name : FileNames, form : {"html", "gz", "claimed", "tmp"},
                            trace : Int, time : Int]
  <2>1. IsFiniteSet(files')
    BY <1>4, FS_RemoveElement, FS_AddElement DEF TraceInv, TraceTypes
  <2>2. QED BY <1>4, <1>5, <2>1 DEF TraceInv, TraceTypes
<1>7. TraceTypes'
  BY <1>1, <1>6, StillTypes DEF TraceInv, TraceTypes
<1>8. OneOfAName' /\ NamesApart'
  BY <1>2, <1>4, <1>5 DEF TraceInv, OneOfAName, NamesApart
<1>9. \A n, form : Exists(n, form)' <=> Exists(n, form)
  BY <1>2, <1>4, <1>5 DEF Exists, Named
<1>10. OwnerRelies' /\ ManagerRelies' /\ ListStands'
  BY <1>1, <1>9 DEF TraceInv, OwnerRelies, ManagerRelies, ListStands
<1>11. Carried
  <2>1. Archives \ {c} \subseteq Archives'
    BY <1>1, <1>4 DEF Archives
  <2>2. d \in Archives' /\ d \notin Archives \ {c}
    BY <1>2, <1>4, <1>5 DEF Archives, TraceInv, OneOfAName
  <2>3. Spared(c) => Spared(d)
    BY <1>5 DEF Spared
  <2>4. QED BY <1>1, <1>5, <2>1, <2>2, <2>3, ArchiveCarried
<1>12. EnoughStays'
  BY <1>1, <1>6, <1>11, CarriedEnough DEF TraceInv
<1>13. QED BY <1>7, <1>8, <1>10, <1>11, <1>12 DEF TraceInv

LEMMA DropKeeps ==
  ASSUME TraceInv, Drop
  PROVE  TraceInv' /\ Carried
<1>1. /\ manager = "drop" /\ manager' = "claim" /\ UNCHANGED ownerVars
      /\ listed' = listed /\ owner' = owner /\ name' = name /\ todo' = todo /\ job' = job
      /\ files' = files \ Named(job.from, "claimed")
  BY DEF Drop, ownerVars
<1>2. TraceTypes'
  <2>1. IsFiniteSet(files')
    BY <1>1, FS_Subset DEF TraceInv, TraceTypes
  <2>2. QED BY <1>1, <2>1, StillTypes DEF TraceInv, TraceTypes
<1>3. OneOfAName' /\ NamesApart'
  BY <1>1 DEF TraceInv, OneOfAName, NamesApart
<1>4. \A n, form : /\ form # "claimed" => Named(n, form)' = Named(n, form)
                   /\ Named(n, form)' \subseteq Named(n, form)
  BY <1>1 DEF Named
<1>5. OwnerRelies' /\ ManagerRelies' /\ ListStands'
  BY <1>1, <1>4 DEF TraceInv, OwnerRelies, ManagerRelies, ListStands, Exists
<1>6. Carried
  <2>1. Archives \subseteq Archives'
    BY <1>1 DEF Archives, Named
  <2>2. QED BY <1>1, <2>1, ArchivesCarried
<1>7. EnoughStays'
  BY <1>1, <1>2, <1>6, CarriedEnough DEF TraceInv, TraceTypes
<1>8. QED BY <1>2, <1>3, <1>5, <1>6, <1>7 DEF TraceInv

-----------------------------------------------------------------------------
LEMMA TraceStep ==
  ASSUME TraceInv, ~givenBack, TraceNext
  PROVE  /\ ~givenBack' => TraceInv'
         /\ \A t \in Kept \ Kept' :
               owner = "unlink" /\ (Cardinality(Kept') >= Backups \/ Doubled)
<1>1. CASE Log \/ Rollover
  <2>1. Kept' = Kept
    BY <1>1 DEF Log, Rollover, managerVars, Kept, Archives
  <2>2. QED BY <1>1, <2>1, LogKeeps
<1>2. CASE \E i \in DOMAIN UsedForms : Look(i)
  <2>1. PICK i \in DOMAIN UsedForms : Look(i)
    BY <1>2
  <2>2. Kept' = Kept
    BY <2>1 DEF Look, managerVars, Kept, Archives
  <2>3. QED BY <2>1, <2>2, LookKeeps
<1>3. CASE MoveAside
  BY <1>3, MoveAsideKeeps
<1>4. CASE ListArchives \/ SortArchives
  <2>1. Kept' = Kept
    BY <1>4 DEF ListArchives, SortArchives, managerVars, Kept, Archives
  <2>2. QED BY <1>4, <2>1, ListKeeps, SortKeeps
<1>5. CASE DeleteArchives
  <2>1. owner = "unlink"
    BY <1>5 DEF DeleteArchives
  <2>2. QED BY <1>5, <2>1, DeleteKeeps
<1>6. CASE Recover \/ Claim \/ Write \/ Publish \/ Stamp \/ Drop
  <2>1. TraceInv' /\ Carried
    BY <1>6, RecoverKeeps, ClaimKeeps, WriteKeeps, PublishKeeps, StampKeeps, DropKeeps
  <2>2. QED BY <2>1, CarriedKept
<1>7. CASE Scan \/ Wait \/ Crash \/ Restart
  <2>1. TraceInv' /\ Carried
    BY <1>7, IdleKeeps
  <2>2. QED BY <2>1, CarriedKept
<1>8. CASE Restore
  BY <1>8, RestoreKeeps, CarriedKept
<1>9. CASE StampFails \/ Fail
  <2>1. /\ GiveBack /\ UNCHANGED ownerVars
        /\ manager \in {"write", "publish", "stamp", "drop"}
    BY <1>9 DEF StampFails, Fail, GiveBack
  <2>2. QED BY <2>1, GiveBackKeeps, CarriedKept
<1>10. QED
  BY <1>1, <1>2, <1>3, <1>4, <1>5, <1>6, <1>7, <1>8, <1>9 DEF TraceNext


\* What each process relies on in the directory holds, until a name is given
\* back while the owner is looking at it.
THEOREM TracesInvariant == TraceInit /\ [][TraceNext]_traceVars => [](givenBack \/ TraceInv)
<1>1. TraceInit => TraceInv
  <2>1. <<>> \in FileNames
    BY DEF FileNames
  <2>2. IsFiniteSet({})
    BY FS_EmptySet
  <2>3. QED
    BY <2>1, <2>2 DEF TraceInit, TraceInv, TraceTypes, OneOfAName, NamesApart, OwnerRelies,
       ManagerRelies, ListStands, EnoughStays
<1>2. (givenBack \/ TraceInv) /\ [TraceNext]_traceVars => (givenBack \/ TraceInv)'
  <2>1. ASSUME givenBack, TraceNext PROVE givenBack'
    BY <2>1 DEF TraceNext, Log, Rollover, Look, MoveAside, ListArchives, SortArchives,
       DeleteArchives, Recover, Restore, Scan, Claim, Write, Publish, Stamp, Drop, GiveBack,
       StampFails, Fail, Wait, Crash, Restart
  <2>2. ASSUME UNCHANGED traceVars, TraceInv PROVE TraceInv'
    <3>1. /\ UNCHANGED <<files, active, owner, name, listed, manager, todo, job>>
          /\ UNCHANGED ownerVars
      BY <2>2 DEF traceVars, ownerVars, managerVars
    <3>2. TraceTypes' /\ OneOfAName' /\ NamesApart'
      BY <2>2, <3>1 DEF TraceInv, TraceTypes, OneOfAName, NamesApart
    <3>3. OwnerRelies' /\ ManagerRelies' /\ ListStands'
      BY <2>2, <3>1 DEF TraceInv, OwnerRelies, ManagerRelies, ListStands, Exists, Named
    <3>4. Carried
      <4>1. Archives \subseteq Archives'
        BY <3>1 DEF Archives
      <4>2. QED BY <3>1, <4>1, ArchivesCarried
    <3>5. EnoughStays'
      BY <2>2, <3>1, <3>2, <3>4, CarriedEnough DEF TraceInv, TraceTypes
    <3>6. QED BY <3>2, <3>3, <3>5 DEF TraceInv
  <2>3. UNCHANGED traceVars => givenBack' = givenBack
    BY DEF traceVars
  <2>4. QED BY <2>1, <2>2, <2>3, TraceStep
<1>3. QED BY <1>1, <1>2, PTL

\* No trace that was moved aside is lost, whatever the two processes do in
\* between, but by the owner's own limit, which leaves as many as it says
\* (html_trace.py: _rollover, _remove_expired_archives, _compress_archive).
THEOREM NoTraceLost == TraceInit /\ [][TraceNext]_traceVars => TracesKept
<1>. DEFINE Lost == \A t \in Kept \ Kept' :
                       \/ owner = "unlink" /\ (Cardinality(Kept') >= Backups \/ Doubled)
                       \/ givenBack
<1>1. (givenBack \/ TraceInv) /\ [TraceNext]_traceVars => [Lost]_traceVars
  BY TraceStep
<1>2. TracesKept <=> [][Lost]_traceVars
  BY DEF TracesKept
<1>. HIDE DEF Lost
<1>3. QED BY <1>1, <1>2, TracesInvariant, PTL

(***************************************************************************)
(* ModelStore: models, stored and read back (models/base.py).  Everything  *)
(* is by the least depth of nesting at which it fails: a value is a single *)
(* one, or its parts are nested less deep, and come back.                  *)
(***************************************************************************)
Kinds == {"list", "tuple", "dict", "model"}

\* Values with parts that are in a set.
Nodes(S) == [kind : Kinds, leaf : Classes \cup {""}, parts : Seq(S)]

\* With more to choose parts from there are more of them.
LEMMA NodesGrow ==
  ASSUME NEW S, NEW U, S \subseteq U
  PROVE  Nodes(S) \subseteq Nodes(U)
<1>1. Seq(S) \subseteq Seq(U)
  OBVIOUS
<1>2. QED BY <1>1 DEF Nodes

\* nested is what its definition says.
LEMMA NestedIs ==
  /\ nested[0] = Atoms
  /\ \A n \in 1..Depth : nested[n] = Atoms \cup Nodes(nested[n - 1])
<1>1. Depth \in Nat
  BY StoreAssumption
<1>2. PICK T : T = {k \in 0..Depth :
          ~\E f : f = [n \in 0..k |-> IF n = 0 THEN Atoms ELSE Atoms \cup Nodes(f[n - 1])]}
  OBVIOUS
<1>3. ASSUME T # {} PROVE FALSE
  <2>1. T \subseteq Nat
    BY <1>1, <1>2
  <2>2. PICK k \in T : \A l \in T : k <= l
    BY <1>3, <2>1, LeastNumber
  <2>3. k \in 0..Depth
        /\ ~\E f : f = [n \in 0..k |-> IF n = 0 THEN Atoms ELSE Atoms \cup Nodes(f[n - 1])]
    BY <1>2
  <2>4. PICK f : k > 0 =>
          f = [n \in 0..(k - 1) |-> IF n = 0 THEN Atoms ELSE Atoms \cup Nodes(f[n - 1])]
    <3>1. CASE k > 0
      <4>1. k - 1 \in 0..Depth /\ k - 1 \notin T
        BY <1>1, <2>2, <2>3, <3>1
      <4>2. QED BY <1>2, <4>1
    <3>2. QED BY <3>1
  <2>5. PICK g : g = [n \in 0..k |-> IF n = 0 THEN Atoms ELSE Atoms \cup Nodes(f[n - 1])]
    OBVIOUS
  <2>6. ASSUME NEW n \in 1..k PROVE g[n - 1] = f[n - 1]
    <3>1. k > 0 /\ n - 1 \in 0..k /\ n - 1 \in 0..(k - 1)
      BY <1>1, <2>3
    <3>2. g[n - 1] = IF n - 1 = 0 THEN Atoms ELSE Atoms \cup Nodes(f[(n - 1) - 1])
      BY <2>5, <3>1
    <3>3. f[n - 1] = IF n - 1 = 0 THEN Atoms ELSE Atoms \cup Nodes(f[(n - 1) - 1])
      BY <2>4, <3>1
    <3>4. QED BY <3>2, <3>3
  <2>7. \A n \in 0..k : (IF n = 0 THEN Atoms ELSE Atoms \cup Nodes(f[n - 1]))
                      = (IF n = 0 THEN Atoms ELSE Atoms \cup Nodes(g[n - 1]))
    <3>1. SUFFICES ASSUME NEW n \in 0..k, n # 0 PROVE f[n - 1] = g[n - 1]
      OBVIOUS
    <3>2. n \in 1..k
      BY <1>1, <2>3, <3>1
    <3>3. QED BY <2>6, <3>2
  <2>8. g = [n \in 0..k |-> IF n = 0 THEN Atoms ELSE Atoms \cup Nodes(g[n - 1])]
    BY <2>5, <2>7
  <2>9. QED BY <2>3, <2>8
<1>4. Depth \notin T
  BY <1>3
<1>5. \E f : f = [n \in 0..Depth |-> IF n = 0 THEN Atoms ELSE Atoms \cup Nodes(f[n - 1])]
  BY <1>1, <1>2, <1>4
<1>6. \E f : f = [n \in 0..Depth |->
          IF n = 0 THEN Atoms
          ELSE Atoms \cup [kind : {"list", "tuple", "dict", "model"}, leaf : Classes \cup {""},
                           parts : Seq(f[n - 1])]]
  BY <1>5 DEF Nodes, Kinds
<1>7. nested = [n \in 0..Depth |->
          IF n = 0 THEN Atoms
          ELSE Atoms \cup [kind : {"list", "tuple", "dict", "model"}, leaf : Classes \cup {""},
                           parts : Seq(nested[n - 1])]]
  BY <1>6 DEF nested
<1>8. \A n \in 0..Depth : nested[n] = IF n = 0 THEN Atoms ELSE Atoms \cup Nodes(nested[n - 1])
  BY <1>7 DEF Nodes, Kinds
<1>9. 0 \in 0..Depth /\ \A n \in 1..Depth : n \in 0..Depth /\ n # 0
  BY <1>1
<1>10. QED BY <1>8, <1>9

\* What is nested less deep is among what is nested deeper.
LEMMA NestedGrows ==
  /\ \A n \in 1..Depth : nested[n - 1] \subseteq nested[n]
  /\ \A n \in 0..Depth : nested[n] \subseteq Trees
<1>1. Depth \in Nat
  BY StoreAssumption
<1>2. \A n \in 1..Depth : nested[n - 1] \subseteq nested[n]
  <2>1. PICK T : T = {n \in 1..Depth : ~(nested[n - 1] \subseteq nested[n])}
    OBVIOUS
  <2>2. ASSUME T # {} PROVE FALSE
    <3>1. T \subseteq Nat
      BY <1>1, <2>1
    <3>2. PICK n \in T : \A m \in T : n <= m
      BY <2>2, <3>1, LeastNumber
    <3>3. n \in 1..Depth /\ ~(nested[n - 1] \subseteq nested[n])
      BY <2>1
    <3>4. nested[n] = Atoms \cup Nodes(nested[n - 1])
      BY <3>3, NestedIs
    <3>5. CASE n = 1
      BY <3>3, <3>4, <3>5, NestedIs
    <3>6. CASE n # 1
      <4>1. n - 1 \in 1..Depth /\ n - 1 < n
        BY <1>1, <3>3, <3>6
      <4>2. n - 1 \notin T
        BY <1>1, <3>2, <3>3, <4>1
      <4>3. nested[(n - 1) - 1] \subseteq nested[n - 1]
        BY <2>1, <4>1, <4>2
      <4>4. nested[n - 1] = Atoms \cup Nodes(nested[(n - 1) - 1])
        BY <4>1, NestedIs
      <4>5. Nodes(nested[(n - 1) - 1]) \subseteq Nodes(nested[n - 1])
        BY <4>3, NodesGrow
      <4>6. QED BY <3>3, <3>4, <4>4, <4>5
    <3>7. QED BY <3>5, <3>6
  <2>3. QED BY <2>1, <2>2
<1>3. \A n \in 0..Depth : nested[n] \subseteq Trees
  <2>1. PICK T : T = {d \in 0..Depth : ~(nested[Depth - d] \subseteq Trees)}
    OBVIOUS
  <2>2. ASSUME T # {} PROVE FALSE
    <3>1. T \subseteq Nat
      BY <1>1, <2>1
    <3>2. PICK d \in T : \A e \in T : d <= e
      BY <2>2, <3>1, LeastNumber
    <3>3. d \in 0..Depth /\ ~(nested[Depth - d] \subseteq Trees)
      BY <2>1
    <3>4. d # 0
      BY <1>1, <3>3 DEF Trees
    <3>5. d - 1 \in 0..Depth /\ d - 1 < d
      BY <1>1, <3>3, <3>4
    <3>6. d - 1 \notin T
      BY <1>1, <3>2, <3>3, <3>5
    <3>7. nested[Depth - (d - 1)] \subseteq Trees
      BY <2>1, <3>5, <3>6
    <3>8. Depth - (d - 1) \in 1..Depth /\ (Depth - (d - 1)) - 1 = Depth - d
      BY <1>1, <3>3, <3>4
    <3>9. QED BY <1>2, <3>3, <3>7, <3>8
  <2>3. \A n \in 0..Depth : Depth - n \in 0..Depth /\ Depth - (Depth - n) = n
    BY <1>1
  <2>4. ASSUME NEW n \in 0..Depth PROVE nested[n] \subseteq Trees
    <3>1. Depth - n \notin T
      BY <2>2
    <3>2. QED BY <2>1, <2>3, <3>1
  <2>5. QED BY <2>4
<1>4. QED BY <1>2, <1>3

\* Atoms are not nested.
LEMMA AtomsAre == Atoms \subseteq Trees
<1>1. Depth \in Nat
  BY StoreAssumption
<1>2. 0 \in 0..Depth
  BY <1>1
<1>3. QED BY <1>2, NestedGrows, NestedIs

\* The parts of something nested are nested less deep.
LEMMA PartsAre ==
  ASSUME NEW n \in 0..Depth, NEW v \in nested[n]
  PROVE  /\ v = Node(v.kind, v.leaf, v.parts)
         /\ v.parts \in Seq(Trees) /\ DOMAIN v.parts = 1..Len(v.parts)
         /\ \/ v \in Atoms /\ v.parts = <<>>
            \/ n # 0 /\ v \in Nodes(nested[n - 1]) /\ v.parts \in Seq(nested[n - 1])
         /\ \A i \in DOMAIN v.parts : n # 0 /\ v.parts[i] \in nested[n - 1]
<1>1. Depth \in Nat /\ n \in Nat
  <2>1. Depth \in Nat
    BY StoreAssumption
  <2>2. QED BY <2>1
<1>2. CASE v \in Atoms
  <2>1. v.parts = <<>> /\ v = Node(v.kind, v.leaf, v.parts)
    BY <1>2 DEF Atoms, Singles, Leaf, Typed, Failed, Node
  <2>2. <<>> \in Seq(Trees) /\ Len(<<>>) = 0 /\ DOMAIN <<>> = {}
    OBVIOUS
  <2>3. QED BY <1>2, <2>1, <2>2
<1>3. CASE v \notin Atoms
  <2>1. n # 0
    BY <1>3, NestedIs
  <2>2. n \in 1..Depth /\ n - 1 \in 0..Depth
    BY <1>1, <2>1
  <2>3. v \in Nodes(nested[n - 1])
    BY <1>3, <2>2, NestedIs
  <2>4. v = Node(v.kind, v.leaf, v.parts) /\ v.parts \in Seq(nested[n - 1])
    BY <2>3 DEF Nodes, Node
  <2>5. nested[n - 1] \subseteq Trees
    BY <2>2, NestedGrows
  <2>6. PICK p \in Seq(nested[n - 1]) : p = v.parts
    BY <2>4
  <2>7. p \in Seq(Trees) /\ DOMAIN p = 1..Len(p) /\ \A i \in DOMAIN p : p[i] \in nested[n - 1]
    BY <2>5
  <2>8. QED BY <2>1, <2>3, <2>4, <2>6, <2>7
<1>4. QED BY <1>2, <1>3

\* A step of each of the recursive functions, with f for the calls.
Surrounding(v, f) == {v} \cup UNION {f[v.parts[i]] : i \in DOMAIN v.parts}
Writing(v, f) == Serialised(v, [i \in DOMAIN v.parts |-> f[v.parts[i]]])
Reading(w, f) == Deserialised(w, [i \in DOMAIN w.parts |-> f[w.parts[i]]])

\* The recursive functions exist, and are what their definitions say.
LEMMA InsideIs == \A v \in Trees : inside[v] = Surrounding(v, inside)
<1>1. Depth \in Nat
  BY StoreAssumption
<1>2. \A v, f, g : (\A i \in DOMAIN v.parts : f[v.parts[i]] = g[v.parts[i]])
                    => Surrounding(v, f) = Surrounding(v, g)
  BY DEF Surrounding
<1>3. PICK T : T = {k \in 0..Depth : ~\E f : f = [v \in nested[k] |-> Surrounding(v, f)]}
  OBVIOUS
<1>4. ASSUME T # {} PROVE FALSE
  <2>1. T \subseteq Nat
    BY <1>1, <1>3
  <2>2. PICK k \in T : \A l \in T : k <= l
    BY <1>4, <2>1, LeastNumber
  <2>3. k \in 0..Depth /\ ~\E f : f = [v \in nested[k] |-> Surrounding(v, f)]
    BY <1>3
  <2>4. PICK f : k > 0 => f = [v \in nested[k - 1] |-> Surrounding(v, f)]
    <3>1. CASE k > 0
      <4>1. k - 1 \in 0..Depth /\ k - 1 \notin T
        BY <1>1, <2>2, <2>3, <3>1
      <4>2. QED BY <1>3, <4>1
    <3>2. QED BY <3>1
  <2>5. PICK g : g = [v \in nested[k] |-> Surrounding(v, f)]
    OBVIOUS
  <2>6. ASSUME NEW v \in nested[k] PROVE Surrounding(v, f) = Surrounding(v, g)
    <3>1. SUFFICES ASSUME NEW i \in DOMAIN v.parts PROVE f[v.parts[i]] = g[v.parts[i]]
      BY <1>2
    <3>2. k # 0 /\ v.parts[i] \in nested[k - 1]
      BY <2>3, PartsAre
    <3>3. k \in 1..Depth /\ k > 0
      BY <1>1, <2>3, <3>2
    <3>4. v.parts[i] \in nested[k]
      BY <3>2, <3>3, NestedGrows
    <3>5. f[v.parts[i]] = Surrounding(v.parts[i], f)
      BY <2>4, <3>2, <3>3
    <3>6. g[v.parts[i]] = Surrounding(v.parts[i], f)
      BY <2>5, <3>4
    <3>7. QED BY <3>5, <3>6
  <2>7. g = [v \in nested[k] |-> Surrounding(v, g)]
    BY <2>5, <2>6
  <2>8. QED BY <2>3, <2>7
<1>5. \E f : f = [v \in Trees |-> Surrounding(v, f)]
  BY <1>1, <1>3, <1>4 DEF Trees
<1>6. inside = [v \in Trees |-> Surrounding(v, inside)]
  BY <1>5 DEF inside, Surrounding
<1>7. QED BY <1>6

\* The same for what is written.
LEMMA WrittenIs == \A v \in Trees : written[v] = Writing(v, written)
<1>1. Depth \in Nat
  BY StoreAssumption
<1>2. \A v, f, g : (\A i \in DOMAIN v.parts : f[v.parts[i]] = g[v.parts[i]])
                    => Writing(v, f) = Writing(v, g)
  BY DEF Writing
<1>3. PICK T : T = {k \in 0..Depth : ~\E f : f = [v \in nested[k] |-> Writing(v, f)]}
  OBVIOUS
<1>4. ASSUME T # {} PROVE FALSE
  <2>1. T \subseteq Nat
    BY <1>1, <1>3
  <2>2. PICK k \in T : \A l \in T : k <= l
    BY <1>4, <2>1, LeastNumber
  <2>3. k \in 0..Depth /\ ~\E f : f = [v \in nested[k] |-> Writing(v, f)]
    BY <1>3
  <2>4. PICK f : k > 0 => f = [v \in nested[k - 1] |-> Writing(v, f)]
    <3>1. CASE k > 0
      <4>1. k - 1 \in 0..Depth /\ k - 1 \notin T
        BY <1>1, <2>2, <2>3, <3>1
      <4>2. QED BY <1>3, <4>1
    <3>2. QED BY <3>1
  <2>5. PICK g : g = [v \in nested[k] |-> Writing(v, f)]
    OBVIOUS
  <2>6. ASSUME NEW v \in nested[k] PROVE Writing(v, f) = Writing(v, g)
    <3>1. SUFFICES ASSUME NEW i \in DOMAIN v.parts PROVE f[v.parts[i]] = g[v.parts[i]]
      BY <1>2
    <3>2. k # 0 /\ v.parts[i] \in nested[k - 1]
      BY <2>3, PartsAre
    <3>3. k \in 1..Depth /\ k > 0
      BY <1>1, <2>3, <3>2
    <3>4. v.parts[i] \in nested[k]
      BY <3>2, <3>3, NestedGrows
    <3>5. f[v.parts[i]] = Writing(v.parts[i], f)
      BY <2>4, <3>2, <3>3
    <3>6. g[v.parts[i]] = Writing(v.parts[i], f)
      BY <2>5, <3>4
    <3>7. QED BY <3>5, <3>6
  <2>7. g = [v \in nested[k] |-> Writing(v, g)]
    BY <2>5, <2>6
  <2>8. QED BY <2>3, <2>7
<1>5. \E f : f = [v \in Trees |-> Writing(v, f)]
  BY <1>1, <1>3, <1>4 DEF Trees
<1>6. written = [v \in Trees |-> Writing(v, written)]
  BY <1>5 DEF written, Writing
<1>7. QED BY <1>6

\* The same for what is read back.
LEMMA ReadBackIs == \A v \in Trees : readBack[v] = Reading(v, readBack)
<1>1. Depth \in Nat
  BY StoreAssumption
<1>2. \A v, f, g : (\A i \in DOMAIN v.parts : f[v.parts[i]] = g[v.parts[i]])
                    => Reading(v, f) = Reading(v, g)
  BY DEF Reading
<1>3. PICK T : T = {k \in 0..Depth : ~\E f : f = [v \in nested[k] |-> Reading(v, f)]}
  OBVIOUS
<1>4. ASSUME T # {} PROVE FALSE
  <2>1. T \subseteq Nat
    BY <1>1, <1>3
  <2>2. PICK k \in T : \A l \in T : k <= l
    BY <1>4, <2>1, LeastNumber
  <2>3. k \in 0..Depth /\ ~\E f : f = [v \in nested[k] |-> Reading(v, f)]
    BY <1>3
  <2>4. PICK f : k > 0 => f = [v \in nested[k - 1] |-> Reading(v, f)]
    <3>1. CASE k > 0
      <4>1. k - 1 \in 0..Depth /\ k - 1 \notin T
        BY <1>1, <2>2, <2>3, <3>1
      <4>2. QED BY <1>3, <4>1
    <3>2. QED BY <3>1
  <2>5. PICK g : g = [v \in nested[k] |-> Reading(v, f)]
    OBVIOUS
  <2>6. ASSUME NEW v \in nested[k] PROVE Reading(v, f) = Reading(v, g)
    <3>1. SUFFICES ASSUME NEW i \in DOMAIN v.parts PROVE f[v.parts[i]] = g[v.parts[i]]
      BY <1>2
    <3>2. k # 0 /\ v.parts[i] \in nested[k - 1]
      BY <2>3, PartsAre
    <3>3. k \in 1..Depth /\ k > 0
      BY <1>1, <2>3, <3>2
    <3>4. v.parts[i] \in nested[k]
      BY <3>2, <3>3, NestedGrows
    <3>5. f[v.parts[i]] = Reading(v.parts[i], f)
      BY <2>4, <3>2, <3>3
    <3>6. g[v.parts[i]] = Reading(v.parts[i], f)
      BY <2>5, <3>4
    <3>7. QED BY <3>5, <3>6
  <2>7. g = [v \in nested[k] |-> Reading(v, g)]
    BY <2>5, <2>6
  <2>8. QED BY <2>3, <2>7
<1>5. \E f : f = [v \in Trees |-> Reading(v, f)]
  BY <1>1, <1>3, <1>4 DEF Trees
<1>6. readBack = [v \in Trees |-> Reading(v, readBack)]
  BY <1>5 DEF readBack, Reading
<1>7. QED BY <1>6

\* A value has its parts in it, and so on.
LEMMA ValueIs ==
  ASSUME NEW v \in Values
  PROVE  /\ v \in Trees /\ Sound(v) /\ v \in inside[v]
         /\ \A i \in DOMAIN v.parts :
              v.parts[i] \in Values /\ inside[v.parts[i]] \subseteq inside[v]
<1>1. v \in Trees /\ \A x \in inside[v] : Sound(x)
  BY DEF Values
<1>2. inside[v] = {v} \cup UNION {inside[v.parts[i]] : i \in DOMAIN v.parts}
  BY <1>1, InsideIs DEF Surrounding
<1>3. ASSUME NEW i \in DOMAIN v.parts
      PROVE  v.parts[i] \in Values /\ inside[v.parts[i]] \subseteq inside[v]
  <2>1. inside[v.parts[i]] \subseteq inside[v]
    BY <1>2
  <2>2. Depth \in 0..Depth /\ v \in nested[Depth]
    <3>1. Depth \in Nat
      BY StoreAssumption
    <3>2. QED BY <1>1, <3>1 DEF Trees
  <2>3. v.parts \in Seq(Trees)
    BY <2>2, PartsAre
  <2>4. v.parts[i] \in Trees
    BY <2>3
  <2>5. QED BY <1>1, <2>1, <2>4 DEF Values
<1>4. QED BY <1>1, <1>2, <1>3

\* What a part has, the whole has.
LEMMA HasParts ==
  ASSUME NEW v \in Values, NEW K
  PROVE  /\ (v.kind \in K \/ v.leaf \in K) => Has(v, K)
         /\ \A i \in DOMAIN v.parts : Has(v.parts[i], K) => Has(v, K)
BY ValueIs DEF Has

\* What has one of some kinds has one of more kinds.
LEMMA HasMore ==
  ASSUME NEW v, NEW K, NEW L, K \subseteq L, Has(v, K)
  PROVE  Has(v, L)
BY DEF Has

\* How a value fares that is written and read: what is lost, it has reasons for.
Comes(v, w, r) ==
    /\ w = Failed => Has(v, Unwritable) /\ r = Failed
    /\ (w # Failed /\ r = Failed) => (Has(v, Unreadable) \/ \E x \in inside[v] : Torn(x))
    /\ w # Failed => written[w] = w
    /\ r # Failed => written[r] = w
    /\ ~Has(v, Lossy \cup Unreadable) => r = v
    /\ v.kind = "model" =>
         \/ w = Leaf("text")
         \/ /\ w.kind = "dict" /\ w.leaf = v.leaf
            /\ (r # Failed /\ v.leaf \notin Unlisted) => r.kind = "model" /\ r.leaf = v.leaf
    /\ v = Leaf("none") => r = v
    /\ v.kind = "list" /\ r # Failed =>
         /\ r.kind = "list" /\ DOMAIN r.parts = DOMAIN v.parts
         /\ \A j \in DOMAIN v.parts :
              v.parts[j].kind = "model" => r.parts[j].kind = "model" \/ Spoilt(v.parts[j])

\* What is written of leaves, and of what has a type.
LEMMA AtomWritten ==
  /\ \A k : Leaf(k) \in Trees => written[Leaf(k)] = WrittenLeaf(k)
  /\ \A t \in Types : written[Typed(t)] = Typed(t)
<1>1. ASSUME NEW k, Leaf(k) \in Trees PROVE written[Leaf(k)] = WrittenLeaf(k)
  <2>1. PICK v \in Trees : v = Leaf(k)
    BY <1>1
  <2>2. v.kind = "leaf" /\ v.leaf = k
    BY <2>1 DEF Leaf
  <2>3. QED BY <2>1, <2>2, WrittenIs DEF Writing, Serialised
<1>2. ASSUME NEW t \in Types PROVE written[Typed(t)] = Typed(t)
  <2>1. PICK v \in Trees : v = Typed(t)
    BY AtomsAre DEF Atoms
  <2>2. v.kind = "dict" /\ v.leaf = t /\ v.parts = <<>>
    BY <2>1 DEF Typed, Node
  <2>3. DOMAIN <<>> = {} /\ [i \in {} |-> written[v.parts[i]]] = <<>>
    OBVIOUS
  <2>4. PICK ps : ps = [i \in DOMAIN v.parts |-> written[v.parts[i]]]
    OBVIOUS
  <2>5. ps = <<>> /\ ~Fails(ps)
    BY <2>2, <2>3, <2>4 DEF Fails
  <2>6. Serialised(v, ps) = Node("dict", t, ps)
    BY <2>2, <2>5 DEF Serialised
  <2>7. written[v] = Serialised(v, ps)
    BY <2>4, WrittenIs DEF Writing
  <2>8. QED BY <2>1, <2>5, <2>6, <2>7 DEF Typed
<1>3. QED BY <1>1, <1>2

\* What is read of a leaf, and of what has a type.
LEMMA AtomRead ==
  /\ \A k : Leaf(k) \in Trees => readBack[Leaf(k)] = Leaf(k)
  /\ \A t \in Types : readBack[Typed(t)] = ReadTyped(t)
  /\ \A t \in Types : Typed(t) \in Trees
  /\ Failed \in Trees /\ readBack[Failed] = Failed
  /\ \A k \in Leaves : Leaf(k) \in Trees
<1>1. Atoms \subseteq Trees
  BY AtomsAre
<1>2. ASSUME NEW k, Leaf(k) \in Trees PROVE readBack[Leaf(k)] = Leaf(k)
  <2>1. PICK w \in Trees : w = Leaf(k)
    BY <1>2
  <2>2. w.kind = "leaf"
    BY <2>1 DEF Leaf
  <2>3. QED BY <2>1, <2>2, ReadBackIs DEF Reading, Deserialised
<1>3. ASSUME NEW t \in Types PROVE readBack[Typed(t)] = ReadTyped(t) /\ Typed(t) \in Trees
  <2>1. PICK w \in Trees : w = Typed(t)
    BY <1>1 DEF Atoms
  <2>2. w.kind = "dict" /\ w.leaf = t
    BY <2>1 DEF Typed, Node
  <2>3. t \notin Classes /\ t \notin Unlisted
    BY StoreAssumption
  <2>4. PICK ps : ps = [i \in DOMAIN w.parts |-> readBack[w.parts[i]]]
    OBVIOUS
  <2>5. readBack[w] = Deserialised(w, ps)
    BY <2>4, ReadBackIs DEF Reading
  <2>6. Deserialised(w, ps) = ReadTyped(t)
    BY <2>2, <2>3 DEF Deserialised
  <2>7. QED BY <2>1, <2>5, <2>6
<1>4. Failed \in Trees /\ \A k \in Leaves : Leaf(k) \in Trees
  BY <1>1 DEF Atoms, Singles
<1>5. readBack[Failed] = Failed
  BY <1>2, <1>4 DEF Failed
<1>6. QED BY <1>2, <1>3, <1>4, <1>5

\* A single value comes back, or has been told to lose something.
LEMMA SingleComes ==
  ASSUME NEW v \in Values, v \in Singles
  PROVE  /\ Comes(v, written[v], readBack[written[v]])
         /\ written[v] \in Atoms /\ readBack[written[v]] \in Atoms
<1>1. PICK k \in Leaves : v = Leaf(k)
  BY DEF Singles
<1>2. /\ v.kind = "leaf" /\ v.leaf = k
      /\ \A K : k \in K => Has(v, K)
  <2>1. v.kind = "leaf" /\ v.leaf = k
    BY <1>1 DEF Leaf
  <2>2. QED BY <2>1, HasParts
<1>3. PICK w : w = written[v]
  OBVIOUS
<1>4. PICK r : r = readBack[w]
  OBVIOUS
<1>5. \A j \in Leaves : /\ Leaf(j) \in Atoms /\ readBack[Leaf(j)] = Leaf(j) /\ Leaf(j) # Failed
                        /\ written[Leaf(j)] = WrittenLeaf(j)
  BY AtomRead, AtomWritten DEF Atoms, Singles, Leaves, Failed, Leaf
<1>6. \A t \in Types : /\ Typed(t) \in Atoms /\ readBack[Typed(t)] = ReadTyped(t)
                       /\ Typed(t) # Failed /\ written[Typed(t)] = Typed(t)
  BY AtomRead, AtomWritten DEF Atoms, Types, Failed, Leaf, Typed, Node
<1>7. Failed \in Atoms /\ readBack[Failed] = Failed
  BY AtomRead DEF Atoms
<1>8. w = WrittenLeaf(k)
  BY <1>1, <1>3, <1>5
<1>9. CASE k \in Unwritable
  <2>1. w = Failed /\ r = Failed
    BY <1>4, <1>7, <1>8, <1>9 DEF WrittenLeaf, Unwritable
  <2>2. Has(v, Unwritable) /\ Has(v, Lossy \cup Unreadable) /\ v # Leaf("none")
    BY <1>1, <1>2, <1>9 DEF Lossy, Unwritable, Leaf
  <2>3. QED BY <1>2, <1>3, <1>4, <1>7, <2>1, <2>2 DEF Comes
<1>10. CASE k \in {"quantity", "numpy", "array", "object"}
  <2>1. PICK j \in {"number", "numbers", "none"} : w = Leaf(j)
    BY <1>8, <1>10 DEF WrittenLeaf, Unwritable
  <2>2. j \in Leaves /\ WrittenLeaf(j) = Leaf(j)
    BY <2>1 DEF Leaves, WrittenLeaf, Unwritable
  <2>3. r = w /\ written[w] = w /\ w # Failed /\ w \in Atoms
    BY <1>4, <1>5, <2>1, <2>2
  <2>4. Has(v, Lossy \cup Unreadable) /\ v # Leaf("none")
    BY <1>1, <1>2, <1>10 DEF Lossy, Leaf
  <2>5. QED BY <1>2, <1>3, <1>4, <2>3, <2>4 DEF Comes
<1>11. CASE k \in {"number", "numbers", "text", "none", "other"}
  <2>1. w = v
    BY <1>1, <1>8, <1>11 DEF WrittenLeaf, Unwritable
  <2>2. r = v /\ v # Failed /\ written[w] = w /\ v \in Atoms
    BY <1>1, <1>3, <1>4, <1>5, <2>1
  <2>3. QED BY <1>1, <1>2, <1>3, <1>4, <1>11, <2>1, <2>2 DEF Comes
<1>12. CASE k \in Unreadable
  <2>1. PICK t \in {"unlisted", "frame"} : w = Typed(t)
    BY <1>8, <1>12 DEF Unreadable, WrittenLeaf, Unwritable
  <2>2. t \in Types /\ ReadTyped(t) = Failed
    BY <2>1 DEF Types, ReadTyped
  <2>3. r = Failed /\ w \in Atoms /\ w # Failed /\ written[w] = w
    BY <1>4, <1>6, <2>1, <2>2
  <2>4. Has(v, Unreadable) /\ Has(v, Lossy \cup Unreadable) /\ v # Leaf("none")
    BY <1>1, <1>2, <1>12 DEF Unreadable, Leaf
  <2>5. QED BY <1>2, <1>3, <1>4, <1>7, <2>3, <2>4 DEF Comes
<1>13. CASE k \in {"date", "time", "state", "sky", "horizon", "instant", "epoch", "timed"}
  <2>1. PICK t \in Types, j \in Leaves :
          /\ w = Typed(t) /\ ReadTyped(t) = Leaf(j) /\ WrittenLeaf(j) = Typed(t)
          /\ k \notin Lossy => j = k
    <3>1. CASE k = "date"
      BY <1>8, <3>1 DEF Types, Leaves, ReadTyped, WrittenLeaf, Unwritable
    <3>2. CASE k \in {"time", "instant"}
      <4>1. w = Typed("Time") /\ ReadTyped("Time") = Leaf("time")
        BY <1>8, <3>2 DEF ReadTyped, WrittenLeaf, Unwritable
      <4>2. WrittenLeaf("time") = Typed("Time") /\ (k \notin Lossy => k = "time")
        BY <3>2 DEF WrittenLeaf, Unwritable, Lossy
      <4>3. QED BY <4>1, <4>2 DEF Types, Leaves
    <3>3. CASE k = "state"
      BY <1>8, <3>3 DEF Types, Leaves, ReadTyped, WrittenLeaf, Unwritable
    <3>4. CASE k \in {"sky", "epoch"}
      <4>1. w = Typed("sky") /\ ReadTyped("sky") = Leaf("sky")
        BY <1>8, <3>4 DEF ReadTyped, WrittenLeaf, Unwritable
      <4>2. WrittenLeaf("sky") = Typed("sky") /\ (k \notin Lossy => k = "sky")
        BY <3>4 DEF WrittenLeaf, Unwritable, Lossy
      <4>3. QED BY <4>1, <4>2 DEF Types, Leaves
    <3>5. CASE k \in {"horizon", "timed"}
      <4>1. w = Typed("horizon") /\ ReadTyped("horizon") = Leaf("horizon")
        BY <1>8, <3>5 DEF ReadTyped, WrittenLeaf, Unwritable
      <4>2. WrittenLeaf("horizon") = Typed("horizon") /\ (k \notin Lossy => k = "horizon")
        BY <3>5 DEF WrittenLeaf, Unwritable, Lossy
      <4>3. QED BY <4>1, <4>2 DEF Types, Leaves
    <3>6. QED BY <1>13, <3>1, <3>2, <3>3, <3>4, <3>5
  <2>2. r = Leaf(j) /\ written[r] = w /\ r \in Atoms /\ r # Failed
    BY <1>4, <1>5, <1>6, <2>1
  <2>3. w \in Atoms /\ w # Failed /\ written[w] = w /\ v # Leaf("none")
    BY <1>1, <1>6, <1>13, <2>1 DEF Leaf
  <2>4. ~Has(v, Lossy \cup Unreadable) => r = v
    BY <1>1, <1>2, <2>1, <2>2
  <2>5. QED BY <1>2, <1>3, <1>4, <2>2, <2>3, <2>4 DEF Comes
<1>14. QED BY <1>9, <1>10, <1>11, <1>12, <1>13 DEF Leaves, Unwritable, Unreadable

\* The parts of a value, written and read back.
WrittenParts(v) == [i \in DOMAIN v.parts |-> written[v.parts[i]]]
ReadParts(v) == [i \in DOMAIN v.parts |-> readBack[written[v.parts[i]]]]

\* A value comes back, and is nested no deeper on the way.
Returned(n, v) ==
    /\ Comes(v, written[v], readBack[written[v]])
    /\ written[v] \in nested[n] /\ readBack[written[v]] \in nested[n]

\* Parts that come back make a whole that does, but for what becomes of its kind.
LEMMA PartsCome ==
  ASSUME NEW n \in 1..Depth, NEW v \in Values, v \in Nodes(nested[n - 1]),
         \A i \in DOMAIN v.parts : Returned(n - 1, v.parts[i])
  PROVE  LET ws == WrittenParts(v)
             rs == ReadParts(v)
         IN
         /\ written[v] = Serialised(v, ws)
         /\ \A k \in Kinds, l \in Classes \cup {""} :
              /\ Node(k, l, ws) \in nested[n] /\ Node(k, l, rs) \in nested[n]
              /\ readBack[Node(k, l, ws)] = Deserialised(Node(k, l, ws), rs)
              /\ ~Fails(rs) => written[Node(k, l, rs)] = Serialised(Node(k, l, rs), ws)
              /\ ~Fails(ws) => written[Node(k, l, ws)] = Serialised(Node(k, l, ws), ws)
         /\ Fails(ws) => Has(v, Unwritable) /\ Fails(rs)
         /\ (Fails(rs) /\ ~Fails(ws)) => (Has(v, Unreadable) \/ \E x \in inside[v] : Torn(x))
         /\ ~Has(v, Lossy \cup Unreadable) => rs = v.parts /\ ~Fails(rs)
<1> DEFINE S == nested[n - 1]
<1>1. Depth \in Nat
  BY StoreAssumption
<1>2. n \in 0..Depth /\ n - 1 \in 0..Depth /\ nested[n] \subseteq Trees
  BY <1>1, NestedGrows
<1>3. v.parts \in Seq(S) /\ v.kind \in Kinds /\ v.leaf \in Classes \cup {""}
  BY DEF Nodes
<1>4. PICK p \in Seq(S) : p = v.parts
  BY <1>3
<1>5. Len(p) \in Nat /\ DOMAIN p = 1..Len(p) /\ \A i \in DOMAIN p : p[i] \in S
  BY <1>4
<1> HIDE DEF S
<1>6. PICK ws, rs : ws = WrittenParts(v) /\ rs = ReadParts(v)
  OBVIOUS
<1>7. \A i \in 1..Len(p) : /\ Comes(p[i], written[p[i]], readBack[written[p[i]]])
                           /\ written[p[i]] \in S /\ readBack[written[p[i]]] \in S
  BY <1>4, <1>5 DEF S, Returned
<1>8. /\ ws = [i \in 1..Len(p) |-> written[p[i]]]
      /\ rs = [i \in 1..Len(p) |-> readBack[written[p[i]]]]
  BY <1>4, <1>5, <1>6 DEF WrittenParts, ReadParts
<1>9. /\ DOMAIN ws = 1..Len(p) /\ DOMAIN rs = 1..Len(p)
      /\ \A i \in 1..Len(p) : ws[i] = written[p[i]] /\ rs[i] = readBack[written[p[i]]]
      /\ ws \in Seq(S) /\ rs \in Seq(S)
  BY <1>5, <1>7, <1>8
<1>10. written[v] = Serialised(v, ws)
  BY <1>6, ValueIs, WrittenIs DEF Writing, WrittenParts
<1>11. ASSUME NEW k \in Kinds, NEW l \in Classes \cup {""}
       PROVE  /\ Node(k, l, ws) \in nested[n] /\ Node(k, l, rs) \in nested[n]
              /\ readBack[Node(k, l, ws)] = Deserialised(Node(k, l, ws), rs)
              /\ ~Fails(rs) => written[Node(k, l, rs)] = Serialised(Node(k, l, rs), ws)
              /\ ~Fails(ws) => written[Node(k, l, ws)] = Serialised(Node(k, l, ws), ws)
  <2>1. Node(k, l, ws) \in Nodes(S) /\ Node(k, l, rs) \in Nodes(S)
    BY <1>9, <1>11 DEF Node, Nodes
  <2>2. Node(k, l, ws) \in nested[n] /\ Node(k, l, rs) \in nested[n]
    BY <2>1, NestedIs DEF S
  <2>3. PICK w \in Trees : w = Node(k, l, ws)
    BY <1>2, <2>2
  <2>4. PICK r \in Trees : r = Node(k, l, rs)
    BY <1>2, <2>2
  <2>5. w.parts = ws /\ r.parts = rs
    BY <2>3, <2>4 DEF Node
  <2>6. [i \in DOMAIN ws |-> readBack[ws[i]]] = rs
    BY <1>8, <1>9
  <2>7. readBack[w] = Deserialised(w, rs)
    BY <2>5, <2>6, ReadBackIs DEF Reading
  <2>8. ASSUME ~Fails(rs) PROVE [i \in DOMAIN rs |-> written[rs[i]]] = ws
    <3>1. \A i \in 1..Len(p) : rs[i] # Failed
      BY <1>9, <2>8 DEF Fails
    <3>2. ASSUME NEW i \in 1..Len(p) PROVE written[rs[i]] = ws[i]
      <4>1. Comes(p[i], ws[i], rs[i]) /\ rs[i] # Failed
        BY <1>7, <1>9, <3>1
      <4>2. QED BY <4>1 DEF Comes
    <3>3. QED BY <1>8, <1>9, <3>2
  <2>9. ~Fails(rs) => written[r] = Serialised(r, ws)
    BY <2>5, <2>8, WrittenIs DEF Writing
  <2>10. ASSUME ~Fails(ws) PROVE [i \in DOMAIN ws |-> written[ws[i]]] = ws
    <3>1. \A i \in 1..Len(p) : ws[i] # Failed
      BY <1>9, <2>10 DEF Fails
    <3>2. ASSUME NEW i \in 1..Len(p) PROVE written[ws[i]] = ws[i]
      <4>1. Comes(p[i], ws[i], rs[i]) /\ ws[i] # Failed
        BY <1>7, <1>9, <3>1
      <4>2. QED BY <4>1 DEF Comes
    <3>3. QED BY <1>8, <1>9, <3>2
  <2>11. ~Fails(ws) => written[w] = Serialised(w, ws)
    BY <2>5, <2>10, WrittenIs DEF Writing
  <2>12. QED BY <2>2, <2>3, <2>4, <2>7, <2>9, <2>11
<1>12. \A K : \A i \in 1..Len(p) : Has(p[i], K) => Has(v, K)
  BY <1>4, <1>5, HasParts
<1>13. ASSUME Fails(ws) PROVE Has(v, Unwritable) /\ Fails(rs)
  <2>1. PICK i \in 1..Len(p) : written[p[i]] = Failed
    BY <1>9, <1>13 DEF Fails
  <2>2. Has(p[i], Unwritable) /\ readBack[written[p[i]]] = Failed
    BY <1>7, <2>1 DEF Comes
  <2>3. QED BY <1>9, <1>12, <2>2 DEF Fails
<1>14. ASSUME Fails(rs), ~Fails(ws)
       PROVE  Has(v, Unreadable) \/ \E x \in inside[v] : Torn(x)
  <2>1. PICK i \in 1..Len(p) : readBack[written[p[i]]] = Failed
    BY <1>9, <1>14 DEF Fails
  <2>2. written[p[i]] # Failed
    BY <1>9, <1>14 DEF Fails
  <2>3. Has(p[i], Unreadable) \/ \E x \in inside[p[i]] : Torn(x)
    BY <1>7, <2>1, <2>2 DEF Comes
  <2>4. inside[p[i]] \subseteq inside[v]
    BY <1>4, <1>5, ValueIs
  <2>5. QED BY <1>12, <2>3, <2>4
<1>15. ASSUME ~Has(v, Lossy \cup Unreadable) PROVE rs = v.parts /\ ~Fails(rs)
  <2>1. ASSUME NEW i \in 1..Len(p) PROVE rs[i] = p[i]
    <3>1. Comes(p[i], ws[i], rs[i]) /\ ~Has(p[i], Lossy \cup Unreadable)
      BY <1>7, <1>9, <1>12, <1>15
    <3>2. QED BY <3>1 DEF Comes
  <2>2. rs = p
    BY <1>5, <1>8, <1>9, <2>1
  <2>3. ASSUME NEW i \in 1..Len(p) PROVE p[i] # Failed
    <3>1. p[i] \in Values
      BY <1>4, <1>5, ValueIs
    <3>2. Sound(p[i])
      BY <3>1, ValueIs
    <3>3. Failed \notin Singles /\ Failed.kind = "leaf"
      BY DEF Singles, Leaves, Failed, Leaf
    <3>4. QED BY <3>2, <3>3 DEF Sound
  <2>4. QED BY <1>4, <1>9, <2>2, <2>3 DEF Fails
<1>16. QED BY <1>2, <1>6, <1>10, <1>11, <1>13, <1>14, <1>15

\* A list, a tuple or a dictionary comes back if its parts do.
LEMMA CollectionComes ==
  ASSUME NEW n \in 1..Depth, NEW v \in Values, v \in Nodes(nested[n - 1]),
         v.kind \in {"list", "tuple", "dict"}, v.leaf = "",
         \A i \in DOMAIN v.parts : Returned(n - 1, v.parts[i])
  PROVE  Returned(n, v)
<1>1. PICK ws, rs : ws = WrittenParts(v) /\ rs = ReadParts(v)
  OBVIOUS
<1>2. /\ written[v] = Serialised(v, ws)
      /\ \A k \in Kinds, l \in Classes \cup {""} :
           /\ Node(k, l, ws) \in nested[n] /\ Node(k, l, rs) \in nested[n]
           /\ readBack[Node(k, l, ws)] = Deserialised(Node(k, l, ws), rs)
           /\ ~Fails(rs) => written[Node(k, l, rs)] = Serialised(Node(k, l, rs), ws)
           /\ ~Fails(ws) => written[Node(k, l, ws)] = Serialised(Node(k, l, ws), ws)
      /\ Fails(ws) => Has(v, Unwritable) /\ Fails(rs)
      /\ (Fails(rs) /\ ~Fails(ws)) => (Has(v, Unreadable) \/ \E x \in inside[v] : Torn(x))
      /\ ~Has(v, Lossy \cup Unreadable) => rs = v.parts /\ ~Fails(rs)
  BY <1>1, PartsCome
<1>3. PICK k \in Kinds : k = IF v.kind = "dict" THEN "dict" ELSE "list"
  BY DEF Kinds
<1>4. "" \notin Types /\ "" \notin Classes /\ "" \notin Unlisted
  <2>1. "" \notin Types
    BY DEF Types
  <2>2. QED BY <2>1, StoreAssumption
<1>5. written[v] = IF Fails(ws) THEN Failed ELSE Node(k, "", ws)
  <2>1. CASE v.kind = "dict"
    BY <1>2, <1>3, <2>1 DEF Serialised
  <2>2. CASE v.kind \in {"list", "tuple"}
    <3>1. k = "list" /\ v.kind \notin {"leaf", "model", "dict"}
      BY <1>3, <2>2
    <3>2. Serialised(v, ws) = IF Fails(ws) THEN Failed ELSE Node("list", "", ws)
      BY <2>2, <3>1 DEF Serialised
    <3>3. QED BY <1>2, <3>1, <3>2
  <2>3. QED BY <2>1, <2>2
<1>6. v.kind # "model" /\ v # Leaf("none")
  <2>1. Leaf("none").kind = "leaf"
    BY DEF Leaf
  <2>2. v.kind # "model" /\ v.kind # "leaf"
    OBVIOUS
  <2>3. QED BY <2>1, <2>2
<1>7. Failed \in nested[n] /\ readBack[Failed] = Failed
  BY AtomRead, NestedIs DEF Atoms
<1>8. Node(k, "", ws).kind = k /\ Node(k, "", ws).leaf = "" /\ Node(k, "", ws) # Failed
  BY <1>3 DEF Node, Failed, Leaf
<1>9. Node(k, "", rs).kind = k /\ Node(k, "", rs).leaf = "" /\ Node(k, "", rs) # Failed
  BY <1>3 DEF Node, Failed, Leaf
<1>10. Has(v, Unwritable) => Has(v, Lossy \cup Unreadable)
  <2>1. Unwritable \subseteq Lossy \cup Unreadable
    BY DEF Lossy
  <2>2. QED BY <2>1, HasMore
<1>11. ASSUME NEW j \in DOMAIN v.parts, v.parts[j].kind = "model", ~Fails(rs)
       PROVE  rs[j].kind = "model" \/ Spoilt(v.parts[j])
  <2>1. rs[j] = readBack[written[v.parts[j]]] /\ DOMAIN rs = DOMAIN v.parts
    BY <1>1 DEF ReadParts
  <2>2. Comes(v.parts[j], written[v.parts[j]], rs[j]) /\ rs[j] # Failed
    BY <1>11, <2>1 DEF Returned, Fails
  <2>3. CASE v.parts[j].leaf \in Unlisted
    BY <1>11, <2>3 DEF Spoilt
  <2>4. CASE v.parts[j].leaf \notin Unlisted
    BY <1>11, <2>2, <2>4 DEF Comes, Spoilt
  <2>5. QED BY <2>3, <2>4
<1>12. CASE Fails(ws)
  <2>1. written[v] = Failed /\ Has(v, Unwritable)
    BY <1>2, <1>5, <1>12
  <2>2. QED BY <1>6, <1>7, <1>10, <2>1 DEF Returned, Comes
<1>13. CASE ~Fails(ws)
  <2>1. /\ written[v] = Node(k, "", ws) /\ written[v] # Failed /\ written[v] \in nested[n]
        /\ written[written[v]] = written[v]
    <3>1. PICK w : w = Node(k, "", ws)
      OBVIOUS
    <3>2. Serialised(w, ws) = w
      BY <1>3, <1>8, <1>13, <3>1 DEF Serialised
    <3>3. QED BY <1>2, <1>5, <1>8, <1>13, <3>1, <3>2
  <2>2. readBack[written[v]] = IF Fails(rs) THEN Failed ELSE Node(k, "", rs)
    <3>1. PICK w : w = Node(k, "", ws)
      OBVIOUS
    <3>2. Deserialised(w, rs) = IF Fails(rs) THEN Failed ELSE Node(w.kind, w.leaf, rs)
      <4>1. w.kind # "leaf" /\ w.leaf \notin Types /\ w.leaf \notin Unlisted
            /\ w.leaf \notin Classes
        BY <1>3, <1>4, <1>8, <3>1
      <4>2. QED BY <4>1 DEF Deserialised
    <3>3. QED BY <1>2, <1>8, <2>1, <3>1, <3>2
  <2>3. CASE Fails(rs)
    BY <1>2, <1>6, <1>7, <1>13, <2>1, <2>2, <2>3 DEF Returned, Comes
  <2>4. CASE ~Fails(rs)
    <3>1. PICK r : r = Node(k, "", rs)
      OBVIOUS
    <3>2. readBack[written[v]] = r /\ r # Failed /\ r \in nested[n]
      BY <1>2, <1>9, <2>2, <2>4, <3>1
    <3>3. written[r] = written[v]
      <4>1. Serialised(r, ws) = Node(k, "", ws)
        BY <1>3, <1>9, <1>13, <3>1 DEF Serialised
      <4>2. QED BY <1>2, <2>1, <2>4, <3>1, <4>1
    <3>4. ~Has(v, Lossy \cup Unreadable) => r = v
      <4>1. SUFFICES ASSUME ~Has(v, Lossy \cup Unreadable) PROVE r = v
        OBVIOUS
      <4>2. v.kind # "tuple"
        <5>1. "tuple" \in Lossy \cup Unreadable
          BY DEF Lossy
        <5>2. QED BY <4>1, <5>1, HasParts
      <4>3. rs = v.parts /\ k = v.kind
        BY <1>2, <1>3, <4>1, <4>2
      <4>4. v = Node(v.kind, v.leaf, v.parts)
        BY DEF Nodes, Node
      <4>5. QED BY <3>1, <4>3, <4>4
    <3>5. v.kind = "list" =>
            /\ r.kind = "list" /\ DOMAIN r.parts = DOMAIN v.parts
            /\ \A j \in DOMAIN v.parts :
                 v.parts[j].kind = "model" => r.parts[j].kind = "model" \/ Spoilt(v.parts[j])
      <4>1. r.kind = k /\ r.parts = rs /\ DOMAIN rs = DOMAIN v.parts
        BY <1>1, <3>1 DEF Node, ReadParts
      <4>2. QED BY <1>3, <1>11, <2>4, <4>1
    <3>6. QED BY <1>6, <2>1, <3>2, <3>3, <3>4, <3>5 DEF Returned, Comes
  <2>5. QED BY <2>3, <2>4
<1>14. QED BY <1>12, <1>13

\* A model comes back if its parts do, but for one in a field that takes no text.
LEMMA ModelComes ==
  ASSUME NEW n \in 1..Depth, NEW v \in Values, v \in Nodes(nested[n - 1]),
         v.kind = "model", v.leaf \in Classes, Fits(v.leaf, v.parts),
         \A i \in DOMAIN v.parts : Returned(n - 1, v.parts[i])
  PROVE  Returned(n, v)
<1>1. PICK ws, rs : ws = WrittenParts(v) /\ rs = ReadParts(v)
  OBVIOUS
<1>2. /\ written[v] = Serialised(v, ws)
      /\ \A k \in Kinds, l \in Classes \cup {""} :
           /\ Node(k, l, ws) \in nested[n] /\ Node(k, l, rs) \in nested[n]
           /\ readBack[Node(k, l, ws)] = Deserialised(Node(k, l, ws), rs)
           /\ ~Fails(rs) => written[Node(k, l, rs)] = Serialised(Node(k, l, rs), ws)
           /\ ~Fails(ws) => written[Node(k, l, ws)] = Serialised(Node(k, l, ws), ws)
      /\ Fails(ws) => Has(v, Unwritable) /\ Fails(rs)
      /\ (Fails(rs) /\ ~Fails(ws)) => (Has(v, Unreadable) \/ \E x \in inside[v] : Torn(x))
      /\ ~Has(v, Lossy \cup Unreadable) => rs = v.parts /\ ~Fails(rs)
  BY <1>1, PartsCome
<1>3. PICK l \in Classes : l = v.leaf
  OBVIOUS
<1>4. l \notin Types /\ Unlisted \subseteq Classes
  BY StoreAssumption
<1>5. written[v] = IF Fails(ws) THEN Leaf("text") ELSE Node("dict", l, ws)
  BY <1>2, <1>3 DEF Serialised
<1>6. v # Leaf("none") /\ "dict" \in Kinds /\ "model" \in Kinds
  BY DEF Leaf, Kinds
<1>7. Failed \in nested[n] /\ Leaf("text") \in nested[n]
  BY NestedIs DEF Atoms, Singles, Leaves
<1>8. /\ Leaf("text") # Failed /\ readBack[Leaf("text")] = Leaf("text")
      /\ written[Leaf("text")] = Leaf("text")
  <2>1. WrittenLeaf("text") = Leaf("text")
    BY DEF WrittenLeaf, Unwritable
  <2>2. QED BY <2>1, AtomRead, AtomWritten DEF Leaves, Failed, Leaf
<1>9. Node("dict", l, ws).kind = "dict" /\ Node("dict", l, ws).leaf = l
      /\ Node("dict", l, ws) # Failed
  BY DEF Node, Failed, Leaf
<1>10. Node("model", l, rs).kind = "model" /\ Node("model", l, rs).leaf = l
       /\ Node("model", l, rs) # Failed
  BY DEF Node, Failed, Leaf
<1>11. Has(v, Unwritable) => Has(v, Lossy \cup Unreadable)
  <2>1. Unwritable \subseteq Lossy \cup Unreadable
    BY DEF Lossy
  <2>2. QED BY <2>1, HasMore
<1>12. CASE Fails(ws)
  <2>1. written[v] = Leaf("text") /\ readBack[written[v]] = Leaf("text")
    BY <1>5, <1>8, <1>12
  <2>2. Has(v, Lossy \cup Unreadable) /\ v.kind # "list"
    BY <1>2, <1>11, <1>12
  <2>3. Comes(v, written[v], readBack[written[v]])
    BY <1>6, <1>8, <2>1, <2>2 DEF Comes
  <2>4. QED BY <1>7, <2>1, <2>3 DEF Returned
<1>13. CASE ~Fails(ws)
  <2>1. /\ written[v] = Node("dict", l, ws) /\ written[v] # Failed /\ written[v] \in nested[n]
        /\ written[written[v]] = written[v]
    <3>1. PICK w : w = Node("dict", l, ws)
      OBVIOUS
    <3>2. Serialised(w, ws) = w
      BY <1>9, <1>13, <3>1 DEF Serialised
    <3>3. QED BY <1>2, <1>5, <1>6, <1>9, <1>13, <3>1, <3>2
  <2>2. readBack[written[v]] =
          IF l \in Unlisted THEN Node("dict", l, ws)
          ELSE IF Fails(rs) \/ ~Fits(l, rs) THEN Failed ELSE Node("model", l, rs)
    <3>1. PICK w : w = Node("dict", l, ws)
      OBVIOUS
    <3>2. w.kind = "dict" /\ w.leaf = l /\ w.leaf \notin Types
      BY <1>4, <1>9, <3>1
    <3>3. Deserialised(w, rs) =
            IF l \in Unlisted THEN w
            ELSE IF Fails(rs) \/ ~Fits(l, rs) THEN Failed ELSE Node("model", l, rs)
      <4>1. CASE l \in Unlisted
        BY <3>2, <4>1 DEF Deserialised
      <4>2. CASE l \notin Unlisted
        BY <3>2, <4>2 DEF Deserialised
      <4>3. QED BY <4>1, <4>2
    <3>4. QED BY <1>2, <1>6, <2>1, <3>1, <3>3
  <2>7. CASE l \in Unlisted
    <3>1. Has(v, Lossy \cup Unreadable)
      <4>1. l \in Lossy \cup Unreadable
        BY <2>7 DEF Lossy
      <4>2. QED BY <1>3, <4>1, HasParts
    <3>2. readBack[written[v]] = written[v] /\ v.kind # "list"
      BY <2>1, <2>2, <2>7
    <3>3. QED BY <1>3, <1>6, <1>9, <2>1, <2>7, <3>1, <3>2 DEF Returned, Comes
  <2>3. CASE l \notin Unlisted /\ Fails(rs)
    BY <1>2, <1>3, <1>6, <1>7, <1>9, <1>13, <2>1, <2>2, <2>3 DEF Returned, Comes
  <2>4. CASE l \notin Unlisted /\ ~Fails(rs) /\ ~Fits(l, rs)
    <3>1. readBack[written[v]] = Failed
      BY <2>2, <2>4
    <3>2. DOMAIN ws = DOMAIN v.parts /\ DOMAIN rs = DOMAIN v.parts
      BY <1>1 DEF WrittenParts, ReadParts
    <3>3. ASSUME NEW i \in DOMAIN v.parts
          PROVE  Comes(v.parts[i], written[v.parts[i]], rs[i]) /\ rs[i] # Failed
      <4>1. rs[i] = readBack[written[v.parts[i]]]
        BY <1>1 DEF ReadParts
      <4>2. QED BY <2>4, <3>2, <4>1 DEF Returned, Fails
    <3>4. v \in inside[v]
      BY ValueIs
    <3>5. ASSUME \E i \in DOMAIN v.parts \cap Schema[l].models : ~ModelOrNone(rs[i])
          PROVE  Torn(v)
      <4>1. PICK i \in DOMAIN v.parts \cap Schema[l].models : ~ModelOrNone(rs[i])
        BY <3>5
      <4>2. ModelOrNone(v.parts[i])
        BY <1>3, <4>1 DEF Fits
      <4>3. Spoilt(v.parts[i])
        BY <3>3, <4>1, <4>2 DEF Comes, ModelOrNone, Spoilt
      <4>4. QED BY <1>3, <4>1, <4>3 DEF Torn
    <3>6. ASSUME \E i \in DOMAIN v.parts \cap Schema[l].lists : ~ModelsOrNone(rs[i])
          PROVE  Torn(v)
      <4>1. PICK i \in DOMAIN v.parts \cap Schema[l].lists : ~ModelsOrNone(rs[i])
        BY <3>6
      <4>2. ModelsOrNone(v.parts[i]) /\ v.parts[i] # Leaf("none")
        BY <1>3, <3>3, <4>1 DEF Fits, Comes, ModelsOrNone
      <4>3. PICK q : q = v.parts[i]
        OBVIOUS
      <4>4. q.kind = "list" /\ \A j \in DOMAIN q.parts : q.parts[j].kind = "model"
        BY <4>2, <4>3 DEF ModelsOrNone
      <4>5. /\ rs[i].kind = "list" /\ DOMAIN rs[i].parts = DOMAIN q.parts
            /\ \A j \in DOMAIN q.parts :
                 q.parts[j].kind = "model" => rs[i].parts[j].kind = "model" \/ Spoilt(q.parts[j])
        BY <3>3, <4>1, <4>3, <4>4 DEF Comes
      <4>6. \E j \in DOMAIN q.parts : rs[i].parts[j].kind # "model"
        BY <4>1, <4>5 DEF ModelsOrNone
      <4>7. \E j \in DOMAIN q.parts : Spoilt(q.parts[j])
        BY <4>4, <4>5, <4>6
      <4>8. QED BY <1>3, <4>1, <4>3, <4>4, <4>7 DEF Torn
    <3>7. ~Fits(l, rs) => \/ \E i \in DOMAIN v.parts \cap Schema[l].models : ~ModelOrNone(rs[i])
                          \/ \E i \in DOMAIN v.parts \cap Schema[l].lists : ~ModelsOrNone(rs[i])
      BY <3>2 DEF Fits
    <3>8. Torn(v) /\ v \in inside[v]
      BY <2>4, <3>4, <3>5, <3>6, <3>7
    <3>9. Has(v, Lossy \cup Unreadable)
      BY <1>2, <1>3, <2>4
    <3>10. QED BY <1>3, <1>6, <1>7, <1>9, <2>1, <3>1, <3>8, <3>9 DEF Returned, Comes
  <2>5. CASE l \notin Unlisted /\ ~Fails(rs) /\ Fits(l, rs)
    <3>1. PICK r : r = Node("model", l, rs)
      OBVIOUS
    <3>2. /\ readBack[written[v]] = r /\ r # Failed /\ r \in nested[n]
          /\ r.kind = "model" /\ r.leaf = l
      BY <1>2, <1>6, <1>10, <2>2, <2>5, <3>1
    <3>3. written[r] = written[v]
      <4>1. Serialised(r, ws) = Node("dict", l, ws)
        BY <1>13, <3>2 DEF Serialised
      <4>2. QED BY <1>2, <1>6, <2>1, <2>5, <3>1, <4>1
    <3>4. ~Has(v, Lossy \cup Unreadable) => r = v
      <4>1. v = Node(v.kind, v.leaf, v.parts)
        BY DEF Nodes, Node
      <4>2. QED BY <1>2, <1>3, <3>1, <4>1
    <3>5. QED BY <1>3, <1>6, <1>9, <2>1, <3>2, <3>3, <3>4 DEF Returned, Comes
  <2>6. QED BY <2>3, <2>4, <2>5, <2>7
<1>14. QED BY <1>12, <1>13

\* Every value comes back, however deep it is nested.
LEMMA ValuesCome ==
  \A n \in 0..Depth : \A v \in nested[n] : v \in Values => Returned(n, v)
<1>1. Depth \in Nat
  BY StoreAssumption
<1>2. PICK T : T = {n \in 0..Depth : ~\A v \in nested[n] : v \in Values => Returned(n, v)}
  OBVIOUS
<1>3. ASSUME T # {} PROVE FALSE
  <2>1. T \subseteq Nat
    BY <1>1, <1>2
  <2>2. PICK n \in T : \A m \in T : n <= m
    BY <1>3, <2>1, LeastNumber
  <2>3. n \in 0..Depth
    BY <1>2
  <2>4. PICK v \in nested[n] : v \in Values /\ ~Returned(n, v)
    BY <1>2, <2>2
  <2>5. Atoms \subseteq nested[n]
    <3>1. n = 0 \/ n \in 1..Depth
      BY <1>1, <2>3
    <3>2. QED BY <3>1, NestedIs
  <2>6. v \notin Singles
    BY <2>4, <2>5, SingleComes DEF Returned
  <2>7. \/ v.kind \in {"list", "tuple", "dict"} /\ v.leaf = ""
        \/ v.kind = "model" /\ v.leaf \in Classes /\ Fits(v.leaf, v.parts)
    <3>1. Sound(v)
      BY <2>4, ValueIs
    <3>2. QED BY <2>6, <3>1 DEF Sound
  <2>8. v \notin Atoms
    <3>1. v # Failed
      <4>1. Failed.kind = "leaf"
        BY DEF Failed, Leaf
      <4>2. v.kind # "leaf"
        BY <2>7
      <4>3. QED BY <4>1, <4>2
    <3>2. ASSUME NEW t \in Types PROVE v # Typed(t)
      <4>1. Typed(t).kind = "dict" /\ Typed(t).leaf = t
        BY DEF Typed, Node
      <4>2. t # ""
        BY <3>2 DEF Types
      <4>3. v.kind = "dict" => v.leaf = ""
        BY <2>7
      <4>4. QED BY <4>1, <4>2, <4>3
    <3>3. QED BY <2>6, <3>1, <3>2 DEF Atoms
  <2>9. n # 0 /\ v \in Nodes(nested[n - 1])
        /\ \A i \in DOMAIN v.parts : v.parts[i] \in nested[n - 1]
    BY <2>3, <2>4, <2>8, PartsAre
  <2>10. n \in 1..Depth /\ n - 1 \in 0..Depth /\ n - 1 < n
    BY <1>1, <2>3, <2>9
  <2>11. n - 1 \notin T
    BY <1>1, <2>2, <2>3, <2>10
  <2>12. \A i \in DOMAIN v.parts : Returned(n - 1, v.parts[i])
    <3>1. \A i \in DOMAIN v.parts : v.parts[i] \in Values
      BY <2>4, ValueIs
    <3>2. QED BY <1>2, <2>9, <2>10, <2>11, <3>1
  <2>13. QED BY <2>4, <2>7, <2>9, <2>10, <2>12, CollectionComes, ModelComes
<1>4. QED BY <1>2, <1>3

\* What the first model is written as, and what is read of that.
FirstWritten == written[first]
FirstRead == readBack[FirstWritten]

\* There is nothing else to be had than the first model, what is read of it, and a
\* failure, of which there is a cause; and nothing but the first model in the file.
StoreInv ==
    /\ first \in Models
    /\ model \in {first, FirstRead, Failed}
    /\ file \in {Nothing, FirstWritten}
    /\ file # Nothing => FirstWritten.kind = "dict"
    /\ model = Failed =>
         ~saving /\ (file = Nothing \/ FirstRead = Failed \/ first.leaf \in Refused)

\* The models that are saved come back as other values do.
LEMMA FirstComes ==
  ASSUME first \in Models
  PROVE  /\ Comes(first, FirstWritten, FirstRead)
         /\ first.kind = "model" /\ first # Failed /\ first # Nothing
         /\ FirstRead # Failed => written[FirstRead] = FirstWritten
         /\ FirstWritten.kind # "leaf" =>
              /\ FirstWritten.kind = "dict"
              /\ (FirstRead # Failed /\ first.leaf \notin Unlisted) =>
                   FirstRead.kind = "model" /\ FirstRead.leaf = first.leaf
<1>1. Depth \in Nat /\ first \in Values /\ first.kind = "model"
  <2>1. Depth \in Nat
    BY StoreAssumption
  <2>2. \A m \in Models : m \in Values /\ m.kind = "model"
    BY StoreAssumption
  <2>3. QED BY <2>1, <2>2
<1>2. Depth \in 0..Depth
  BY <1>1
<1>3. first \in nested[Depth]
  BY <1>1, ValueIs DEF Trees
<1>4. Comes(first, FirstWritten, FirstRead)
  BY <1>1, <1>2, <1>3, ValuesCome DEF Returned, FirstWritten, FirstRead
<1>5. Failed.kind = "leaf" /\ Nothing.kind = "leaf" /\ Leaf("text").kind = "leaf"
  BY DEF Failed, Nothing, Leaf
<1>6. first # Failed /\ first # Nothing
  <2>1. first.kind # "leaf"
    BY <1>1
  <2>2. QED BY <1>5, <2>1
<1>7. FirstRead # Failed => written[FirstRead] = FirstWritten
  BY <1>4 DEF Comes
<1>8. ASSUME FirstWritten.kind # "leaf"
      PROVE  /\ FirstWritten.kind = "dict"
             /\ (FirstRead # Failed /\ first.leaf \notin Unlisted) =>
                  FirstRead.kind = "model" /\ FirstRead.leaf = first.leaf
  <2>1. FirstWritten # Leaf("text")
    BY <1>5, <1>8
  <2>2. QED BY <1>1, <1>4, <2>1 DEF Comes
<1>9. QED BY <1>1, <1>4, <1>6, <1>7, <1>8

\* A program starts with a model and no file.
LEMMA StoreStarts == StoreInit => StoreInv
<1>1. SUFFICES ASSUME StoreInit PROVE StoreInv
  OBVIOUS
<1>2. first \in Models /\ model = first /\ file = Nothing
  BY <1>1 DEF StoreInit
<1>3. first # Failed
  BY <1>2, FirstComes
<1>4. QED BY <1>2, <1>3 DEF StoreInv

\* Each step keeps it: a model that was read is written as the first one was.
LEMMA StoreSteps == StoreInv /\ [StoreNext]_storeVars => StoreInv'
<1>1. SUFFICES ASSUME StoreInv, [StoreNext]_storeVars PROVE StoreInv'
  OBVIOUS
<1>2. /\ first \in Models
      /\ model \in {first, FirstRead, Failed}
      /\ file \in {Nothing, FirstWritten}
      /\ file # Nothing => FirstWritten.kind = "dict"
      /\ model = Failed =>
           ~saving /\ (file = Nothing \/ FirstRead = Failed \/ first.leaf \in Refused)
  BY <1>1 DEF StoreInv
<1>3. /\ first # Failed
      /\ FirstRead # Failed => written[FirstRead] = FirstWritten
      /\ FirstWritten.kind # "leaf" =>
           /\ FirstWritten.kind = "dict"
           /\ (FirstRead # Failed /\ first.leaf \notin Unlisted) =>
                FirstRead.kind = "model" /\ FirstRead.leaf = first.leaf
  BY <1>2, FirstComes
<1>4. ASSUME first' = first PROVE FirstWritten' = FirstWritten /\ FirstRead' = FirstRead
  BY <1>4 DEF FirstWritten, FirstRead
<1>5. Failed.kind = "leaf"
  BY DEF Failed, Leaf
<1>6. CASE Open
  <2>1. file' = Nothing /\ model' = model /\ first' = first /\ model # Failed
    BY <1>6 DEF Open
  <2>2. QED BY <1>2, <1>4, <2>1 DEF StoreInv
<1>7. CASE Dump
  <2>1. /\ saving /\ model' = model /\ first' = first
        /\ file' \in {Nothing, written[model]}
        /\ written[model].kind = "leaf" => file' = Nothing
    BY <1>7 DEF Dump
  <2>2. model # Failed
    BY <1>2, <2>1
  <2>3. written[model] = FirstWritten
    BY <1>2, <1>3, <2>2 DEF FirstWritten
  <2>4. file' \in {Nothing, FirstWritten} /\ (file' # Nothing => FirstWritten.kind = "dict")
    BY <1>3, <2>1, <2>3
  <2>5. QED BY <1>2, <1>4, <2>1, <2>2, <2>4 DEF StoreInv
<1>8. CASE Cut
  <2>1. saving /\ model' = model /\ first' = first /\ file' = file
    BY <1>8 DEF Cut
  <2>2. model # Failed
    BY <1>2, <2>1
  <2>3. QED BY <1>2, <1>4, <2>1, <2>2 DEF StoreInv
<1>9. CASE Load
  <2>1. PICK read : read = IF file = Nothing \/ first.leaf \in Verbatim THEN Failed
                           ELSE readBack[file]
    OBVIOUS
  <2>2. /\ ~saving /\ saving' = saving /\ first' = first /\ file' = file
        /\ model' = IF read.kind = "model" /\ read.leaf = first.leaf THEN read ELSE Failed
    BY <1>9, <2>1 DEF Load
  <2>3. CASE file = Nothing
    <3>1. model' = Failed
      BY <1>5, <2>1, <2>2, <2>3
    <3>2. QED BY <1>2, <1>4, <2>2, <2>3, <3>1 DEF StoreInv
  <2>6. CASE first.leaf \in Refused
    <3>1. model' \in {FirstRead, Failed} /\ first'.leaf \in Refused'
      <4>1. read \in {FirstRead, Failed} \/ file = Nothing
        BY <1>2, <2>1 DEF FirstRead
      <4>2. Refused' = Refused
        BY DEF Refused
      <4>3. QED BY <1>5, <2>1, <2>2, <2>6, <4>1, <4>2
    <3>2. QED BY <1>2, <1>4, <2>2, <3>1 DEF StoreInv
  <2>4. CASE file # Nothing /\ first.leaf \notin Refused
    <3>1. /\ read = FirstRead /\ FirstWritten.kind = "dict"
          /\ first.leaf \notin Verbatim /\ first.leaf \notin Unlisted
      BY <1>2, <2>1, <2>4 DEF FirstRead, Refused
    <3>2. model' = FirstRead
      BY <1>3, <1>5, <2>2, <3>1
    <3>3. QED BY <1>2, <1>4, <2>2, <3>2 DEF StoreInv
  <2>5. QED BY <2>3, <2>4, <2>6
<1>10. CASE UNCHANGED storeVars
  <2>1. model' = model /\ first' = first /\ file' = file /\ saving' = saving
    BY <1>10 DEF storeVars
  <2>2. QED BY <1>2, <1>4, <2>1 DEF StoreInv
<1>11. QED BY <1>1, <1>6, <1>7, <1>8, <1>9, <1>10 DEF StoreNext

\* What is read is what was written, however often a model is saved and read (ModelStore):
\* every type comes back as itself, at any depth, but for the losses that are known, and a
\* model that cannot be read has one of the causes that the property names.
LEMMA StoreSurvives == StoreInv => ModelSurvives
<1>1. SUFFICES ASSUME StoreInv PROVE ModelSurvives
  OBVIOUS
<1>2. /\ first \in Models
      /\ model \in {first, FirstRead, Failed}
      /\ file \in {Nothing, FirstWritten}
      /\ file # Nothing => FirstWritten.kind = "dict"
      /\ model = Failed =>
           ~saving /\ (file = Nothing \/ FirstRead = Failed \/ first.leaf \in Refused)
  BY <1>1 DEF StoreInv
<1>3. /\ Comes(first, FirstWritten, FirstRead)
      /\ FirstRead # Failed => written[FirstRead] = FirstWritten
  BY <1>2, FirstComes
<1>4. ~Has(first, Lossy \cup Unreadable) => model \in {first, Failed}
  <2>1. ~Has(first, Lossy \cup Unreadable) => FirstRead = first
    BY <1>3 DEF Comes
  <2>2. QED BY <1>2, <2>1
<1>5. ASSUME model = Failed, file # Nothing, first.leaf \notin Refused
      PROVE  Has(first, Unreadable) \/ \E x \in inside[first] : Torn(x)
  <2>1. FirstRead = Failed /\ FirstWritten.kind = "dict"
    BY <1>2, <1>5
  <2>2. FirstWritten # Failed
    BY <2>1 DEF Failed, Leaf
  <2>3. QED BY <1>3, <2>1, <2>2 DEF Comes
<1>6. ASSUME model # Failed, model # first PROVE readBack[written[model]] = model
  <2>1. model = FirstRead
    BY <1>2, <1>6
  <2>2. written[model] = FirstWritten
    BY <1>3, <1>6, <2>1
  <2>3. QED BY <2>1, <2>2 DEF FirstRead
<1>7. QED BY <1>4, <1>5, <1>6 DEF ModelSurvives, Refused

\* The inductive invariant of the store.
THEOREM StoreInvariant == StoreSpec => []StoreInv
<1>1. QED BY StoreStarts, StoreSteps, PTL DEF StoreSpec

\* ModelSurvives, for every set of classes, every schema and every depth of nesting.
THEOREM ModelsSurvive == StoreSpec => []ModelSurvives
<1>1. QED BY StoreInvariant, StoreSurvives, PTL
=============================================================================
