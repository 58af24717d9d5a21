--------------------------- MODULE DigitiserProofs ---------------------------
(***************************************************************************)
(* As long as no control event is handled beside another event, a Digitiser *)
(* that scans reads each stream once: proved for any number of processors,  *)
(* observations and acquisitions, and any bounds.                           *)
(*                                                                         *)
(* The invariant follows the tokens [stream, generation].  No token is of a *)
(* generation to come.  A processor has in hand a sample event of the       *)
(* present generation, or alone among the processors a request or a lost    *)
(* connection, whose progress is told by its pc: when "decide" comes, the   *)
(* generation is new and no token of it exists anywhere; so the two the     *)
(* decision makes are the only ones, and from then on each is in one place, *)
(* the heap of the timers, the queue or a hand, until the next control      *)
(* event.  A timer is cancelled by name, whatever its generation: that this *)
(* never cancels the other token of the present generation is where the     *)
(* token being in the hand that cancels is needed.                          *)
(***************************************************************************)
EXTENDS DigitiserStreams, FiniteSetTheorems, TLAPS

AnyToken == [stream : Streams, gen : Nat]
StopToken == [stream : Streams, gen : {Stop}]

\* The token the streams run with now.
Now(s) == [stream |-> s, gen |-> generation]

AnyEvent == {Sample(t) : t \in AnyToken} \cup {Set(o, v) : o \in Obs, v \in Acquisitions \cup {0}}
            \cup {Link(k, l) : k \in {"connected", "disconnected"}, l \in Links} \cup {Retry}

\* No token is of a generation to come.
TokensAreOld ==
    /\ timers \subseteq AnyToken /\ IsFiniteSet(timers)
    /\ queue \in Seq(AnyEvent)
    /\ \A t \in timers : t.gen <= generation
    /\ \A i \in 1..Len(queue) : queue[i].kind = "sample" => queue[i].token.gen <= generation

\* None is of the present generation.
Fresh ==
    /\ \A t \in timers : t.gen # generation
    /\ \A i \in 1..Len(queue) : queue[i].kind = "sample" => queue[i].token.gen # generation

\* What a processor may have in hand while no control event overlaps another event.
SampleHand(w) ==
    /\ \E t \in AnyToken : w.ev = Sample(t) /\ t.gen = generation
    /\ \/ w.pc \in {"read", "refused", "check", "advise", "restart"} /\ w.todo = <<>>
       \/ w.pc \in {"perform", "start"} /\ w.todo = <<w.ev.token>>

SetHand(w) ==
    /\ \E o \in Obs, v \in Acquisitions \cup {0} : w.ev = Set(o, v)
    /\ power
    /\ \/ w.pc \in {"set", "advance"} /\ w.todo = <<>>
       \/ w.pc = "decide" /\ w.todo = <<>> /\ w.gen = generation /\ Fresh
       \/ w.pc \in {"perform", "start"} /\ scanning # 0 /\ w.todo \in {<<Now(1), Now(2)>>, <<Now(2)>>}
       \/ w.pc = "perform" /\ scanning = 0 /\ w.todo \in Seq(StopToken) /\ w.todo # <<>>

LinkHand(w) ==
    /\ w.ev \in {Link("disconnected", l) : l \in Links} \cup {Retry}
    /\ w.todo = <<>>
    /\ w.pc \in {"stop", "idling", "advance", "off"}
    /\ w.pc \in {"advance", "off"} => scanning = 0

\* A processor's record has its fields and no others.
Whole(w) == w = [pc |-> w.pc, ev |-> w.ev, failed |-> w.failed, gen |-> w.gen, todo |-> w.todo]

Hands == /\ \A p \in Procs : Whole(work[p])
         /\ \A p \in Procs : work[p] = Idle \/ SampleHand(work[p]) \/ SetHand(work[p]) \/ LinkHand(work[p])
         /\ \A p, q \in Procs : p # q /\ Control(p) => work[q] = Idle

InTimers(t) == t \in timers
InQueue(t) == \E i \in 1..Len(queue) : queue[i] = Sample(t)
InHand(t) == \E p \in Procs : Reading(p, t)

\* A token is in one place, and there once.
OnlyOne(t) ==
    /\ InTimers(t) \/ InQueue(t) \/ InHand(t)
    /\ InTimers(t) => ~InQueue(t) /\ ~InHand(t)
    /\ InQueue(t) => ~InHand(t)
    /\ \A i, j \in 1..Len(queue) : queue[i] = Sample(t) /\ queue[j] = Sample(t) => i = j
    /\ \A p, q \in Procs : Reading(p, t) /\ Reading(q, t) => p = q

\* Nobody is about to change what is scanned or its generation.
Undisturbed == \A p \in Procs : Control(p) => work[p].pc \in {"idling", "perform", "start"}

Orderly ==
    /\ scanning \in Acquisitions \cup {0} /\ generation \in Nat /\ power \in BOOLEAN
    /\ DOMAIN work = Procs /\ work = [p \in Procs |-> work[p]]
    /\ TokensAreOld /\ Hands
    /\ scanning # 0 => power
    /\ scanning # 0 /\ Undisturbed => \A s \in Streams : OnlyOne(Now(s))

AcquisitionInv == mixed \in BOOLEAN /\ (~mixed => Orderly)

-----------------------------------------------------------------------------
(* Events and the queue *)

LEMMA Samples ==
  ASSUME NEW t, NEW u
  PROVE  /\ Sample(t).kind = "sample" /\ Sample(t).token = t
         /\ Sample(t) = Sample(u) => t = u
BY DEF Sample

LEMMA EventParts ==
  ASSUME NEW e \in AnyEvent
  PROVE  /\ e.kind \in {"sample", "set", "connected", "disconnected", "retry"}
         /\ e.kind = "sample" => e.token \in AnyToken /\ e = Sample(e.token)
         /\ e.kind = "set" => \E o \in Obs, v \in Acquisitions \cup {0} : e = Set(o, v)
         /\ e.kind = "disconnected" => \E l \in Links : e = Link("disconnected", l)
         /\ e.kind = "retry" => e = Retry
BY DEF AnyEvent, Sample, Set, Link, Retry

LEMMA QueueParts ==
  ASSUME TokensAreOld, NEW i \in 1..Len(queue)
  PROVE  queue[i] \in AnyEvent
BY DEF TokensAreOld

LEMMA Appended ==
  ASSUME NEW S, NEW q \in Seq(S), NEW e \in S
  PROVE  /\ Append(q, e) \in Seq(S) /\ Len(q) \in Nat
         /\ Len(Append(q, e)) = Len(q) + 1
         /\ \A i \in 1..Len(q) : Append(q, e)[i] = q[i]
         /\ Append(q, e)[Len(q) + 1] = e
         /\ \A i \in 1..Len(Append(q, e)) : i \in 1..Len(q) \/ i = Len(q) + 1
OBVIOUS

LEMMA Shortened ==
  ASSUME NEW S, NEW q \in Seq(S), q # <<>>
  PROVE  /\ Tail(q) \in Seq(S) /\ Len(q) \in Nat /\ 1 \in 1..Len(q)
         /\ Head(q) = q[1] /\ q[1] \in S
         /\ Len(Tail(q)) = Len(q) - 1
         /\ \A i \in 1..Len(Tail(q)) : Tail(q)[i] = q[i + 1] /\ i + 1 \in 1..Len(q)
         /\ \A i \in 1..Len(q) : i = 1 \/ (i - 1 \in 1..Len(Tail(q)) /\ q[i] = Tail(q)[i - 1])
OBVIOUS

LEMMA HandParts ==
  ASSUME NEW w
  PROVE  /\ SampleHand(w) => w.ev.kind = "sample" /\ w.pc # "idle" /\ w # Idle
         /\ SetHand(w) => w.ev.kind = "set" /\ w.pc # "idle" /\ w # Idle
         /\ LinkHand(w) => w.ev.kind \in {"disconnected", "retry"} /\ w.pc # "idle" /\ w # Idle
         /\ w = Idle => w.ev.kind = "none" /\ w.pc = "idle"
<1>1. Idle.pc = "idle" /\ Idle.ev.kind = "none"
  BY DEF Idle, None
<1>2. ASSUME SampleHand(w)
      PROVE  w.ev.kind = "sample" /\ w.pc # "idle"
  BY <1>2, Samples DEF SampleHand
<1>3. ASSUME SetHand(w)
      PROVE  w.ev.kind = "set" /\ w.pc # "idle"
  <2>1. w.pc # "idle"
    BY <1>3 DEF SetHand
  <2>2. PICK o \in Obs, v \in Acquisitions \cup {0} : w.ev = Set(o, v)
    BY <1>3 DEF SetHand
  <2>3. Set(o, v).kind = "set"
    BY DEF Set
  <2>4. QED BY <2>1, <2>2, <2>3
<1>4. ASSUME LinkHand(w)
      PROVE  w.ev.kind \in {"disconnected", "retry"} /\ w.pc # "idle"
  BY <1>4 DEF LinkHand, Link, Retry
<1>5. QED BY <1>1, <1>2, <1>3, <1>4

LEMMA Free ==
  ASSUME Hands, NEW p \in Procs
  PROVE  /\ work[p].pc = "idle" => work[p] = Idle
         /\ work[p] # Idle => work[p].pc # "idle"
         /\ ~Control(p) => work[p] = Idle \/ SampleHand(work[p])
         /\ SampleHand(work[p]) => ~Control(p) /\ work[p] # Idle
         /\ SetHand(work[p]) \/ LinkHand(work[p]) => Control(p) /\ work[p] # Idle
<1>1. work[p] = Idle \/ SampleHand(work[p]) \/ SetHand(work[p]) \/ LinkHand(work[p])
  BY DEF Hands
<1>2. QED BY <1>1, HandParts DEF Control

LEMMA TakeParts ==
  ASSUME Orderly, ~mixed', NEW p \in Procs, NEW kind, NEW pc, Take(p, kind, pc)
  PROVE  /\ work[p] = Idle /\ queue # <<>> /\ Head(queue) = queue[1] /\ Head(queue) \in AnyEvent
         /\ Head(queue).kind = kind
         /\ queue' = Tail(queue) /\ ~mixed
         /\ work' = [work EXCEPT ![p] = IF pc = "idle" THEN Idle
                                   ELSE [Idle EXCEPT !.pc = pc, !.ev = Head(queue)]]
         /\ \A q \in Procs : kind # "sample" => work[q] = Idle
         /\ \A q \in Procs : ~Control(q)
<1>1. work[p] = Idle
  BY Free DEF Take, Orderly
<1>2. \A q \in Procs : q \in Busy => kind = "sample" /\ ~Control(q)
  BY DEF Take
<1>3. \A q \in Procs : q \notin Busy => work[q] = Idle
  BY Free DEF Orderly, Busy
<1>4. \A q \in Procs : work[q] = Idle => ~Control(q)
  BY DEF Idle, Control, None
<1>5. Head(queue) = queue[1] /\ Head(queue) \in AnyEvent
  BY Shortened DEF Take, Orderly, TokensAreOld
<1>6. QED BY <1>1, <1>2, <1>3, <1>4, <1>5 DEF Take

\* What the rest of the proof needs of the event that is taken off the queue.
LEMMA ShorterQueue ==
  ASSUME Orderly, queue # <<>>, queue' = Tail(queue), UNCHANGED <<timers, generation>>
  PROVE  TokensAreOld' /\ (Fresh => Fresh')
<1>1. queue \in Seq(AnyEvent)
  BY DEF Orderly, TokensAreOld
<1>2. QED BY <1>1, Shortened DEF Orderly, TokensAreOld, Fresh

LEMMA LongerQueue ==
  ASSUME Orderly, NEW e \in AnyEvent, queue' = Append(queue, e), UNCHANGED <<timers, generation>>,
         e.kind = "sample" => e.token.gen <= generation
  PROVE  /\ TokensAreOld'
         /\ Fresh /\ (e.kind = "sample" => e.token.gen # generation) => Fresh'
<1>1. queue \in Seq(AnyEvent)
  BY DEF Orderly, TokensAreOld
<1>2. QED BY <1>1, Appended DEF Orderly, TokensAreOld, Fresh

-----------------------------------------------------------------------------
(* Tokens *)

\* Their places, seen from before and after a step.
LEMMA SamePlaces ==
  ASSUME NEW t, OnlyOne(t),
         InTimers(t)' <=> InTimers(t),
         InQueue(t)' <=> InQueue(t),
         \A i, j \in 1..Len(queue') : queue'[i] = Sample(t) /\ queue'[j] = Sample(t) => i = j,
         \A p \in Procs : Reading(p, t)' <=> Reading(p, t)
  PROVE  OnlyOne(t)'
BY DEF OnlyOne, InHand

\* The queue loses its head, which is not this token's event.
LEMMA HeadIsOther ==
  ASSUME Orderly, NEW t, OnlyOne(t), queue # <<>>, queue' = Tail(queue), queue[1] # Sample(t)
  PROVE  /\ InQueue(t)' <=> InQueue(t)
         /\ \A i, j \in 1..Len(queue') : queue'[i] = Sample(t) /\ queue'[j] = Sample(t) => i = j
<1>1. queue \in Seq(AnyEvent)
  BY DEF Orderly, TokensAreOld
<1>2. /\ \A i \in 1..Len(queue') : queue'[i] = queue[i + 1] /\ i + 1 \in 1..Len(queue)
      /\ \A i \in 1..Len(queue) : i = 1 \/ (i - 1 \in 1..Len(queue') /\ queue[i] = queue'[i - 1])
  BY <1>1, Shortened
<1>3. InQueue(t)' <=> InQueue(t)
  BY <1>2 DEF InQueue
<1>4. ASSUME NEW i \in 1..Len(queue'), NEW j \in 1..Len(queue'),
             queue'[i] = Sample(t), queue'[j] = Sample(t)
      PROVE  i = j
  <2>1. i + 1 = j + 1
    BY <1>2, <1>4 DEF OnlyOne
  <2>2. QED BY <2>1
<1>5. QED BY <1>3, <1>4

LEMMA LastIsOther ==
  ASSUME Orderly, NEW t, OnlyOne(t), NEW e \in AnyEvent, queue' = Append(queue, e), e # Sample(t)
  PROVE  /\ InQueue(t)' <=> InQueue(t)
         /\ \A i, j \in 1..Len(queue') : queue'[i] = Sample(t) /\ queue'[j] = Sample(t) => i = j
<1>1. queue \in Seq(AnyEvent)
  BY DEF Orderly, TokensAreOld
<1>2. /\ \A i \in 1..Len(queue) : queue'[i] = queue[i] /\ i \in 1..Len(queue')
      /\ \A i \in 1..Len(queue') : (i \in 1..Len(queue) /\ queue'[i] = queue[i]) \/ queue'[i] = e
  BY <1>1, Appended
<1>3. QED BY <1>2 DEF InQueue, OnlyOne

LEMMA SameQueue ==
  ASSUME NEW t, OnlyOne(t), queue' = queue
  PROVE  /\ InQueue(t)' <=> InQueue(t)
         /\ \A i, j \in 1..Len(queue') : queue'[i] = Sample(t) /\ queue'[j] = Sample(t) => i = j
BY DEF InQueue, OnlyOne

-----------------------------------------------------------------------------
(* Hands *)

Holds(w, t) == w.ev = Sample(t) \/ t \in Range(w.todo)

LEMMA Held ==
  ASSUME NEW w, NEW t
  PROVE  /\ ~Holds(Idle, t)
         /\ w.ev = Sample(w.ev.token) /\ (w.todo = <<>> \/ w.todo = <<w.ev.token>>)
              => (Holds(w, t) <=> t = w.ev.token)
         /\ w.ev.kind # "sample" => (Holds(w, t) <=> t \in Range(w.todo))
         /\ w.ev.kind # "sample" /\ w.todo = <<>> => ~Holds(w, t)
<1>1. Range(<<>>) = {}
  BY DEF Range
<1>2. \A u : Range(<<u>>) = {u}
  BY DEF Range
<1>3. ~Holds(Idle, t)
  BY <1>1 DEF Holds, Idle, None, Sample
<1>4. ASSUME w.ev = Sample(w.ev.token), w.todo = <<>> \/ w.todo = <<w.ev.token>>
      PROVE  Holds(w, t) <=> t = w.ev.token
  <2>1. w.ev = Sample(t) <=> t = w.ev.token
    BY <1>4, Samples
  <2>2. t \in Range(w.todo) => t = w.ev.token
    <3>1. CASE w.todo = <<>>
      BY <1>1, <3>1
    <3>2. CASE w.todo = <<w.ev.token>>
      <4>1. Range(<<w.ev.token>>) = {w.ev.token}
        BY <1>2
      <4>2. Range(w.todo) = {w.ev.token}
        BY <4>1, <3>2, Zenon
      <4>3. QED BY <4>2
    <3>3. QED BY <1>4, <3>1, <3>2
  <2>3. QED BY <2>1, <2>2 DEF Holds
<1>5. w.ev.kind # "sample" => w.ev # Sample(t)
  BY Samples
<1>6. QED BY <1>1, <1>3, <1>4, <1>5 DEF Holds

LEMMA Pairs ==
  ASSUME NEW a, NEW b
  PROVE  /\ Range(<<a, b>>) = {a, b} /\ Range(<<b>>) = {b} /\ Range(<<>>) = {}
         /\ Head(<<a, b>>) = a /\ Tail(<<a, b>>) = <<b>> /\ Head(<<b>>) = b /\ Tail(<<b>>) = <<>>
         /\ <<a, b>> # <<>> /\ <<b>> # <<>>
BY DEF Range

\* What p does changes nobody else's hand.
Changes(p) == /\ DOMAIN work' = Procs /\ work' = [q \in Procs |-> work'[q]]
              /\ \A q \in Procs : q # p => work'[q] = work[q]

LEMMA OwnHand ==
  ASSUME Orderly, NEW p \in Procs, NEW w, Changes(p), work'[p] = w
  PROVE  /\ \A q \in Procs : q # p => work'[q] = work[q]
         /\ DOMAIN work' = Procs /\ work' = [q \in Procs |-> work'[q]]
         /\ \A q \in Procs : q # p => (Control(q)' <=> Control(q))
         /\ \A q \in Procs : \A t : q # p => (Reading(q, t)' <=> Reading(q, t))
         /\ \A t : Reading(p, t)' <=> Holds(w, t)
         /\ \A t : Reading(p, t) <=> Holds(work[p], t)
BY DEF Changes, Control, Reading, Holds

\* What a handler's step writes into its hand.
LEMMA Goes ==
  ASSUME Orderly, NEW p \in Procs, NEW x, Go(p, x)
  PROVE  /\ Changes(p) /\ Whole(work'[p]) /\ work'[p].pc = x
         /\ work'[p].ev = work[p].ev /\ work'[p].todo = work[p].todo /\ work'[p].gen = work[p].gen
<1>1. DOMAIN work = Procs /\ Whole(work[p])
  BY DEF Orderly, Hands
<1>2. work' = [work EXCEPT ![p].pc = x]
  BY DEF Go
<1>3. Changes(p)
  BY <1>1, <1>2 DEF Changes
<1>4. work'[p] = [work[p] EXCEPT !.pc = x]
  BY <1>1, <1>2
<1>5. Whole(work'[p]) /\ work'[p].pc = x /\ work'[p].ev = work[p].ev
      /\ work'[p].todo = work[p].todo /\ work'[p].gen = work[p].gen
  BY <1>1, <1>4 DEF Whole
<1>6. QED BY <1>3, <1>5

LEMMA Finishes ==
  ASSUME Orderly, NEW p \in Procs, Done(p)
  PROVE  Changes(p) /\ work'[p] = Idle
BY DEF Orderly, Done, Changes

LEMMA Leaves ==
  ASSUME Orderly, NEW p \in Procs, NEW d, Left(p, d)
  PROVE  /\ Changes(p)
         /\ d = <<>> => work'[p] = Idle
         /\ d # <<>> => /\ Whole(work'[p]) /\ work'[p].pc = "perform"
                        /\ work'[p].ev = work[p].ev /\ work'[p].todo = d
<1>1. DOMAIN work = Procs /\ Whole(work[p])
  BY DEF Orderly, Hands
<1>2. CASE d = <<>>
  BY <1>2, Finishes DEF Left
<1>3. CASE d # <<>>
  <2>1. work' = [work EXCEPT ![p].pc = "perform", ![p].todo = d]
    BY <1>3 DEF Left
  <2>2. Changes(p)
    BY <1>1, <2>1 DEF Changes
  <2>3. work'[p] = [work[p] EXCEPT !.pc = "perform", !.todo = d]
    BY <1>1, <2>1
  <2>4. work'[p].pc = "perform" /\ work'[p].ev = work[p].ev /\ work'[p].todo = d
    BY <1>1, <2>3 DEF Whole
  <2>5. Whole(work'[p])
    BY <1>1, <2>3 DEF Whole
  <2>6. QED BY <1>3, <2>2, <2>4, <2>5
<1>4. QED BY <1>2, <1>3

LEMMA SampleParts ==
  ASSUME NEW w, SampleHand(w)
  PROVE  /\ w.ev = Sample(w.ev.token) /\ w.ev.token \in AnyToken /\ w.ev.token.gen = generation
         /\ w.ev.kind = "sample"
         /\ w.todo = <<>> \/ w.todo = <<w.ev.token>>
         /\ w.ev.token = Now(w.ev.token.stream)
         /\ w.ev.token.stream \in Streams
<1>1. PICK t \in AnyToken : w.ev = Sample(t) /\ t.gen = generation
  BY DEF SampleHand
<1>2. w.ev.token = t /\ w.ev.kind = "sample"
  BY <1>1, Samples
<1>3. t = Now(t.stream) /\ t.stream \in Streams
  BY <1>1 DEF AnyToken, Now
<1>4. QED BY <1>1, <1>2, <1>3 DEF SampleHand

-----------------------------------------------------------------------------
(* Three ways to keep order *)

\* A processor that reads samples, or comes to read them, beside others that do.
LEMMA ReaderInOrder ==
  ASSUME Orderly, NEW p \in Procs, NEW w, Changes(p), work'[p] = w, Whole(w),
         UNCHANGED <<scanning, generation, power>>, TokensAreOld',
         w = Idle \/ SampleHand(w),
         \A q \in Procs : ~Control(q),
         scanning # 0 => \A s \in Streams : OnlyOne(Now(s)) => OnlyOne(Now(s))'
  PROVE  Orderly'
<1>1. \A q \in Procs : q # p => work'[q] = work[q]
  BY OwnHand
<1>2. \A q \in Procs : work[q] = Idle \/ SampleHand(work[q])
  BY Free DEF Orderly
<1>4. \A q \in Procs : work'[q] = Idle \/ SampleHand(work'[q])
  BY <1>1, <1>2
<1>5. \A q \in Procs : SampleHand(work'[q]) => SampleHand(work[q])'
  BY DEF SampleHand
<1>6. \A q \in Procs : Whole(work[q])'
  BY <1>1 DEF Whole, Orderly, Hands
<1>7. \A q \in Procs : ~Control(q)'
  BY <1>4, HandParts DEF Control
<1>8. Hands'
  BY <1>4, <1>5, <1>6, <1>7 DEF Hands
<1>9. DOMAIN work' = Procs /\ work' = [q \in Procs |-> work'[q]]
  BY OwnHand
<1>10. Undisturbed
  BY DEF Undisturbed
<1>11. scanning' # 0 => \A s \in Streams : OnlyOne(Now(s))'
  BY <1>10 DEF Orderly
<1>12. QED BY <1>8, <1>9, <1>11 DEF Orderly

\* A processor with the digitiser to itself.
LEMMA AloneInOrder ==
  ASSUME Orderly, NEW p \in Procs, NEW w, Changes(p), work'[p] = w, Whole(w),
         \A q \in Procs : q # p => work[q] = Idle,
         scanning' \in Acquisitions \cup {0}, generation' \in Nat, power' \in BOOLEAN,
         scanning' # 0 => power', TokensAreOld',
         w = Idle \/ SetHand(w)' \/ LinkHand(w)',
         \/ scanning' = 0
         \/ w.pc \notin {"idle", "idling", "perform", "start"}
         \/ \A s \in Streams : OnlyOne(Now(s))'
  PROVE  Orderly'
<1>1. \A q \in Procs : q # p => work'[q] = Idle
  BY OwnHand
<1>2. work'[p] = w
  BY OwnHand
<1>3. w = Idle \/ SetHand(work[p])' \/ LinkHand(work[p])'
  BY <1>2 DEF SetHand, LinkHand
<1>4. Whole(Idle)
  BY DEF Whole, Idle
<1>5. \A q \in Procs : Whole(work[q])'
  BY <1>1, <1>2, <1>4 DEF Whole
<1>6. Idle' = Idle
  BY DEF Idle, None
<1>7. \A q \in Procs : (work[q] = Idle)' \/ SetHand(work[q])' \/ LinkHand(work[q])'
  BY <1>1, <1>2, <1>3, <1>6
<1>8. ~(Idle.ev.kind \notin {"none", "sample"})
  BY DEF Idle, None
<1>9. \A q, r \in Procs : q # r /\ Control(q)' => work'[r] = Idle
  BY <1>1, <1>8 DEF Control
<1>10. Hands'
  BY <1>5, <1>6, <1>7, <1>9 DEF Hands
<1>11. DOMAIN work' = Procs /\ work' = [q \in Procs |-> work'[q]]
  BY OwnHand
<1>12. ASSUME w.pc \notin {"idle", "idling", "perform", "start"}
       PROVE  ~Undisturbed'
  <2>1. w # Idle
    BY <1>12 DEF Idle
  <2>2. Control(p)'
    <3>1. CASE SetHand(work[p])'
      BY <3>1, HandParts, <2>1, Free, <1>10, PTL DEF Control
    <3>2. CASE LinkHand(work[p])'
      BY <3>2, HandParts, <2>1, Free, <1>10, PTL DEF Control
    <3>3. QED BY <1>3, <2>1, <3>1, <3>2
  <2>3. QED BY <2>2, <1>2, <1>12 DEF Undisturbed
<1>13. scanning' # 0 /\ Undisturbed' => \A s \in Streams : OnlyOne(Now(s))'
  BY <1>12
<1>14. QED BY <1>10, <1>11, <1>13 DEF Orderly

\* Nobody's hand moves.
LEMMA QuietInOrder ==
  ASSUME Orderly, UNCHANGED <<scanning, generation, power, work>>, TokensAreOld', Fresh => Fresh',
         \A s \in Streams : OnlyOne(Now(s)) => OnlyOne(Now(s))'
  PROVE  Orderly'
<1>1. \A p \in Procs : SampleHand(work[p]) => SampleHand(work[p])'
  BY DEF SampleHand
<1>2. \A p \in Procs : SetHand(work[p]) => SetHand(work[p])'
  BY DEF SetHand, Now
<1>3. \A p \in Procs : LinkHand(work[p]) => LinkHand(work[p])'
  BY DEF LinkHand
<1>4. Hands'
  BY <1>1, <1>2, <1>3 DEF Orderly, Hands, Whole, Idle, Control
<1>5. Undisturbed' <=> Undisturbed
  BY DEF Undisturbed, Control
<1>6. QED BY <1>4, <1>5 DEF Orderly
-----------------------------------------------------------------------------
(* What a handler's step writes into its hand *)

LEMMA NobodyControls ==
  ASSUME Orderly, NEW p \in Procs, SampleHand(work[p])
  PROVE  \A q \in Procs : ~Control(q)
<1>1. work[p] # Idle /\ ~Control(p)
  BY Free DEF Orderly
<1>2. QED BY <1>1 DEF Orderly, Hands

LEMMA OthersIdle ==
  ASSUME Orderly, NEW p \in Procs, SetHand(work[p]) \/ LinkHand(work[p])
  PROVE  Control(p) /\ \A q \in Procs : q # p => work[q] = Idle
BY Free DEF Orderly, Hands

\* The reader of a sample goes on with its token in hand.
LEMMA KeepsReading ==
  ASSUME Orderly, NEW p \in Procs, SampleHand(work[p]), Changes(p), Whole(work'[p]),
         work'[p].ev = work[p].ev,
         \/ work'[p].pc \in {"read", "refused", "check", "advise", "restart"} /\ work'[p].todo = <<>>
         \/ work'[p].pc \in {"perform", "start"} /\ work'[p].todo = <<work[p].ev.token>>,
         UNCHANGED <<scanning, generation, power, queue>>,
         TokensAreOld', \A s \in Streams : Now(s) \in timers' <=> Now(s) \in timers
  PROVE  Orderly'
<1>1. PICK w : w = work'[p]
  OBVIOUS
<1>2. SampleHand(w)
  BY <1>1 DEF SampleHand
<1>3. \A t : Holds(w, t) <=> Holds(work[p], t)
  <2>1. w.ev = Sample(w.ev.token) /\ (w.todo = <<>> \/ w.todo = <<w.ev.token>>)
    BY <1>2, SampleParts
  <2>2. work[p].ev = Sample(work[p].ev.token) /\ (work[p].todo = <<>> \/ work[p].todo = <<work[p].ev.token>>)
    BY SampleParts
  <2>3. QED BY <2>1, <2>2, <1>1, Held
<1>4. \A q \in Procs : \A t : Reading(q, t)' <=> Reading(q, t)
  BY <1>1, <1>3, OwnHand
<1>5. ASSUME NEW s \in Streams, OnlyOne(Now(s))
      PROVE  OnlyOne(Now(s))'
  <2>1. PICK t : t = Now(s)
    OBVIOUS
  <2>2. Now(s)' = t
    BY <2>1 DEF Now
  <2>3. OnlyOne(t)
    BY <1>5, <2>1
  <2>4. /\ InQueue(t)' <=> InQueue(t)
        /\ \A i, j \in 1..Len(queue') : queue'[i] = Sample(t) /\ queue'[j] = Sample(t) => i = j
    BY <2>3, SameQueue
  <2>5. InTimers(t)' <=> InTimers(t)
    BY <2>1 DEF InTimers
  <2>6. OnlyOne(t)'
    BY <2>3, <2>4, <2>5, <1>4, SamePlaces
  <2>7. QED BY <2>2, <2>6 DEF OnlyOne, InTimers, InQueue, InHand, Reading
<1>6. \A q \in Procs : ~Control(q)
  BY NobodyControls
<1>7. QED BY <1>1, <1>2, <1>5, <1>6, ReaderInOrder

LEMMA PcTells ==
  ASSUME Orderly, NEW p \in Procs
  PROVE  /\ work[p].pc \in {"read", "refused", "check", "advise", "restart"}
              => SampleHand(work[p]) /\ work[p].todo = <<>>
         /\ work[p].pc \in {"set", "decide"} => SetHand(work[p]) /\ work[p].todo = <<>>
         /\ work[p].pc \in {"stop", "idling", "off"} => LinkHand(work[p]) /\ work[p].todo = <<>>
         /\ work[p].pc = "advance" => SetHand(work[p]) \/ LinkHand(work[p])
         /\ work[p].pc \in {"perform", "start"} => SampleHand(work[p]) \/ SetHand(work[p])
<1>1. work[p] = Idle \/ SampleHand(work[p]) \/ SetHand(work[p]) \/ LinkHand(work[p])
  BY DEF Orderly, Hands
<1>2. CASE work[p] = Idle
  BY <1>2 DEF Idle
<1>3. CASE SampleHand(work[p])
  BY <1>3 DEF SampleHand
<1>4. CASE SetHand(work[p])
  BY <1>4 DEF SetHand
<1>5. CASE LinkHand(work[p])
  BY <1>5 DEF LinkHand
<1>6. QED BY <1>1, <1>2, <1>3, <1>4, <1>5

\* Where no token moves.
LEMMA TokensStay ==
  ASSUME Orderly, UNCHANGED <<timers, queue, generation>>
  PROVE  TokensAreOld' /\ (Fresh => Fresh')
BY DEF Orderly, TokensAreOld, Fresh

\* A reader that is done, with nothing to scan.
LEMMA StopsReading ==
  ASSUME Orderly, NEW p \in Procs, SampleHand(work[p]), scanning = 0,
         Changes(p), work'[p] = Idle, TokensAreOld',
         UNCHANGED <<scanning, generation, power>>
  PROVE  Orderly'
<1>1. \A q \in Procs : ~Control(q)
  BY NobodyControls
<1>2. Whole(Idle)
  BY DEF Whole, Idle
<1>3. QED BY <1>1, <1>2, ReaderInOrder

-----------------------------------------------------------------------------
(* The steps of the handler of a sample timer's event *)

LEMMA EndReadStep ==
  ASSUME Orderly, NEW p \in Procs, EndRead(p)
  PROVE  Orderly'
<1>1. SampleHand(work[p]) /\ work[p].todo = <<>>
  BY PcTells DEF EndRead
<1>2. UNCHANGED <<scanning, generation, power, queue, timers>>
  BY DEF EndRead
<1>3. TokensAreOld'
  BY <1>2, TokensStay
<1>4. /\ Changes(p) /\ Whole(work'[p]) /\ work'[p].pc = "check"
      /\ work'[p].ev = work[p].ev /\ work'[p].todo = work[p].todo
  <2>1. CASE Go(p, "check")
    BY <2>1, Goes
  <2>2. CASE work' = [work EXCEPT ![p].pc = "check", ![p].failed = TRUE]
    <3>1. DOMAIN work = Procs /\ Whole(work[p])
      BY DEF Orderly, Hands
    <3>2. Changes(p)
      BY <3>1, <2>2 DEF Changes
    <3>3. work'[p] = [work[p] EXCEPT !.pc = "check", !.failed = TRUE]
      BY <3>1, <2>2
    <3>4. work'[p].pc = "check" /\ work'[p].ev = work[p].ev /\ work'[p].todo = work[p].todo
      BY <3>1, <3>3 DEF Whole
    <3>5. Whole(work'[p])
      BY <3>1, <3>3 DEF Whole
    <3>6. QED BY <3>2, <3>4, <3>5
  <2>3. QED BY <2>1, <2>2 DEF EndRead
<1>5. QED BY <1>1, <1>2, <1>3, <1>4, KeepsReading

LEMMA CheckStep ==
  ASSUME Orderly, NEW p \in Procs, Check(p)
  PROVE  Orderly'
<1>1. SampleHand(work[p]) /\ work[p].todo = <<>>
  BY PcTells DEF Check
<1>2. UNCHANGED <<scanning, generation, power, queue, timers>>
  BY DEF Check, device
<1>3. TokensAreOld'
  BY <1>2, TokensStay
<1>4. Current(work[p].ev.token)
  BY <1>1, SampleParts DEF Current
<1>5. PICK x \in {"advise", "restart"} : Go(p, x)
  BY <1>4 DEF Check
<1>6. QED BY <1>1, <1>2, <1>3, <1>5, Goes, KeepsReading

LEMMA AdviseStep ==
  ASSUME Orderly, NEW p \in Procs, Advise(p)
  PROVE  Orderly'
<1>1. SampleHand(work[p]) /\ work[p].todo = <<>>
  BY PcTells DEF Advise
<1>2. UNCHANGED <<scanning, generation, power, queue, timers>>
  BY DEF Advise
<1>3. TokensAreOld'
  BY <1>2, TokensStay
<1>4. Go(p, "restart")
  BY DEF Advise
<1>5. QED BY <1>1, <1>2, <1>3, <1>4, Goes, KeepsReading

LEMMA RestartStep ==
  ASSUME Orderly, NEW p \in Procs, Restart(p)
  PROVE  Orderly'
<1>1. SampleHand(work[p]) /\ work[p].todo = <<>>
  BY PcTells DEF Restart
<1>2. UNCHANGED <<scanning, generation, power, queue, timers>>
  BY DEF Restart, device
<1>3. TokensAreOld'
  BY <1>2, TokensStay
<1>4. CASE scanning = 0
  <2>1. Left(p, <<>>)
    BY <1>4 DEF Restart
  <2>2. QED BY <2>1, <1>1, <1>2, <1>3, <1>4, Leaves, StopsReading
<1>5. CASE scanning # 0
  <2>1. <<work[p].ev.token>> # <<>>
    BY Pairs
  <2>2. Left(p, <<work[p].ev.token>>)
    BY <1>5 DEF Restart
  <2>3. /\ Changes(p) /\ Whole(work'[p]) /\ work'[p].pc = "perform"
        /\ work'[p].ev = work[p].ev /\ work'[p].todo = <<work[p].ev.token>>
    BY <2>1, <2>2, Leaves
  <2>4. QED BY <1>1, <1>2, <1>3, <2>3, KeepsReading
<1>6. QED BY <1>4, <1>5
-----------------------------------------------------------------------------
(* Taking an event *)

LEMMA Takes ==
  ASSUME Orderly, ~mixed', NEW p \in Procs, NEW kind, NEW pc, Take(p, kind, pc)
  PROVE  /\ Changes(p) /\ Whole(work'[p])
         /\ pc = "idle" => work'[p] = Idle
         /\ pc # "idle" => /\ work'[p].pc = pc /\ work'[p].ev = queue[1]
                           /\ work'[p].todo = <<>>
<1>1. DOMAIN work = Procs
  BY DEF Orderly
<1>2. /\ Head(queue) = queue[1]
      /\ work' = [work EXCEPT ![p] = IF pc = "idle" THEN Idle
                                   ELSE [Idle EXCEPT !.pc = pc, !.ev = Head(queue)]]
  BY TakeParts
<1>3. Changes(p)
  BY <1>1, <1>2 DEF Changes
<1>4. CASE pc = "idle"
  <2>1. work'[p] = Idle
    BY <1>1, <1>2, <1>4
  <2>2. QED BY <2>1, <1>3, <1>4 DEF Whole, Idle
<1>5. CASE pc # "idle"
  <2>1. work'[p] = [Idle EXCEPT !.pc = pc, !.ev = queue[1]]
    BY <1>1, <1>2, <1>5
  <2>2. work'[p].pc = pc /\ work'[p].ev = queue[1] /\ work'[p].todo = <<>>
    BY <2>1 DEF Idle
  <2>3. Whole(work'[p])
    BY <2>1 DEF Whole, Idle
  <2>4. QED BY <2>2, <2>3, <1>3, <1>5
<1>6. QED BY <1>4, <1>5

\* What happens to a token of which the event that is taken is not the event.
LEMMA TakenBeside ==
  ASSUME Orderly, ~mixed', NEW p \in Procs, NEW kind, NEW pc, Take(p, kind, pc),
         UNCHANGED timers, NEW t, OnlyOne(t), queue[1] # Sample(t)
  PROVE  OnlyOne(t)'
<1>1. work[p] = Idle /\ queue # <<>> /\ queue' = Tail(queue)
  BY TakeParts
<1>2. /\ InQueue(t)' <=> InQueue(t)
      /\ \A i, j \in 1..Len(queue') : queue'[i] = Sample(t) /\ queue'[j] = Sample(t) => i = j
  BY <1>1, HeadIsOther
<1>3. InTimers(t)' <=> InTimers(t)
  BY DEF InTimers
<1>4. ~Holds(work'[p], t)
  <2>1. work'[p] = Idle \/ (work'[p].ev = queue[1] /\ work'[p].todo = <<>>)
    BY Takes
  <2>2. Range(<<>>) = {}
    BY Pairs
  <2>3. QED BY <2>1, <2>2, Held DEF Holds
<1>5. PICK w : w = work'[p]
  OBVIOUS
<1>6. \A q \in Procs : Reading(q, t)' <=> Reading(q, t)
  <2>1. \A q \in Procs : q # p => (Reading(q, t)' <=> Reading(q, t))
    BY <1>5, Takes, OwnHand
  <2>2. Reading(p, t)' <=> Holds(w, t)
    BY <1>5, Takes, OwnHand
  <2>3. Reading(p, t) <=> Holds(Idle, t)
    BY <1>1 DEF Reading, Holds
  <2>4. QED BY <2>1, <2>2, <2>3, <1>4, <1>5, Held
<1>7. QED BY <1>2, <1>3, <1>6, SamePlaces

LEMMA OthersBeside ==
  ASSUME Orderly, ~mixed', NEW p \in Procs, NEW kind, NEW pc, Take(p, kind, pc),
         UNCHANGED <<timers, generation>>, NEW s \in Streams, OnlyOne(Now(s)), queue[1] # Sample(Now(s))
  PROVE  OnlyOne(Now(s))'
<1>1. PICK t : t = Now(s)
  OBVIOUS
<1>2. Now(s)' = t
  BY <1>1 DEF Now
<1>3. OnlyOne(t)'
  BY <1>1, TakenBeside
<1>4. QED BY <1>2, <1>3 DEF OnlyOne, InTimers, InQueue, InHand, Reading

\* An event that is taken and is of no consequence.
LEMMA TakenInOrder ==
  ASSUME Orderly, ~mixed', NEW p \in Procs, NEW kind, Take(p, kind, "idle"),
         UNCHANGED <<scanning, generation, power, timers>>,
         \A s \in Streams : queue[1] # Sample(Now(s))
  PROVE  Orderly'
<1>1. Changes(p) /\ Whole(Idle) /\ work'[p] = Idle
  BY Takes
<1>2. TokensAreOld'
  BY TakeParts, ShorterQueue
<1>3. \A q \in Procs : ~Control(q)
  BY TakeParts
<1>4. \A s \in Streams : OnlyOne(Now(s)) => OnlyOne(Now(s))'
  BY OthersBeside
<1>5. PICK w : w = Idle
  OBVIOUS
<1>6. QED BY <1>1, <1>2, <1>3, <1>4, <1>5, ReaderInOrder

LEMMA BeginReadStep ==
  ASSUME Orderly, ~mixed', NEW p \in Procs, BeginRead(p)
  PROVE  Orderly'
<1>1. UNCHANGED <<scanning, generation, power, timers>>
  BY DEF BeginRead, device
<1>2. PICK pc : Take(p, "sample", pc) /\ pc = (IF ~Current(Head(queue).token) THEN "idle"
                                              ELSE IF sdr THEN "read" ELSE "refused")
  BY DEF BeginRead
<1>3. /\ Head(queue) = queue[1] /\ queue[1].kind = "sample" /\ queue[1] \in AnyEvent
      /\ queue # <<>> /\ queue' = Tail(queue) /\ work[p] = Idle
  BY <1>2, TakeParts
<1>4. queue[1] = Sample(queue[1].token) /\ queue[1].token \in AnyToken
  BY <1>3, EventParts
<1>5. CASE ~Current(queue[1].token)
  <2>1. \A s \in Streams : queue[1] # Sample(Now(s))
    BY <1>5, Samples DEF Current, Now
  <2>2. Take(p, "sample", "idle")
    BY <1>2, <1>3, <1>5
  <2>3. QED BY <2>1, <2>2, <1>1, TakenInOrder
<1>6. CASE Current(queue[1].token)
  <2> DEFINE t == queue[1].token
  <2>1. t \in AnyToken /\ t.gen = generation /\ t = Now(t.stream) /\ t.stream \in Streams
    BY <1>4, <1>6 DEF Current, AnyToken, Now
  <2>2. pc \in {"read", "refused"} /\ pc # "idle"
    BY <1>2, <1>3, <1>6
  <2>3. Changes(p) /\ Whole(work'[p]) /\ work'[p].pc = pc /\ work'[p].ev = Sample(t) /\ work'[p].todo = <<>>
    BY <2>2, <1>2, <1>4, Takes
  <2>4. PICK w : w = work'[p]
    OBVIOUS
  <2>5. SampleHand(w)
    BY <2>1, <2>2, <2>3, <2>4 DEF SampleHand
  <2>6. TokensAreOld'
    BY <1>1, <1>2, TakeParts, ShorterQueue
  <2>7. \A q \in Procs : ~Control(q)
    BY <1>2, TakeParts
  <2>8. ASSUME NEW s \in Streams, OnlyOne(Now(s))
        PROVE  OnlyOne(Now(s))'
    <3>1. CASE Now(s) # t
      <4>1. queue[1] # Sample(Now(s))
        BY <1>4, <3>1, Samples
      <4>2. QED BY <4>1, <2>8, <1>1, <1>2, OthersBeside
    <3>2. CASE Now(s) = t
      <4>1. PICK u : u = Now(s)
        OBVIOUS
      <4>2. Now(s)' = u
        BY <4>1, <1>1 DEF Now
      <4>3. queue \in Seq(AnyEvent)
        BY DEF Orderly, TokensAreOld
      <4>4. /\ 1 \in 1..Len(queue)
            /\ \A i \in 1..Len(queue') : queue'[i] = queue[i + 1] /\ i + 1 \in 1..Len(queue) /\ i + 1 # 1
        BY <4>3, <1>3, Shortened
      <4>5. queue[1] = Sample(u)
        BY <1>4, <3>2, <4>1
      <4>6. InQueue(u)
        BY <4>4, <4>5 DEF InQueue
      <4>7. ~InTimers(u) /\ ~InHand(u) /\ OnlyOne(u)
        BY <4>6, <4>1, <2>8 DEF OnlyOne
      <4>8. \A i \in 1..Len(queue') : queue'[i] # Sample(u)
        BY <4>4, <4>5, <4>7 DEF OnlyOne
      <4>9. \A q \in Procs : Reading(q, u)' <=> q = p
        <5>1. \A q \in Procs : q # p => (Reading(q, u)' <=> Reading(q, u))
          BY <2>3, <2>4, OwnHand
        <5>2. Reading(p, u)' <=> Holds(w, u)
          BY <2>3, <2>4, OwnHand
        <5>3. Holds(w, u)
          BY <2>3, <2>4, <3>2, <4>1 DEF Holds
        <5>4. QED BY <5>1, <5>2, <5>3, <4>7 DEF InHand
      <4>10. OnlyOne(u)'
        BY <4>7, <4>8, <4>9, <1>1 DEF OnlyOne, InTimers, InQueue, InHand
      <4>11. QED BY <4>2, <4>10 DEF OnlyOne, InTimers, InQueue, InHand, Reading
    <3>3. QED BY <3>1, <3>2
  <2>9. QED BY <1>1, <2>3, <2>4, <2>5, <2>6, <2>7, <2>8, ReaderInOrder
<1>7. QED BY <1>5, <1>6
-----------------------------------------------------------------------------
(* Connections and the comms_retry timer *)

LEMMA OtherEvents ==
  ASSUME Orderly, ~mixed', NEW p \in Procs, NEW kind, NEW pc, Take(p, kind, pc), kind # "sample"
  PROVE  /\ \A s : queue[1] # Sample(Now(s))
         /\ \A q \in Procs : work[q] = Idle
         /\ queue[1] \in AnyEvent /\ queue[1].kind = kind
         /\ TokensAreOld' \/ ~UNCHANGED <<timers, generation>>
<1>1. /\ Head(queue) = queue[1] /\ Head(queue) \in AnyEvent /\ Head(queue).kind = kind
      /\ \A q \in Procs : work[q] = Idle
      /\ queue # <<>> /\ queue' = Tail(queue)
  BY TakeParts
<1>2. \A s : queue[1] # Sample(Now(s))
  BY <1>1, Samples
<1>3. TokensAreOld' \/ ~UNCHANGED <<timers, generation>>
  BY <1>1, ShorterQueue
<1>4. QED BY <1>1, <1>2, <1>3

LEMMA LinkConnectedStep ==
  ASSUME Orderly, ~mixed', NEW p \in Procs, LinkConnected(p)
  PROVE  Orderly'
<1>1. UNCHANGED <<scanning, generation, power, timers>> /\ Take(p, "connected", "idle")
  BY DEF LinkConnected, device
<1>2. \A s \in Streams : queue[1] # Sample(Now(s))
  BY <1>1, OtherEvents
<1>3. QED BY <1>1, <1>2, TakenInOrder

LEMMA LinkDisconnectedStep ==
  ASSUME Orderly, ~mixed', NEW p \in Procs, LinkDisconnected(p)
  PROVE  Orderly'
<1>1. UNCHANGED <<scanning, generation, power, timers>>
  BY DEF LinkDisconnected, device
<1>2. CASE scanning = 0
  <2>1. Take(p, "disconnected", "idle")
    BY <1>2 DEF LinkDisconnected
  <2>2. \A s \in Streams : queue[1] # Sample(Now(s))
    BY <2>1, OtherEvents
  <2>3. QED BY <1>1, <2>1, <2>2, TakenInOrder
<1>3. CASE scanning # 0
  <2>1. Take(p, "disconnected", "stop")
    BY <1>3 DEF LinkDisconnected
  <2>2. Changes(p) /\ Whole(work'[p]) /\ work'[p].pc = "stop" /\ work'[p].ev = queue[1] /\ work'[p].todo = <<>>
    BY <2>1, Takes
  <2>3. (\A q \in Procs : work[q] = Idle) /\ queue[1] \in AnyEvent /\ queue[1].kind = "disconnected" /\ TokensAreOld'
    BY <1>1, <2>1, OtherEvents
  <2>4. \E l \in Links : queue[1] = Link("disconnected", l)
    BY <2>3, EventParts
  <2>5. PICK w : w = work'[p]
    OBVIOUS
  <2>6. LinkHand(w)'
    BY <2>2, <2>4, <2>5 DEF LinkHand
  <2>7. scanning' \in Acquisitions \cup {0} /\ generation' \in Nat /\ power' \in BOOLEAN /\ (scanning' # 0 => power')
    BY <1>1 DEF Orderly
  <2>8. QED BY <2>2, <2>3, <2>5, <2>6, <2>7, AloneInOrder
<1>4. QED BY <1>2, <1>3

LEMMA NothingHanded ==
  ASSUME Orderly, NEW p \in Procs, Changes(p), \A t : Holds(work'[p], t) <=> Holds(work[p], t),
         UNCHANGED <<queue, generation>>, NEW s \in Streams,
         Now(s) \in timers' <=> Now(s) \in timers, OnlyOne(Now(s))
  PROVE  OnlyOne(Now(s))'
<1>1. PICK t : t = Now(s)
  OBVIOUS
<1>2. Now(s)' = t
  BY <1>1 DEF Now
<1>3. PICK w : w = work'[p]
  OBVIOUS
<1>4. \A q \in Procs : Reading(q, t)' <=> Reading(q, t)
  BY <1>3, OwnHand
<1>5. OnlyOne(t)
  BY <1>1
<1>6. /\ InQueue(t)' <=> InQueue(t)
      /\ \A i, j \in 1..Len(queue') : queue'[i] = Sample(t) /\ queue'[j] = Sample(t) => i = j
  BY <1>5, SameQueue
<1>7. InTimers(t)' <=> InTimers(t)
  BY <1>1 DEF InTimers
<1>8. OnlyOne(t)'
  BY <1>4, <1>5, <1>6, <1>7, SamePlaces
<1>9. QED BY <1>2, <1>8 DEF OnlyOne, InTimers, InQueue, InHand, Reading

LEMMA StopScanningStep ==
  ASSUME Orderly, NEW p \in Procs, StopScanning(p)
  PROVE  Orderly'
<1>1. LinkHand(work[p]) /\ work[p].todo = <<>>
  BY PcTells DEF StopScanning
<1>2. scanning' = 0 /\ UNCHANGED <<generation, power, timers, queue>> /\ Go(p, "advance")
  BY DEF StopScanning, device
<1>3. TokensAreOld'
  BY <1>2, TokensStay
<1>4. Changes(p) /\ Whole(work'[p]) /\ work'[p].pc = "advance" /\ work'[p].ev = work[p].ev /\ work'[p].todo = <<>>
  BY <1>1, <1>2, Goes
<1>5. PICK w : w = work'[p]
  OBVIOUS
<1>6. LinkHand(w)'
  BY <1>1, <1>2, <1>4, <1>5 DEF LinkHand
<1>7. \A q \in Procs : q # p => work[q] = Idle
  BY <1>1, OthersIdle
<1>8. generation' \in Nat /\ power' \in BOOLEAN
  BY <1>2 DEF Orderly
<1>9. QED BY <1>2, <1>3, <1>4, <1>5, <1>6, <1>7, <1>8, AloneInOrder

LEMMA PowerOffStep ==
  ASSUME Orderly, NEW p \in Procs, PowerOff(p)
  PROVE  Orderly'
<1>1. LinkHand(work[p]) /\ work[p].pc = "off"
  BY PcTells DEF PowerOff
<1>2. power' = FALSE /\ UNCHANGED <<scanning, generation, timers, queue>> /\ Done(p)
  BY DEF PowerOff
<1>3. scanning = 0
  BY <1>1 DEF LinkHand
<1>4. TokensAreOld'
  BY <1>2, TokensStay
<1>5. Changes(p) /\ work'[p] = Idle /\ Whole(Idle)
  BY <1>2, Finishes DEF Whole, Idle
<1>6. \A q \in Procs : q # p => work[q] = Idle
  BY <1>1, OthersIdle
<1>7. generation' \in Nat /\ power' \in BOOLEAN
  BY <1>2 DEF Orderly
<1>8. PICK w : w = Idle
  OBVIOUS
<1>9. QED BY <1>2, <1>3, <1>4, <1>5, <1>6, <1>7, <1>8, AloneInOrder

LEMMA IdlePowerStep ==
  ASSUME Orderly, NEW p \in Procs, IdlePower(p)
  PROVE  Orderly'
<1>1. LinkHand(work[p]) /\ work[p].todo = <<>> /\ work[p].pc = "idling"
  BY PcTells DEF IdlePower
<1>2. UNCHANGED <<scanning, generation, power, timers, queue>>
  BY DEF IdlePower, device
<1>3. TokensAreOld'
  BY <1>2, TokensStay
<1>4. \A q \in Procs : q # p => work[q] = Idle
  BY <1>1, OthersIdle
<1>5. scanning' \in Acquisitions \cup {0} /\ generation' \in Nat /\ power' \in BOOLEAN /\ (scanning' # 0 => power')
  BY <1>2 DEF Orderly
<1>6. CASE scanning = 0 /\ Go(p, "off")
  <2>1. Changes(p) /\ Whole(work'[p]) /\ work'[p].pc = "off" /\ work'[p].ev = work[p].ev /\ work'[p].todo = <<>>
    BY <1>1, <1>6, Goes
  <2>2. PICK w : w = work'[p]
    OBVIOUS
  <2>3. LinkHand(w)'
    BY <1>1, <1>2, <1>6, <2>1, <2>2 DEF LinkHand
  <2>4. QED BY <1>2, <1>3, <1>4, <1>5, <1>6, <2>1, <2>2, <2>3, AloneInOrder
<1>7. CASE Done(p)
  <2>1. Changes(p) /\ work'[p] = Idle /\ Whole(Idle)
    BY <1>7, Finishes DEF Whole, Idle
  <2>2. Undisturbed
    BY <1>1, <1>4, Free DEF Undisturbed, Orderly, Control, Idle, None
  <2>3. work[p].ev.kind # "sample"
    BY <1>1, HandParts
  <2>4. \A t : Holds(work'[p], t) <=> Holds(work[p], t)
    BY <1>1, <2>1, <2>3, Held
  <2>5. scanning' = 0 \/ \A s \in Streams : OnlyOne(Now(s))'
    BY <1>2, <2>1, <2>2, <2>4, NothingHanded DEF Orderly
  <2>6. PICK w : w = Idle
    OBVIOUS
  <2>7. QED BY <1>3, <1>4, <1>5, <2>1, <2>5, <2>6, AloneInOrder
<1>8. QED BY <1>6, <1>7 DEF IdlePower

LEMMA ReconnectStep ==
  ASSUME Orderly, ~mixed', NEW p \in Procs, Reconnect(p)
  PROVE  Orderly'
<1>1. UNCHANGED <<scanning, generation, power, timers>> /\ Take(p, "retry", "idling")
  BY DEF Reconnect
<1>2. Changes(p) /\ Whole(work'[p]) /\ work'[p].pc = "idling" /\ work'[p].ev = queue[1] /\ work'[p].todo = <<>>
  BY <1>1, Takes
<1>3. /\ \A s : queue[1] # Sample(Now(s))
      /\ (\A q \in Procs : work[q] = Idle) /\ queue[1] \in AnyEvent /\ queue[1].kind = "retry" /\ TokensAreOld'
  BY <1>1, OtherEvents
<1>4. queue[1] = Retry
  BY <1>3, EventParts
<1>5. PICK w : w = work'[p]
  OBVIOUS
<1>6. LinkHand(w)'
  BY <1>2, <1>4, <1>5 DEF LinkHand
<1>7. scanning' \in Acquisitions \cup {0} /\ generation' \in Nat /\ power' \in BOOLEAN /\ (scanning' # 0 => power')
  BY <1>1 DEF Orderly
<1>8. Undisturbed
  BY <1>3 DEF Undisturbed, Control, Idle, None
<1>9. scanning' = 0 \/ \A s \in Streams : OnlyOne(Now(s))'
  BY <1>1, <1>3, <1>8, OthersBeside DEF Orderly
<1>10. QED BY <1>2, <1>3, <1>5, <1>6, <1>7, <1>9, AloneInOrder
-----------------------------------------------------------------------------
(* The request to set "scanning" *)

LEMMA GuardStep ==
  ASSUME Orderly, ~mixed', NEW p \in Procs, Guard(p)
  PROVE  Orderly'
<1>1. UNCHANGED <<scanning, generation, timers>>
  BY DEF Guard
<1>2. \/ Take(p, "set", "idle") /\ power' = power
      \/ Take(p, "set", "set") /\ power' = TRUE
  BY DEF Guard, Orderly
<1>3. CASE Take(p, "set", "idle") /\ power' = power
  <2>1. \A s \in Streams : queue[1] # Sample(Now(s))
    BY <1>3, OtherEvents
  <2>2. QED BY <1>1, <1>3, <2>1, TakenInOrder
<1>4. CASE Take(p, "set", "set") /\ power' = TRUE
  <2>1. Changes(p) /\ Whole(work'[p]) /\ work'[p].pc = "set" /\ work'[p].ev = queue[1] /\ work'[p].todo = <<>>
    BY <1>4, Takes
  <2>2. (\A q \in Procs : work[q] = Idle) /\ queue[1] \in AnyEvent /\ queue[1].kind = "set" /\ TokensAreOld'
    BY <1>1, <1>4, OtherEvents
  <2>3. \E o \in Obs, v \in Acquisitions \cup {0} : queue[1] = Set(o, v)
    BY <2>2, EventParts
  <2>4. PICK w : w = work'[p]
    OBVIOUS
  <2>5. SetHand(w)'
    BY <1>4, <2>1, <2>3, <2>4 DEF SetHand
  <2>6. scanning' \in Acquisitions \cup {0} /\ generation' \in Nat /\ power' \in BOOLEAN /\ (scanning' # 0 => power')
    BY <1>1, <1>4 DEF Orderly
  <2>7. QED BY <2>1, <2>2, <2>4, <2>5, <2>6, AloneInOrder
<1>5. QED BY <1>2, <1>3, <1>4

LEMMA SetScanningStep ==
  ASSUME Orderly, NEW p \in Procs, SetScanning(p)
  PROVE  Orderly'
<1>1. SetHand(work[p]) /\ work[p].todo = <<>>
  BY PcTells DEF SetScanning
<1>2. scanning' = work[p].ev.value /\ UNCHANGED <<generation, power, timers, queue>> /\ Go(p, "advance")
  BY DEF SetScanning
<1>3. TokensAreOld'
  BY <1>2, TokensStay
<1>4. Changes(p) /\ Whole(work'[p]) /\ work'[p].pc = "advance" /\ work'[p].ev = work[p].ev /\ work'[p].todo = <<>>
  BY <1>1, <1>2, Goes
<1>5. PICK o \in Obs, v \in Acquisitions \cup {0} : work[p].ev = Set(o, v)
  BY <1>1 DEF SetHand
<1>6. work[p].ev.value = v
  BY <1>5 DEF Set
<1>7. scanning' \in Acquisitions \cup {0} /\ power' = power /\ power
  BY <1>1, <1>2, <1>6 DEF SetHand
<1>8. PICK w : w = work'[p]
  OBVIOUS
<1>9. SetHand(w)'
  BY <1>4, <1>5, <1>7, <1>8 DEF SetHand
<1>10. \A q \in Procs : q # p => work[q] = Idle
  BY <1>1, OthersIdle
<1>11. generation' \in Nat /\ power' \in BOOLEAN
  BY <1>2 DEF Orderly
<1>12. QED BY <1>3, <1>4, <1>7, <1>8, <1>9, <1>10, <1>11, AloneInOrder

LEMMA AdvanceStep ==
  ASSUME Orderly, NEW p \in Procs, Advance(p)
  PROVE  Orderly'
<1>1. SetHand(work[p]) \/ LinkHand(work[p])
  BY PcTells DEF Advance
<1>2. generation' = generation + 1 /\ generation \in Nat /\ UNCHANGED <<scanning, power, timers, queue>>
  BY DEF Advance, device, Orderly
<1>3. TokensAreOld' /\ Fresh'
  <2>1. timers \subseteq AnyToken /\ IsFiniteSet(timers) /\ queue \in Seq(AnyEvent)
    BY DEF Orderly, TokensAreOld
  <2>2. \A t \in timers : t.gen \in Nat /\ t.gen <= generation
    BY <2>1 DEF Orderly, TokensAreOld, AnyToken
  <2>3. \A i \in 1..Len(queue) : queue[i].kind = "sample" =>
          queue[i].token.gen \in Nat /\ queue[i].token.gen <= generation
    <3>1. \A i \in 1..Len(queue) : queue[i].kind = "sample" => queue[i].token \in AnyToken
      BY QueueParts, EventParts DEF Orderly
    <3>2. QED BY <3>1 DEF Orderly, TokensAreOld, AnyToken
  <2>4. QED BY <1>2, <2>1, <2>2, <2>3 DEF TokensAreOld, Fresh
<1>4. DOMAIN work = Procs /\ Whole(work[p])
  BY DEF Orderly, Hands
<1>5. work' = [work EXCEPT ![p].gen = generation',
                           ![p].pc = IF work[p].ev.kind = "set" THEN "decide" ELSE "off"]
  BY DEF Advance
<1>6. Changes(p)
  BY <1>4, <1>5 DEF Changes
<1>7. work'[p] = [work[p] EXCEPT !.gen = generation', !.pc = IF work[p].ev.kind = "set" THEN "decide" ELSE "off"]
  BY <1>4, <1>5
<1>8. /\ work'[p].pc = (IF work[p].ev.kind = "set" THEN "decide" ELSE "off")
      /\ work'[p].ev = work[p].ev /\ work'[p].todo = work[p].todo /\ work'[p].gen = generation'
  BY <1>4, <1>7 DEF Whole
<1>9. Whole(work'[p])
  BY <1>4, <1>7 DEF Whole
<1>10. PICK w : w = work'[p]
  OBVIOUS
<1>11. work[p].pc = "advance"
  BY DEF Advance
<1>12. SetHand(w)' \/ LinkHand(w)'
  <2>1. CASE SetHand(work[p])
    <3>1. work[p].ev.kind = "set"
      BY <2>1, HandParts
    <3>2. work[p].todo = <<>> /\ power /\ \E o \in Obs, v \in Acquisitions \cup {0} : work[p].ev = Set(o, v)
      BY <1>11, <2>1 DEF SetHand
    <3>3. SetHand(w)'
      BY <3>1, <3>2, <1>2, <1>3, <1>8, <1>10 DEF SetHand
    <3>4. QED BY <3>3
  <2>2. CASE LinkHand(work[p])
    <3>1. work[p].ev.kind # "set"
      BY <2>2, HandParts
    <3>2. scanning = 0 /\ work[p].todo = <<>> /\ work[p].ev \in {Link("disconnected", l) : l \in Links} \cup {Retry}
      BY <1>11, <2>2 DEF LinkHand
    <3>3. LinkHand(w)'
      BY <3>1, <3>2, <1>2, <1>8, <1>10 DEF LinkHand
    <3>4. QED BY <3>3
  <2>3. QED BY <1>1, <2>1, <2>2
<1>13. w.pc \notin {"idle", "idling", "perform", "start"}
  BY <1>8, <1>10
<1>14. \A q \in Procs : q # p => work[q] = Idle
  BY <1>1, OthersIdle
<1>15. scanning' \in Acquisitions \cup {0} /\ generation' \in Nat /\ power' \in BOOLEAN /\ (scanning' # 0 => power')
  BY <1>2 DEF Orderly
<1>16. QED BY <1>3, <1>6, <1>9, <1>10, <1>12, <1>13, <1>14, <1>15, AloneInOrder

\* The order in which the timers of a finite heap are stopped.
LEMMA InSomeOrder ==
  ASSUME NEW S, IsFiniteSet(S)
  PROVE  SetToSeq(S) \in Seq(S)
<1>1. Cardinality(S) \in Nat
  BY FS_CardinalityType
<1>2. \E f : f \in Bijection(1..Cardinality(S), S)
  BY FS_CardinalityType, FS_NatBijection DEF ExistsBijection
<1>3. PICK f : f \in Bijection(1..Cardinality(S), S)
  BY <1>2
<1>4. f \in [1..Cardinality(S) -> S] /\ IsInjective(f)
  BY <1>3 DEF Bijection, Injection, Surjection, IsInjective
<1>5. SetToSeq(S) \in [1..Cardinality(S) -> S]
  BY <1>4 DEF SetToSeq
<1>6. QED BY <1>1, <1>5

LEMMA DecideStep ==
  ASSUME Orderly, NEW p \in Procs, Decide(p)
  PROVE  Orderly'
<1>1. SetHand(work[p]) /\ work[p].todo = <<>> /\ work[p].pc = "decide"
  BY PcTells DEF Decide
<1>2. UNCHANGED <<scanning, generation, power, timers, queue>>
  BY DEF Decide, device
<1>3. power /\ work[p].gen = generation /\ Fresh
      /\ \E o \in Obs, v \in Acquisitions \cup {0} : work[p].ev = Set(o, v)
  BY <1>1 DEF SetHand
<1>4. TokensAreOld'
  BY <1>2, TokensStay
<1>5. \A q \in Procs : q # p => work[q] = Idle
  BY <1>1, OthersIdle
<1>6. scanning' \in Acquisitions \cup {0} /\ generation' \in Nat /\ power' \in BOOLEAN /\ (scanning' # 0 => power')
  BY <1>2 DEF Orderly
<1>7. PICK w : w = work'[p]
  OBVIOUS
<1>8. CASE scanning # 0
  <2>1. [s \in Streams |-> [stream |-> s, gen |-> work[p].gen]] = <<Now(1), Now(2)>>
    BY <1>3 DEF Streams, Now
  <2>2. Left(p, <<Now(1), Now(2)>>)
    BY <1>8, <2>1 DEF Decide
  <2>3. <<Now(1), Now(2)>> # <<>>
    BY Pairs
  <2>4. Changes(p) /\ Whole(work'[p]) /\ work'[p].pc = "perform" /\ work'[p].ev = work[p].ev
        /\ work'[p].todo = <<Now(1), Now(2)>>
    BY <2>2, <2>3, Leaves
  <2>5. Now(1)' = Now(1) /\ Now(2)' = Now(2)
    BY <1>2 DEF Now
  <2>6. SetHand(w)'
    BY <1>2, <1>3, <1>7, <1>8, <2>4, <2>5 DEF SetHand
  <2>7. ASSUME NEW s \in Streams
        PROVE  OnlyOne(Now(s))'
    <3>1. PICK t : t = Now(s)
      OBVIOUS
    <3>2. Now(s)' = t
      BY <3>1, <1>2 DEF Now
    <3>3. t.gen = generation
      BY <3>1 DEF Now
    <3>4. t \notin timers' /\ \A i \in 1..Len(queue') : queue'[i] # Sample(t)
      BY <1>2, <1>3, <3>3, Samples DEF Fresh
    <3>5. w.ev.kind = "set"
      BY <1>1, <1>7, <2>4, HandParts
    <3>6. Range(w.todo) = {Now(1), Now(2)}
      <4>1. Range(<<Now(1), Now(2)>>) = {Now(1), Now(2)}
        BY Pairs
      <4>2. QED BY <4>1, <1>7, <2>4, Zenon
    <3>7. Holds(w, t)
      BY <3>1, <3>6 DEF Holds, Streams
    <3>8. Reading(p, t)' /\ \A q \in Procs : q # p => ~Reading(q, t)'
      <4>1. Reading(p, t)'
        BY <3>7, <1>7, <2>4, OwnHand
      <4>2. \A q \in Procs : q # p => ~Reading(q, t)
        BY <1>5, Held DEF Reading, Holds
      <4>3. \A q \in Procs : q # p => (Reading(q, t)' <=> Reading(q, t))
        BY <1>7, <2>4, OwnHand
      <4>4. QED BY <4>1, <4>2, <4>3
    <3>9. OnlyOne(t)'
      BY <3>4, <3>8 DEF OnlyOne, InTimers, InQueue, InHand
    <3>10. QED BY <3>2, <3>9 DEF OnlyOne, InTimers, InQueue, InHand, Reading
  <2>8. QED BY <1>4, <1>5, <1>6, <1>7, <2>4, <2>6, <2>7, AloneInOrder
<1>9. CASE scanning = 0
  <2> DEFINE S == {[stream |-> t.stream, gen |-> Stop] : t \in timers}
  <2>1. IsFiniteSet(timers) /\ timers \subseteq AnyToken
    BY DEF Orderly, TokensAreOld
  <2>2. IsFiniteSet(S)
    <3>1. PICK f : f = [t \in timers |-> [stream |-> t.stream, gen |-> Stop]]
      OBVIOUS
    <3>2. f \in Surjection(timers, S)
      BY <3>1 DEF Surjection
    <3>3. HIDE DEF S
    <3>4. QED BY <2>1, <3>2, FS_Surjection
  <2>3. S \subseteq StopToken
    BY <2>1 DEF AnyToken, StopToken
  <2>4. PICK d : d = SetToSeq(S)
    OBVIOUS
  <2>5. d \in Seq(StopToken)
    <3>1. HIDE DEF S
    <3>2. d \in Seq(S)
      BY <2>2, <2>4, InSomeOrder
    <3>3. QED BY <2>3, <3>2
  <2>6. Left(p, d)
    BY <1>9, <2>4 DEF Decide
  <2>7. CASE d = <<>>
    <3>1. Changes(p) /\ work'[p] = Idle /\ Whole(Idle)
      BY <2>6, <2>7, Leaves DEF Whole, Idle
    <3>2. QED BY <1>2, <1>4, <1>5, <1>6, <1>7, <1>9, <3>1, AloneInOrder
  <2>8. CASE d # <<>>
    <3>1. Changes(p) /\ Whole(work'[p]) /\ work'[p].pc = "perform" /\ work'[p].ev = work[p].ev /\ work'[p].todo = d
      BY <2>6, <2>8, Leaves
    <3>2. SetHand(w)'
      BY <1>2, <1>3, <1>7, <1>9, <2>5, <2>8, <3>1 DEF SetHand
    <3>3. QED BY <1>2, <1>4, <1>5, <1>6, <1>7, <1>9, <3>1, <3>2, AloneInOrder
  <2>9. QED BY <2>7, <2>8
<1>10. QED BY <1>8, <1>9, <1>2 DEF Orderly
-----------------------------------------------------------------------------
(* performActions *)

\* What is at the head of a todo list, and what is left of it.
LEMMA TodoParts ==
  ASSUME Orderly, NEW p \in Procs, work[p].pc \in {"perform", "start"}
  PROVE  \/ /\ SampleHand(work[p]) /\ Head(work[p].todo) = work[p].ev.token
            /\ work[p].todo = <<work[p].ev.token>>
            /\ Head(work[p].todo).gen = generation /\ Tail(work[p].todo) = <<>>
         \/ /\ SetHand(work[p]) /\ scanning # 0
            /\ Head(work[p].todo) \in {Now(1), Now(2)} /\ Head(work[p].todo).gen = generation
            /\ \/ Head(work[p].todo) = Now(1) /\ Tail(work[p].todo) = <<Now(2)>> /\ work[p].todo = <<Now(1), Now(2)>>
               \/ Head(work[p].todo) = Now(2) /\ Tail(work[p].todo) = <<>> /\ work[p].todo = <<Now(2)>>
         \/ /\ SetHand(work[p]) /\ scanning = 0 /\ work[p].pc = "perform"
            /\ Head(work[p].todo).gen = Stop /\ Tail(work[p].todo) \in Seq(StopToken)
<1>1. CASE SampleHand(work[p])
  <2>1. work[p].todo = <<work[p].ev.token>> /\ work[p].ev.token.gen = generation
    BY <1>1, SampleParts DEF SampleHand
  <2>2. Head(<<work[p].ev.token>>) = work[p].ev.token /\ Tail(<<work[p].ev.token>>) = <<>>
    BY Pairs
  <2>3. Head(work[p].todo) = work[p].ev.token /\ Tail(work[p].todo) = <<>>
    BY <2>1, <2>2, Zenon
  <2>4. QED BY <1>1, <2>1, <2>3
<1>2. CASE SetHand(work[p])
  <2>1. Now(1).gen = generation /\ Now(2).gen = generation
    BY DEF Now
  <2>2. CASE scanning # 0 /\ work[p].todo = <<Now(1), Now(2)>>
    <3>1. Head(<<Now(1), Now(2)>>) = Now(1) /\ Tail(<<Now(1), Now(2)>>) = <<Now(2)>>
      BY Pairs
    <3>2. Head(work[p].todo) = Now(1) /\ Tail(work[p].todo) = <<Now(2)>>
      BY <3>1, <2>2, Zenon
    <3>3. QED BY <1>2, <2>1, <2>2, <3>2
  <2>3. CASE scanning # 0 /\ work[p].todo = <<Now(2)>>
    <3>1. Head(<<Now(2)>>) = Now(2) /\ Tail(<<Now(2)>>) = <<>>
      BY Pairs
    <3>2. Head(work[p].todo) = Now(2) /\ Tail(work[p].todo) = <<>>
      BY <3>1, <2>3, Zenon
    <3>3. QED BY <1>2, <2>1, <2>3, <3>2
  <2>4. CASE scanning = 0 /\ work[p].pc = "perform" /\ work[p].todo \in Seq(StopToken) /\ work[p].todo # <<>>
    <3>1. Head(work[p].todo) \in StopToken /\ Tail(work[p].todo) \in Seq(StopToken)
      BY <2>4
    <3>2. QED BY <1>2, <2>4, <3>1 DEF StopToken
  <2>5. QED BY <1>2, <2>2, <2>3, <2>4 DEF SetHand
<1>3. QED BY <1>1, <1>2, PcTells

LEMMA FewerTimers ==
  ASSUME Orderly, timers' \subseteq timers, UNCHANGED <<queue, generation>>
  PROVE  TokensAreOld' /\ (Fresh => Fresh')
<1>1. IsFiniteSet(timers')
  BY FS_Subset DEF Orderly, TokensAreOld
<1>2. QED BY <1>1 DEF Orderly, TokensAreOld, Fresh

LEMMA CancelTimersStep ==
  ASSUME Orderly, NEW p \in Procs, CancelTimers(p)
  PROVE  Orderly'
<1>1. /\ work[p].pc = "perform"
      /\ timers' = {t \in timers : t.stream # Head(work[p].todo).stream}
      /\ UNCHANGED <<scanning, generation, power, queue>>
  BY DEF CancelTimers, device
<1>2. TokensAreOld' /\ (Fresh => Fresh')
  BY <1>1, FewerTimers
<1>3. Stop # generation
  BY DEF Stop, Orderly
<1>4. scanning' \in Acquisitions \cup {0} /\ generation' \in Nat /\ power' \in BOOLEAN /\ (scanning' # 0 => power')
  BY <1>1 DEF Orderly
<1>5. PICK w : w = work'[p]
  OBVIOUS
<1>6. CASE SampleHand(work[p])
  <2>1. /\ Head(work[p].todo) = work[p].ev.token /\ work[p].todo = <<work[p].ev.token>>
        /\ work[p].ev.token.gen = generation
    BY <1>1, <1>6, TodoParts, HandParts
  <2>2. Go(p, "start")
    BY <2>1, <1>3 DEF CancelTimers
  <2>3. /\ Changes(p) /\ Whole(work'[p]) /\ work'[p].pc = "start"
        /\ work'[p].ev = work[p].ev /\ work'[p].todo = <<work[p].ev.token>>
    BY <2>1, <2>2, Goes
  <2>4. \A q \in Procs : ~Control(q)
    BY <1>6, NobodyControls
  <2>5. CASE scanning = 0
    <3>1. SampleHand(w)
      BY <1>5, <1>6, <2>3 DEF SampleHand
    <3>2. QED BY <1>1, <1>2, <1>5, <2>3, <2>4, <2>5, <3>1, ReaderInOrder
  <2>6. CASE scanning # 0
    <3>1. \A s \in Streams : OnlyOne(Now(s))
      BY <2>4, <2>6 DEF Orderly, Undisturbed
    <3>2. ASSUME NEW s \in Streams
          PROVE  Now(s) \in timers' <=> Now(s) \in timers
      <4>1. CASE Now(s).stream # Head(work[p].todo).stream
        BY <1>1, <4>1
      <4>2. CASE Now(s).stream = Head(work[p].todo).stream
        <5>1. Now(s) = work[p].ev.token
          BY <1>6, <2>1, <4>2, SampleParts DEF Now
        <5>2. Reading(p, Now(s))
          BY <1>6, <5>1, SampleParts DEF Reading
        <5>3. ~InTimers(Now(s))
          BY <3>1, <5>2 DEF OnlyOne, InHand
        <5>4. QED BY <1>1, <5>3 DEF InTimers
      <4>3. QED BY <4>1, <4>2
    <3>3. QED BY <1>1, <1>2, <1>6, <2>3, <3>2, KeepsReading
  <2>7. QED BY <2>5, <2>6, <1>1 DEF Orderly
<1>7. CASE SetHand(work[p]) /\ scanning # 0
  <2>1. /\ Head(work[p].todo) \in {Now(1), Now(2)} /\ Head(work[p].todo).gen = generation
        /\ work[p].todo \in {<<Now(1), Now(2)>>, <<Now(2)>>}
    BY <1>1, <1>7, TodoParts, HandParts
  <2>2. Go(p, "start")
    BY <2>1, <1>3 DEF CancelTimers
  <2>3. /\ Changes(p) /\ Whole(work'[p]) /\ work'[p].pc = "start"
        /\ work'[p].ev = work[p].ev /\ work'[p].todo = work[p].todo
    BY <2>2, Goes
  <2>4. \A q \in Procs : q # p => work[q] = Idle
    BY <1>7, OthersIdle
  <2>5. Now(1)' = Now(1) /\ Now(2)' = Now(2)
    BY <1>1 DEF Now
  <2>6. SetHand(w)'
    <3>1. power /\ \E o \in Obs, v \in Acquisitions \cup {0} : work[p].ev = Set(o, v)
      BY <1>7 DEF SetHand
    <3>2. QED BY <1>1, <1>5, <1>7, <2>1, <2>3, <2>5, <3>1 DEF SetHand
  <2>7. Undisturbed
    BY <1>1, <2>4 DEF Undisturbed, Control, Idle, None
  <2>8. \A s \in Streams : OnlyOne(Now(s))
    BY <1>7, <2>7 DEF Orderly
  <2>9. ASSUME NEW s \in Streams
        PROVE  OnlyOne(Now(s))'
    <3>1. Now(s) \in timers' <=> Now(s) \in timers
      <4>1. CASE Now(s).stream # Head(work[p].todo).stream
        BY <1>1, <4>1
      <4>2. CASE Now(s).stream = Head(work[p].todo).stream
        <5>1. Now(s) = Head(work[p].todo)
          BY <2>1, <4>2 DEF Now
        <5>2. Now(s) \in Range(work[p].todo)
          <6>1. Range(<<Now(1), Now(2)>>) = {Now(1), Now(2)} /\ Range(<<Now(2)>>) = {Now(2)}
            BY Pairs
          <6>2. Head(<<Now(1), Now(2)>>) = Now(1) /\ Head(<<Now(2)>>) = Now(2)
            BY Pairs
          <6>3. CASE work[p].todo = <<Now(1), Now(2)>>
            <7>1. Range(work[p].todo) = {Now(1), Now(2)}
              BY <6>1, <6>3, Zenon
            <7>2. QED BY <7>1, <2>1, <5>1
          <6>4. CASE work[p].todo = <<Now(2)>>
            <7>1. Range(work[p].todo) = {Now(2)}
              BY <6>1, <6>4, Zenon
            <7>2. Head(work[p].todo) = Now(2)
              BY <6>2, <6>4, Zenon
            <7>3. QED BY <7>1, <7>2, <5>1
          <6>5. QED BY <2>1, <6>3, <6>4
        <5>3. ~InTimers(Now(s))
          BY <2>8, <5>2 DEF OnlyOne, InHand, Reading
        <5>4. QED BY <1>1, <5>3 DEF InTimers
      <4>3. QED BY <4>1, <4>2
    <3>2. \A t : Holds(work'[p], t) <=> Holds(work[p], t)
      BY <2>3 DEF Holds
    <3>3. QED BY <1>1, <2>3, <2>8, <3>1, <3>2, NothingHanded
  <2>10. QED BY <1>2, <1>4, <1>5, <2>3, <2>4, <2>6, <2>9, AloneInOrder
<1>8. CASE SetHand(work[p]) /\ scanning = 0
  <2>1. Head(work[p].todo).gen = Stop /\ Tail(work[p].todo) \in Seq(StopToken)
    BY <1>1, <1>8, TodoParts, HandParts
  <2>2. PICK d : d = Tail(work[p].todo)
    OBVIOUS
  <2>3. Left(p, d)
    BY <2>1, <2>2 DEF CancelTimers
  <2>4. \A q \in Procs : q # p => work[q] = Idle
    BY <1>8, OthersIdle
  <2>5. CASE d = <<>>
    <3>1. Changes(p) /\ work'[p] = Idle /\ Whole(Idle)
      BY <2>3, <2>5, Leaves DEF Whole, Idle
    <3>2. QED BY <1>1, <1>2, <1>4, <1>5, <1>8, <2>4, <3>1, AloneInOrder
  <2>6. CASE d # <<>>
    <3>1. Changes(p) /\ Whole(work'[p]) /\ work'[p].pc = "perform" /\ work'[p].ev = work[p].ev /\ work'[p].todo = d
      BY <2>3, <2>6, Leaves
    <3>2. power /\ \E o \in Obs, v \in Acquisitions \cup {0} : work[p].ev = Set(o, v)
      BY <1>8 DEF SetHand
    <3>3. SetHand(w)'
      BY <1>1, <1>5, <1>8, <2>1, <2>2, <2>6, <3>1, <3>2 DEF SetHand
    <3>4. QED BY <1>1, <1>2, <1>4, <1>5, <1>8, <2>4, <3>1, <3>3, AloneInOrder
  <2>7. QED BY <2>5, <2>6
<1>9. QED BY <1>1, <1>6, <1>7, <1>8, PcTells
\* A token goes from a hand to the heap of the timers.
LEMMA HandedBack ==
  ASSUME Orderly, NEW p \in Procs, Changes(p), NEW u,
         Holds(work[p], u), \A t : Holds(work'[p], t) <=> (Holds(work[p], t) /\ t # u),
         timers' = timers \cup {u}, UNCHANGED <<queue, generation>>,
         NEW s \in Streams, OnlyOne(Now(s))
  PROVE  OnlyOne(Now(s))'
<1>1. PICK t : t = Now(s)
  OBVIOUS
<1>2. Now(s)' = t
  BY <1>1 DEF Now
<1>3. PICK w : w = work'[p]
  OBVIOUS
<1>4. OnlyOne(t)
  BY <1>1
<1>5. /\ InQueue(t)' <=> InQueue(t)
      /\ \A i, j \in 1..Len(queue') : queue'[i] = Sample(t) /\ queue'[j] = Sample(t) => i = j
  BY <1>4, SameQueue
<1>6. /\ \A q \in Procs : q # p => (Reading(q, t)' <=> Reading(q, t))
      /\ Reading(p, t) <=> Holds(work[p], t)
      /\ Reading(p, t)' <=> (Reading(p, t) /\ t # u)
  BY <1>3, OwnHand
<1>7. CASE t = u
  <2>1. Reading(p, t)
    BY <1>6, <1>7
  <2>2. ~InTimers(t) /\ ~InQueue(t) /\ \A q \in Procs : Reading(q, t) => q = p
    BY <1>4, <2>1 DEF OnlyOne, InHand
  <2>3. InTimers(t)' /\ ~InQueue(t)'
    BY <2>2, <1>5, <1>7 DEF InTimers
  <2>4. \A q \in Procs : ~Reading(q, t)'
    BY <2>2, <1>6, <1>7
  <2>5. OnlyOne(t)'
    BY <2>3, <2>4, <1>5 DEF OnlyOne, InHand
  <2>6. QED BY <1>2, <2>5 DEF OnlyOne, InTimers, InQueue, InHand, Reading
<1>8. CASE t # u
  <2>1. \A q \in Procs : Reading(q, t)' <=> Reading(q, t)
    BY <1>6, <1>8
  <2>2. InTimers(t)' <=> InTimers(t)
    BY <1>8 DEF InTimers
  <2>3. OnlyOne(t)'
    BY <1>4, <1>5, <2>1, <2>2, SamePlaces
  <2>4. QED BY <1>2, <2>3 DEF OnlyOne, InTimers, InQueue, InHand, Reading
<1>9. QED BY <1>7, <1>8

LEMMA OneMoreTimer ==
  ASSUME Orderly, NEW u \in AnyToken, u.gen = generation, timers' = timers \cup {u},
         UNCHANGED <<queue, generation>>
  PROVE  TokensAreOld'
<1>1. IsFiniteSet(timers')
  BY FS_AddElement DEF Orderly, TokensAreOld
<1>2. generation \in Nat
  BY DEF Orderly
<1>3. QED BY <1>1, <1>2 DEF Orderly, TokensAreOld

LEMMA StartTimerStep ==
  ASSUME Orderly, NEW p \in Procs, StartTimer(p)
  PROVE  Orderly'
<1>1. /\ work[p].pc = "start"
      /\ timers' = timers \cup {Head(work[p].todo)}
      /\ UNCHANGED <<scanning, generation, power, queue>>
      /\ Left(p, Tail(work[p].todo))
  BY DEF StartTimer, device
<1>2. PICK u : u = Head(work[p].todo)
  OBVIOUS
<1>3. scanning' \in Acquisitions \cup {0} /\ generation' \in Nat /\ power' \in BOOLEAN /\ (scanning' # 0 => power')
  BY <1>1 DEF Orderly
<1>4. Range(<<>>) = {}
  BY Pairs
<1>5. CASE SampleHand(work[p])
  <2>1. u = work[p].ev.token /\ u.gen = generation /\ Tail(work[p].todo) = <<>>
    BY <1>1, <1>2, <1>5, TodoParts, HandParts
  <2>2. u \in AnyToken
    BY <1>5, <2>1, SampleParts
  <2>3. TokensAreOld'
    BY <1>1, <1>2, <2>1, <2>2, OneMoreTimer
  <2>4. Changes(p) /\ work'[p] = Idle /\ Whole(Idle)
    BY <1>1, <2>1, Leaves DEF Whole, Idle
  <2>5. \A t : Holds(work[p], t) <=> t = u
    BY <1>5, <2>1, SampleParts, Held
  <2>6. \A t : ~Holds(work'[p], t)
    BY <2>4, Held
  <2>7. \A s \in Streams : OnlyOne(Now(s)) => OnlyOne(Now(s))'
    BY <1>1, <1>2, <2>4, <2>5, <2>6, HandedBack
  <2>8. \A q \in Procs : ~Control(q)
    BY <1>5, NobodyControls
  <2>9. PICK w : w = Idle
    OBVIOUS
  <2>10. QED BY <1>1, <2>3, <2>4, <2>7, <2>8, <2>9, ReaderInOrder
<1>6. CASE SetHand(work[p])
  <2>1. /\ u \in {Now(1), Now(2)} /\ u.gen = generation /\ scanning # 0
        /\ \/ u = Now(1) /\ Tail(work[p].todo) = <<Now(2)>> /\ work[p].todo = <<Now(1), Now(2)>>
           \/ u = Now(2) /\ Tail(work[p].todo) = <<>> /\ work[p].todo = <<Now(2)>>
    BY <1>1, <1>2, <1>6, TodoParts, HandParts
  <2>2. u \in AnyToken /\ Now(1) # Now(2)
    BY <2>1 DEF AnyToken, Now, Streams, Orderly
  <2>3. TokensAreOld'
    BY <1>1, <1>2, <2>1, <2>2, OneMoreTimer
  <2>4. Changes(p)
    BY <1>1, Leaves
  <2>5. \A q \in Procs : q # p => work[q] = Idle
    BY <1>6, OthersIdle
  <2>6. work[p].ev.kind = "set"
    BY <1>6, HandParts
  <2>7. /\ Range(<<Now(1), Now(2)>>) = {Now(1), Now(2)} /\ Range(<<Now(2)>>) = {Now(2)}
        /\ <<Now(2)>> # <<>>
    BY Pairs
  <2>8. /\ work'[p] = Idle \/ SetHand(work[p])'
        /\ Whole(work'[p])
        /\ \A t : Holds(work'[p], t) <=> (Holds(work[p], t) /\ t # u)
        /\ Holds(work[p], u)
    <3>1. CASE u = Now(1) /\ Tail(work[p].todo) = <<Now(2)>> /\ work[p].todo = <<Now(1), Now(2)>>
      <4>1. PICK d : d = <<Now(2)>>
        OBVIOUS
      <4>2. d # <<>> /\ Left(p, d) /\ Range(d) = {Now(2)}
        BY <4>1, <3>1, <2>7, <1>1, Zenon
      <4>3. Whole(work'[p]) /\ work'[p].pc = "perform" /\ work'[p].ev = work[p].ev /\ work'[p].todo = d
        BY <4>2, Leaves
      <4>4. power /\ \E o \in Obs, v \in Acquisitions \cup {0} : work[p].ev = Set(o, v)
        BY <1>6 DEF SetHand
      <4>5. Now(2)' = Now(2)
        BY <1>1 DEF Now
      <4>6. SetHand(work[p])'
        BY <1>1, <2>1, <4>1, <4>3, <4>4, <4>5 DEF SetHand
      <4>7. Range(work[p].todo) = {Now(1), Now(2)}
        BY <3>1, <2>7, Zenon
      <4>8. \A t : Holds(work[p], t) <=> t \in {Now(1), Now(2)}
        BY <4>7, <2>6, Held
      <4>9. \A t : Holds(work'[p], t) <=> t = Now(2)
        BY <4>2, <4>3, <2>6, Held
      <4>10. QED BY <4>3, <4>6, <4>8, <4>9, <3>1, <2>2
    <3>2. CASE u = Now(2) /\ Tail(work[p].todo) = <<>> /\ work[p].todo = <<Now(2)>>
      <4>1. work'[p] = Idle /\ Whole(Idle)
        BY <1>1, <3>2, Leaves DEF Whole, Idle
      <4>2. Range(work[p].todo) = {Now(2)}
        BY <3>2, <2>7, Zenon
      <4>3. \A t : Holds(work[p], t) <=> t = Now(2)
        BY <4>2, <2>6, Held
      <4>4. \A t : ~Holds(work'[p], t)
        BY <4>1, Held
      <4>5. QED BY <4>1, <4>3, <4>4, <3>2
    <3>3. QED BY <2>1, <3>1, <3>2
  <2>9. Undisturbed
    BY <1>1, <2>5 DEF Undisturbed, Control, Idle, None
  <2>10. \A s \in Streams : OnlyOne(Now(s))
    BY <2>1, <2>9 DEF Orderly
  <2>11. \A s \in Streams : OnlyOne(Now(s))'
    BY <1>1, <1>2, <2>4, <2>8, <2>10, HandedBack
  <2>12. PICK w : w = work'[p]
    OBVIOUS
  <2>13. w = Idle \/ SetHand(w)'
    BY <2>8, <2>12 DEF SetHand
  <2>14. QED BY <1>3, <2>3, <2>4, <2>5, <2>8, <2>11, <2>12, <2>13, AloneInOrder
<1>7. QED BY <1>1, <1>5, <1>6, PcTells
-----------------------------------------------------------------------------
(* The surroundings *)

LEMMA TimerFiresStep ==
  ASSUME Orderly, NEW u \in timers, TimerFires(u)
  PROVE  Orderly'
<1>1. /\ timers' = timers \ {u} /\ queue' = Append(queue, Sample(u))
      /\ UNCHANGED <<scanning, generation, power, work>>
  BY DEF TimerFires, device
<1>2. u \in AnyToken /\ u.gen <= generation /\ queue \in Seq(AnyEvent)
  BY DEF Orderly, TokensAreOld
<1>3. Sample(u) \in AnyEvent /\ Sample(u).kind = "sample" /\ Sample(u).token = u
  BY <1>2, Samples DEF AnyEvent
<1>4. /\ queue' \in Seq(AnyEvent) /\ Len(queue) + 1 \in 1..Len(queue') /\ queue'[Len(queue) + 1] = Sample(u)
      /\ \A i \in 1..Len(queue) : queue'[i] = queue[i] /\ i \in 1..Len(queue')
      /\ \A i \in 1..Len(queue') : i \in 1..Len(queue) \/ i = Len(queue) + 1
      /\ Len(queue) \in Nat
  BY <1>1, <1>2, <1>3, Appended
<1>5. TokensAreOld'
  <2>1. IsFiniteSet(timers') /\ timers' \subseteq timers
    BY <1>1, FS_Subset DEF Orderly, TokensAreOld
  <2>2. \A i \in 1..Len(queue') : queue'[i].kind = "sample" => queue'[i].token.gen <= generation
    BY <1>2, <1>3, <1>4 DEF Orderly, TokensAreOld
  <2>3. QED BY <1>1, <1>4, <2>1, <2>2 DEF Orderly, TokensAreOld
<1>6. Fresh => Fresh'
  BY <1>1, <1>3, <1>4 DEF Fresh
<1>7. ASSUME NEW s \in Streams, OnlyOne(Now(s))
      PROVE  OnlyOne(Now(s))'
  <2>1. PICK t : t = Now(s)
    OBVIOUS
  <2>2. Now(s)' = t
    BY <2>1, <1>1 DEF Now
  <2>3. OnlyOne(t)
    BY <1>7, <2>1
  <2>4. \A q \in Procs : Reading(q, t)' <=> Reading(q, t)
    BY <1>1 DEF Reading
  <2>5. CASE t = u
    <3>1. ~InQueue(t) /\ ~InHand(t)
      BY <2>3, <2>5 DEF OnlyOne, InTimers
    <3>2. ~InTimers(t)' /\ InQueue(t)'
      BY <1>1, <1>4, <2>5 DEF InTimers, InQueue
    <3>3. ~InHand(t)'
      BY <3>1, <2>4 DEF InHand
    <3>4. \A i \in 1..Len(queue') : queue'[i] = Sample(t) => i = Len(queue) + 1
      BY <3>1, <1>4 DEF InQueue
    <3>5. OnlyOne(t)'
      BY <3>2, <3>3, <3>4 DEF OnlyOne, InHand
    <3>6. QED BY <2>2, <3>5 DEF OnlyOne, InTimers, InQueue, InHand, Reading
  <2>6. CASE t # u
    <3>1. Sample(u) # Sample(t)
      BY <2>6, Samples
    <3>2. /\ InQueue(t)' <=> InQueue(t)
          /\ \A i, j \in 1..Len(queue') : queue'[i] = Sample(t) /\ queue'[j] = Sample(t) => i = j
      BY <1>1, <1>3, <2>3, <3>1, LastIsOther
    <3>3. InTimers(t)' <=> InTimers(t)
      BY <1>1, <2>6 DEF InTimers
    <3>4. OnlyOne(t)'
      BY <2>3, <2>4, <3>2, <3>3, SamePlaces
    <3>5. QED BY <2>2, <3>4 DEF OnlyOne, InTimers, InQueue, InHand, Reading
  <2>7. QED BY <2>5, <2>6
<1>8. QED BY <1>1, <1>5, <1>6, <1>7, QuietInOrder

LEMMA OtherEventComes ==
  ASSUME Orderly, NEW e \in AnyEvent, e.kind # "sample", queue' = Append(queue, e),
         UNCHANGED <<scanning, generation, power, timers, work>>
  PROVE  Orderly'
<1>1. TokensAreOld' /\ (Fresh => Fresh')
  BY LongerQueue
<1>2. ASSUME NEW s \in Streams, OnlyOne(Now(s))
      PROVE  OnlyOne(Now(s))'
  <2>1. PICK t : t = Now(s)
    OBVIOUS
  <2>2. Now(s)' = t
    BY <2>1 DEF Now
  <2>3. OnlyOne(t)
    BY <1>2, <2>1
  <2>4. \A q \in Procs : Reading(q, t)' <=> Reading(q, t)
    BY DEF Reading
  <2>5. e # Sample(t)
    BY Samples
  <2>6. /\ InQueue(t)' <=> InQueue(t)
        /\ \A i, j \in 1..Len(queue') : queue'[i] = Sample(t) /\ queue'[j] = Sample(t) => i = j
    BY <2>3, <2>5, LastIsOther
  <2>7. InTimers(t)' <=> InTimers(t)
    BY DEF InTimers
  <2>8. OnlyOne(t)'
    BY <2>3, <2>4, <2>6, <2>7, SamePlaces
  <2>9. QED BY <2>2, <2>8 DEF OnlyOne, InTimers, InQueue, InHand, Reading
<1>3. QED BY <1>1, <1>2, QuietInOrder

LEMMA SurroundingsStep ==
  ASSUME Orderly, TmRequests \/ RetryFires \/ \E l \in Links : Connects(l) \/ Disconnects(l)
  PROVE  Orderly'
<1>1. UNCHANGED <<scanning, generation, power, timers, work>>
  BY DEF TmRequests, RetryFires, Connects, Disconnects, device
<1>2. \E e \in AnyEvent : e.kind # "sample" /\ queue' = Append(queue, e)
  <2>1. CASE TmRequests
    <3>1. PICK o \in Obs, v \in Acquisitions \cup {0} : queue' = Append(queue, Set(o, v))
      BY <2>1 DEF TmRequests
    <3>2. Set(o, v) \in AnyEvent /\ Set(o, v).kind # "sample"
      BY DEF AnyEvent, Set
    <3>3. QED BY <3>1, <3>2
  <2>2. CASE RetryFires
    <3>1. Retry \in AnyEvent /\ Retry.kind # "sample"
      BY DEF AnyEvent, Retry
    <3>2. QED BY <2>2, <3>1 DEF RetryFires
  <2>3. CASE \E l \in Links : Connects(l) \/ Disconnects(l)
    <3>1. PICK l \in Links, k \in {"connected", "disconnected"} : queue' = Append(queue, Link(k, l))
      BY <2>3 DEF Connects, Disconnects
    <3>2. Link(k, l) \in AnyEvent /\ Link(k, l).kind # "sample"
      BY DEF AnyEvent, Link
    <3>3. QED BY <3>1, <3>2
  <2>4. QED BY <2>1, <2>2, <2>3
<1>3. PICK e \in AnyEvent : e.kind # "sample" /\ queue' = Append(queue, e)
  BY <1>2
<1>4. QED BY <1>1, <1>3, OtherEventComes

-----------------------------------------------------------------------------
(* The invariant *)

LEMMA AcquisitionBegins == Init => AcquisitionInv
<1> SUFFICES ASSUME Init PROVE AcquisitionInv
  OBVIOUS
<1>1. Whole(Idle)
  BY DEF Whole, Idle
<1>2. \A p \in Procs : work[p] = Idle
  BY DEF Init
<1>3. Hands
  BY <1>1, <1>2, HandParts DEF Hands, Control
<1>4. TokensAreOld
  BY FS_EmptySet DEF Init, TokensAreOld
<1>5. DOMAIN work = Procs /\ work = [p \in Procs |-> work[p]]
  BY DEF Init
<1>6. QED BY <1>3, <1>4, <1>5 DEF Init, AcquisitionInv, Orderly

LEMMA AcquisitionGoesOn == AcquisitionInv /\ [Next]_vars => AcquisitionInv'
<1> SUFFICES ASSUME AcquisitionInv, [Next]_vars
             PROVE  AcquisitionInv'
  OBVIOUS
<1>1. CASE UNCHANGED vars
  <2>1. ASSUME Orderly
        PROVE  Orderly'
    <3>1. UNCHANGED <<scanning, generation, power, timers, queue, work>>
      BY <1>1 DEF vars
    <3>2. TokensAreOld' /\ (Fresh => Fresh')
      BY <2>1, <3>1, TokensStay
    <3>3. \A s \in Streams : OnlyOne(Now(s)) => OnlyOne(Now(s))'
      BY <3>1 DEF OnlyOne, Now, InTimers, InQueue, InHand, Reading
    <3>4. QED BY <2>1, <3>1, <3>2, <3>3, QuietInOrder
  <2>2. mixed' = mixed
    BY <1>1 DEF vars
  <2>3. QED BY <2>1, <2>2 DEF AcquisitionInv
<1>2. CASE Next
  <2>1. mixed' \in BOOLEAN /\ (mixed => mixed')
    <3>1. mixed \in BOOLEAN
      BY DEF AcquisitionInv
    <3>2. \/ mixed' = mixed
          \/ \E p \in Procs : \E kind : mixed' = (mixed \/ \E q \in Busy : kind # "sample" \/ Control(q))
      <4>1. CASE \E p \in Procs : Handle(p)
        <5>1. PICK p \in Procs : Handle(p)
          BY <4>1
        <5>2. \/ mixed' = mixed
              \/ \E kind, pc : Take(p, kind, pc)
          BY <5>1 DEF Handle, BeginRead, EndRead, Check, Advise, Restart, Guard, SetScanning, Advance,
             Decide, LinkConnected, LinkDisconnected, StopScanning, PowerOff, Reconnect, IdlePower,
             CancelTimers, StartTimer
        <5>3. QED BY <5>2 DEF Take
      <4>2. CASE \E t \in timers : TimerFires(t)
        BY <4>2 DEF TimerFires
      <4>3. CASE \E l \in Links : Connects(l) \/ Disconnects(l)
        BY <4>3 DEF Connects, Disconnects
      <4>4. CASE TmRequests \/ RetryFires
        BY <4>4 DEF TmRequests, RetryFires
      <4>5. QED BY <1>2, <4>1, <4>2, <4>3, <4>4 DEF Next
    <3>3. QED BY <3>1, <3>2
  <2>2. ASSUME ~mixed'
        PROVE  Orderly'
    <3>1. Orderly
      BY <2>1, <2>2 DEF AcquisitionInv
    <3>2. ASSUME NEW p \in Procs, Handle(p)
          PROVE  Orderly'
      BY <2>2, <3>1, <3>2, BeginReadStep, EndReadStep, CheckStep, AdviseStep, RestartStep, GuardStep,
         SetScanningStep, AdvanceStep, DecideStep, LinkConnectedStep, LinkDisconnectedStep,
         StopScanningStep, PowerOffStep, ReconnectStep, IdlePowerStep, CancelTimersStep,
         StartTimerStep, Zenon DEF Handle
    <3>3. ASSUME NEW t \in timers, TimerFires(t)
          PROVE  Orderly'
      BY <3>1, <3>3, TimerFiresStep
    <3>4. QED BY <1>2, <3>1, <3>2, <3>3, SurroundingsStep DEF Next
  <2>3. QED BY <2>1, <2>2 DEF AcquisitionInv
<1>3. QED BY <1>1, <1>2

\* Whatever is requested, connected, disconnected, read or refused, and in whichever order
\* the processors take the events, tokens and hands are in order as long as no control event
\* was handled beside another event (dig.py: the scan_samples timers of performActions, their
\* generation and the handlers that set "scanning").
THEOREM AcquisitionInvariant == Spec => []AcquisitionInv
<1>1. Init => AcquisitionInv
  BY AcquisitionBegins
<1>2. AcquisitionInv /\ [Next]_vars => AcquisitionInv'
  BY AcquisitionGoesOn
<1>3. QED BY <1>1, <1>2, PTL DEF Spec

LEMMA OneToken ==
  ASSUME NEW t, OnlyOne(t), queue \in Seq(AnyEvent)
  PROVE  Tokens(t) = 1
<1>1. /\ timers \cap {t} = (IF InTimers(t) THEN {t} ELSE {})
  BY DEF InTimers
<1>2. DOMAIN queue = 1..Len(queue)
  OBVIOUS
<1>3. InQueue(t) => \E i : {j \in DOMAIN queue : queue[j] = Sample(t)} = {i}
  <2>1. SUFFICES ASSUME InQueue(t)
                 PROVE  \E i : {j \in DOMAIN queue : queue[j] = Sample(t)} = {i}
    OBVIOUS
  <2>2. PICK i \in 1..Len(queue) : queue[i] = Sample(t)
    BY <2>1 DEF InQueue
  <2>3. {j \in DOMAIN queue : queue[j] = Sample(t)} = {i}
    BY <1>2, <2>2 DEF OnlyOne
  <2>4. QED BY <2>3
<1>4. ~InQueue(t) => {j \in DOMAIN queue : queue[j] = Sample(t)} = {}
  BY <1>2 DEF InQueue
<1>5. InHand(t) => \E p : {q \in Procs : Reading(q, t)} = {p}
  <2>1. SUFFICES ASSUME InHand(t)
                 PROVE  \E p : {q \in Procs : Reading(q, t)} = {p}
    OBVIOUS
  <2>2. PICK p \in Procs : Reading(p, t)
    BY <2>1 DEF InHand
  <2>3. {q \in Procs : Reading(q, t)} = {p}
    BY <2>2 DEF OnlyOne
  <2>4. QED BY <2>3
<1>6. ~InHand(t) => {q \in Procs : Reading(q, t)} = {}
  BY DEF InHand
<1>7. Cardinality(timers \cap {t}) = IF InTimers(t) THEN 1 ELSE 0
  BY <1>1, FS_Singleton, FS_EmptySet
<1>8. Cardinality({j \in DOMAIN queue : queue[j] = Sample(t)}) = IF InQueue(t) THEN 1 ELSE 0
  BY <1>3, <1>4, FS_Singleton, FS_EmptySet
<1>9. Cardinality({q \in Procs : Reading(q, t)}) = IF InHand(t) THEN 1 ELSE 0
  BY <1>5, <1>6, FS_Singleton, FS_EmptySet
<1>10. QED BY <1>7, <1>8, <1>9 DEF Tokens, OnlyOne

\* A digitiser that scans reads both streams, each once, and has its filter powered, as long
\* as no control event was handled beside another event (dig.py: "If scanning is active,
\* ensure sample reads are running immediately").
THEOREM AcquisitionIsOrderly == Spec => []OrderlyAcquisition
<1>1. AcquisitionInv => OrderlyAcquisition
  <2> SUFFICES ASSUME AcquisitionInv, ~mixed
               PROVE  StreamsRunning /\ Powered
    BY DEF OrderlyAcquisition
  <2>1. Orderly
    BY DEF AcquisitionInv
  <2>2. Powered
    BY <2>1 DEF Powered, Orderly
  <2>3. ASSUME Settled, scanning # 0, NEW s \in Streams
        PROVE  Tokens([stream |-> s, gen |-> generation]) = 1
    <3>1. OnlyOne(Now(s))
      BY <2>1, <2>3 DEF Orderly, Undisturbed, Settled
    <3>2. queue \in Seq(AnyEvent)
      BY <2>1 DEF Orderly, TokensAreOld
    <3>3. Tokens(Now(s)) = 1
      BY <3>1, <3>2, OneToken
    <3>4. QED BY <3>3 DEF Now
  <2>4. QED BY <2>2, <2>3 DEF StreamsRunning
<1>2. QED BY <1>1, AcquisitionInvariant, PTL
=============================================================================
