------------------------------ MODULE SdrStream ------------------------------
(***************************************************************************)
(* The Digitiser's way to its software defined radio.  The processors of   *)
(* the event framework call a facade (sdr/facade.py), which hands every    *)
(* call to the one thread of a DeviceWorker (env/device.py) and waits for  *)
(* the answer.  The worker runs it on the streaming driver                 *)
(* (sdr/drivers/stream.py), whose producer thread reads chunks of samples  *)
(* from the device into a ring buffer, from which read_samples takes       *)
(* blocks.  A hardware failure ends the worker.                            *)
(*                                                                         *)
(* One facade is modelled from its start to the end of its worker; the     *)
(* Digitiser replaces it by a new one then.  Calls other than the four     *)
(* modelled go the same way and leave the stream alone.  A sample is the   *)
(* number of the samples the device produced before it.                    *)
(***************************************************************************)
EXTENDS Integers, Sequences, SequencesExt

CONSTANTS Callers,     \* processors that use the radio
          Capacity,    \* ring_capacity
          Block,       \* read_sample_count
          Chunks,      \* possible values of producer_chunk_samples
          MaxSamples,  \* bound on the samples the device produces
          MaxCalls     \* bound on calls

Sentinel == "sentinel"
Nobody == "nobody"

ASSUME StreamAssumption ==
    /\ Callers \cap {Sentinel, Nobody} = {}
    /\ Capacity \in Nat /\ Block \in 1..Capacity   \* _configure_ring takes the larger
    /\ Chunks \subseteq Nat \ {0}
    /\ {MaxSamples, MaxCalls} \subseteq Nat

VARIABLES
    chunk,     \* producer_chunk_samples, which does not change
    cells,     \* the ring
    readPos, writePos, available,
    consumed, dropped,   \* total_samples_consumed, total_samples_dropped
    running,   \* _producer_running
    broken,    \* _producer_error is set
    producer,  \* the producer thread: where it is, and the samples it has read
    device,    \* "open" or "closed"
    next,      \* samples the device has produced
    worker,    \* where the worker thread is, and the caller it works for
    commands,  \* its queue: callers and Sentinel
    terminal,  \* _terminal_error is set
    reached,   \* the facade still has a reference to its worker
    calls,     \* per caller: where it is, its call and the answer of its future
    made,      \* calls so far (bounds them)
    origin,    \* samples produced before the numbering began (at _configure_ring)
    since,     \* samples produced before the last reset
    block      \* the block handed out last, where it claims to start, and since

ringVars == <<cells, readPos, writePos, available, consumed, dropped>>
threadVars == <<chunk, running, broken, producer, device, next>>
facadeVars == <<worker, commands, terminal, reached, calls, made>>
history == <<origin, since, block>>
streamVars == <<ringVars, threadVars, facadeVars, history>>

Names == {"read", "reset", "rate", "close"}

StreamInit ==
    /\ chunk \in Chunks
    /\ cells = [i \in 0..(Capacity - 1) |-> 0]
    /\ readPos = 0 /\ writePos = 0 /\ available = 0 /\ consumed = 0 /\ dropped = 0
    /\ running = FALSE /\ broken = FALSE
    /\ producer = [pc |-> "none", samples |-> <<>>]
    /\ device = "open" /\ next = 0
    /\ worker = [pc |-> "get", for |-> Nobody]
    /\ commands = <<>> /\ terminal = FALSE /\ reached = TRUE
    /\ calls = [c \in Callers |-> [pc |-> "idle", name |-> "read", answer |-> "none"]]
    /\ made = 0
    /\ origin = 0 /\ since = 0 /\ block = [start |-> 0, samples |-> <<>>, since |-> 0]

-----------------------------------------------------------------------------
(* The producer thread: _producer_loop. *)

Alive == producer.pc # "none"

\* The device is asked for a chunk, if the stream has not been stopped.
BeginRead ==
    /\ producer.pc = "check"
    /\ next + chunk <= MaxSamples
    /\ IF running
         THEN /\ producer' = [pc |-> "read", samples |-> [i \in 1..chunk |-> next + i - 1]]
              /\ next' = next + chunk
         ELSE /\ producer' = [producer EXCEPT !.pc = "none"]
              /\ UNCHANGED next
    /\ UNCHANGED <<ringVars, chunk, running, broken, device, facadeVars, history>>

EndRead ==
    /\ producer.pc = "read"
    /\ producer' = [producer EXCEPT !.pc = "write"]
    /\ UNCHANGED <<ringVars, chunk, running, broken, device, next, facadeVars, history>>

\* The device fails and has produced nothing; the thread has only to end.
FailRead ==
    /\ producer.pc = "read"
    /\ producer' = [pc |-> "end", samples |-> <<>>]
    /\ broken' = TRUE
    /\ next' = next - chunk
    /\ UNCHANGED <<ringVars, chunk, running, device, facadeVars, history>>

EndThread ==
    /\ producer.pc = "end"
    /\ producer' = [producer EXCEPT !.pc = "none"]
    /\ UNCHANGED <<ringVars, chunk, running, broken, device, next, facadeVars, history>>

\* Samples lost when n samples are written: unread ones that are written over,
\* and those of a chunk larger than the ring.
Overwritten(n) ==
    IF n >= Capacity THEN available + (n - Capacity)
    ELSE IF available + n > Capacity THEN available + n - Capacity ELSE 0

\* The samples stand in the ring from a position on.
Put(samples, from) ==
    [i \in 0..(Capacity - 1) |->
        LET k == (i - from) % Capacity
        IN  IF k < Len(samples) THEN samples[k + 1] ELSE cells[i]]

\* _write_ring, for a chunk of the ring's size or more
WriteWhole ==
    /\ producer.pc = "write" /\ chunk >= Capacity
    /\ dropped' = dropped + Overwritten(chunk)
    /\ readPos' = 0 /\ writePos' = 0 /\ available' = Capacity
    /\ cells' = Put(SubSeq(producer.samples, chunk - Capacity + 1, chunk), 0)

\* _write_ring, for a smaller chunk
WritePart ==
    /\ producer.pc = "write" /\ chunk < Capacity
    /\ dropped' = dropped + Overwritten(chunk)
    /\ readPos' = (readPos + Overwritten(chunk)) % Capacity
    /\ writePos' = (writePos + chunk) % Capacity
    /\ available' = available - Overwritten(chunk) + chunk
    /\ cells' = Put(producer.samples, writePos)

WriteRing ==
    /\ WriteWhole \/ WritePart
    /\ producer' = [pc |-> "check", samples |-> <<>>]
    /\ UNCHANGED <<consumed, chunk, running, broken, device, next, facadeVars, history>>

-----------------------------------------------------------------------------
(* The worker thread. *)

At(pc) == worker.pc = pc
Name == calls[worker.for].name

\* The next command.
Get ==
    /\ At("get") /\ commands # <<>>
    /\ commands' = Tail(commands)
    /\ worker' = IF Head(commands) = Sentinel
                   THEN [pc |-> "stop", for |-> Nobody]
                   ELSE [pc |-> IF calls[Head(commands)].name \in {"reset", "close"} THEN "stop"
                                ELSE calls[Head(commands)].name,
                         for |-> Head(commands)]
    /\ UNCHANGED <<ringVars, threadVars, terminal, reached, calls, made, history>>

\* The command's future is set, and the worker gets the next one.
Answer(a) ==
    /\ calls' = [calls EXCEPT ![worker.for].answer = a]
    /\ worker' = [pc |-> "get", for |-> Nobody]
    /\ UNCHANGED <<commands, terminal, reached, made>>

\* A failure of the hardware: the future is set, and the worker is about to end.
Fatal ==
    /\ calls' = [calls EXCEPT ![worker.for].answer = "hardware"]
    /\ worker' = [pc |-> "fatal", for |-> Nobody]
    /\ UNCHANGED <<commands, terminal, reached, made>>

Goto(pc) ==
    /\ worker' = [worker EXCEPT !.pc = pc]
    /\ UNCHANGED <<commands, terminal, reached, calls, made>>

\* get_comms_status
Usable == ~broken /\ device = "open"

\* read_samples begins: without a usable device it returns nothing.
ReadCheck ==
    /\ At("read")
    /\ IF Usable THEN Goto("start") ELSE Answer("ok")
    /\ UNCHANGED <<ringVars, threadVars, history>>

\* _start_stream
StartStream ==
    /\ At("start")
    /\ IF Alive
         THEN UNCHANGED <<running, broken, producer>>
         ELSE /\ running' = TRUE /\ broken' = FALSE
              /\ producer' = [pc |-> "check", samples |-> <<>>]
    /\ Goto("wait")
    /\ UNCHANGED <<ringVars, chunk, device, next, history>>

\* sample_index_start
BlockStart == consumed + dropped

\* _read_ring
ReadRing ==
    /\ At("wait") /\ ~broken /\ available >= Block
    /\ block' = [start |-> origin + BlockStart, since |-> since,
                 samples |-> [i \in 1..Block |-> cells[(readPos + i - 1) % Capacity]]]
    /\ readPos' = (readPos + Block) % Capacity
    /\ available' = available - Block
    /\ consumed' = consumed + Block
    /\ Answer("ok")
    /\ UNCHANGED <<cells, writePos, dropped, threadVars, origin, since>>

\* The producer failed, or too few samples came in time.
ReadFails ==
    /\ At("wait")
    /\ broken \/ available < Block
    /\ Fatal
    /\ UNCHANGED <<ringVars, threadVars, history>>

\* _stop_stream begins: of stream_reset, of close, and of the close with which
\* the worker ends.
StopStream ==
    /\ At("stop")
    /\ running' = FALSE
    /\ Goto("join")
    /\ UNCHANGED <<ringVars, chunk, broken, producer, device, next, history>>

\* Mutant: the producer is not waited for.
JoinedAlways == TRUE

\* The producer thread has ended.
Joined == ~Alive

\* stream_reset, the producer being stopped
ClearRing ==
    /\ At("join") /\ worker.for # Nobody /\ Name = "reset" /\ Joined
    /\ readPos' = writePos /\ available' = 0 /\ dropped' = dropped + available
    /\ since' = next
    /\ Answer("ok")
    /\ UNCHANGED <<cells, writePos, consumed, threadVars, origin, block>>

CloseDevice ==
    /\ At("join") /\ Joined
    /\ worker.for # Nobody => Name = "close"
    /\ device' = "closed"
    /\ IF worker.for = Nobody THEN Goto("dead") ELSE Answer("ok")
    /\ UNCHANGED <<ringVars, chunk, running, broken, producer, next, history>>

\* The producer does not end within 2 seconds.  The device is then not closed.
JoinFails ==
    /\ At("join") /\ Alive
    /\ IF worker.for = Nobody THEN Goto("dead") ELSE Fatal
    /\ UNCHANGED <<ringVars, threadVars, history>>

\* _configure_ring: the ring is empty and the numbers start again.
ConfigureRing ==
    /\ readPos' = 0 /\ writePos' = 0 /\ available' = 0
    /\ consumed' = 0 /\ dropped' = 0
    /\ origin' = next
    /\ UNCHANGED cells

\* set_sample_rate, refused while the producer lives and failing on a closed
\* device
Configure ==
    /\ At("rate")
    /\ IF Alive \/ device = "closed"
         THEN /\ Answer("software") \/ (~Alive /\ Fatal)
              /\ UNCHANGED <<ringVars, origin>>
         ELSE ConfigureRing /\ Answer("ok")
    /\ UNCHANGED <<threadVars, since, block>>

Queued == {c \in Callers : Contains(commands, c)}

\* _fail_pending_commands
FailQueued(c) ==
    IF c \in Queued THEN [calls[c] EXCEPT !.answer = "hardware"] ELSE calls[c]

\* Under _state_lock: no command is admitted any more, those queued fail.
Terminate ==
    /\ At("fatal")
    /\ terminal' = TRUE
    /\ calls' = [c \in Callers |-> FailQueued(c)]
    /\ commands' = <<>>
    /\ worker' = [pc |-> "stop", for |-> Nobody]
    /\ UNCHANGED <<ringVars, threadVars, reached, made, history>>

WorkerStep ==
    \/ Get \/ ReadCheck \/ StartStream \/ ReadRing \/ ReadFails \/ StopStream
    \/ ClearRing \/ CloseDevice \/ JoinFails \/ Configure \/ Terminate

-----------------------------------------------------------------------------
(* The callers: SDR._invoke and SDR.close of the facade. *)

Move(c, pc) == calls' = [calls EXCEPT ![c].pc = pc]

\* A call begins, if the facade has a worker that runs; otherwise it fails or,
\* as stream_reset and close, returns at once.
Invoke(c, name) ==
    /\ calls[c].pc = "idle" /\ made < MaxCalls
    /\ made' = made + 1
    /\ IF reached /\ ~At("dead")
         THEN calls' = [calls EXCEPT ![c] = [pc |-> "call", name |-> name, answer |-> "none"]]
         ELSE UNCHANGED calls
    /\ UNCHANGED <<ringVars, threadVars, worker, commands, terminal, reached, history>>

\* The reference was removed in between: an exception that is not one of the
\* hardware's.
Gone(c) ==
    /\ calls[c].pc = "call" /\ ~reached
    /\ Move(c, "idle")
    /\ UNCHANGED <<ringVars, threadVars, worker, commands, terminal, reached, made, history>>

\* Mutant: a worker that is about to end admits commands.
AdmitsAlways == ~At("dead")

Admits == ~terminal /\ ~At("dead")

\* DeviceWorker.call, under _state_lock
Call(c) ==
    /\ calls[c].pc = "call" /\ reached
    /\ IF Admits
         THEN /\ commands' = Append(commands, c)
              /\ Move(c, "wait")
         ELSE /\ calls' = [calls EXCEPT ![c].pc = "wait",
                                        ![c].answer = IF terminal THEN "hardware" ELSE "software"]
              /\ UNCHANGED commands
    /\ UNCHANGED <<ringVars, threadVars, worker, terminal, reached, made, history>>

\* The future has been set.  After a hardware failure, and to close, the worker
\* is stopped.  The first takes the facade's reference away before.
Result(c) ==
    /\ calls[c].pc = "wait" /\ calls[c].answer # "none"
    /\ IF calls[c].answer = "hardware" \/ calls[c].name = "close"
         THEN Move(c, IF reached THEN "stop" ELSE "idle")
         ELSE Move(c, "idle")
    /\ reached' = (reached /\ calls[c].answer # "hardware")
    /\ UNCHANGED <<ringVars, threadVars, worker, commands, terminal, made, history>>

\* DeviceWorker.stop
Stop(c) ==
    /\ calls[c].pc = "stop"
    /\ IF At("dead") THEN UNCHANGED commands ELSE commands' = Append(commands, Sentinel)
    /\ Move(c, "stopped")
    /\ UNCHANGED <<ringVars, threadVars, worker, terminal, reached, made, history>>

\* The worker has ended.
Leave(c) ==
    /\ calls[c].pc = "stopped" /\ At("dead")
    /\ Move(c, "idle")
    /\ reached' = FALSE
    /\ UNCHANGED <<ringVars, threadVars, worker, commands, terminal, made, history>>

CallerStep(c) ==
    \/ \E name \in Names : Invoke(c, name)
    \/ Gone(c) \/ Call(c) \/ Result(c) \/ Stop(c) \/ Leave(c)

StreamNext ==
    \/ BeginRead \/ EndRead \/ FailRead \/ EndThread \/ WriteRing
    \/ WorkerStep
    \/ \E c \in Callers : CallerStep(c)

-----------------------------------------------------------------------------

(* A block that is handed out holds consecutive samples, exactly those     *)
(* that its metadata claim (sample_index_start), and none the device was   *)
(* asked for before the last reset, however many samples were written      *)
(* over, discarded or numbered anew in between, and although a read was    *)
(* under way at the reset (stream.py:170).                                 *)
BlocksAreTrue ==
    \A i \in DOMAIN block.samples :
        /\ block.samples[i] = block.start + i - 1
        /\ block.samples[i] >= block.since

(* When the worker has ended after a hardware failure, nobody waits for an *)
(* answer that will not come (the purpose of _state_lock, device.py:54).   *)
FailureAnswersAll ==
    terminal /\ At("dead") =>
        \A c \in Callers : calls[c].pc = "wait" => calls[c].answer # "none"

(* What a caller of the radio can rely on: it is answered, and a block that *)
(* is the answer is what it says, whatever the device and the other callers *)
(* do meanwhile.                                                            *)
RadioIsReliable == BlocksAreTrue /\ FailureAnswersAll

=============================================================================
