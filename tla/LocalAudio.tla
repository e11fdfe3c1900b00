------------------------------- MODULE LocalAudio -------------------------------
(***************************************************************************)
(* The flow control of LocalRealtimeChannelController                      *)
(* (realtime/local_channel.py): microphone frames of the product through   *)
(* _InputWindow, the batch and send_audio, with their acknowledgements;    *)
(* output chunks to the product through the bounded window, with the       *)
(* acknowledgements and playback positions the product returns.            *)
(*                                                                         *)
(* Tasks: the reader (run), the delayed acknowledgement (_ack_timer) and   *)
(* the forwarder (_forward_events).  A frame of input is one unit of       *)
(* bytes; a unit of output bytes plays for one unit of time.               *)
(***************************************************************************)
EXTENDS Naturals, Sequences, FiniteSets

CONSTANTS WindowFrames,   \* _WINDOW_FRAMES, for both directions
          WindowBytes,    \* _WINDOW_BYTES
          BatchFrames,    \* input_batch_frames
          AckEvery,       \* ack_every_frames
          ChunkSizes,     \* sizes of the output chunks
          MaxInput,       \* bound on the input sequence numbers
          MaxOutput       \* bound on the output chunks

ASSUME LimitAssumption ==
    /\ WindowFrames \in Nat \ {0} /\ WindowBytes \in Nat \ {0}
    /\ BatchFrames \in Nat \ {0} /\ AckEvery \in Nat \ {0}
    /\ MaxInput \in Nat /\ MaxOutput \in Nat
ASSUME ChunkAssumption == ChunkSizes \subseteq 1..WindowBytes

VARIABLES
    terminal,    \* _terminal
    current,     \* the session's is_current_generation
    reader,      \* where the reader is
    highest,     \* _input_window.highest_contiguous
    pending,     \* keys of _input_window._pending
    todo,        \* the frames of ready the reader has not yet put in the batch
    batch,       \* _input_batch
    sinceAck,    \* _input_since_ack
    timer,       \* _ack_timer: none, asleep, or in the write of its acknowledgement
    accepted,    \* history: the frames send_audio was given and returned from
    acks,        \* history: the input acknowledgements, in the order of their writes
    forwarder,   \* where the forwarder is
    chunk,       \* the size of the chunk it sends
    sequence,    \* _output_sequence
    acked,       \* _output_acked
    window,      \* _output_pending
    windowBytes, \* _output_pending_bytes
    ackedBytes,  \* _output_acked_bytes
    played       \* _played_audio_ms

input == <<highest, pending, todo, batch, sinceAck, timer, accepted, acks>>
output == <<sequence, acked, window, windowBytes, ackedBytes, played>>
vars == <<terminal, current, reader, input, forwarder, chunk, output>>

Init ==
    /\ terminal = FALSE /\ current = TRUE
    /\ reader = "receive" /\ highest = 0 /\ pending = {} /\ todo = <<>> /\ batch = <<>>
    /\ sinceAck = 0 /\ timer = "none" /\ accepted = <<>> /\ acks = <<>>
    /\ forwarder = "idle" /\ chunk = 0
    /\ sequence = 0 /\ acked = 0 /\ window = <<>> /\ windowBytes = 0
    /\ ackedBytes = 0 /\ played = 0

\* _fail: whichever task calls it, the terminal is claimed once, and the tasks stop.
Fails == terminal' = TRUE

-----------------------------------------------------------------------------
(* Input: _handle_input_audio. *)

\* Mutant: a frame is released although one before it is missing.
MutantRun(h, frames) == {n \in frames : n > h}

\* The frames that follow h without a gap.
Run(h, frames) == {n \in frames : \A m \in (h + 1)..n : m \in frames}

InOrder(frames) ==
    CHOOSE s \in [1..Cardinality(frames) -> frames] :
        \A j, k \in DOMAIN s : j < k => s[j] < s[k]

\* The last lines of _handle_input_audio, with since frames to acknowledge.
Acknowledge(since, h) ==
    \/ /\ since >= AckEvery
       /\ sinceAck' = 0 /\ acks' = Append(acks, h) /\ reader' = "sendAck"
       /\ UNCHANGED timer
    \/ /\ since < AckEvery
       /\ sinceAck' = since /\ reader' = "receive"
       /\ timer' = IF since > 0 /\ timer = "none" THEN "sleep" ELSE timer
       /\ UNCHANGED acks

\* The loop over ready, up to the next flush or to its end.
Feed(frames, queued, since, h) ==
    LET room == BatchFrames - Len(queued)
        k == IF Len(frames) < room THEN Len(frames) ELSE room
        filled == queued \o SubSeq(frames, 1, k)
    IN  /\ batch' = filled
        /\ todo' = SubSeq(frames, k + 1, Len(frames))
        /\ IF Len(filled) = BatchFrames
           THEN /\ reader' = "sendAudio" /\ sinceAck' = since
                /\ UNCHANGED <<timer, acks>>
           ELSE Acknowledge(since, h)

\* _InputWindow.accept drops duplicates.
Fresh(n) == n > highest /\ n \notin pending

\* _InputWindow.accept refuses a gap beyond the window, and a full window.
WithinWindow(n) ==
    n <= highest + WindowFrames /\ Cardinality(pending) + 1 <= WindowBytes

ReceiveFrame(n) ==
    /\ reader = "receive" /\ ~terminal /\ Fresh(n)
    /\ IF WithinWindow(n)
       THEN LET there == pending \cup {n}
                ready == Run(highest, there)
                h == highest + Cardinality(ready)
            IN  /\ pending' = there \ ready /\ highest' = h
                /\ Feed(InOrder(ready), batch, sinceAck, h)
                /\ UNCHANGED terminal
       ELSE /\ Fails
            /\ UNCHANGED <<reader, highest, pending, todo, batch, sinceAck, timer, acks>>
    /\ UNCHANGED <<current, accepted, forwarder, chunk, output>>

\* A frame that is already waiting falls through to the acknowledgement.
ReceiveWaiting(n) ==
    /\ reader = "receive" /\ ~terminal /\ n \in pending
    /\ Acknowledge(sinceAck, highest)
    /\ UNCHANGED <<current, terminal, highest, pending, todo, batch, accepted,
                   forwarder, chunk, output>>

\* send_audio returned: the batch is empty, its frames count for the next ack.
AudioSent ==
    /\ reader = "sendAudio"
    /\ accepted' = accepted \o batch
    /\ IF terminal
       THEN batch' = <<>> /\ todo' = <<>> /\ reader' = "receive"
            /\ sinceAck' = sinceAck + Len(batch) /\ UNCHANGED <<timer, acks>>
       ELSE Feed(todo, <<>>, sinceAck + Len(batch), highest)
    /\ UNCHANGED <<terminal, current, highest, pending, forwarder, chunk, output>>

\* It timed out or raised.
AudioFails ==
    /\ reader = "sendAudio" /\ Fails
    /\ reader' = "receive"
    /\ UNCHANGED <<current, input, forwarder, chunk, output>>

\* call.barge_in and call.stop flush the batch first, and acknowledge nothing.
FlushBatch ==
    /\ reader = "receive" /\ ~terminal /\ batch # <<>>
    /\ reader' = "flush"
    /\ UNCHANGED <<current, terminal, input, forwarder, chunk, output>>

BatchFlushed ==
    /\ reader = "flush" /\ reader' = "receive"
    /\ accepted' = accepted \o batch /\ batch' = <<>>
    /\ sinceAck' = sinceAck + Len(batch)
    /\ UNCHANGED <<current, terminal, highest, pending, todo, timer, acks,
                   forwarder, chunk, output>>

FlushFails ==
    /\ reader = "flush" /\ Fails /\ reader' = "receive"
    /\ UNCHANGED <<current, input, forwarder, chunk, output>>

AckSent ==
    /\ reader = "sendAck" /\ reader' = "receive"
    /\ UNCHANGED <<current, terminal, input, forwarder, chunk, output>>

AckFails ==
    /\ reader = "sendAck" /\ Fails /\ reader' = "receive"
    /\ UNCHANGED <<current, input, forwarder, chunk, output>>

\* _delayed_input_ack: the task is the timer until its write is done.
TimerFires ==
    /\ timer = "sleep"
    /\ IF sinceAck = 0
       THEN timer' = "none" /\ UNCHANGED <<sinceAck, acks>>
       ELSE timer' = "send" /\ sinceAck' = 0 /\ acks' = Append(acks, highest)
    /\ UNCHANGED <<current, terminal, reader, highest, pending, todo, batch, accepted,
                   forwarder, chunk, output>>

\* The write ended, well or not: nothing sees the exception of the task.
TimerSent ==
    /\ timer = "send" /\ timer' = "none"
    /\ UNCHANGED <<current, terminal, reader, highest, pending, todo, batch, sinceAck,
                   accepted, acks, forwarder, chunk, output>>

-----------------------------------------------------------------------------
(* Output: _send_output_chunk and _handle_output_ack. *)

Capacity(size) == Len(window) < WindowFrames /\ windowBytes + size <= WindowBytes

\* The chunk enters the window before its write.
SendChunk(size) ==
    /\ sequence' = sequence + 1
    /\ window' = Append(window, [sequence |-> sequence + 1, size |-> size])
    /\ windowBytes' = windowBytes + size
    /\ forwarder' = "send"

\* A newer open of the client takes the generation; nothing notifies the forwarder.
Supersede ==
    /\ current /\ current' = FALSE
    /\ UNCHANGED <<terminal, reader, input, forwarder, chunk, output>>

ForwardAudio(size) ==
    /\ forwarder = "idle" /\ ~terminal /\ current /\ sequence < MaxOutput
    /\ chunk' = size
    /\ IF Capacity(size) THEN SendChunk(size)
       ELSE forwarder' = "wait" /\ UNCHANGED <<sequence, window, windowBytes>>
    /\ UNCHANGED <<current, terminal, reader, input, acked, ackedBytes, played>>

\* The condition is notified by an acknowledgement or by the terminal.
CapacityFound ==
    /\ forwarder = "wait" /\ (terminal \/ Capacity(chunk))
    /\ IF terminal \/ ~current
       THEN forwarder' = "idle" /\ UNCHANGED <<sequence, window, windowBytes>>
       ELSE SendChunk(chunk)
    /\ UNCHANGED <<current, terminal, reader, input, chunk, acked, ackedBytes, played>>

\* Mutant: the producer waits for capacity without a timeout.
MutantCapacityTimeout ==
    /\ forwarder = "wait" /\ terminal /\ forwarder' = "idle"
    /\ UNCHANGED <<current, terminal, reader, input, chunk, output>>

\* producer_block_timeout: the response is cancelled and the call fails as busy,
\* unless the session is superseded.
CapacityTimeout ==
    /\ forwarder = "wait" /\ forwarder' = "idle"
    /\ IF current THEN Fails ELSE UNCHANGED terminal
    /\ UNCHANGED <<current, reader, input, chunk, output>>

ChunkSent ==
    /\ forwarder = "send" /\ forwarder' = "idle"
    /\ UNCHANGED <<current, terminal, reader, input, chunk, output>>

ChunkFails ==
    /\ forwarder = "send" /\ Fails /\ forwarder' = "idle"
    /\ UNCHANGED <<current, reader, input, chunk, output>>

\* The sum of a sequence of numbers.
Total(numbers) ==
    LET sum[k \in 0..Len(numbers)] == IF k = 0 THEN 0 ELSE sum[k - 1] + numbers[k]
    IN  sum[Len(numbers)]

Sizes(chunks) == Total([k \in DOMAIN chunks |-> chunks[k].size])

\* Bytes of the pending chunks up to h.
BytesUpTo(h) ==
    Total([k \in DOMAIN window |-> IF window[k].sequence <= h THEN window[k].size ELSE 0])

ValidPosition(h, position) ==
    position >= played /\ position <= ackedBytes + BytesUpTo(h)

\* How many chunks the loop over _output_pending pops: it stops at one beyond h.
Passed(h) ==
    Cardinality({k \in DOMAIN window : \A j \in 1..k : window[j].sequence <= h})

\* Mutant: the acknowledged chunks leave the window but not its byte count.
MutantSlide(h) ==
    /\ acked' = h
    /\ window' = SubSeq(window, Passed(h) + 1, Len(window))
    /\ ackedBytes' = ackedBytes + Sizes(SubSeq(window, 1, Passed(h)))
    /\ UNCHANGED windowBytes

\* Chunks up to h leave the window.
Slide(h) ==
    LET popped == Sizes(SubSeq(window, 1, Passed(h)))
    IN  /\ acked' = h
        /\ window' = SubSeq(window, Passed(h) + 1, Len(window))
        /\ windowBytes' = windowBytes - popped
        /\ ackedBytes' = ackedBytes + popped

WasSent(h) == h <= sequence

OutputAck(h, position) ==
    /\ reader = "receive" /\ ~terminal
    /\ IF WasSent(h) /\ ValidPosition(h, position)
       THEN /\ played' = position
            /\ IF h <= acked THEN UNCHANGED <<acked, window, windowBytes, ackedBytes>>
               ELSE Slide(h)
            /\ UNCHANGED terminal
       ELSE Fails /\ UNCHANGED <<played, acked, window, windowBytes, ackedBytes>>
    /\ UNCHANGED <<current, reader, input, forwarder, chunk, sequence>>

-----------------------------------------------------------------------------
ReaderStep ==
    AudioSent \/ AudioFails \/ BatchFlushed \/ FlushFails \/ AckSent \/ AckFails
TimerStep == TimerFires \/ TimerSent
ForwarderStep == CapacityFound \/ CapacityTimeout \/ ChunkSent \/ ChunkFails

Next ==
    \/ \E n \in 1..MaxInput : ReceiveFrame(n) \/ ReceiveWaiting(n)
    \/ Supersede \/ FlushBatch \/ ReaderStep \/ TimerStep
    \/ \E size \in ChunkSizes : ForwardAudio(size)
    \/ ForwarderStep
    \/ \E h \in 0..(MaxOutput + 1), position \in 0..(WindowBytes + 1) :
           OutputAck(h, position)

\* Every write and the wait for capacity have a timeout, and the timer sleeps for
\* a fixed time.  The product owes nothing.
Fairness == WF_vars(ReaderStep) /\ WF_vars(TimerStep) /\ WF_vars(ForwarderStep)

Spec == Init /\ [][Next]_vars /\ Fairness

-----------------------------------------------------------------------------
(* Properties *)

\* Counters and windows keep their types; the byte counters never go negative.
TypeOK ==
    /\ terminal \in BOOLEAN /\ current \in BOOLEAN
    /\ reader \in {"receive", "sendAudio", "flush", "sendAck"}
    /\ highest \in 0..MaxInput /\ pending \subseteq 1..MaxInput
    /\ todo \in Seq(1..MaxInput) /\ batch \in Seq(1..MaxInput)
    /\ sinceAck \in Nat /\ timer \in {"none", "sleep", "send"}
    /\ accepted \in Seq(1..MaxInput) /\ acks \in Seq(0..MaxInput)
    /\ forwarder \in {"idle", "wait", "send"} /\ chunk \in ChunkSizes \cup {0}
    /\ sequence \in 0..MaxOutput /\ acked \in 0..MaxOutput
    /\ window \in Seq([sequence : 1..MaxOutput, size : ChunkSizes])
    /\ windowBytes \in Nat /\ ackedBytes \in Nat /\ played \in Nat

\* The numbers first..last in order.
Interval(first, last) == [k \in 1..(last + 1 - first) |-> first + k - 1]

\* The input window holds only frames behind a gap, and within the limit.
InputWindowBounded ==
    /\ \A n \in pending : n > highest + 1 /\ n <= highest + WindowFrames
    /\ Cardinality(pending) <= WindowBytes

\* Whatever order, repetition and batching the frames of the product come in, the
\* session is given each of them once and in sequence, no frame is lost between
\* the window, the list being fed and the batch, and the window keeps its limits.
InputInSequence ==
    /\ TypeOK /\ InputWindowBounded
    /\ ~terminal => accepted \o batch \o todo = Interval(1, highest)

\* The output window is exactly the chunks sent and not acknowledged, in order, its
\* byte counter is their size, both limits hold whatever the product acknowledges, and
\* the playback position never passes the audio of the acknowledged chunks.
OutputWindowExact ==
    /\ [k \in DOMAIN window |-> window[k].sequence] = Interval(acked + 1, sequence)
    /\ windowBytes = Sizes(window)
    /\ Len(window) <= WindowFrames /\ windowBytes <= WindowBytes
    /\ played <= ackedBytes

\* A producer that is blocked on a full window goes on or fails the call.
ProducerUnblocks == (forwarder = "wait") ~> (forwarder # "wait")

\* The manifest of the local protocol promises an acknowledgement after at most
\* ack_max_delay_ms: audio the session accepted is acknowledged, or the call ends.
InputAcknowledged == (sinceAck > 0) ~> (sinceAck = 0 \/ terminal)

=============================================================================
