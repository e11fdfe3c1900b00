---------------------------- MODULE RealtimeSession ----------------------------
(***************************************************************************)
(* ManagedRealtimeSession (realtime/session.py): one realtime media        *)
(* session over a provider connection.  Its tasks are the receiver         *)
(* (_receive_loop), the callers of send_audio / cancel_response (Senders), *)
(* the single close task (_controlled_close) and the consumer of events(). *)
(*                                                                         *)
(* asyncio is cooperative: a step of the model is the code between two     *)
(* suspension points (a socket read, write or close, or a timed wait).     *)
(* Locks that are never held across a suspension do not appear.            *)
(***************************************************************************)
EXTENDS Integers, Sequences, FiniteSets

CONSTANTS Responses,     \* provider response ids
          Items,         \* item ids within a response
          Contents,      \* (output_index, content_index) slots of an item
          Senders,       \* application tasks that call the session
          None,          \* absent value
          MaxEvents,     \* bound on the provider events of one behaviour
          OutputFrames,  \* limits.output_queue_frames
          OutputBytes,   \* limits.output_queue_bytes
          InputFrames,   \* limits.input_queue_frames
          EventBytes,    \* _event_size, by event type
          Traffic,       \* the kinds of payload the peer sends
          CloseReasons,  \* the reasons the application passes to close()
          DeadSocket     \* the socket may die abnormally while close() waits

TerminalTypes == {"SessionClosed", "SessionFailed"}
OutputTypes == {"OutputAudioStarted", "OutputAudio"}
EventTypes == TerminalTypes \cup OutputTypes \cup
    {"SessionReady", "SessionExpiring", "SpeechStarted", "ResponseStarted",
     "ResponseFinished"}
ProviderKinds == {"ack", "created", "item", "content", "itemDone", "contentDone",
    "output", "done", "failed", "speech", "error"}
Event == [type : EventTypes, response : Responses \cup {None}]
TrafficKinds == ProviderKinds \cup
    {"malformed", "expiring", "relayFailed", "relayClosed", "closeAck", "eof", "recvError"}

ASSUME NoneAssumption ==
    None \notin Responses \cup Senders \cup
        {"receiver", "closer", "starter", "client", "provider", "relay"}
ASSUME LimitAssumption ==
    /\ OutputFrames \in Nat \ {0} /\ OutputBytes \in Nat /\ InputFrames \in Nat
    /\ MaxEvents \in Nat
    /\ EventBytes \in [EventTypes -> Nat]
ASSUME TaskAssumption == Senders \cap {"receiver", "closer", "starter"} = {}
ASSUME EnvironmentAssumption ==
    /\ Traffic \subseteq TrafficKinds
    /\ CloseReasons \subseteq {"client_hangup", "app_shutdown", "other"}
    /\ DeadSocket \in BOOLEAN

VARIABLES
    owner,       \* _terminal_owner, by claimant: close() is "client", _fail "provider"
                 \* and a control event of the relay "relay", whatever it names
    closing,     \* _closing
    published,   \* _terminal_published
    ready,       \* _ready
    current,     \* _is_current_generation()
    seen,        \* _seen_event_ids
    responses,   \* _response_order, whose range is _responses
    terminal,    \* _terminal_responses
    cancelled,   \* _cancelled_responses
    items,       \* _items
    contents,    \* _contents
    doneItems,   \* _completed_items
    doneContents,\* _completed_contents
    out,         \* _events with its two counters and _terminal_sequence_started
    delivered,   \* history: what events() has yielded
    consumer,    \* where events() is: at the loop test, in get(), or ended
    receiver,    \* where _receive_loop is
    sender,      \* what each application task is sending
    inputPending,\* _input_pending_frames
    closer,      \* where the close task is
    closeReason, \* _close_reason
    closeAck,    \* _close_ack has a result
    shutdown,    \* progress of _shutdown_connection
    shutdownBy   \* the task that runs it

claim == <<owner, published, shutdown, shutdownBy>>
catalogue == <<responses, terminal, cancelled, items, contents, doneItems, doneContents>>
stream == <<delivered, consumer>>
closeTask == <<closer, closeReason, closeAck>>
callers == <<sender, inputPending>>
vars == <<claim, catalogue, stream, closeTask, callers, closing, ready, current,
          seen, out, receiver>>

Known == {responses[k] : k \in DOMAIN responses}
Live == Known \ terminal
Stream == delivered \o out.events   \* yielded or still to be yielded

Init ==
    /\ owner = None /\ published = FALSE /\ closing = FALSE
    /\ ready = FALSE /\ current = TRUE /\ seen = {}
    /\ responses = <<>> /\ terminal = {} /\ cancelled = {}
    /\ items = {} /\ contents = {} /\ doneItems = {} /\ doneContents = {}
    /\ out = [events |-> <<>>, frames |-> 0, bytes |-> 0, sequence |-> FALSE]
    /\ delivered = <<>> /\ consumer = "test"
    /\ receiver = "off"
    /\ sender = [s \in Senders |-> "idle"] /\ inputPending = 0
    /\ closer = "none" /\ closeReason = None /\ closeAck = FALSE
    /\ shutdown = "none" /\ shutdownBy = None

-----------------------------------------------------------------------------
(* The bounded output queue. *)

Plain(t) == [type |-> t, response |-> None]
About(t, r) == [type |-> t, response |-> r]
Size(e) == EventBytes[e.type]

Fits(o, e) == o.frames + 1 <= OutputFrames /\ o.bytes + Size(e) <= OutputBytes

Put(o, e) == [o EXCEPT !.events = Append(@, e), !.frames = @ + 1, !.bytes = @ + Size(e)]

Drained(o) == [o EXCEPT !.events = <<>>, !.frames = 0, !.bytes = 0]

\* Mutant: every terminal-safe event displaces a full queue, not only the first.
MutantEmitTerminalSafe(o, e) ==
    Put([(IF Fits(o, e) THEN o ELSE Drained(o)) EXCEPT !.sequence = TRUE], e)

\* _emit_terminal_safe: the first event of the terminal sequence displaces a
\* full queue, the later ones ignore the limits.
EmitTerminalSafe(o, e) ==
    LET begun == [o EXCEPT !.sequence = TRUE]
    IN  IF o.sequence \/ Fits(o, e) THEN Put(begun, e) ELSE Put(Drained(begun), e)

Less(a, b) == IF a > b THEN a - b ELSE 0

\* Mutant: events() gives back the frame but not its bytes.
MutantPopped(o) == [o EXCEPT !.events = Tail(@), !.frames = Less(@, 1)]

Popped(o) == [o EXCEPT !.events = Tail(@), !.frames = Less(@, 1),
                       !.bytes = Less(@, Size(Head(o.events)))]

-----------------------------------------------------------------------------
(* The terminal owner. *)

\* Mutant: no compare-and-set, every caller publishes.
MutantFinishTerminal(task, o, e, initiator) ==
    /\ owner' = initiator
    /\ out' = EmitTerminalSafe(o, e)
    /\ published' = TRUE
    /\ shutdown' = "closing" /\ shutdownBy' = task

\* _finish_terminal, run by task on output o: claim, emit, publish and start
\* _shutdown_connection without a suspension; nothing if there is an owner.
FinishTerminal(task, o, e, initiator) ==
    IF owner # None
    THEN out' = o /\ UNCHANGED claim
    ELSE /\ owner' = initiator
         /\ out' = EmitTerminalSafe(o, e)
         /\ published' = TRUE
         /\ shutdown' = "closing" /\ shutdownBy' = task

Active == owner = None /\ ~closing /\ current    \* _require_active

\* Mutant: the search runs from the oldest response.
MutantCurrentResponse ==
    IF Live = {} THEN None
    ELSE responses[CHOOSE k \in DOMAIN responses :
            /\ responses[k] \in Live
            /\ \A j \in DOMAIN responses : responses[j] \in Live => k <= j]

\* _current_response: the latest response that has no terminal.
CurrentResponse ==
    IF Live = {} THEN None
    ELSE responses[CHOOSE k \in DOMAIN responses :
            /\ responses[k] \in Live
            /\ \A j \in DOMAIN responses : responses[j] \in Live => j <= k]

-----------------------------------------------------------------------------
(* start(), the generation and the application's calls. *)

\* The event loop schedules tasks: the receiver is not looping without suspending.
Running == receiver # "spin"
Handed == receiver # "off"     \* open() has returned the session

\* start: the session.update write, then the receiver task.
Start ==
    /\ receiver = "off" /\ owner = None
    /\ receiver' = "receive"
    /\ UNCHANGED <<claim, catalogue, stream, closeTask, callers, closing, ready,
                   current, seen, out>>

StartFails ==
    /\ receiver = "off" /\ owner = None
    /\ FinishTerminal("starter", out, Plain("SessionFailed"), "provider")
    /\ UNCHANGED <<catalogue, stream, closeTask, callers, closing, ready,
                   current, seen, receiver>>

\* A newer open() of the client, or of another client that shares the recovery
\* state of this external session, takes the generation.
Supersede ==
    /\ Running /\ Handed /\ current /\ current' = FALSE
    /\ UNCHANGED <<claim, catalogue, stream, closeTask, callers, closing, ready,
                   seen, out, receiver>>

SendAudio(s) ==
    /\ Handed /\ Active /\ ready /\ sender[s] = "idle"
    /\ inputPending + 1 <= InputFrames
    /\ inputPending' = inputPending + 1
    /\ sender' = [sender EXCEPT ![s] = "audio"]
    /\ UNCHANGED <<claim, catalogue, stream, closeTask, closing, ready, current,
                   seen, out, receiver>>

\* Mutant: cancel_response goes on without a current response.
MutantCancelResponse(s) ==
    /\ Handed /\ Active /\ sender[s] = "idle"
    /\ cancelled' = cancelled \cup {CurrentResponse}
    /\ sender' = [sender EXCEPT ![s] = "cancel"]
    /\ UNCHANGED <<claim, responses, terminal, items, contents, doneItems,
                   doneContents, stream, closeTask, inputPending, closing, ready,
                   current, seen, out, receiver>>

CancelResponse(s) ==
    /\ Handed /\ Active /\ sender[s] = "idle"
    /\ Live # {}
    /\ cancelled' = cancelled \cup {CurrentResponse}
    /\ sender' = [sender EXCEPT ![s] = "cancel"]
    /\ UNCHANGED <<claim, responses, terminal, items, contents, doneItems,
                   doneContents, stream, closeTask, inputPending, closing, ready,
                   current, seen, out, receiver>>

\* The call of s returns or raises; the finally clause of send_audio runs.
Return(s) ==
    /\ sender' = [sender EXCEPT ![s] = "idle"]
    /\ inputPending' = IF sender[s] = "audio" THEN inputPending - 1 ELSE inputPending

Sending(s) == Running /\ sender[s] # "idle" /\ shutdownBy # s

SendDone(s) ==
    /\ Sending(s)
    /\ Return(s)
    /\ UNCHANGED <<claim, catalogue, stream, closeTask, closing, ready, current,
                   seen, out, receiver>>

\* _send_runtime_event: a timeout, a RealtimeError and any other exception of the
\* write all end in _fail; the caller that owns the terminal runs the shutdown.
SendFails(s) ==
    /\ Sending(s)
    /\ FinishTerminal(s, out, Plain("SessionFailed"), "provider")
    /\ IF owner = None THEN UNCHANGED callers ELSE Return(s)
    /\ UNCHANGED <<catalogue, stream, closeTask, closing, ready, current, seen,
                   receiver>>

\* Mutant: the pending frame is given back by an except clause, not by finally.
MutantCallerCancelled(s) ==
    /\ Running /\ sender[s] # "idle" /\ (shutdownBy = s => shutdown = "closing")
    /\ shutdown' = IF shutdownBy = s THEN "abandoned" ELSE shutdown
    /\ sender' = [sender EXCEPT ![s] = "idle"]
    /\ UNCHANGED <<owner, published, shutdownBy, catalogue, stream, closeTask,
                   inputPending, closing, ready, current, seen, out, receiver>>

\* The application cancels the task: CancelledError passes every handler of the
\* write, and ends _shutdown_connection if it is inside connection.close().  The
\* wait for the receiver suppresses it.
CallerCancelled(s) ==
    /\ Running /\ sender[s] # "idle" /\ (shutdownBy = s => shutdown = "closing")
    /\ shutdown' = IF shutdownBy = s THEN "abandoned" ELSE shutdown
    /\ Return(s)
    /\ UNCHANGED <<owner, published, shutdownBy, catalogue, stream, closeTask,
                   closing, ready, current, seen, out, receiver>>

-----------------------------------------------------------------------------
(* close() and _shutdown_connection. *)

Close(reason) ==
    /\ Handed /\ closer = "none"
    /\ closer' = "spawned" /\ closeReason' = reason
    /\ UNCHANGED <<claim, catalogue, stream, callers, closeAck, closing, ready,
                   current, seen, out, receiver>>

\* Mutant: close() marks the session closing without claiming the owner.
MutantClaimClose ==
    /\ closer = "spawned"
    /\ IF owner # None
       THEN closer' = "done" /\ UNCHANGED closing
       ELSE closing' = TRUE /\ closer' = IF closeReason = "other" THEN "raised" ELSE "send"
    /\ UNCHANGED <<claim, catalogue, stream, closeReason, closeAck, callers, ready,
                   current, seen, out, receiver>>

\* _controlled_close up to its first suspension.  The owner is claimed before the
\* close payload is built, and a reason the codec refuses raises after the claim.
ClaimClose ==
    /\ closer = "spawned"
    /\ IF owner # None
       THEN closer' = "done" /\ UNCHANGED <<owner, closing>>
       ELSE /\ owner' = "client" /\ closing' = TRUE
            /\ closer' = IF closeReason = "other" THEN "raised" ELSE "send"
    /\ UNCHANGED <<published, shutdown, shutdownBy, catalogue, stream, closeReason,
                   closeAck, callers, ready, current, seen, out, receiver>>

\* After the ack, its timeout, or a failed write: a local terminal for the current
\* response, SessionClosed, and the shutdown.
FinishClose ==
    LET r == CurrentResponse
        o == IF r = None THEN out ELSE EmitTerminalSafe(out, About("ResponseFinished", r))
    IN  /\ Running
        /\ terminal' = terminal \cup ({r} \ {None})
        /\ out' = EmitTerminalSafe(o, Plain("SessionClosed"))
        /\ published' = TRUE
        /\ shutdown' = "closing" /\ shutdownBy' = "closer"
        /\ closer' = "shutdown"
        /\ UNCHANGED <<owner, responses, cancelled, items, contents, doneItems,
                       doneContents, stream, closeReason, closeAck, callers,
                       closing, ready, current, seen, receiver>>

CloseSent ==
    /\ Running /\ closer = "send" /\ closer' = "wait"
    /\ UNCHANGED <<claim, catalogue, stream, closeReason, closeAck, callers,
                   closing, ready, current, seen, out, receiver>>

CloseSendFails == closer = "send" /\ FinishClose
CloseAcknowledged == closer = "wait" /\ closeAck /\ FinishClose
\* Mutant: the wait for the acknowledgement has no timeout.
MutantCloseAckTimeout == closer = "wait" /\ closeAck /\ FinishClose

CloseAckTimeout == closer = "wait" /\ FinishClose

\* connection.close() returned, raised or timed out: the task cancels the receiver
\* unless it is the receiver, or there is none.
ShutdownClosed ==
    /\ shutdown = "closing"
    /\ \/ /\ shutdownBy = "receiver"
          /\ shutdown' = "done" /\ receiver' = "done"
          /\ UNCHANGED <<callers, closer>>
       \/ /\ shutdownBy # "receiver" /\ receiver = "receive"
          /\ shutdown' = "joining" /\ receiver' = "cancelled"
          /\ UNCHANGED <<callers, closer>>
       \/ /\ shutdownBy # "receiver" /\ receiver # "receive"
          /\ shutdown' = "joining"
          /\ UNCHANGED <<callers, closer, receiver>>
    /\ UNCHANGED <<owner, published, shutdownBy, catalogue, stream, closeReason,
                   closeAck, closing, ready, current, seen, out>>

ReceiverCancelled ==
    /\ receiver = "cancelled" /\ receiver' = "done"
    /\ UNCHANGED <<claim, catalogue, stream, closeTask, callers, closing, ready,
                   current, seen, out>>

\* The receiver has ended, there was none, or the wait for it timed out.
ShutdownJoined ==
    /\ shutdown = "joining" /\ shutdown' = "done"
    /\ closer' = IF shutdownBy = "closer" THEN "done" ELSE closer
    /\ IF shutdownBy \in Senders THEN Return(shutdownBy) ELSE UNCHANGED callers
    /\ UNCHANGED <<owner, published, shutdownBy, catalogue, stream, closeReason,
                   closeAck, closing, ready, current, seen, out, receiver>>

-----------------------------------------------------------------------------
(* events() *)

ConsumerTake ==
    /\ Running /\ Handed /\ consumer # "ended" /\ out.events # <<>>
    /\ LET e == Head(out.events)
       IN  delivered' = IF current \/ e.type \in TerminalTypes
                        THEN Append(delivered, e) ELSE delivered
    /\ out' = Popped(out)
    /\ consumer' = "test"
    /\ UNCHANGED <<claim, catalogue, closeTask, callers, closing, ready, current,
                   seen, receiver>>

\* The loop test: the stream ends, or the consumer blocks in get().
ConsumerTest ==
    /\ Running /\ Handed /\ consumer = "test" /\ out.events = <<>>
    /\ consumer' = IF published THEN "ended" ELSE "get"
    /\ UNCHANGED <<claim, catalogue, delivered, closeTask, callers, closing, ready,
                   current, seen, out, receiver>>

-----------------------------------------------------------------------------
(* _receive_loop: each action is one return of receive_text() and all the    *)
(* work on it.  The loop tests published only before it reads again.         *)

Receiving(kind) == receiver = "receive" /\ kind \in Traffic
Open == current /\ ~closing       \* the payload is decoded and applied
LoopTop == IF published THEN "done" ELSE "receive"

ReceiverFails ==
    /\ FinishTerminal("receiver", out, Plain("SessionFailed"), "provider")
    /\ receiver' = IF owner = None THEN "shutdown" ELSE "done"

\* _emit, and _fail(BUSY) if the queue is full.
ReceiverEmits(e) ==
    IF Fits(out, e)
    THEN out' = Put(out, e) /\ receiver' = LoopTop /\ UNCHANGED claim
    ELSE ReceiverFails

ReceiverSkips == receiver' = LoopTop /\ UNCHANGED <<claim, out>>

\* The end of the stream, a transport error and an undecodable payload.
ReceiveEof ==
    /\ Receiving("eof")
    /\ IF closing THEN receiver' = "done" /\ UNCHANGED <<claim, out>> ELSE ReceiverFails
    /\ UNCHANGED <<catalogue, stream, closeTask, callers, closing, ready, current, seen>>

ReceiveError ==
    /\ Receiving("recvError")
    /\ IF closing THEN ReceiverSkips ELSE ReceiverFails
    /\ UNCHANGED <<catalogue, stream, closeTask, callers, closing, ready, current, seen>>

\* While closing, the loop reads again at once.  On a socket that died every read
\* raises without suspending, so the task never returns control (external:
\* websockets' recv() on a connection in state CLOSED).
ReceiveDead ==
    /\ receiver = "receive" /\ DeadSocket /\ closing /\ ~published
    /\ receiver' = "spin"
    /\ UNCHANGED <<claim, catalogue, stream, closeTask, callers, closing, ready,
                   current, seen, out>>

ReceiveMalformed ==
    /\ Receiving("malformed") /\ Open
    /\ ReceiverFails
    /\ UNCHANGED <<catalogue, stream, closeTask, callers, closing, ready, current, seen>>

\* A payload of an old generation, a duplicate event_id, or anything but the
\* close acknowledgement while closing: counted and dropped.
ReceiveDropped ==
    /\ receiver = "receive" /\ (~Open \/ seen # {})
    /\ ReceiverSkips
    /\ UNCHANGED <<catalogue, stream, closeTask, callers, closing, ready, current, seen>>

ReceiveCloseAck ==
    /\ Receiving("closeAck") /\ closing /\ closer \in {"send", "wait"}
    /\ closeAck' = TRUE
    /\ ReceiverSkips
    /\ UNCHANGED <<catalogue, stream, closer, closeReason, callers, closing, ready,
                   current, seen>>

\* tokenseller.error and tokenseller.session.closed from the relay.
ReceiveRelayTerminal(kind, type) ==
    /\ Receiving(kind) /\ Open
    /\ FinishTerminal("receiver", out, Plain(type), "relay")
    /\ receiver' = IF owner = None THEN "shutdown" ELSE "done"
    /\ UNCHANGED <<catalogue, stream, closeTask, callers, closing, ready, current, seen>>

\* Bound: the relay gives one expiry notice per stream.
ReceiveExpiring ==
    /\ Receiving("expiring") /\ Open
    /\ \A k \in DOMAIN Stream : Stream[k].type # "SessionExpiring"
    /\ ReceiverEmits(Plain("SessionExpiring"))
    /\ UNCHANGED <<catalogue, stream, closeTask, callers, closing, ready, current, seen>>

-----------------------------------------------------------------------------
(* _apply: a provider event with a fresh event_id. *)

\* The provider numbers its events; the session only sees whether an id is new.
Fresh(kind) ==
    /\ Receiving(kind) /\ Open
    /\ \E id \in 1..MaxEvents :
          /\ id \notin seen /\ 1..(id - 1) \subseteq seen
          /\ seen' = seen \cup {id}
    /\ UNCHANGED <<stream, closeTask, callers, closing, current>>

Applying(kind) == Fresh(kind) /\ ready /\ ready' = ready

ApplySessionAck ==
    /\ Fresh("ack") /\ ready' = TRUE
    /\ IF ready THEN ReceiverSkips ELSE ReceiverEmits(Plain("SessionReady"))
    /\ UNCHANGED catalogue

ApplyBeforeReady(kind) ==
    /\ Fresh(kind) /\ ~ready
    /\ ReceiverFails
    /\ UNCHANGED <<catalogue, ready>>

\* Mutant: any two live responses are accepted.
MutantMayIntroduce(r) == r \notin Known /\ Cardinality(Live) < 2

\* A second live response is accepted only as the successor of a cancelled one.
MayIntroduce(r) ==
    /\ r \notin Known
    /\ Cardinality(Live) < 2
    /\ Live \subseteq cancelled

ApplyCreated(r) ==
    /\ Applying("created")
    /\ IF MayIntroduce(r)
       THEN responses' = Append(responses, r) /\ ReceiverEmits(About("ResponseStarted", r))
       ELSE ReceiverFails /\ UNCHANGED responses
    /\ UNCHANGED <<terminal, cancelled, items, contents, doneItems, doneContents>>

ApplyItem(r, i) ==
    /\ Applying("item")
    /\ IF r \in Known /\ <<r, i>> \notin items
       THEN items' = items \cup {<<r, i>>} /\ ReceiverSkips
       ELSE ReceiverFails /\ UNCHANGED items
    /\ UNCHANGED <<responses, terminal, cancelled, contents, doneItems, doneContents>>

\* Mutant: only finished responses are tombstoned.
MutantTombstoned(r) == r \in terminal

Tombstoned(r) == r \in terminal \cup cancelled

\* content_part.added of an audio part: OutputAudioStarted unless the response is
\* finished or cancelled.
ApplyContent(r, i, c) ==
    /\ Applying("content")
    /\ IF <<r, i>> \in items /\ <<r, i, c>> \notin contents
       THEN /\ contents' = contents \cup {<<r, i, c>>}
            /\ IF Tombstoned(r) THEN ReceiverSkips
               ELSE ReceiverEmits(About("OutputAudioStarted", r))
       ELSE ReceiverFails /\ UNCHANGED contents
    /\ UNCHANGED <<responses, terminal, cancelled, items, doneItems, doneContents>>

ApplyContentDone(r, i, c) ==
    /\ Applying("contentDone")
    /\ IF <<r, i, c>> \in contents \ doneContents
       THEN doneContents' = doneContents \cup {<<r, i, c>>} /\ ReceiverSkips
       ELSE ReceiverFails /\ UNCHANGED doneContents
    /\ UNCHANGED <<responses, terminal, cancelled, items, contents, doneItems>>

ApplyItemDone(r, i) ==
    /\ Applying("itemDone")
    /\ IF <<r, i>> \in items \ doneItems
       THEN doneItems' = doneItems \cup {<<r, i>>} /\ ReceiverSkips
       ELSE ReceiverFails /\ UNCHANGED doneItems
    /\ UNCHANGED <<responses, terminal, cancelled, items, contents, doneContents>>

\* A text or audio delta: late after the response, or the content, is finished.
ApplyOutput(r, i, c) ==
    /\ Applying("output")
    /\ IF Tombstoned(r) THEN ReceiverSkips
       ELSE IF <<r, i, c>> \notin contents THEN ReceiverFails
       ELSE IF <<r, i, c>> \in doneContents THEN ReceiverSkips
       ELSE ReceiverEmits(About("OutputAudio", r))
    /\ UNCHANGED catalogue

\* Mutant: a duplicate response.done is emitted again.
MutantApplyDone(r) ==
    /\ Applying("done")
    /\ IF r \notin Known THEN ReceiverFails /\ UNCHANGED terminal
       ELSE terminal' = terminal \cup {r} /\ ReceiverEmits(About("ResponseFinished", r))
    /\ UNCHANGED <<responses, cancelled, items, contents, doneItems, doneContents>>

\* response.done other than failed.
ApplyDone(r) ==
    /\ Applying("done")
    /\ IF r \notin Known THEN ReceiverFails /\ UNCHANGED terminal
       ELSE IF r \in terminal THEN ReceiverSkips /\ UNCHANGED terminal
       ELSE terminal' = terminal \cup {r} /\ ReceiverEmits(About("ResponseFinished", r))
    /\ UNCHANGED <<responses, cancelled, items, contents, doneItems, doneContents>>

\* response.done(failed): the batch ResponseFinished, SessionFailed.
ApplyFailed(r) ==
    LET o == IF r \in Live THEN EmitTerminalSafe(out, About("ResponseFinished", r)) ELSE out
    IN  /\ Applying("failed")
        /\ terminal' = terminal \cup (Live \cap {r})
        /\ FinishTerminal("receiver", o, Plain("SessionFailed"), "provider")
        /\ receiver' = IF owner = None THEN "shutdown" ELSE "done"
        /\ UNCHANGED <<responses, cancelled, items, contents, doneItems, doneContents>>

ApplySpeech ==
    Applying("speech") /\ ReceiverEmits(Plain("SpeechStarted")) /\ UNCHANGED catalogue

ApplyError ==
    Applying("error") /\ ReceiverFails /\ UNCHANGED catalogue

-----------------------------------------------------------------------------
Apply ==
    \/ ApplySessionAck \/ ApplySpeech \/ ApplyError
    \/ \E kind \in ProviderKinds \ {"ack"} : ApplyBeforeReady(kind)
    \/ \E r \in Responses :
          \/ ApplyCreated(r) \/ ApplyDone(r) \/ ApplyFailed(r)
          \/ \E i \in Items :
                \/ ApplyItem(r, i) \/ ApplyItemDone(r, i)
                \/ \E c \in Contents :
                      ApplyContent(r, i, c) \/ ApplyContentDone(r, i, c) \/ ApplyOutput(r, i, c)

Receive ==
    \/ ReceiveEof \/ ReceiveError \/ ReceiveDead \/ ReceiveMalformed
    \/ ReceiveDropped \/ ReceiveCloseAck \/ ReceiveExpiring
    \/ ReceiveRelayTerminal("relayFailed", "SessionFailed")
    \/ ReceiveRelayTerminal("relayClosed", "SessionClosed")
    \/ Apply

CloseStep == ClaimClose \/ CloseSent \/ CloseSendFails \/ CloseAcknowledged \/ CloseAckTimeout

ShutdownStep == ShutdownClosed \/ ReceiverCancelled \/ ShutdownJoined

Consume == ConsumerTake \/ ConsumerTest

Call(s) == SendAudio(s) \/ CancelResponse(s)

SendEnds(s) == SendDone(s) \/ SendFails(s) \/ CallerCancelled(s)

Next ==
    \/ Start \/ StartFails \/ Supersede
    \/ \E s \in Senders : Call(s) \/ SendEnds(s)
    \/ \E reason \in CloseReasons : Close(reason)
    \/ CloseStep \/ ShutdownStep \/ Consume \/ Receive

\* The event loop runs every ready task, every wait of the close task and of the
\* shutdown is bounded by a timeout, and the application drains events().  The
\* peer owes nothing: no fairness on Receive.
Fairness ==
    /\ WF_vars(CloseStep)
    /\ WF_vars(ShutdownStep)
    /\ WF_vars(Consume)

Spec == Init /\ [][Next]_vars /\ Fairness

-----------------------------------------------------------------------------
(* Properties *)

IsTerminal(e) == e.type \in TerminalTypes
Initiators == {"client", "provider", "relay"}
Tasks == Senders \cup {"receiver", "closer", "starter"}

\* Every variable keeps its type: the ids that the session stores are ids the
\* peer may use, the two queue counters never go below zero.
TypeOK ==
    /\ owner \in Initiators \cup {None}
    /\ published \in BOOLEAN /\ closing \in BOOLEAN /\ ready \in BOOLEAN
    /\ current \in BOOLEAN /\ seen \subseteq 1..MaxEvents
    /\ responses \in Seq(Responses)
    /\ terminal \subseteq Responses /\ cancelled \subseteq Responses
    /\ items \subseteq Responses \X Items /\ doneItems \subseteq Responses \X Items
    /\ contents \subseteq Responses \X Items \X Contents
    /\ doneContents \subseteq Responses \X Items \X Contents
    /\ out \in [events : Seq(Event), frames : Nat, bytes : Nat, sequence : BOOLEAN]
    /\ delivered \in Seq(Event) /\ consumer \in {"test", "get", "ended"}
    /\ receiver \in {"off", "receive", "shutdown", "cancelled", "spin", "done"}
    /\ sender \in [Senders -> {"idle", "audio", "cancel"}]
    /\ inputPending \in Int
    /\ closer \in {"none", "spawned", "send", "wait", "shutdown", "done", "raised"}
    /\ closeReason \in CloseReasons \cup {None} /\ closeAck \in BOOLEAN
    /\ shutdown \in {"none", "closing", "joining", "done", "abandoned"}
    /\ shutdownBy \in Tasks \cup {None}

AtMostOneTerminal(s) ==
    \A i, j \in DOMAIN s : IsTerminal(s[i]) /\ IsTerminal(s[j]) => i = j

HasTerminal(s) == \E i \in DOMAIN s : IsTerminal(s[i])

\* Exactly one session terminal (class docstring, _claim_terminal): once published,
\* one SessionClosed or SessionFailed is in the stream, before that none is, and no
\* displacement of a full queue or race of close(), a failing write and the
\* receiver loses or doubles it.
OneTerminal ==
    /\ AtMostOneTerminal(delivered) /\ AtMostOneTerminal(out.events)
    /\ ~(HasTerminal(delivered) /\ HasTerminal(out.events))
    /\ published <=> HasTerminal(delivered) \/ HasTerminal(out.events)

\* A clean close that claimed the owner is never turned into a failure by what the
\* transport or the provider does while it waits, and a failing write or payload
\* is never reported as a clean close (_finish_terminal, _controlled_close).
TerminalMatchesOwner ==
    \A i \in DOMAIN Stream :
        IsTerminal(Stream[i]) =>
            /\ owner = "client" => Stream[i].type = "SessionClosed"
            /\ owner = "provider" => Stream[i].type = "SessionFailed"

\* Barge-in leaves at most one tombstoned predecessor and one successor: at most
\* two live responses, at most one of them not cancelled (_apply).
LiveResponses ==
    /\ Cardinality(Live) <= 2
    /\ \A r1, r2 \in Live \ cancelled : r1 = r2

\* Per response the stream is ordered: nothing about a response follows its
\* ResponseFinished, so it has at most one terminal; and while no event was
\* displaced or skipped everything about it follows its ResponseStarted.
ResponseOrder ==
    /\ \A i, j \in DOMAIN Stream :
          /\ i < j
          /\ Stream[i].type = "ResponseFinished"
          => Stream[j].response # Stream[i].response
    /\ current /\ ~out.sequence =>
          \A j \in DOMAIN Stream : Stream[j].response # None =>
             \E i \in 1..j : Stream[i] = About("ResponseStarted", Stream[j].response)

\* A clean close leaves the latest response finished in front of SessionClosed: it
\* is never still live once the stream holds the clean terminal.
CloseFinishesLatest ==
    published /\ owner = "client" /\ responses # <<>> =>
        responses[Len(responses)] \in terminal

\* The output queue stays bounded even for the terminal sequence, which ignores
\* the limits: one frame of slack, and the frame counter that enforces the limit
\* never drifts from the queue across displacement (_emit, _emit_terminal_safe).
QueueBounded ==
    /\ out.frames = Len(out.events)
    /\ Len(out.events) <= OutputFrames + 1
    /\ ~out.sequence => Len(out.events) <= OutputFrames /\ out.bytes <= OutputBytes

\* The sizes of a sequence of events, added up.
Bytes(events) ==
    LET sum[k \in 0..Len(events)] == IF k = 0 THEN 0 ELSE sum[k - 1] + Size(events[k])
    IN  sum[Len(events)]

\* The queue keeps within its limits, and the byte counter that enforces them is the
\* sum of the sizes of the queued events, across displacement and the terminal sequence.
ByteAccounting == QueueBounded /\ out.bytes = Bytes(out.events)

\* _input_pending_frames counts exactly the send_audio calls in progress, whichever
\* way they end (return, failure, cancellation, shutdown), and respects its limit.
InputAccounting ==
    /\ inputPending = Cardinality({s \in Senders : sender[s] = "audio"})
    /\ inputPending <= InputFrames

OutputCount(events, r) ==
    Cardinality({k \in DOMAIN events :
        events[k].response = r /\ events[k].type \in OutputTypes})

\* No step adds output of a response that is finished or that the application has
\* cancelled, whatever deltas the provider still sends (_apply).
TombstonesSilence ==
    [][\A r \in terminal \cup cancelled :
          OutputCount(out'.events, r) <= OutputCount(out.events, r)]_vars

\* close() returns, and by then or later the stream has ended, however the peer
\* behaves: the acknowledgement has a timeout.
CloseReturns == (closer = "spawned") ~> (closer = "done" /\ consumer = "ended")

TerminalCount(type) == Cardinality({k \in DOMAIN Stream : Stream[k].type = type})

\* The promise of RealtimeStream, about the terminals in front of, or inside, the queue.
TerminalPromise == INSTANCE RealtimeStream WITH
    terminals <- [type \in TerminalTypes |-> TerminalCount(type)]

\* The session implements RealtimeStream: one claim that never changes hands, one
\* terminal that agrees with it and stays in the stream, and every claim leads to one.
ImplementsRealtimeStream == TerminalPromise!Spec

=============================================================================
