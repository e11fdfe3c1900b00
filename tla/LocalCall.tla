-------------------------------- MODULE LocalCall -------------------------------
(***************************************************************************)
(* The life of one local call in LocalRealtimeChannelController            *)
(* (realtime/local_channel.py): the reader (run, with hello, start, stop   *)
(* and its finally block), the forwarder (_forward_events), the terminal   *)
(* either of them claims, the channel and its session-first close          *)
(* (realtime/transports/), and the shutdown of the host.                   *)
(*                                                                         *)
(* Writes to the product pass one FIFO lock.  All of them have the same    *)
(* timeout, so only the write that holds the lock can run into it.  Audio  *)
(* flow control is in LocalAudio.                                          *)
(***************************************************************************)
EXTENDS Naturals, Sequences

CONSTANTS MaxEvents,   \* bound on the domain events of the session
          MaxFaults    \* bound on the writes that fail on an open channel

ASSUME BoundAssumption == MaxEvents \in Nat /\ MaxFaults \in Nat

Tasks == {"reader", "forwarder"}

VARIABLES
    pc,         \* where each task is
    started,    \* _started
    ready,      \* _ready
    terminal,   \* _terminal
    bound,      \* _session is not None
    session,    \* the session: none, open, ending (close was called), closed, failed
    channel,    \* the channel: open, closing, closed, abandoned
    closer,     \* its _close_owner
    queue,      \* the writes that hold or wait for _send_lock
    product,    \* history: what the product was sent
    connected,  \* the product's end of the socket is alive
    host,       \* the host: serving, closing, closed
    events,     \* domain events so far
    faults      \* failed writes so far

call == <<started, ready, terminal, bound>>
env == <<connected, events, faults>>
vars == <<pc, call, session, channel, closer, queue, product, host, env>>

Init ==
    /\ pc = [reader |-> "hello", forwarder |-> "none"]
    /\ started = FALSE /\ ready = FALSE /\ terminal = FALSE /\ bound = FALSE
    /\ session = "none" /\ channel = "open" /\ closer = "none"
    /\ queue = <<>> /\ product = <<>> /\ connected = TRUE /\ host = "serving"
    /\ events = 0 /\ faults = 0

At(t, place) == pc[t] = place
Goto(t, place) == pc' = [pc EXCEPT ![t] = place]
Ended == pc["forwarder"] \in {"none", "done"}

\* The loop of run tests the terminal before it reads again.
LoopTop == IF terminal THEN "finally" ELSE "receive"

\* What follows _fail in each task.
AfterFail(t) == IF t = "reader" THEN "finally" ELSE "done"

-----------------------------------------------------------------------------
(* Writes. *)

\* channel.send refuses at once when the channel is closed.
Request(waiting, t, message) ==
    queue' = IF channel = "open" THEN Append(waiting, [task |-> t, message |-> message])
             ELSE waiting

Queued(t) == \E k \in DOMAIN queue : queue[k].task = t
Holds(t) == queue # <<>> /\ Head(queue).task = t

\* A task has one write at a time: at the head of the queue, or behind the other's.
Without(t) ==
    IF ~Queued(t) THEN queue ELSE IF Holds(t) THEN Tail(queue) ELSE <<Head(queue)>>

Delivered(t) ==
    /\ Holds(t) /\ connected /\ channel # "closed"
    /\ product' = Append(product, Head(queue).message)
    /\ UNCHANGED faults

\* A write that raises or times out may have reached the product.
Lost(t) ==
    \/ /\ ~Queued(t) /\ UNCHANGED <<product, faults>>
    \/ /\ Holds(t)
       /\ IF connected /\ channel # "closed"
          THEN faults < MaxFaults /\ faults' = faults + 1
          ELSE UNCHANGED faults
       /\ product' \in {product, Append(product, Head(queue).message)}

-----------------------------------------------------------------------------
(* _claim_terminal, _fail, _close_session, _close_channel. *)

\* Mutant: the session is forgotten, not closed.
MutantCloseSession == bound' = FALSE /\ UNCHANGED session

\* _close_session: the session is taken away before its close is awaited.
CloseSession ==
    /\ bound' = FALSE
    /\ session' = IF bound /\ session = "open" THEN "ending" ELSE session

\* Mutant: the terminal is not tested.
MutantFail(t) ==
    /\ terminal' = TRUE /\ CloseSession /\ Goto(t, "failClose")
    /\ UNCHANGED <<started, ready>>

\* Up to the first await of _fail.
Fail(t) ==
    /\ IF terminal THEN Goto(t, AfterFail(t)) /\ UNCHANGED <<bound, session>>
       ELSE CloseSession /\ Goto(t, "failClose")
    /\ terminal' = TRUE
    /\ UNCHANGED <<started, ready>>

\* The close of the session returned, raised or timed out.
FailClosed(t) ==
    /\ At(t, "failClose")
    /\ Goto(t, "sendError") /\ Request(queue, t, "error")
    /\ UNCHANGED <<call, session, channel, closer, product, host, env>>

\* call.error (with its call.state), whatever became of it, then call.closed.
ErrorSent(t) ==
    /\ At(t, "sendError") /\ (Delivered(t) \/ Lost(t))
    /\ Goto(t, "sendClosed") /\ Request(Without(t), t, "closed")
    /\ UNCHANGED <<call, session, channel, closer, host, connected, events>>

ClosedSent(t) ==
    /\ At(t, "sendClosed") /\ (Delivered(t) \/ Lost(t))
    /\ Goto(t, "closeChannel") /\ queue' = Without(t)
    /\ UNCHANGED <<call, session, channel, closer, host, connected, events>>

\* channel.close: the first caller closes the session that was bound, then the
\* socket; the others wait for it.
BeginChannelClose(who) ==
    IF channel = "open"
    THEN /\ channel' = "closing" /\ closer' = who
         /\ session' = IF session = "open" THEN "ending" ELSE session
    ELSE UNCHANGED <<channel, closer, session>>

CloseChannel(t) ==
    /\ pc[t] \in {"closeChannel", "lastChannel"}
    /\ BeginChannelClose(t)
    /\ Goto(t, IF At(t, "lastChannel") THEN "lastWait" ELSE "channelWait")
    /\ UNCHANGED <<call, queue, product, host, env>>

ChannelClosed ==
    /\ channel = "closing" /\ channel' = "closed"
    /\ UNCHANGED <<pc, call, session, closer, queue, product, host, env>>

ChannelWaited(t) ==
    /\ pc[t] \in {"channelWait", "lastWait"} /\ channel # "closing"
    /\ Goto(t, IF At(t, "lastWait") THEN "done" ELSE AfterFail(t))
    /\ UNCHANGED <<call, session, channel, closer, queue, product, host, env>>

\* _close_channel gives up: its own close is cancelled and the socket stays as it is.
ChannelTimeout(t) ==
    /\ At(t, "channelWait") /\ channel = "closing"
    /\ channel' = IF closer = t THEN "abandoned" ELSE channel
    /\ Goto(t, AfterFail(t))
    /\ UNCHANGED <<call, session, closer, queue, product, host, env>>

-----------------------------------------------------------------------------
(* The reader: run, _receive_hello, _handle_product_message. *)

Receiving == pc["reader"] \in {"hello", "receive"} /\ connected /\ channel # "closed"

Hello ==
    /\ Receiving /\ At("reader", "hello") /\ Goto("reader", LoopTop)
    /\ UNCHANGED <<call, session, channel, closer, queue, product, host, env>>

\* A message that is refused, or whose handling raises or times out.
ReceiveBad ==
    /\ Receiving /\ Fail("reader")
    /\ UNCHANGED <<channel, closer, queue, product, host, env>>

\* Any message that is handled and changes nothing here; with the terminal claimed
\* the loop ends.
ReceiveOther ==
    /\ Receiving /\ At("reader", "receive") /\ terminal
    /\ Goto("reader", LoopTop)
    /\ UNCHANGED <<call, session, channel, closer, queue, product, host, env>>

CallStart ==
    /\ Receiving /\ At("reader", "receive") /\ ~started /\ ~terminal
    /\ started' = TRUE
    /\ Goto("reader", "connecting") /\ Request(queue, "reader", "connecting")
    /\ UNCHANGED <<ready, terminal, bound, session, channel, closer, product, host, env>>

ConnectingSent ==
    /\ At("reader", "connecting") /\ Delivered("reader")
    /\ Goto("reader", "opening") /\ queue' = Without("reader")
    /\ UNCHANGED <<call, session, channel, closer, host, connected, events>>

OpenFails ==
    /\ At("reader", "opening") /\ Fail("reader")
    /\ UNCHANGED <<channel, closer, queue, product, host, env>>

\* bind_session raises when the channel was closed meanwhile.
Opened ==
    /\ At("reader", "opening")
    /\ IF channel = "open"
       THEN /\ bound' = TRUE /\ session' = "open"
            /\ pc' = [reader |-> LoopTop, forwarder |-> "run"]
            /\ UNCHANGED terminal
       ELSE /\ terminal' = TRUE /\ session' = "ending" /\ bound' = FALSE
            /\ Goto("reader", "failClose")
    /\ UNCHANGED <<started, ready, channel, closer, queue, product, host, env>>

CallStop ==
    /\ Receiving /\ At("reader", "receive") /\ started /\ ~terminal
    /\ Goto("reader", "closing") /\ Request(queue, "reader", "closing")
    /\ UNCHANGED <<call, session, channel, closer, product, host, env>>

ClosingSent ==
    /\ At("reader", "closing") /\ Delivered("reader")
    /\ queue' = Without("reader") /\ CloseSession /\ Goto("reader", "stopClose")
    /\ UNCHANGED <<started, ready, terminal, channel, closer, host, connected, events>>

StopClosed ==
    /\ At("reader", "stopClose") /\ Goto("reader", IF Ended THEN LoopTop ELSE "stopWait")
    /\ UNCHANGED <<call, session, channel, closer, queue, product, host, env>>

StopJoined ==
    /\ At("reader", "stopWait") /\ Ended /\ Goto("reader", LoopTop)
    /\ UNCHANGED <<call, session, channel, closer, queue, product, host, env>>

\* Mutant: the wait for the forwarder has no timeout.
MutantStopTimeout == FALSE

StopTimeout ==
    /\ At("reader", "stopWait") /\ Fail("reader")
    /\ UNCHANGED <<channel, closer, queue, product, host, env>>

\* A connection error closes the session and says nothing to the product.
ConnectionLost ==
    /\ CloseSession /\ Goto("reader", "eofClose")
    /\ UNCHANGED <<started, ready, terminal>>

ReceiveFails ==
    /\ pc["reader"] \in {"hello", "receive"}
    /\ ~connected \/ channel \in {"closing", "closed"}
    /\ ConnectionLost \/ Fail("reader")
    /\ UNCHANGED <<channel, closer, queue, product, host, env>>

WriteFails ==
    /\ pc["reader"] \in {"connecting", "closing"} /\ Lost("reader")
    /\ queue' = Without("reader")
    /\ ConnectionLost \/ Fail("reader")
    /\ UNCHANGED <<channel, closer, host, connected, events>>

EofClosed ==
    /\ At("reader", "eofClose") /\ Goto("reader", "finally")
    /\ UNCHANGED <<call, session, channel, closer, queue, product, host, env>>

\* The finally block cancels the forwarder wherever it is, then closes the session.
Finally ==
    /\ At("reader", "finally")
    /\ pc' = [reader |-> "lastClose",
              forwarder |-> IF Ended THEN pc["forwarder"] ELSE "done"]
    /\ queue' = Without("forwarder")
    /\ \/ UNCHANGED product
       \/ Holds("forwarder") /\ product' = Append(product, Head(queue).message)
    /\ channel' = IF channel = "closing" /\ closer = "forwarder" THEN "abandoned"
                  ELSE channel
    /\ CloseSession
    /\ UNCHANGED <<started, ready, terminal, closer, host, env>>

LastClosed ==
    /\ At("reader", "lastClose") /\ Goto("reader", "lastChannel")
    /\ UNCHANGED <<call, session, channel, closer, queue, product, host, env>>

-----------------------------------------------------------------------------
(* The forwarder: _forward_events. *)

Forwarding == At("forwarder", "run") /\ ~terminal

ForwardReady ==
    /\ Forwarding /\ ~ready /\ ready' = TRUE
    /\ Goto("forwarder", "sendReady") /\ Request(queue, "forwarder", "ready")
    /\ UNCHANGED <<started, terminal, bound, session, channel, closer, product, host, env>>

\* call.ready and the active state are two writes; the terminal is not tested between.
ReadySent ==
    /\ At("forwarder", "sendReady") /\ Delivered("forwarder")
    /\ Goto("forwarder", "sendEvent")
    /\ Request(Without("forwarder"), "forwarder", "active")
    /\ UNCHANGED <<call, session, channel, closer, host, connected, events>>

ForwardEvent ==
    /\ Forwarding /\ ready /\ events < MaxEvents /\ events' = events + 1
    /\ Goto("forwarder", "sendEvent") /\ Request(queue, "forwarder", "event")
    /\ UNCHANGED <<call, session, channel, closer, product, host, connected, faults>>

EventSent ==
    /\ At("forwarder", "sendEvent") /\ Delivered("forwarder")
    /\ Goto("forwarder", "run") /\ queue' = Without("forwarder")
    /\ UNCHANGED <<call, session, channel, closer, host, connected, events>>

ForwardWriteFails ==
    /\ pc["forwarder"] \in {"sendReady", "sendEvent"} /\ Lost("forwarder")
    /\ queue' = Without("forwarder") /\ Fail("forwarder")
    /\ UNCHANGED <<channel, closer, host, connected, events>>

\* An event that breaks the protocol, or SessionFailed.
ForwardRefused ==
    /\ Forwarding /\ Fail("forwarder")
    /\ UNCHANGED <<channel, closer, queue, product, host, env>>

SessionOver == session \in {"closed", "failed"}

ForwardTerminal ==
    /\ Forwarding /\ SessionOver
    /\ \/ session = "failed" /\ Fail("forwarder") /\ UNCHANGED queue
       \/ /\ session = "closed" /\ terminal' = TRUE
          /\ Goto("forwarder", "sendClosed") /\ Request(queue, "forwarder", "closed")
          /\ UNCHANGED <<started, ready, bound, session>>
    /\ UNCHANGED <<channel, closer, product, host, env>>

\* An event after the terminal of the call ends the forwarder.
ForwardLate ==
    /\ At("forwarder", "run") /\ terminal /\ Goto("forwarder", "done")
    /\ UNCHANGED <<call, session, channel, closer, queue, product, host, env>>

-----------------------------------------------------------------------------
(* The session, the product and the host. *)

SessionEnds ==
    /\ session \in {"open", "ending"} /\ session' \in {"closed", "failed"}
    /\ UNCHANGED <<pc, call, channel, closer, queue, product, host, env>>

Disconnect ==
    /\ connected /\ connected' = FALSE
    /\ UNCHANGED <<pc, call, session, channel, closer, queue, product, host, events, faults>>

HostCloses ==
    /\ host = "serving" /\ host' = "closing" /\ BeginChannelClose("host")
    /\ UNCHANGED <<pc, call, queue, product, env>>

\* With the channel closed the host cancels its handler; a handler in its finally
\* block loses the await it is in.
HostCancels ==
    /\ host = "closing" /\ channel # "closing" /\ ~At("reader", "finally")
    /\ host' = "closed"
    /\ Goto("reader", IF pc["reader"] \in {"lastClose", "lastChannel", "lastWait", "done"}
                      THEN "done" ELSE "finally")
    /\ queue' = Without("reader")
    /\ UNCHANGED <<call, session, channel, closer, product, env>>

-----------------------------------------------------------------------------
FailStep(t) ==
    FailClosed(t) \/ ErrorSent(t) \/ ClosedSent(t) \/ CloseChannel(t) \/ ChannelWaited(t)

ReaderStep ==
    \/ ConnectingSent \/ OpenFails \/ Opened \/ ClosingSent \/ StopClosed \/ StopJoined
    \/ StopTimeout \/ ReceiveFails \/ WriteFails \/ EofClosed \/ Finally \/ LastClosed

ForwarderStep == ReadySent \/ EventSent \/ ForwardWriteFails \/ ForwardTerminal

Next ==
    \/ Hello \/ ReceiveBad \/ ReceiveOther \/ CallStart \/ CallStop \/ ReaderStep
    \/ ForwardReady \/ ForwardEvent \/ ForwardRefused \/ ForwardLate \/ ForwarderStep
    \/ \E t \in Tasks : FailStep(t) \/ ChannelTimeout(t)
    \/ ChannelClosed \/ SessionEnds \/ Disconnect \/ HostCloses \/ HostCancels

\* Every await but the ones for the product and for the session has a timeout.
Fairness ==
    /\ WF_vars(ReaderStep) /\ WF_vars(ForwarderStep)
    /\ \A t \in Tasks : WF_vars(FailStep(t))
    /\ WF_vars(ChannelClosed) /\ WF_vars(HostCancels)

Spec == Init /\ [][Next]_vars /\ Fairness

-----------------------------------------------------------------------------
(* Properties *)

ReaderPlaces ==
    {"hello", "receive", "connecting", "opening", "closing", "stopClose", "stopWait",
     "eofClose", "finally", "lastClose", "lastChannel", "lastWait", "done"}
ForwarderPlaces == {"none", "run", "sendReady", "sendEvent", "done"}
FailPlaces == {"failClose", "sendError", "sendClosed", "closeChannel", "channelWait"}

Messages == {"connecting", "ready", "active", "event", "closing", "error", "closed"}

\* Each task is at one of its own places, and each of them has at most one write.
TypeOK ==
    /\ pc["reader"] \in ReaderPlaces \cup FailPlaces
    /\ pc["forwarder"] \in ForwarderPlaces \cup FailPlaces
    /\ started \in BOOLEAN /\ ready \in BOOLEAN /\ terminal \in BOOLEAN /\ bound \in BOOLEAN
    /\ session \in {"none", "open", "ending", "closed", "failed"}
    /\ channel \in {"open", "closing", "closed", "abandoned"}
    /\ closer \in Tasks \cup {"none", "host"}
    /\ Len(queue) <= 2
    /\ \A k \in DOMAIN queue : queue[k] \in [task : Tasks, message : Messages]
    /\ product \in Seq(Messages) /\ connected \in BOOLEAN
    /\ host \in {"serving", "closing", "closed"}
    /\ events \in 0..MaxEvents /\ faults \in 0..MaxFaults

\* terminal_order of the manifest: whichever tasks fail, stop and are cancelled at
\* once, the product is sent call.closed at most once, no state, error or event behind
\* it, and call.error at most once before it.  (Input acknowledgements, which are not
\* messages of this module, may still be written behind call.closed.)
ClosedIsLast ==
    /\ TypeOK
    /\ \A k \in DOMAIN product : product[k] = "closed" => k = Len(product)
    /\ \A j, k \in DOMAIN product : product[j] = "error" /\ product[k] = "error" => j = k

Announced == \E k \in DOMAIN product : product[k] = "closed"

\* Session first: the product is told call.closed, and run returns, only when the
\* session it opened was told to close or is over; run returns after its forwarder.
NoOrphanSession ==
    /\ Announced => session # "open"
    /\ At("reader", "done") => session # "open" /\ Ended

\* Once the call has its terminal or is told to stop, or the product or the host is
\* gone, run returns: no task waits for the other for ever.  A socket whose close was
\* given up is left to the product.
CallEnds ==
    (terminal \/ At("reader", "closing") \/ ~connected \/ host # "serving")
        ~> (At("reader", "done") \/ channel = "abandoned")

\* terminal_order of the manifest: a call that ends while the product is connected
\* and the host is serving announces it.
TerminalAnnounced == terminal ~> (Announced \/ ~connected \/ host # "serving")

=============================================================================
