# Verification of simple-harness-service-sdk

TLA+ models of the realtime half of the SDK (`src/src/simple_harness_service/realtime/`) and
of its chat half (`chat_controller.py`, `terminal_ui.py` and the service they call), checked
with TLC on small instances. Every safety property of the passing runs is also proved with
TLAPS, for every value of the constants. Line numbers of the code behind each definition are in the `map`
of `PROJECT.json`.

## The system

The SDK has two halves. The *harness* half forwards commands of a product to a run
service: `service.py` is a stateless facade, `transports/unix.py` carries one request at a
time, `chat_controller.py` follows one run. The *realtime* half keeps voice sessions with
a provider, through a relay, and offers them to local products. It holds most of the state
and nearly all of the concurrency.

All code is asyncio on one thread. Two tasks interleave only where one suspends: at a
socket read, write or close, at a timed wait, or at a contended lock. A step of a model is
the code between two such points.

| Component | State | Operations | Interacts with |
|---|---|---|---|
| Session, `session.py` | terminal owner, closing and published flags, bounded event queue with two counters, catalogue of responses, items and contents, tool records, pending input counter | `start`, `send_audio`, `cancel_response`, `append_message`, `submit_tool_result`, `close`, `events`; tasks: receiver, closer, attempts, dispatches | connection, adapter, control codec, recovery state |
| Recovery state, `recovery.py` | generation, seen tool calls, message keys, item identities, per external session | `begin_session`, `claim_message`, `confirm_message`, `snapshot`, `from_snapshot` | shared by the sessions of an external id; saved by the host |
| Client, `client.py`, with `tokenseller.py`, `relay_control.py`, `websocket.py` | one generation counter, the used correlations | `open`: reserve, mint, connect, handshake, `start`; clean-up of a failed open | makes sessions; a newer generation silences the older |
| Adapters, `qwen_omni.py`, `openai.py` | pending requests, instruction update, out-of-band response, seen items and events; Qwen: the identity table of the recovery state | decode and encode | called by the session on each payload |
| Relay control, `relay_control.py` | none | decode and validate | client and session |
| Local channel controller, `local_channel.py` | started, ready, terminal; input window, batch and ack timer; output window and playback position | hello, start, stop, barge-in, audio, ack; tasks: reader, forwarder, ack timer | one session, one channel |
| Local hosts, `loopback_websocket.py`, `unix_local.py` | channels, pending admissions, handler tasks, close owner | accept, run, close | run one controller per channel |
| Provider transport, `websocket.py` | one socket | connect, send, receive, close | used by the session |
| Chat controller, `chat_controller.py` | active run, cancel task, snapshots, deadlines | submit, cancel, quit, observe | harness client |
| Terminal UI, `terminal_ui.py` | prompt, observer task, typed-ahead lines, exit code | the interactive loop, the flat loop, the recovery from a broken display | chat controller |
| Harness service, client, Unix transport | none beyond the connection | start, continue, get, cancel | harness |
| Tool schemas, diagnostics, contracts, CLI | none that another part reads | requests, validation, presentation | |

What is hard, and what makes each part correct:

- *Session.* `close()`, a failing write, the relay and the receiver reach the end of the
  session at once, over a queue that may be full. There must be one terminal, of the kind
  its claimant stands for, and the stream must end. Barge-in lets two responses be live
  while late events of the older one arrive.
- *Tool calls.* Writes are ambiguous, results are retried, two tasks may submit, the
  provider repeats calls after a reconnect. One result per call, one run of the tool, the
  follow-up only after the result.
- *Messages.* A key must not reach the provider twice over failed writes, cancellations,
  reconnects and restarts, except for claims that a crash lost before the host saved them;
  what `from_snapshot` refuses must be known.
- *Local audio.* Frames come reordered, doubled or with gaps, the product acknowledges
  anything, windows fill up.
- *Client.* Opens run concurrently and fail or are cancelled at every await. No failed open
  may leave a connection; of the sessions of one client, or of one external id, only the
  latest may speak.
- *Adapters.* The provider answers late, twice, without naming the request, or with an id
  of its own choice, and the adapter decodes an event before the session asks whether it
  is a repetition. An answer must confirm the request it belongs to; an item, once known
  as the user's, must not change hands; a spoken input must be published once.
- *Chat.* A command and its run are read one after the other, over a service that answers
  late, in part or never, while a user cancels, quits, types ahead or interrupts the prompt.
  A run must be settled with its own end, and a quit must end the chat.
- *Local call.* Reader, forwarder, session, product and host may each end the call, and
  the reader cancels the forwarder.

`hazards` in `PROJECT.json` lists these at their lines, with the properties aimed at them.

## Modules

| Module | Models | Instance |
|---|---|---|
| `RealtimeStream` | abstract: one claim, one terminal that agrees with it, every claim leads to one | refined by `RealtimeSession` |
| `RealtimeSession` | `ManagedRealtimeSession`: queue, terminal, receiver, catalogue, send, cancel, close, shutdown | `MCRealtimeSession` |
| `RealtimeSession_proofs` | its types, terminal, live responses, input accounting, event order, queue and queue bytes, and the refinement of `RealtimeStream` | |
| `ToolCalls` | the tool part of the session: record, attempt, dispatch, follow-ups, reopen | `MCToolCalls` |
| `ToolCalls_proofs` | theorems about it | |
| `MessageRecovery` | `append_message` over `RealtimeRecoveryState`, with snapshot and crash | `MCMessageRecovery` |
| `MessageRecovery_proofs` | theorems about it | |
| `RealtimeClient` | `open()` of several clients over shared recovery state, with minter, transport and codec | itself |
| `RealtimeClient_proofs` | theorems about it | |
| `ItemIdentity` | operators: the identity table of `recovery.py` | used by `ProviderAdapter` |
| `ProviderAdapter` | the stateful half of both adapters under the session's context requests, event ids and transcripts | itself |
| `ProviderAdapter_proofs` | theorems about it and the identity table | |
| `HarnessService` | the store of commands as the service shows it; `_closed_outcome` | extended by `ChatController` |
| `ChatController` | the active run, its cancel task and its observer | extended by `TerminalChat` |
| `TerminalChat` | both loops of the terminal UI over the controller and the harness | itself |
| `TerminalChat_proofs` | theorems about the three layers of the chat | |
| `LocalAudio` | flow control of the local controller, both directions | itself |
| `LocalAudio_proofs` | theorems about it | |
| `LocalCall` | life of a local call, close of its channel, shutdown of the host | itself |
| `LocalCall_proofs` | theorems about it | |

State and actions follow the code: a variable is commented with the attribute it stands
for, an action is named after the method or the point it resumes at.

- `RealtimeSession`. `FinishTerminal` is `_finish_terminal` up to its first suspension
  (claim, emit, publish); the task that ran it goes on in `ShutdownClosed`,
  `ReceiverCancelled` and `ShutdownJoined`. Each `Receive...` and `Apply...` action is one
  return of `receive_text()` with all the work on it. `Stream` is what `events()` has
  yielded followed by what is queued.
- `ToolCalls`. A client of a call waits for the attempt task of its record; `SendResult`
  and `SendFollowup` cover a write that arrives, is lost, or arrives and raises.
- `MessageRecovery`. `Enter` is `append_message` with the lock: claim, test, write. `Save`
  writes `disk` whenever the host likes; `Crash` forgets the process and restores `disk`,
  however old it is, unless `from_snapshot` refuses it (`Restorable`). `unsaved` and
  `forgotten` record which claims a crash lost. `AckItems` is where the adapters differ:
  Qwen registers the item of an acknowledged message, OpenAI does not. What other
  operations put into the state is counted only (`others`, `Record`), for the size limits.
- `RealtimeClient`. A stage of `pc` is the await a call of `open()` is suspended in; each
  error set is named after the function whose exceptions it lists. `Init` lets the
  recovery state be restored with any generation up to `MaxRestored`.
- `ProviderAdapter`. An event is decoded by the adapter (`Decode`, which gives the new
  adapter, the new table and a `DecodedProviderEvent`) and then applied by the session
  (`Handle`). A message is named by its role, instructions by their text.
  `_context_events` is a set of request numbers: they count upwards, so the order in which
  the dict was filled is that of the numbers. Events nobody
  asked for are read at once (`Announce`), because nothing the application does depends on
  them before. Responses, tools, output and the follow-up `response.create` of
  `_inject_context` are left out.
- `HarnessService`, `ChatController`, `TerminalChat` are layers of one state machine. The
  harness is a library and modelled from how the service reads it: a request on the socket
  may be served after its client gave up. `GetCommand` is two steps, the command and then
  its run, because `get_command` reads them one after the other. A deadline is armed and
  passes at any later moment. A request may fail in three ways (`Errors`): a `ServiceError`
  ends the UI, an `EOFError` of an answer that was cut off is taken for a Ctrl-D, anything
  else goes to the recovery (`Raise`, `HandleEOF`, `ObserverRaises`).
- `LocalAudio`. The loop over the ready frames is `Feed`, which runs to the next flush. A
  frame of input is one unit of bytes and a unit of output bytes one unit of time; the
  conversion to milliseconds is a division by a positive constant and changes no test.
  `Slide` pops the leading chunks an acknowledgement passes, as the loop does; that this is
  right although it looks at the front only is `PassedExactly` of the proofs.
- `LocalCall`. Writes go through `queue`, the FIFO `_send_lock`. `_fail` is `Fail`,
  `FailClosed`, `ErrorSent`, `ClosedSent`, `CloseChannel`, `ChannelWaited` of either task.
  `Finally` is the finally block of `run` up to its own close of the session.

## Runs

Passing runs:

| Run | Question | Bounds |
|---|---|---|
| `session_lifecycle` | Does every race to the end leave a terminal of the right kind, a finished latest response, and exact input accounting; does `close()` return, and the session implement `RealtimeStream`, with one terminal and a stream that ends? | 2 responses, 2 senders, 3 provider events, queue of 2 frames: each terminal can meet a full queue, a displaced one, and a sender in its write; reasons the codec accepts, sockets that do not die |
| `session_order` | Are events of a response in order, silent after cancel or finish, are the limits of the queue kept and its byte counter exact, and is there at most one terminal, also when `close()` raises or the socket dies? | 3 responses (the third is the one that must be refused), 6 events, a relay that fails, an end of the socket, reasons the codec refuses |
| `tool_record` | Is a call submitted once, in order, dispatched once, queued exactly while it waits for its follow-up, and does every submission return? | 1 call, 2 outputs, 2 application tasks and the dispatcher, 3 responses, 2 generations, 3 writes per payload |
| `message_once` | Does each key reach the provider at most once, and once more only for a claim a crash lost; does `from_snapshot` refuse exactly what it must; does every call return? | 1 key (keys meet in the lock only), a user and a system digest, 2 tasks, 2 generations, 1 crash from a snapshot of any age, limits of 1 and 1 other entry, which can exceed the limit of sessions or of identities |
| `client_open` | Does a failed open close its connection, is at most one session current, are correlations unique, does `open()` return? | 2 opens over 2 clients and 2 external ids in every combination, 2 correlations, tables restored at generation 0 or 1: each open can overtake the other through the client or through the recovery state |
| `provider_context` | Does an answer confirm only what was carried out, can a waiting request still be answered, is the identity table closed and stable, is a transcription published once? | both providers, 2 requests, 1 voice item, 4 events, repetitions included, 2 of them in flight, 2 generations: a cancelled request, its late answer and the next request fit |
| `chat` | Is a run settled truly, followed until then, are the marks of a cancel its own, does the recovery decide? | 2 runs, 3 user steps, 1 broken display: a second run meets what is left of the first |
| `chat_quit` | Does a quit end the chat? | 1 run, 3 user steps, 1 broken display: a quit can meet the run in each of its states, a cancel before it and a torn answer |
| `local_audio` | Is input passed on in sequence within its window, is the output window exact, does a blocked producer go on? | 4 input frames, 3 chunks of 1 or 2 bytes, a window of 2 frames and 3 bytes: either limit can be the one that binds |
| `local_call` | Is call.closed last and single, is no session left open, does `run` return? | 1 domain event, 1 failed write on an open channel |

Each module has one type invariant; where it is a conjunct of a deeper invariant
(`OnceUnlessForgotten`, `InputInSequence`, `ClosedIsLast`, `SettledTruly`, `CorrelationsUnique`) the
run lists only that one.

Symmetry (responses, senders) is used in `session_order` only, where nothing but safety is
checked. Deadlock is not checked: all of these systems stop
once the session or the call is over or a bound is used up. What may not stop is stated as
a liveness property instead.

Runs in which the code does not do what a document says:

| Run | What TLC shows |
|---|---|
| `session_dead_socket` | While `close()` waits, a read that raises is answered by reading again at once. On a dead socket that never suspends, so the acknowledgement timeout never runs. |
| `transcript_twice` | A voice item that `conversation.item.created` registered is completed by a user-side transcript and again by its transcription: the session deduplicates only items of three other sources and publishes both. |

Further configurations that TLC refutes, run by hand with `tlc -config X.cfg M`. Each checks
one sentence of a document or comment that the code does not keep:

| Configuration, module | What TLC shows |
|---|---|
| `MessageRestart.cfg`, `MCMessageRecovery` | `append_message` claims a key and writes its message without a point at which the host could save (`session.py` 316 and 372). A restart from an older snapshot sends the message again; docs/realtime-0.3.19.md 59 promises at most one request, and 45 asks the host only for persistence, atomic saving and a single writer. |
| `MessageOpenAI.cfg`, `MCMessageRecovery` | The OpenAI adapter does not register the item of an acknowledged message, so `from_snapshot` refuses every snapshot with a confirmed one (`openai.py` 342, `recovery.py` 270; docs/realtime-0.3.19.md 45 says it restores). |
| `MessageSystemRole.cfg`, `MCMessageRecovery` | After a confirmed system message, `from_snapshot` refuses what `snapshot` returned (`recovery.py` 84 and 270; docs/realtime-0.3.19.md 45 says it restores). |
| `MessageLimits.cfg`, `MCMessageRecovery` | A state may outgrow the limits of `from_snapshot`, which nothing that fills it keeps (`recovery.py` 167 and 191; the same sentence). |
| `LocalLostAck.cfg`, `LocalAudio` | A frame accepted while the timer task writes its acknowledgement starts no timer, so it is not acknowledged until another frame comes (`local_channel.py` 341; the protocol manifest's `ack_max_delay_ms`). |
| `LocalUnannounced.cfg`, `LocalCall` | The forwarder claimed the terminal and closes the session; any product message ends the reader's loop, whose finally block cancels the forwarder: call.error and call.closed are never sent (`local_channel.py` 204; the manifest's `terminal_order`). |
| `ChatDropped.cfg`, `TerminalChat` | The observer has settled the run; Ctrl-C or Ctrl-D ends the prompt, the finally block drops the observer, and the end of the run is never shown (`terminal_ui.py` 206 to 239; the comment at 507 says durable state is processed first). |

Known divergences the models also contain, without a run of their own:

- A payload received while `_shutdown_connection` waits in `connection.close()` is still
  applied, and `events()` yields it behind the terminal (`session.py` 1218; ARCHITECTURE.md
  169 says the stream ends).
- `close()` with a reason the codec refuses raises after it claimed the terminal; the
  stream then never ends (`session.py` 607). `session_lifecycle` checks accepted reasons.
- A second `submit_tool_result` with another output, before the attempt task has run,
  returns success though its output is never submitted (`session.py` 291; ARCHITECTURE.md
  177 says it is rejected).
- A response nobody asked for claims the first waiting call; a retry of that call then
  returns without asking (`session.py` 981; ARCHITECTURE.md 176).
- `open()` cancelled after the transport connected leaves the connection open: no handler
  catches `CancelledError` (`client.py` 324, step `CancelOpen`).
- A repeated error without an id (Qwen), or a repeated response.created or session.updated
  (OpenAI), uses up the pending request in the adapter although the session then discards
  the event as known; the caller waits for its timeout. `WaiterIsKnown` names exactly
  these exceptions (`session.py` 834 to 853).
- A run that completes between the two reads of `get_command` is reported as a protocol
  error and ends the chat with code 3 (`service.py` 92 and 98).
- An answer of the harness that is cut off raises an `IncompleteReadError`, which `_rpc` does
  not catch (`transports/unix.py` 297); the interactive loop takes it for a Ctrl-D
  (`terminal_ui.py` 218), so the run is cancelled and the chat quits after it.
- A call that waited for the context lock while its session ended leaves its key pending
  though nothing was written (`session.py` 317; docs/realtime-0.3.19.md 59).

Every property of a passing run has a mutant in `PROJECT.json`: a change of one mapped
definition, as a slip in that code would make it, under which the run finds a violation.

## Fairness

Weak fairness stands for the event loop, which runs every task that can run, and for the
timeouts around every write, close and acknowledgement. Nothing is assumed of the peer:
not of the provider in `RealtimeSession` (`Receive`) and `ToolCalls` (`Provider`), not
of the relay in `RealtimeClient` (every await of `open()` has a timeout, so one of its
steps is always possible), not of the user or the harness in `TerminalChat` (a quit ends
there through the deadlines), not of the product in `LocalAudio` and `LocalCall`, not of
the session in `LocalCall`. The application is assumed to drain `events()`. Two limits
are explicit: `QuitEnds` leaves out the dropped event of `ChatDropped.cfg`, and `CallEnds`
leaves out a socket whose close `_close_channel` gave up (state `abandoned`). The host of
`MessageRecovery` owes nothing: it saves when it likes, or never.

## Proofs

`RealtimeSession_proofs` proves, from the named assumptions of `RealtimeSession` (positive
frame limit, natural sizes and limits, `None` and the names of tasks distinct):

- `TypeCorrect`: `TypeOK` always holds. The queue lemmas (`PutType`,
  `EmitTerminalSafeType`, `PoppedType`) and `CurrentResponseLive`, which shows that the
  latest live response exists whenever there is a live one, carry it; each group of actions
  has its lemma.
- `ExactlyOneTerminal` and `TerminalAgrees`: from the inductive invariant `TerminalInv`.
  `OneTerminal` alone is not inductive. `FinishClose` publishes without testing
  anything: it is safe only because the closer in `send` or `wait` still owns an unpublished
  terminal. A displacement may drop queued events: it is safe only because published implies
  that the terminal sequence has begun, after which nothing is displaced. `TerminalInv` adds
  these two facts and the agreement of each terminal with the owner.
- `LiveResponsesBounded`: from `LiveInv`, the bound with the finiteness of `Live`.
  Finishing and cancelling only shrink the sets; `MayIntroduce` is what lets a response in.
- `InputCounted`: every way `send_audio` ends goes through `Return`. The count needs the set
  of calls in progress to be finite although `Senders` may not be (`InputInv`).
- `CloseFinishes`: from `ClaimedInv`: a terminal the client claimed belongs to a session that is
  closing, one of the provider or the relay is published already, so that only the closer,
  which finishes the latest response first, publishes a clean one.
- `EventsOrdered` and `TombstonesStaySilent`: from `CatalogueInv` and `OrderInv`. The order of
  the stream is not inductive: that an event may be appended depends on `terminal` and
  `cancelled`, so the invariant says that a ResponseFinished in the stream means a response in
  `terminal`, and that an event of a response means one in the catalogue.
- `QueueStaysBounded`: the terminal sequence ignores the limits, and it stays within one event
  above them only because, after a terminal with the receiver still reading, there is room
  for the one ResponseFinished it may add (`QueueInv`). Not a property of a run.
- `BytesExact`: the byte counter of the queue is the sum of the sizes in it (`ByteAccounting`).
  The sum is a recursive function: `AddsExists`
  and `BytesConcat` show that it is defined for every queue and additive, both by a least
  counterexample (`LeastNatural`). Then an emission adds its size, `events()` takes the size
  of the head, a displacement starts again from nothing.
- `KeepsTerminalPromise`: the refinement of `RealtimeStream`, its fairness aside. Each step
  maps to a claim, a publication or a stutter, and the publication follows from
  `ExactlyOneTerminal` in the state before and after it.

`RealtimeClient_proofs` proves, for any sets of opens, clients, external ids and
correlations, any restored generations and any number of opens:

- `OneCurrentTheorem` and `OnlyOvertakenTheorem`. Neither is inductive: they follow from
  `GenerationInv`: every generation is bounded by the counter of its client and the table
  of its external id (`BoundInv`), two sessions with a client or an external id in common
  have distinct generations (`DistinctInv`), and once there is a session the bounds are
  reached by one (`ReachedInv`). `BeginSession` is the only step that moves them; it takes
  the larger of both plus one, in one step because the generation lock is held.
- `NoConnectionLeftTheorem`: from `ConnectionInv`, which stages hold a connection.
- `CorrelationsUniqueTheorem`: from `CorrelationInv`, that every correlation in use is in
  `_used_correlations` of its client.

The inductive invariant is `IInv`, the conjunction of these with `TypeOK` and `StageInv`,
that an open before `BeginSession` has no generation.

`ToolCalls_proofs`, for any calls, outputs and application tasks: `ToolTypes`,
`ToolResultOnce`, `ToolFollowupOrder`, `ToolDispatchedOnce`. `RecordInv` ties the place of an
attempt to the state of its record, where the acknowledgement may overtake the return of the
write; `WireInv` ties the record to what the provider got; `DispatchInv` says that a call that
is not in the recovery state's table was never dispatched, which is what a reopen relies on.

`MessageRecovery_proofs`, for both providers, any keys, digests, tasks, limits and numbers of
generations and crashes, with nothing assumed of when the host saves:

- `MessageOnceUnlessForgotten`: from `ClaimInv` (calls past `claim_message` have different keys,
  even in different sessions: the claim, not the lock, keeps them apart), `StageInv` (what a
  call in each stage may still send), `KeyInv` (an absent key was delivered at most once
  for each claim a crash lost, a confirmed one at least once) and `DiskInv`
  (the saved snapshot knows every key except the unsaved ones, which is what bounds the
  damage of a crash by `forgotten`).
- `SnapshotRefusedExactly`: from `ItemInv`: every registered item belongs to a message that was
  acknowledged through Qwen, with the role it was sent with, also on disk (`ItemRoleInv`),
  and every user message that Qwen has acknowledged keeps its item (`RegisteredInv`). A new
  generation keeps the user items, and a crash restores only a snapshot that is accepted.

`TerminalChat_proofs`, for any number of runs, typed lines and display faults:
`ChatSettlesTruly`, `ChatFollowsItsRun`, `ChatCancelIsCurrent`, `ChatRecoveryDecides`. What the
observer has read may be old when it is used; `ObsInv` says which readings stay true (`TrueRead`:
an applied start, a finished run and a recorded cancel never revert), `HarnessInv` which rows of
the harness are possible, `CancelInv` that marks belong to the active run, `PhaseInv` that a
second CancelPending is impossible because the deadline of the first is gone.

`LocalCall_proofs`, for any number of events and failed writes: `CallClosedIsLast` and
`CallLeavesNoSession`. What the product is told depends on the order of two tasks in the send
lock: `QueueInv` and `OrderInv` say that a task has at most one write queued, of the kind its
place allows, and that nothing is queued behind call.closed; `ClaimInv` that only one task
fails the call; `SessionInv` that a terminal means a session told to close.

`LocalAudio_proofs`, for any limits of the two windows and any number of frames, from
`LimitAssumption` (positive limits) and `ChunkAssumption` (no chunk larger than the window;
`_OUTPUT_PCM_CHUNK_BYTES` is smaller than `_WINDOW_BYTES`):

- `AudioInSequence`: `InputInSequence`, from `InputInv`. The invariant follows the frames
  through all their places: what the session got, the batch and the list being fed are
  together exactly the frames up to `highest` (`InputFlow`), and outside `sendAudio` the list
  is empty and the batch not full, without which a flush could leave frames behind or exceed
  its limit. `RunIsInterval` shows that the run of frames which the window releases is an
  interval that starts at the next sequence, whatever is buffered beyond the gap.
- `AudioWindowExact`: `OutputWindowExact`, from `OutputInv`: the window is an interval of
  sequences, so the chunks an acknowledgement passes are its leading ones (`PassedExactly`)
  and their bytes are what the counter loses (`WindowSplits`, `UpToPopped`).
- `AudioBlockedOnProduct`: a producer that finds no capacity has chunks outstanding, so that it
  never waits for an acknowledgement nobody owes. Not a property of a run.

`ProviderAdapter_proofs`, for both providers and any number of requests, items, events,
repetitions and generations:

- `AdapterTypes` and `AdapterIdentityStable`: `RegisterKeeps` and `BeginGenerationKeeps` show
  for every table that `register` and `begin_generation` keep it closed under aliases and take
  nothing back. The canonical id has to be among the aliases, which `TypeOK` does not ask.
- `AdapterAcksTruly`: from `AckInv`: for each kind and body, the requests that count as accepted
  *and* the answers still unread are together at most those carried out. A confirmation uses
  up one unread answer; `OutboxInv` shows that a request is carried out once.
- `AdapterKnowsWaiter`: from `InboxInv`: only the first event of the inbox can be one the
  session has seen, and decoding it again is then harmless (`Spent`) unless it is of a type
  that names no request, in which case `repeated` holds.
- `AdapterTranscribesOnce`: from `OnceInv`, a published transcription is in
  `_completed_inputs`.

The lemma `DecodeWell` carries all of them: whatever well-formed event comes, in any state, what
the adapter makes of it satisfies `GoodDecoding`, the contract between adapter and session (at
most one request is used up and the session is told which; an answer confirms only a request
of its content; the table keeps what it knew).

Each inductive invariant was checked with TLC on its run's instance before it was proved.

Sums over queues and windows need induction over data, which the library states with operator
parameters the provers cannot instantiate. The lemmas about them argue instead from a least
counterexample, with the well-order of the naturals (`WFMin`).

Only model-checked: liveness (the fairness half of `RealtimeStream` included), because the
prover has no fairness and no ENABLED. The two counterexample runs stay with TLC by nature.

## Not modelled

- In the session: `truncate_output`, which writes through the same path as
  `cancel_response`; diagnostics, failure contexts and error codes beyond those of
  `ProviderAdapter`. `ToolCalls` has no barge-in.
- In the recovery state: the content of tool calls and completed inputs in a snapshot, which
  `MessageRecovery` only counts; `Reopen` of `ToolCalls` and `ProviderAdapter` keeps them in
  the process. Tests of `from_snapshot` on the form of a value, which `snapshot` always has.
- In the adapters: the decoding of output, tools, audio and usage, which keeps no state.
- In the harness: `continue` and `health`, the projection of identities, and how a run
  executes.
- In the local controller: the identities of audio outputs (an event that breaks them is
  `ForwardRefused`) and the message codec. Input acknowledgements are in `LocalAudio` only,
  so `ClosedIsLast` does not speak about them: one may still follow call.closed.
- Admission, authentication and the connection limit of the hosts.
- Wire formats, schema validation, credentials, presentation.

## Plan

1. `LocalHost`: admission, the connection limit, shutdown against pending admissions, over
   the channel close of `LocalCall`.
2. The output identities of `_forward_events`, whose memory of finished outputs is bounded.
3. `ToolCalls` with barge-in, as a composition with the catalogue of `RealtimeSession`, and
   `LocalCall` over `RealtimeStream` in place of its abstract session.
