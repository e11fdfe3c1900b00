---------------------------- MODULE ProviderAdapter ----------------------------
(***************************************************************************)
(* The stateful half of the Qwen and OpenAI adapters                       *)
(* (realtime/adapters/qwen_omni.py, openai.py) under a session             *)
(* (realtime/session.py): messages, instructions and out-of-band responses *)
(* the application injects, the answers of the provider that the adapter   *)
(* must attribute to them, and the identity table the Qwen adapter fills.  *)
(*                                                                         *)
(* A body stands for the role and text of a message, or for the text of    *)
(* instructions; it is named by its role.  An event carries the fields the *)
(* adapters look at; the wire is FIFO both ways, and the provider may send *)
(* an event again under its event id.  Responses, output and tools of the  *)
(* same events are in RealtimeSession and ToolCalls.                       *)
(***************************************************************************)
EXTENDS Naturals, Sequences, FiniteSetsExt, ItemIdentity

CONSTANTS Providers,       \* subset of {"qwen", "openai"}
          MaxRequests,     \* bound on the injections
          MaxItems,        \* number of voice items
          MaxEvents,       \* bound on the provider's events, those sent again included
          MaxInbox,        \* bound on the events in flight
          MaxGenerations   \* bound on the opens of the logical session

ASSUME ProviderAssumption == Providers \subseteq {"qwen", "openai"}
ASSUME BoundAssumption ==
    {MaxRequests, MaxItems, MaxEvents, MaxInbox, MaxGenerations} \subseteq Nat

Bodies == {"user", "system"}
Kinds == {"message", "instructions", "response"}
Requests == 1 .. MaxRequests         \* a request's event id is also the id of its item
ServerId(r) == MaxRequests + r       \* the id the provider may give that item instead
VoiceItems == (2 * MaxRequests + 1) .. (2 * MaxRequests + MaxItems)
Items == 1 .. (2 * MaxRequests + MaxItems)

VARIABLES
    provider,
    failure,     \* the terminal's code, "none" while the session is active
    ready,       \* _ready
    adapter,     \* the adapter's own state
    table,       \* the identity table, kept by the recovery state
    completed,   \* _completed_inputs, kept by the recovery state
    requests,    \* the injections so far: kind, body and how the future ended
    holder,      \* the request that holds _context_lock, 0 when it is free
    written,     \* its event is on the wire
    outbox,      \* requests on the way to the provider
    inbox,       \* events on the way to the session
    seen,        \* _seen_event_ids
    events,      \* number of events so far, which the event ids count
    repeated,    \* history: an event was sent again, of a type that can answer a request
                 \* without naming it
    applied,     \* history: requests the provider carried out
    reported,    \* history: TranscriptCompleted published for an item, by its source
    generation

session == <<failure, ready, completed, requests, holder, written, seen, reported>>
wire == <<outbox, inbox, events, repeated, applied>>
vars == <<provider, session, adapter, table, wire, generation>>

NewAdapter == [pending |-> {}, update |-> 0, response |-> 0,
               seenItems |-> {}, seenEvents |-> {}]

Init ==
    /\ provider \in Providers
    /\ failure = "none" /\ ready = FALSE
    /\ adapter = NewAdapter /\ table = EmptyTable
    /\ completed = {} /\ requests = <<>> /\ holder = 0 /\ written = FALSE
    /\ outbox = <<>> /\ inbox = <<>> /\ seen = {} /\ events = 0
    /\ repeated = FALSE /\ applied = {}
    /\ reported = [i \in Items |-> [by \in {"asr", "side"} |-> 0]]
    /\ generation = 1

Active == failure = "none"

-----------------------------------------------------------------------------
(* append_message, update_instructions, out_of_band_response, _inject_context *)

\* What the adapter keeps of a request until it is answered.  Requests count upwards, so
\* the order in which _context_events was filled is the order of its numbers.
Kept(r, kind) ==
    [adapter EXCEPT !.pending = @ \cup {r},
                    !.update = IF kind = "instructions" THEN r ELSE @,
                    !.response = IF kind = "response" THEN r ELSE @]

\* The adapter notes the request before anything is sent; Qwen has no out-of-band
\* response and raises.
Inject(kind, body) ==
    /\ Active /\ ready /\ holder = 0 /\ Len(requests) < MaxRequests
    /\ kind = "response" => provider # "qwen" /\ body = "user"   \* its text is never compared
    /\ LET r == Len(requests) + 1
       IN  /\ requests' = Append(requests, [kind |-> kind, body |-> body, end |-> "open"])
           /\ holder' = r /\ written' = FALSE
           /\ adapter' = Kept(r, kind)
    /\ UNCHANGED <<provider, failure, ready, completed, seen, reported, table, wire,
                   generation>>

\* The wait ends with the future, or with the write when the future was first.
Release == holder' = 0 /\ written' = FALSE
Return == IF requests'[holder].end # "open" THEN Release ELSE holder' = holder /\ written' = TRUE

\* _send_runtime_event
Send ==
    /\ Active /\ holder # 0 /\ ~written
    /\ outbox' = Append(outbox, holder)
    /\ UNCHANGED requests /\ Return
    /\ UNCHANGED <<provider, failure, ready, completed, seen, reported, adapter, table,
                   inbox, events, repeated, applied, generation>>

\* The caller is cancelled, before or after the write: the session forgets the
\* request, the adapter does not.
CallerCancelled ==
    /\ holder # 0 /\ requests[holder].end = "open" /\ Release
    /\ requests' = [requests EXCEPT ![holder].end = "cancelled"]
    /\ UNCHANGED <<provider, failure, ready, completed, seen, reported, adapter, table,
                   wire, generation>>

\* _fail: the shutdown ends the future of the request that waits; the connection, the
\* adapter and the event ids go with the session.
Fail(code) ==
    /\ failure' = code /\ ready' = FALSE /\ Release
    /\ requests' = IF holder # 0 /\ requests[holder].end = "open"
                   THEN [requests EXCEPT ![holder].end = "failed"] ELSE requests
    /\ adapter' = NewAdapter /\ seen' = {} /\ outbox' = <<>> /\ inbox' = <<>>

\* No answer in time; or a failed write, a lost connection, the relay, close().
SessionEnds(code) ==
    /\ Active /\ Fail(code)
    /\ code = "TIMEOUT" => holder # 0 /\ written
    /\ UNCHANGED <<provider, completed, reported, table, events, repeated, applied,
                   generation>>

\* Mutant: the completed inputs belong to the session.
MutantReopen ==
    /\ ~Active /\ generation < MaxGenerations
    /\ generation' = generation + 1 /\ failure' = "none"
    /\ table' = BeginGeneration(table) /\ completed' = {}
    /\ UNCHANGED <<provider, ready, requests, holder, written, seen, reported, adapter, wire>>

\* The next open of the logical session: a copy of the pristine adapter, a new
\* connection, and the table of the recovery state.
Reopen ==
    /\ ~Active /\ generation < MaxGenerations
    /\ generation' = generation + 1 /\ failure' = "none"
    /\ table' = BeginGeneration(table)
    /\ UNCHANGED <<provider, ready, completed, requests, holder, written, seen, reported,
                   adapter, wire>>

-----------------------------------------------------------------------------
(* What decoding gives the session.  Register failures and malformed answers raise. *)

Nothing == [raises |-> "none", request |-> 0, rejected |-> 0, sessionAck |-> FALSE,
            ready |-> FALSE, failed |-> "none", turn |-> 0, by |-> "none"]

Decoded(a, t, d) == [adapter |-> a, table |-> t, out |-> d]
Raises(code) == Decoded(adapter, table, [Nothing EXCEPT !.raises = code])
Unchanged(d) == Decoded(adapter, table, d)

\* Mutant: an answered request clears the whole table.
MutantWithout(r) == IF r = 0 THEN adapter.pending ELSE {}

\* _context_events.pop
Without(r) == adapter.pending \ {r}
IsPending(r) == r \in adapter.pending

\* register, and the decoded event when it does not raise.
Registering(a, id, role, source, confirmed, d) ==
    IF Registers(table, id, role, source, {}) = "error" THEN Raises("PROTOCOL_ERROR")
    ELSE Decoded(a, Register(table, id, role, source, confirmed, {}), d)

\* _map_error, of the codes "invalid", "limit" and "unsupported".
MapError(code) ==
    CASE code = "invalid" -> "INVALID_REQUEST"
      [] code = "limit" -> "RATE_LIMITED"
      [] OTHER -> "PROTOCOL_ERROR"

\* An error naming a pending request; without a name Qwen blames the only one there is.
Blamed(e) ==
    IF provider = "qwen" /\ e.id = 0 /\ Cardinality(adapter.pending) = 1
       /\ (MapError(e.code) = "INVALID_REQUEST" \/ e.code = "unsupported")
    THEN Min(adapter.pending) ELSE e.id

ErrorEvent(e) ==
    LET r == Blamed(e)
    IN  IF r = 0 \/ ~IsPending(r) THEN Unchanged([Nothing EXCEPT !.failed = MapError(e.code)])
        ELSE Decoded([adapter EXCEPT
                        !.pending = Without(r),
                        !.seenItems = IF provider = "qwen" THEN @ \cup {r} ELSE @,
                        !.update = IF @ = r THEN 0 ELSE @,
                        !.response = IF @ = r THEN 0 ELSE @],
                     table,
                     [Nothing EXCEPT !.rejected = r, !.failed = "UNSUPPORTED"])

\* Only Qwen keeps the ids of the events it took an answer from.
Heard(e) == [adapter EXCEPT !.seenEvents = IF provider = "qwen" THEN @ \cup {e.n} ELSE @]

\* _validate_session_ack: the tools and the configuration must be those of the request.
QwenAck(e) ==
    CASE e.ack = "tools" -> "UNSUPPORTED"
      [] e.ack = "config" -> "PROTOCOL_ERROR"
      [] OTHER -> "none"

\* OpenAI also refuses instructions it did not ask for.
OpenAIAck(e) ==
    IF e.ack = "tools" THEN "UNSUPPORTED"
    ELSE IF e.ack = "config" \/ e.body # "initial" THEN "PROTOCOL_ERROR" ELSE "none"

SessionAck(e) ==
    LET code == IF provider = "qwen" THEN QwenAck(e) ELSE OpenAIAck(e)
    IN  IF code # "none" THEN Raises(code)
        ELSE Decoded(Heard(e), table,
                     [Nothing EXCEPT !.sessionAck = TRUE, !.ready = e.type = "session.updated"])

SessionUpdated(e) ==
    LET r == adapter.update
    IN  IF r # 0 /\ requests[r].body = e.body
        THEN Decoded([Heard(e) EXCEPT !.update = 0, !.pending = Without(r)], table,
                     [Nothing EXCEPT !.sessionAck = TRUE, !.request = r])
        ELSE IF r # 0 /\ provider = "qwen" THEN Raises("PROTOCOL_ERROR")
        ELSE SessionAck(e)

-----------------------------------------------------------------------------
(* QwenOmniAdapter *)

Messages == {r \in adapter.pending : requests[r].kind = "message"}

\* Mutant: the echo of any item confirms the oldest pending message.
MutantMatches(e, r) == e.completed

\* The echo of the oldest pending message: role, text, status, and no other request's id.
Matches(e, r) ==
    /\ e.completed /\ e.body = requests[r].body
    /\ IsPending(e.id) => e.id = r

Noted(e, ids) == [Heard(e) EXCEPT !.seenItems = @ \cup ids]

\* The item of spoken input: declared, or known from an earlier event.
IsInput(e) ==
    \/ e.audio
    \/ /\ e.id \in DOMAIN table /\ table[e.id].role = "user"
       /\ table[e.id].origin \in {"speech_started", "committed", "input_audio_item",
                                  "transcript"}

\* conversation.item.created for a message (_context_message_created).
QwenItemCreated(e) ==
    IF IsInput(e)
    THEN IF IsPending(e.id) THEN Raises("PROTOCOL_ERROR")
         ELSE Registering(Noted(e, {e.id}), e.id, "user",
                          IF e.audio THEN "input_audio_item" ELSE table[e.id].source,
                          e.completed, Nothing)
    ELSE IF e.id \in adapter.seenItems THEN Decoded(Noted(e, {}), table, Nothing)
    ELSE IF Messages = {}
    THEN IF IsPending(e.id) THEN Raises("PROTOCOL_ERROR")
         ELSE Decoded(Noted(e, {e.id}), table, Nothing)
    ELSE LET r == Min(Messages)
         IN  IF ~Matches(e, r) \/ Registers(table, e.id, e.body, "context_ack", {r}) = "error"
             THEN Raises("PROTOCOL_ERROR")
             ELSE Decoded([Noted(e, {r, e.id}) EXCEPT !.pending = Without(r)],
                          Register(table, e.id, e.body, "context_ack", TRUE, {r}),
                          [Nothing EXCEPT !.request = r])

\* A response.* event without response_id belongs to a known user item
\* (_user_side_response_event); the transcript of one is a completed turn.
UserSide(e) ==
    IF ~IsUser(table, e.id) THEN Raises("PROTOCOL_ERROR")
    ELSE Unchanged([Nothing EXCEPT !.turn = e.id, !.by = "side"])

\* Voice input: the turn and its transcript register the item as the user's.
QwenInput(e) ==
    Registering(adapter, e.id, "user", e.type, e.type # "speech_started",
                IF e.type = "transcript" THEN [Nothing EXCEPT !.turn = e.id, !.by = "asr"]
                ELSE Nothing)

\* An item of a response: a user's only when it is complete.
QwenOutputItem(e) ==
    Registering(adapter, e.id, e.body, "output_item", e.body = "user", Nothing)

QwenDecode(e) ==
    IF e.n \in adapter.seenEvents
    THEN Unchanged([Nothing EXCEPT !.sessionAck = e.type = "session.updated"])
    ELSE CASE e.type = "session.updated" -> SessionUpdated(e)
           [] e.type = "item.created" -> QwenItemCreated(e)
           [] e.type = "error" -> ErrorEvent(e)
           [] e.type \in {"committed", "speech_started", "transcript"} -> QwenInput(e)
           [] e.type = "output_item" -> QwenOutputItem(e)
           [] e.type = "user_side" -> UserSide(e)
           [] OTHER -> Unchanged(Nothing)

-----------------------------------------------------------------------------
(* OpenAIRealtimeAdapter *)

\* conversation.item.created confirms the request whose id it has.
OpenAIItemCreated(e) ==
    IF ~IsPending(e.id) THEN Unchanged(Nothing)
    ELSE IF requests[e.id].kind # "message" \/ ~e.completed \/ e.body # requests[e.id].body
    THEN Raises("PROTOCOL_ERROR")
    ELSE Decoded([adapter EXCEPT !.pending = Without(e.id)], table,
                 [Nothing EXCEPT !.request = e.id])

\* response.created, whatever asked for it, confirms the pending out-of-band response.
ResponseCreated(e) ==
    LET r == adapter.response
    IN  Decoded([adapter EXCEPT !.pending = Without(r), !.response = 0], table,
                [Nothing EXCEPT !.request = r])

OpenAIDecode(e) ==
    CASE e.type = "session.updated" -> SessionUpdated(e)
      [] e.type = "session.created" -> SessionAck(e)
      [] e.type = "item.created" -> OpenAIItemCreated(e)
      [] e.type = "response.created" -> ResponseCreated(e)
      [] e.type = "error" -> ErrorEvent(e)
      [] e.type = "transcript" -> Unchanged([Nothing EXCEPT !.turn = e.id, !.by = "asr"])
      [] OTHER -> Unchanged(Nothing)

-----------------------------------------------------------------------------
(* _receive_loop and _apply *)

Waits(r) == r # 0 /\ r = holder

Resolve(r, end) ==
    /\ requests' = IF requests[r].end = "open" THEN [requests EXCEPT ![r].end = end]
                   ELSE requests
    /\ IF written THEN Return ELSE UNCHANGED <<holder, written>>

\* Inputs already completed, in this or an earlier generation, are not published again.
Counted(t, turn) ==
    turn \in DOMAIN t /\ t[turn].source \in {"speech_started", "committed", "transcript"}

Publish(t, d) ==
    IF d.turn = 0 \/ (Counted(t, d.turn) /\ d.turn \in completed)
    THEN UNCHANGED <<completed, reported>>
    ELSE /\ completed' = IF Counted(t, d.turn) THEN completed \cup {d.turn} ELSE completed
         /\ reported' = [reported EXCEPT ![d.turn][d.by] = @ + 1]

\* The code _apply, or the decoding, fails the session with.
Failing(d) ==
    IF d.raises # "none" THEN d.raises
    ELSE IF Waits(d.rejected) THEN "none"
    ELSE IF ~ready /\ ~d.sessionAck THEN "PROTOCOL_ERROR" ELSE d.failed

Apply(t, d) ==
    IF Waits(d.rejected)
    THEN Resolve(d.rejected, "rejected") /\ UNCHANGED <<ready, completed, reported>>
    ELSE /\ ready' = (ready \/ d.ready)
         /\ Publish(t, d)
         /\ IF Waits(d.request) THEN Resolve(d.request, "acked")
            ELSE UNCHANGED <<requests, holder, written>>

Decode(e) == IF provider = "qwen" THEN QwenDecode(e) ELSE OpenAIDecode(e)

\* The types of events that can answer a request without naming it.
Nameless == IF provider = "qwen" THEN {"error"} ELSE {"response.created", "session.updated"}

\* The adapter decodes an event, and so changes its state and the table, before the
\* session asks whether it has seen the event's id.
Handle(e, rest, again) ==
    LET x == Decode(e)
        known == e.n \in seen /\ x.out.raises = "none"
        code == IF known THEN "none" ELSE Failing(x.out)
    IN  /\ again => code = "none"
        /\ repeated' = (repeated \/ (again /\ e.type \in Nameless))
        /\ table' = x.table
        /\ IF code # "none" THEN Fail(code) /\ UNCHANGED <<completed, reported>>
           ELSE /\ adapter' = x.adapter
                /\ inbox' = IF again THEN <<e>> \o rest ELSE rest
                /\ seen' = seen \cup {e.n}
                /\ IF known THEN UNCHANGED <<ready, completed, requests, holder, written,
                                             reported>>
                   ELSE Apply(x.table, x.out)
                /\ UNCHANGED <<failure, outbox>>
        /\ UNCHANGED <<provider, applied, generation>>

Receive(again) ==
    /\ Active /\ inbox # <<>>
    /\ Handle(Head(inbox), Tail(inbox), again)
    /\ events' = events + (IF again THEN 1 ELSE 0) /\ events' <= MaxEvents

-----------------------------------------------------------------------------
(* The provider. *)

Event(type, id, body) == [type |-> type, id |-> id, body |-> body, audio |-> FALSE,
                          completed |-> TRUE, ack |-> "ok", code |-> "none", n |-> 0]

Emits(e) ==
    /\ events < MaxEvents /\ Len(inbox) < MaxInbox
    /\ events' = events + 1
    /\ inbox' = Append(inbox, [e EXCEPT !.n = events + 1])

\* What carrying out a request shows: Qwen may give the item of a message its own id.
Answers(r) ==
    CASE requests[r].kind = "message" ->
            {Event("item.created", id, requests[r].body) :
                id \in {r} \cup (IF provider = "qwen" THEN {ServerId(r)} ELSE {})}
      [] requests[r].kind = "instructions" -> {Event("session.updated", 0, requests[r].body)}
      [] OTHER -> {Event("response.created", 0, "none")}

Carry ==
    /\ Active /\ outbox # <<>> /\ outbox' = Tail(outbox)
    /\ applied' = applied \cup {Head(outbox)}
    /\ \E e \in Answers(Head(outbox)) : Emits(e)
    /\ UNCHANGED <<provider, session, adapter, table, repeated, generation>>

\* A request is refused, with or without naming it, or gets no answer.
Refuse(named) ==
    /\ Active /\ outbox # <<>> /\ outbox' = Tail(outbox)
    /\ Emits([Event("error", IF named THEN Head(outbox) ELSE 0, "none") EXCEPT
                !.code = "invalid"])
    /\ UNCHANGED <<provider, session, adapter, table, repeated, applied, generation>>

\* Events nobody asked for: the acknowledgement of the open, right or wrong; an error
\* of something else; a response; the transcript of voice input.
UnaskedOfBoth ==
    {[Event("session.updated", 0, "initial") EXCEPT !.ack = ack] : ack \in {"ok", "config", "tools"}}
    \cup {[Event("error", 0, "none") EXCEPT !.code = c] : c \in {"unsupported", "limit"}}
    \cup {Event("response.created", 0, "none")}
    \cup {Event("transcript", i, "none") : i \in VoiceItems}

\* The events by which the Qwen adapter learns whose an item is; OpenAI's makes nothing
\* of them.
UnaskedOfQwen ==
    {Event(type, i, "none") : type \in {"speech_started", "committed"}, i \in VoiceItems}
    \cup {[Event("item.created", i, "user") EXCEPT !.audio = TRUE, !.completed = c] :
             i \in VoiceItems, c \in BOOLEAN}
    \cup {Event("item.created", i, "assistant") : i \in VoiceItems}
    \cup {Event("output_item", i, role) : i \in VoiceItems \cup {ServerId(r) : r \in applied},
                                          role \in {"user", "assistant"}}
    \cup {Event("output_item", ServerId(r), "system") : r \in applied}
    \cup {Event("user_side", i, "none") : i \in VoiceItems \cup {ServerId(r) : r \in applied}}

\* OpenAI shows the session before it is configured.
UnaskedOfOpenAI ==
    {[Event("session.created", 0, "initial") EXCEPT !.ack = ack] : ack \in {"ok", "config"}}

Unasked == UnaskedOfBoth \cup (IF provider = "qwen" THEN UnaskedOfQwen ELSE UnaskedOfOpenAI)

\* Nothing the application does depends on one before it is read, so it is read at once.
Announce(again) ==
    /\ Active /\ inbox = <<>>
    /\ events' = events + (IF again THEN 2 ELSE 1) /\ events' <= MaxEvents
    /\ \E e \in Unasked : Handle([e EXCEPT !.n = events + 1], <<>>, again)

-----------------------------------------------------------------------------
Next ==
    \/ \E kind \in Kinds, body \in Bodies : Inject(kind, body)
    \/ Send \/ CallerCancelled \/ Reopen
    \/ \E code \in {"TIMEOUT", "UNAVAILABLE"} : SessionEnds(code)
    \/ \E again \in BOOLEAN : Receive(again) \/ Announce(again)
    \/ Carry \/ \E named \in BOOLEAN : Refuse(named)

Spec == Init /\ [][Next]_vars

-----------------------------------------------------------------------------
(* Properties *)

Roles == {"user", "assistant", "system"}
ItemSources == {"speech_started", "committed", "transcript", "input_audio_item",
                "context_ack", "output_item"}
Identity == [canonical : Items, role : Roles, confirmed : BOOLEAN, aliases : SUBSET Items,
             source : ItemSources, origin : ItemSources]

\* The state has its types, and the identity table is closed: every id of an item finds
\* the same identity, under which the item knows that id, whatever order the events
\* that report the item and its aliases come in and over every new generation.
TypeOK ==
    /\ provider \in Providers /\ ready \in BOOLEAN /\ written \in BOOLEAN
    /\ failure \in {"none", "TIMEOUT", "UNAVAILABLE", "PROTOCOL_ERROR", "UNSUPPORTED",
                    "INVALID_REQUEST", "RATE_LIMITED"}
    /\ adapter.pending \subseteq DOMAIN requests
    /\ {adapter.update, adapter.response, holder} \subseteq 0 .. Len(requests)
    /\ adapter.seenItems \subseteq Items /\ completed \subseteq Items
    /\ DOMAIN table \subseteq Items
    /\ \A id \in DOMAIN table :
          /\ table[id] \in Identity
          /\ id \in table[id].aliases
          /\ table[id].aliases \subseteq DOMAIN table
          /\ \A a \in table[id].aliases : table[a] = table[id]

\* A message, or new instructions, count as accepted at most as often as the provider
\* accepted that very role and text: an answer that is late, repeated, out of order, of
\* a cancelled request or of something else never confirms a request with other content.
AckedWasApplied ==
    \A kind \in {"message", "instructions"}, body \in Bodies :
        LET Same(r) == requests[r].kind = kind /\ requests[r].body = body
        IN  Cardinality({r \in DOMAIN requests : Same(r) /\ requests[r].end = "acked"})
              <= Cardinality({r \in applied : Same(r)})

\* While a caller waits, the adapter still knows its request, so the answer can reach
\* it: only a repeated error (Qwen, which blames the only pending request), or a repeated
\* response.created or session.updated (OpenAI), can use up a request the session then
\* never hears of.
WaiterIsKnown ==
    Active /\ holder # 0 /\ requests[holder].end = "open" /\ ~repeated
    => IsPending(holder)

\* Within a generation the role of an id never changes and a confirmation is never
\* taken back, so an item once taken for the assistant's or the system's is never
\* believed to be the user's; a new generation keeps exactly the confirmed user items.
IdentityStable ==
    [][IF generation' = generation
       THEN \A id \in DOMAIN table :
               /\ id \in DOMAIN table'
               /\ table'[id].role = table[id].role
               /\ table'[id].canonical = table[id].canonical
               /\ table[id].confirmed => table'[id].confirmed
       ELSE DOMAIN table' =
              {id \in DOMAIN table : table[id].role = "user" /\ table[id].confirmed}]_vars

\* The provider's transcription of one spoken input is published at most once, over all
\* generations of the logical session (Qwen): a replay does not trigger the business
\* action again.
TranscriptionOnce == provider = "qwen" => \A i \in Items : reported[i]["asr"] <= 1

\* docs/realtime-0.3.19.md: completed user inputs are deduplicated by item id.
CompletedOnce ==
    provider = "qwen" => \A i \in VoiceItems : reported[i]["asr"] + reported[i]["side"] <= 1

=============================================================================
