---------------------------- MODULE MessageRecovery ----------------------------
(***************************************************************************)
(* Messages with an idempotency key: ManagedRealtimeSession.append_message *)
(* and _inject_context (realtime/session.py) over the caller-owned         *)
(* RealtimeRecoveryState (realtime/recovery.py), which outlives sessions   *)
(* and, through snapshot() and from_snapshot(), processes.                 *)
(*                                                                         *)
(* One logical session.  The provider names the item of a message by its   *)
(* key.  A write is ambiguous: when it raises, the provider may have the   *)
(* payload or not.                                                         *)
(***************************************************************************)
EXTENDS Naturals, FiniteSets

CONSTANTS Keys,            \* idempotency keys
          Digests,         \* digests of text, role and trigger_response
          RoleOf,          \* the role behind a digest
          TriggerOf,       \* its trigger_response
          Tasks,           \* application tasks that append messages
          None,
          Provider,        \* the adapter of the session, "qwen" or "openai"
          SessionLimit,    \* from_snapshot: sessions of a snapshot (1,024)
          EntryLimit,      \* from_snapshot: entries of a collection (10,000)
          MaxOthers,       \* bound on the entries other operations record
          MaxGenerations,  \* bound on the opens of the logical session
          MaxCrashes       \* bound on the crashes of the process

ASSUME DigestAssumption ==
    RoleOf \in [Digests -> {"user", "system"}] /\ TriggerOf \in [Digests -> BOOLEAN]
ASSUME NoneAssumption == None \notin Digests \cup Keys
ASSUME ProviderAssumption == Provider \in {"qwen", "openai"}
ASSUME LimitAssumption == SessionLimit \in Nat /\ EntryLimit \in Nat
ASSUME BoundAssumption == MaxOthers \in Nat /\ MaxGenerations \in Nat /\ MaxCrashes \in Nat

VARIABLES
    messages,    \* _SessionState.messages: digest and status of each key
    identities,  \* the identity table: item and role of each registered message
    generation,  \* table.generation, 0 before the first open
    others,      \* entries of the state that append_message does not record
    active,      \* the session of this generation has no terminal owner
    task,        \* what each application task does
    disk,        \* the last snapshot the host saved
    delivered,   \* provider: conversation.item.create received, by key
    triggered,   \* provider: response.create received, by key
    crashes,
    unsaved,     \* history: keys claimed since the host last saved
    forgotten    \* history: claims of a key that a crash lost, unsaved

memory == <<messages, identities, generation, others>>
provider == <<delivered, triggered>>
history == <<crashes, unsaved, forgotten>>
vars == <<memory, active, task, disk, provider, history>>

Absent == [digest |-> None, status |-> "absent"]
Idle == [pc |-> "idle", key |-> None, digest |-> None, generation |-> 0, acked |-> FALSE]

\* What the state has besides the messages and their items: other logical sessions,
\* and entries of the other collections of this one.
Collections == {"sessions", "identities", "tool_calls", "completed_inputs"}

Step(t, pc) == task' = [task EXCEPT ![t].pc = pc]
Done(t) == task' = [task EXCEPT ![t] = Idle]
Active(t) == active /\ task[t].generation = generation   \* _require_active

-----------------------------------------------------------------------------
(* The recovery state. *)

\* claim_message on a free key.
Claim(k, d) == [messages EXCEPT ![k] = [digest |-> d, status |-> "pending"]]

Confirm(k) == [messages EXCEPT ![k].status = "confirmed"]

\* Mutant: a new generation, and a snapshot, starts from an empty table.
MutantUserItems(items) == {}

\* begin_generation, and snapshot(): only user items survive.
UserItems(items) == {i \in items : i.role = "user"}

\* Mutant: a snapshot holds the confirmed messages only.
MutantSavedMessages ==
    [k \in Keys |-> IF messages[k].status = "confirmed" THEN messages[k] ELSE Absent]

SavedMessages == messages

Snapshot == [messages |-> SavedMessages, identities |-> UserItems(identities),
             generation |-> generation, others |-> others]

\* The size limits of from_snapshot, which nothing that writes the state keeps.
TooLarge(s) ==
    \/ s.others["sessions"] + (IF s.generation > 0 THEN 1 ELSE 0) > SessionLimit
    \/ Cardinality(s.identities) + s.others["identities"] > EntryLimit
    \/ s.others["tool_calls"] > EntryLimit
    \/ s.others["completed_inputs"] > EntryLimit
    \/ Cardinality({k \in Keys : s.messages[k] # Absent}) > EntryLimit

\* from_snapshot refuses what is too large, and a confirmed message whose item is not
\* registered.
Restorable(s) ==
    /\ ~TooLarge(s)
    /\ \A k \in Keys : s.messages[k].status = "confirmed" =>
           \E i \in s.identities : i.item = k

\* A new process without a snapshot, before its first open.
Init ==
    /\ messages = [k \in Keys |-> Absent] /\ identities = {}
    /\ generation = 0 /\ active = FALSE
    /\ others = [c \in Collections |-> 0]
    /\ task = [t \in Tasks |-> Idle]
    /\ disk = Snapshot
    /\ delivered = [k \in Keys |-> 0] /\ triggered = [k \in Keys |-> 0]
    /\ crashes = 0 /\ unsaved = {} /\ forgotten = [k \in Keys |-> 0]

-----------------------------------------------------------------------------
(* append_message *)

\* _context_lock of a session: its holder, and the calls that wait for it.
Holds(t, g) == task[t].generation = g /\ task[t].pc \in {"send", "waitAck", "trigger"}
Waits(t, g) == task[t].generation = g /\ task[t].pc = "waitLock"

Called(k, d, pc) ==
    [pc |-> pc, key |-> k, digest |-> d, generation |-> generation, acked |-> FALSE]

\* With the lock: claim_message, then _require_active in _inject_context, then the
\* write begins.  A known key returns, or raises BUSY or INVALID_REQUEST.
Enter(t, call, isActive) ==
    IF messages[call.key] # Absent
    THEN Done(t) /\ UNCHANGED <<messages, unsaved>>
    ELSE /\ messages' = Claim(call.key, call.digest)
         /\ unsaved' = unsaved \cup {call.key}
         /\ IF isActive
            THEN task' = [task EXCEPT ![t] = [call EXCEPT !.pc = "send"]]
            ELSE Done(t)

\* _validate_context, then the lock, which a call gets without a suspension when
\* nobody holds it or waits for it.
Append(t, k, d) ==
    /\ task[t].pc = "idle" /\ active
    /\ IF \E u \in Tasks : Holds(u, generation) \/ Waits(u, generation)
       THEN /\ task' = [task EXCEPT ![t] = Called(k, d, "waitLock")]
            /\ UNCHANGED <<messages, unsaved>>
       ELSE Enter(t, Called(k, d, "send"), TRUE)
    /\ UNCHANGED <<identities, generation, others, active, disk, provider, crashes, forgotten>>

\* A waiter is handed the lock.
Locked(t) ==
    /\ task[t].pc = "waitLock"
    /\ ~\E u \in Tasks : Holds(u, task[t].generation)
    /\ Enter(t, task[t], Active(t))
    /\ UNCHANGED <<identities, generation, others, active, disk, provider, crashes, forgotten>>

\* The write of conversation.item.create returns, or raises and fails the session.
Sent(t, gets, returns) ==
    /\ task[t].pc = "send" /\ (returns => gets)
    /\ delivered' = IF gets THEN [delivered EXCEPT ![task[t].key] = @ + 1] ELSE delivered
    /\ IF returns THEN Step(t, "waitAck") ELSE Done(t)
    /\ active' = IF returns \/ ~Active(t) THEN active ELSE FALSE
    /\ UNCHANGED <<memory, disk, triggered, history>>

\* What the adapter registers on the acknowledgement of a message: the Qwen adapter
\* its item, with the role of the request; the OpenAI adapter has no identity table.
AckItems(k, d) ==
    IF Provider = "qwen" THEN {[item |-> k, role |-> RoleOf[d]]} ELSE {}

\* The provider's conversation.item.created: the session sets the future.  One that
\* overtakes the return of the write is found set by the wait that follows, as if it
\* came right after it.
Acknowledge(t) ==
    /\ task[t].pc = "waitAck" /\ ~task[t].acked
    /\ Active(t) /\ delivered[task[t].key] > 0
    /\ identities' = identities \cup AckItems(task[t].key, task[t].digest)
    /\ task' = [task EXCEPT ![t].acked = TRUE]
    /\ UNCHANGED <<messages, generation, others, active, disk, provider, history>>

\* The provider's error event: the future gets UNSUPPORTED.
Reject(t) ==
    /\ task[t].pc = "waitAck" /\ ~task[t].acked /\ Active(t)
    /\ Done(t)
    /\ UNCHANGED <<memory, active, disk, provider, history>>

\* The future has its result: _require_active, confirm_message, the follow-up.
Resume(t) ==
    /\ task[t].pc = "waitAck" /\ task[t].acked
    /\ IF Active(t)
       THEN /\ messages' = Confirm(task[t].key)
            /\ IF TriggerOf[task[t].digest] THEN Step(t, "trigger") ELSE Done(t)
       ELSE Done(t) /\ UNCHANGED messages
    /\ UNCHANGED <<identities, generation, others, active, disk, provider, history>>

\* Mutant: the wait for the acknowledgement has no timeout.
MutantNoTimeout(t) ==
    /\ task[t].pc = "waitAck" /\ ~task[t].acked /\ ~Active(t)
    /\ Done(t)
    /\ UNCHANGED <<memory, active, disk, provider, history>>

\* Cancelled by the end of the session, or the acknowledgement timed out: the wait
\* that times out ends the session itself.
NotAcknowledged(t) ==
    /\ task[t].pc = "waitAck" /\ ~task[t].acked
    /\ Done(t)
    /\ active' = IF Active(t) THEN FALSE ELSE active
    /\ UNCHANGED <<memory, disk, provider, history>>

\* The follow-up response.create is written.
TriggerSent(t, gets, returns) ==
    /\ task[t].pc = "trigger" /\ (returns => gets)
    /\ triggered' = IF gets THEN [triggered EXCEPT ![task[t].key] = @ + 1] ELSE triggered
    /\ Done(t)
    /\ active' = IF returns \/ ~Active(t) THEN active ELSE FALSE
    /\ UNCHANGED <<memory, disk, delivered, history>>

\* The application cancels its call: the lock is released and the key stays as it
\* is.  A write cut off may have reached the provider.
AppCancelled(t, gets) ==
    /\ task[t].pc # "idle"
    /\ gets => task[t].pc \in {"send", "trigger"}
    /\ Done(t)
    /\ delivered' = IF gets /\ task[t].pc = "send"
                    THEN [delivered EXCEPT ![task[t].key] = @ + 1] ELSE delivered
    /\ triggered' = IF gets /\ task[t].pc = "trigger"
                    THEN [triggered EXCEPT ![task[t].key] = @ + 1] ELSE triggered
    /\ UNCHANGED <<memory, active, disk, history>>

-----------------------------------------------------------------------------
(* Sessions and processes. *)

SessionEnds ==
    /\ active /\ active' = FALSE
    /\ UNCHANGED <<memory, task, disk, provider, history>>

\* open(): begin_session.  A newer open supersedes a session that still runs.
Reopen ==
    /\ generation < MaxGenerations
    /\ generation' = generation + 1 /\ active' = TRUE
    /\ identities' = UserItems(identities)
    /\ UNCHANGED <<messages, others, task, disk, provider, history>>

\* Something else is recorded: an open of another logical session, a tool call or a
\* completed input of this one, or, with Qwen, a spoken user item.
Record(c) ==
    /\ others["sessions"] + others["identities"] + others["tool_calls"]
          + others["completed_inputs"] < MaxOthers
    /\ c # "sessions" => active
    /\ c = "identities" => Provider = "qwen"
    /\ others' = [others EXCEPT ![c] = @ + 1]
    /\ UNCHANGED <<messages, identities, generation, active, task, disk, provider, history>>

\* The host saves snapshot(), when it likes: append_message gives it no occasion
\* between the claim of a key and the write of its message.
Save ==
    /\ disk' = Snapshot /\ unsaved' = {}
    /\ UNCHANGED <<memory, active, task, provider, crashes, forgotten>>

\* The process dies and a new one starts from whatever was saved last.  Where
\* from_snapshot raises, nothing of this module goes on.
Crash ==
    /\ crashes < MaxCrashes /\ Restorable(disk)
    /\ messages' = disk.messages /\ identities' = disk.identities
    /\ generation' = disk.generation /\ others' = disk.others
    /\ active' = FALSE /\ task' = [t \in Tasks |-> Idle]
    /\ crashes' = crashes + 1 /\ unsaved' = {}
    /\ forgotten' = [k \in Keys |-> forgotten[k] + (IF k \in unsaved THEN 1 ELSE 0)]
    /\ UNCHANGED <<disk, provider>>

-----------------------------------------------------------------------------
TaskStep(t) ==
    \/ Locked(t) \/ Resume(t) \/ NotAcknowledged(t)
    \/ \E gets, returns \in BOOLEAN : Sent(t, gets, returns) \/ TriggerSent(t, gets, returns)

Next ==
    \/ SessionEnds \/ Reopen \/ Save \/ Crash
    \/ \E c \in Collections : Record(c)
    \/ \E t \in Tasks :
          \/ TaskStep(t) \/ Acknowledge(t) \/ Reject(t)
          \/ \E k \in Keys, d \in Digests : Append(t, k, d)
          \/ \E gets \in BOOLEAN : AppCancelled(t, gets)

\* Writes and the wait for the acknowledgement have timeouts, the event loop runs
\* every task that can run, and asyncio.Lock serves its waiters in order.
Fairness == \A t \in Tasks : WF_vars(TaskStep(t)) /\ SF_vars(Locked(t))
Spec == Init /\ [][Next]_vars /\ Fairness

-----------------------------------------------------------------------------
(* Properties *)

Status == {"pending", "confirmed"}
Entry == {Absent} \cup [digest : Digests, status : Status]
Item == [item : Keys, role : {"user", "system"}]
Call == {Idle} \cup
    [pc : {"waitLock", "send", "waitAck", "trigger"}, key : Keys, digest : Digests,
     generation : 0..MaxGenerations, acked : BOOLEAN]
Others == [Collections -> Nat]
Saved == [messages : [Keys -> Entry], identities : SUBSET Item,
          generation : 0..MaxGenerations, others : Others]

\* Every variable has the shape of its Python counterpart; in particular an entry
\* of the messages dict that exists always carries the digest it was claimed with.
TypeOK ==
    /\ messages \in [Keys -> Entry]
    /\ identities \in SUBSET Item
    /\ generation \in 0..MaxGenerations
    /\ others \in Others
    /\ active \in BOOLEAN
    /\ task \in [Tasks -> Call]
    /\ disk \in Saved
    /\ delivered \in [Keys -> Nat] /\ triggered \in [Keys -> Nat]
    /\ crashes \in 0..MaxCrashes
    /\ unsaved \in SUBSET Keys /\ forgotten \in [Keys -> Nat]

\* However calls, cancellations, failed writes, reconnects and restarts interleave,
\* append_message with one idempotency key puts its item into the conversation at
\* most once, and once more for each claim of the key that a crash lost before the
\* host saved it; it asks for no more responses than items it sent, and a key is
\* confirmed only when the provider has its item.
OnceUnlessForgotten ==
    /\ TypeOK
    /\ \A k \in Keys :
          /\ delivered[k] <= 1 + forgotten[k]
          /\ triggered[k] <= delivered[k]
          /\ messages[k].status = "confirmed" => delivered[k] > 0

\* docs/realtime-0.3.19.md, line 59: a key makes at most one request.  A restart from a
\* snapshot taken before the claim makes another.
AtMostOneRequest == \A k \in Keys : delivered[k] <= 1

\* from_snapshot refuses what snapshot() returns for one of the size limits, or for a
\* confirmed message that is a system message or was sent through the OpenAI adapter,
\* and for nothing else.
RefusedExactly ==
    Restorable(Snapshot) <=>
        /\ ~TooLarge(Snapshot)
        /\ \A k \in Keys : messages[k].status = "confirmed" =>
               Provider = "qwen" /\ RoleOf[messages[k].digest] = "user"

\* docs/realtime-0.3.19.md, line 45: what snapshot() returns can be given to
\* from_snapshot, at every moment a host may save.
SnapshotRestorable == Restorable(Snapshot)

\* Every call of append_message returns or raises.
AppendReturns == \A t \in Tasks : task[t].pc # "idle" ~> task[t].pc = "idle"

=============================================================================
