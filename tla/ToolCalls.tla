------------------------------- MODULE ToolCalls -------------------------------
(***************************************************************************)
(* The tool calls of a realtime session (realtime/session.py): the record  *)
(* of each call, the attempt task that submits its result and asks for the *)
(* follow-up response, the application tasks that call submit_tool_result, *)
(* the dispatch task of each call, and the tool part of _apply.  A new     *)
(* open of the same external session keeps only the set of seen calls.     *)
(*                                                                         *)
(* A write is ambiguous: when it raises, the provider may have the payload *)
(* or not.                                                                 *)
(***************************************************************************)
EXTENDS Naturals, Sequences, FiniteSets

CONSTANTS Calls,           \* provider call ids
          Outputs,         \* tool outputs
          Apps,            \* application tasks that submit results
          None,
          Dispatcher,      \* a ToolDispatcher is configured
          MaxResponses,    \* bound on the responses of one generation
          MaxGenerations,  \* bound on the opens of the external session
          MaxSends         \* bound on the writes of one payload

ASSUME TaskAssumption == Apps \cap Calls = {} /\ None \notin Outputs \cup Calls
ASSUME BoundAssumption ==
    MaxResponses \in Nat /\ MaxGenerations \in Nat /\ MaxSends \in Nat
ASSUME DispatcherAssumption == Dispatcher \in BOOLEAN

States == {"none", "REQUESTED", "RESULT_SENT", "RESULT_ACKED",
           "FOLLOWUP_REQUESTED", "FOLLOWUP_STARTED"}
Clients == Apps \cup Calls   \* client c \in Calls is the dispatch task of call c

VARIABLES
    active,      \* no terminal owner: _require_active passes
    generation,
    state,       \* _ToolRecord.state, "none" without a record
    output,      \* _ToolRecord.output
    attempt,     \* _ToolRecord.attempt: where the task is, and its output
    client,      \* what each client waits for, and its last outcome
    followups,   \* _followup_waiting
    seenCalls,   \* _seen_tool_calls, kept by the recovery state
    live,        \* a response is live and not cancelled
    created,     \* number of responses introduced in this generation
    acked,       \* record.ack is set
    received,    \* provider: outputs it got for each call in this generation
    asked,       \* provider: calls whose response.create it got
    sends,       \* number of writes of each call's payloads, for the bound
    dispatched   \* history: invocations of the dispatcher, all generations

record == <<state, output, acked>>
wire == <<received, asked, sends>>
vars == <<active, generation, record, attempt, client, followups, seenCalls, live,
          created, wire, dispatched>>

NoAttempt == [pc |-> "none", output |-> None]
Idle == [pc |-> "idle", call |-> None, output |-> None]

Init ==
    /\ active = TRUE /\ generation = 1
    /\ state = [c \in Calls |-> "none"] /\ output = [c \in Calls |-> None]
    /\ acked = [c \in Calls |-> FALSE]
    /\ attempt = [c \in Calls |-> NoAttempt]
    /\ client = [k \in Clients |-> Idle]
    /\ followups = <<>> /\ seenCalls = {}
    /\ live = FALSE /\ created = 0
    /\ received = [c \in Calls |-> {}] /\ asked = {}
    /\ sends = [c \in Calls |-> 0]
    /\ dispatched = [c \in Calls |-> 0]

-----------------------------------------------------------------------------
(* The end of the session and the next generation. *)

\* _fail by any task: the shutdown cancels the dispatch tasks, not the attempts.
Surviving(clients) ==
    [k \in Clients |-> IF active /\ k \in Calls THEN Idle ELSE clients[k]]

Fail == active' = FALSE /\ client' = Surviving(client)

SessionFails ==
    /\ active /\ Fail
    /\ UNCHANGED <<generation, record, attempt, followups, seenCalls, live, created,
                   wire, dispatched>>

\* Mutant: a new generation forgets which calls were seen.
MutantReopen ==
    /\ ~active /\ generation < MaxGenerations
    /\ \A k \in Clients : client[k].pc # "await"
    /\ \A c \in Calls : attempt[c].pc \in {"none", "done"}
    /\ active' = TRUE /\ generation' = generation + 1
    /\ state' = [c \in Calls |-> "none"] /\ output' = [c \in Calls |-> None]
    /\ acked' = [c \in Calls |-> FALSE]
    /\ attempt' = [c \in Calls |-> NoAttempt]
    /\ client' = [k \in Clients |-> Idle]
    /\ followups' = <<>> /\ live' = FALSE /\ created' = 0 /\ seenCalls' = {}
    /\ received' = [c \in Calls |-> {}] /\ asked' = {} /\ sends' = [c \in Calls |-> 0]
    /\ UNCHANGED dispatched

\* The next open(): a new session object.  Tasks of the old one cannot touch it;
\* they are left to finish first.
Reopen ==
    /\ ~active /\ generation < MaxGenerations
    /\ \A k \in Clients : client[k].pc # "await"
    /\ \A c \in Calls : attempt[c].pc \in {"none", "done"}
    /\ active' = TRUE /\ generation' = generation + 1
    /\ state' = [c \in Calls |-> "none"] /\ output' = [c \in Calls |-> None]
    /\ acked' = [c \in Calls |-> FALSE]
    /\ attempt' = [c \in Calls |-> NoAttempt]
    /\ client' = [k \in Clients |-> Idle]
    /\ followups' = <<>> /\ live' = FALSE /\ created' = 0
    /\ received' = [c \in Calls |-> {}] /\ asked' = {} /\ sends' = [c \in Calls |-> 0]
    /\ UNCHANGED <<seenCalls, dispatched>>

-----------------------------------------------------------------------------
(* _apply: events of the provider. *)

\* response.created, spontaneous (voice activity) or the answer to a follow-up:
\* the session cannot tell, and gives it to the first waiting call.
Created ==
    /\ active /\ created < MaxResponses
    /\ created' = created + 1
    /\ IF live
       THEN Fail /\ UNCHANGED <<live, followups, state>>
       ELSE /\ live' = TRUE
            /\ IF followups = <<>> THEN UNCHANGED <<followups, state>>
               ELSE /\ followups' = Tail(followups)
                    /\ state' = [state EXCEPT ![Head(followups)] = "FOLLOWUP_STARTED"]
            /\ UNCHANGED <<active, client>>
    /\ UNCHANGED <<generation, output, acked, attempt, seenCalls, wire, dispatched>>

ResponseDone ==
    /\ active /\ live /\ live' = FALSE
    /\ UNCHANGED <<active, generation, record, attempt, client, followups, seenCalls,
                   created, wire, dispatched>>

\* ToolCallRequested in the live response.  A call the session already has ends it;
\* one an earlier generation saw is skipped; arguments that the schema refuses get
\* a dispatch task even without a dispatcher.
ToolCallRequested(c, invalid) ==
    /\ active
    /\ IF ~live \/ state[c] # "none"
       THEN Fail /\ UNCHANGED <<state, seenCalls>>
       ELSE IF c \in seenCalls
       THEN UNCHANGED <<active, client, state, seenCalls>>
       ELSE /\ state' = [state EXCEPT ![c] = "REQUESTED"]
            /\ seenCalls' = seenCalls \cup {c}
            /\ client' = IF Dispatcher \/ invalid
                         THEN [client EXCEPT ![c] = [pc |-> IF invalid THEN "reject" ELSE "spawned",
                                                     call |-> c, output |-> None]]
                         ELSE client
            /\ UNCHANGED active
    /\ UNCHANGED <<generation, output, acked, attempt, followups, live, created, wire,
                   dispatched>>

\* conversation.item.created for a function_call_output.
ToolAck(c, o) ==
    /\ active /\ o \in received[c]
    /\ IF output[c] # o
       THEN Fail /\ UNCHANGED <<state, acked>>
       ELSE /\ IF state[c] = "RESULT_SENT"
               THEN state' = [state EXCEPT ![c] = "RESULT_ACKED"]
                    /\ acked' = [acked EXCEPT ![c] = TRUE]
               ELSE UNCHANGED <<state, acked>>
            /\ UNCHANGED <<active, client>>
    /\ UNCHANGED <<generation, output, attempt, followups, seenCalls, live, created,
                   wire, dispatched>>

-----------------------------------------------------------------------------
(* submit_tool_result: no suspension up to the wait for the shielded attempt. *)

Changed(c, o) == output[c] # None /\ output[c] # o

Submit(k, c, o) ==
    /\ active /\ state[c] # "none" /\ ~Changed(c, o)
    /\ client' = [client EXCEPT ![k] = [pc |-> "await", call |-> c, output |-> o]]
    /\ attempt' = IF attempt[c].pc \in {"none", "done"}
                  THEN [attempt EXCEPT ![c] =
                          [pc |-> "spawned", output |-> o]]
                  ELSE attempt

AppSubmits(a, c, o) ==
    /\ client[a].pc \notin {"await"}
    /\ sends[c] < MaxSends
    /\ Submit(a, c, o)
    /\ UNCHANGED <<active, generation, record, followups, seenCalls, live, created,
                   wire, dispatched>>

\* The application cancels a task that waits: the attempt is shielded.
AppCancelled(a) ==
    /\ client[a].pc = "await"
    /\ client' = [client EXCEPT ![a] = Idle]
    /\ UNCHANGED <<active, generation, record, attempt, followups, seenCalls, live,
                   created, wire, dispatched>>

-----------------------------------------------------------------------------
(* _dispatch_tool *)

DispatchStarts(c) ==
    /\ client[c].pc = "spawned"
    /\ IF active
       THEN /\ client' = [client EXCEPT ![c].pc = "dispatch"]
            /\ dispatched' = [dispatched EXCEPT ![c] = @ + 1]
       ELSE client' = [client EXCEPT ![c] = Idle] /\ UNCHANGED dispatched
    /\ UNCHANGED <<active, generation, record, attempt, followups, seenCalls, live,
                   created, wire>>

\* The dispatcher returned, raised or timed out, or the arguments were refused:
\* each way there is an output to submit.
DispatchSubmits(c, o) ==
    /\ client[c].pc \in {"dispatch", "reject"}
    /\ IF active /\ ~Changed(c, o)
       THEN Submit(c, c, o)
       ELSE client' = [client EXCEPT ![c].pc = "error"] /\ UNCHANGED attempt
    /\ UNCHANGED <<active, generation, record, followups, seenCalls, live, created,
                   wire, dispatched>>

-----------------------------------------------------------------------------
(* _submit_tool_result_attempt, between its suspensions. *)

Goto(c, pc) == attempt' = [attempt EXCEPT ![c].pc = pc] /\ UNCHANGED client

\* The attempt is done: its outcome is that of every client waiting for it.
Settled(clients, c, result) ==
    [k \in Clients |-> IF clients[k].pc = "await" /\ clients[k].call = c
                       THEN [clients[k] EXCEPT !.pc = result] ELSE clients[k]]

Finish(c, result) ==
    /\ attempt' = [attempt EXCEPT ![c].pc = "done"]
    /\ client' = Settled(client, c, result)

\* Mutant: the follow-up is requested but the call is not queued for its response.
MutantRequestFollowup(c) ==
    /\ state' = [state EXCEPT ![c] = "FOLLOWUP_REQUESTED"]
    /\ Goto(c, "sendFollowup")
    /\ UNCHANGED <<output, acked, followups>>

\* RESULT_ACKED: build the follow-up and queue the call for a response.
RequestFollowup(c) ==
    /\ state' = [state EXCEPT ![c] = "FOLLOWUP_REQUESTED"]
    /\ followups' = IF \E k \in DOMAIN followups : followups[k] = c
                    THEN followups ELSE Append(followups, c)
    /\ Goto(c, "sendFollowup")
    /\ UNCHANGED <<output, acked>>

\* REQUESTED: the record takes the output of this attempt.
Prepare(c) ==
    /\ output' = [output EXCEPT ![c] = attempt[c].output]
    /\ acked' = [acked EXCEPT ![c] = FALSE]
    /\ state' = [state EXCEPT ![c] = "RESULT_SENT"]

AttemptStarts(c) ==
    /\ attempt[c].pc = "spawned"
    /\ \/ /\ state[c] = "REQUESTED" /\ Prepare(c)
          /\ Goto(c, "sendResult")
          /\ UNCHANGED followups
       \/ /\ state[c] = "RESULT_SENT" /\ Goto(c, "sendResult")
          /\ UNCHANGED <<record, followups>>
       \/ /\ state[c] = "RESULT_ACKED" /\ RequestFollowup(c)
       \/ /\ state[c] = "FOLLOWUP_REQUESTED" /\ Goto(c, "sendFollowup")
          /\ UNCHANGED <<record, followups>>
       \/ /\ state[c] = "FOLLOWUP_STARTED" /\ Finish(c, "ok")
          /\ UNCHANGED <<record, followups>>
    /\ UNCHANGED <<active, generation, seenCalls, live, created, wire, dispatched>>

\* Mutant: the payload is built from what a waiting caller passed, not the record.
MutantSendResult(c, gets, returns) ==
    /\ attempt[c].pc = "sendResult" /\ (returns => gets)
    /\ \E k \in Clients :
          /\ client[k].pc = "await" /\ client[k].call = c
          /\ received' = [received EXCEPT ![c] = @ \cup {client[k].output}]
    /\ sends' = [sends EXCEPT ![c] = @ + 1]
    /\ IF returns THEN Goto(c, "waitAck") ELSE Finish(c, "retry")
    /\ UNCHANGED <<active, generation, record, followups, seenCalls, live, created,
                   asked, dispatched>>

\* The write of the result: the provider gets it or not, the write returns or not.
SendResult(c, gets, returns) ==
    /\ attempt[c].pc = "sendResult" /\ (returns => gets)
    /\ received' = IF gets THEN [received EXCEPT ![c] = @ \cup {output[c]}] ELSE received
    /\ sends' = [sends EXCEPT ![c] = @ + 1]
    /\ IF returns THEN Goto(c, "waitAck") ELSE Finish(c, "retry")
    /\ UNCHANGED <<active, generation, record, followups, seenCalls, live, created,
                   asked, dispatched>>

\* Mutant: the follow-up is requested without waiting for the acknowledgement.
MutantAckArrives(c) ==
    /\ attempt[c].pc = "waitAck"
    /\ RequestFollowup(c)
    /\ UNCHANGED <<active, generation, seenCalls, live, created, wire, dispatched>>

AckArrives(c) ==
    /\ attempt[c].pc = "waitAck" /\ acked[c]
    /\ RequestFollowup(c)   \* only this task moves the record past RESULT_ACKED
    /\ UNCHANGED <<active, generation, seenCalls, live, created, wire, dispatched>>

\* Mutant: the wait for the acknowledgement has no timeout.
MutantAckTimeout(c) ==
    /\ attempt[c].pc = "waitAck" /\ acked[c]
    /\ active' = FALSE
    /\ attempt' = [attempt EXCEPT ![c].pc = "done"]
    /\ client' = Settled(Surviving(client), c, "fatal")
    /\ UNCHANGED <<generation, record, followups, seenCalls, live, created, wire, dispatched>>

AckTimeout(c) ==
    /\ attempt[c].pc = "waitAck"
    /\ active' = FALSE
    /\ attempt' = [attempt EXCEPT ![c].pc = "done"]
    /\ client' = Settled(Surviving(client), c, "fatal")
    /\ UNCHANGED <<generation, record, followups, seenCalls, live, created, wire, dispatched>>

SendFollowup(c, gets, returns) ==
    /\ attempt[c].pc = "sendFollowup" /\ (returns => gets)
    /\ asked' = IF gets THEN asked \cup {c} ELSE asked
    /\ sends' = [sends EXCEPT ![c] = @ + 1]
    /\ Finish(c, IF returns THEN "ok" ELSE "retry")
    /\ UNCHANGED <<active, generation, record, followups, seenCalls, live, created,
                   received, dispatched>>

-----------------------------------------------------------------------------
AttemptStep(c) ==
    \/ AttemptStarts(c) \/ AckArrives(c) \/ AckTimeout(c)
    \/ \E gets, returns \in BOOLEAN : SendResult(c, gets, returns) \/ SendFollowup(c, gets, returns)

DispatchStep(c) == DispatchStarts(c) \/ \E o \in Outputs : DispatchSubmits(c, o)

Provider ==
    \/ Created \/ ResponseDone
    \/ \E c \in Calls : \/ \E invalid \in BOOLEAN : ToolCallRequested(c, invalid)
                        \/ \E o \in Outputs : ToolAck(c, o)

Next ==
    \/ SessionFails \/ Reopen \/ Provider
    \/ \E a \in Apps : AppCancelled(a) \/ \E c \in Calls, o \in Outputs : AppSubmits(a, c, o)
    \/ \E c \in Calls : AttemptStep(c) \/ DispatchStep(c)

\* Every task of the event loop that can run does; writes, the acknowledgement and
\* the dispatcher have timeouts.  The provider and the application owe nothing.
Fairness ==
    \A c \in Calls : WF_vars(AttemptStep(c)) /\ WF_vars(DispatchStep(c))

Spec == Init /\ [][Next]_vars /\ Fairness

-----------------------------------------------------------------------------
(* Properties *)

\* The calls that wait for a follow-up response are exactly those whose record says
\* FOLLOWUP_REQUESTED, each once: no created response is claimed by a call that did
\* not ask, and none that asked is forgotten.
FollowupQueueExact ==
    /\ {followups[k] : k \in DOMAIN followups} =
           {c \in Calls : state[c] = "FOLLOWUP_REQUESTED"}
    /\ \A j, k \in DOMAIN followups : followups[j] = followups[k] => j = k

Attempt == [pc : {"none", "spawned", "sendResult", "waitAck", "sendFollowup", "done"},
            output : Outputs \cup {None}]
Client == [pc : {"idle", "spawned", "dispatch", "reject", "await", "error", "ok", "retry",
                 "fatal"},
           call : Calls \cup {None}, output : Outputs \cup {None}]

\* The record, the attempt and the clients keep their types; a record without a
\* result has no output, one with a result has the output of some attempt; the queue
\* of calls that wait for a follow-up is the one the records tell.
TypeOK ==
    /\ active \in BOOLEAN /\ generation \in Nat /\ live \in BOOLEAN /\ created \in Nat
    /\ state \in [Calls -> States] /\ acked \in [Calls -> BOOLEAN]
    /\ output \in [Calls -> Outputs \cup {None}]
    /\ attempt \in [Calls -> Attempt] /\ client \in [Clients -> Client]
    /\ followups \in Seq(Calls) /\ seenCalls \subseteq Calls /\ asked \subseteq Calls
    /\ received \in [Calls -> SUBSET Outputs]
    /\ sends \in [Calls -> Nat] /\ dispatched \in [Calls -> Nat]
    /\ \A c \in Calls : state[c] \in {"none", "REQUESTED"} <=> output[c] = None
    /\ FollowupQueueExact

\* Whatever the application and the dispatcher submit for a call, in whatever order
\* and however often writes fail, the provider is given at most one output for it.
OneResultPerCall == \A c \in Calls : received[c] \subseteq {output[c]}

\* The provider gets response.create for a call only after it got the result and
\* the session saw the acknowledgement of it.
ResultBeforeFollowup ==
    \A c \in asked : acked[c] /\ received[c] = {output[c]}

\* A tool runs at most once per call id, over all generations of the external
\* session: the dispatcher may have side effects.
DispatchOnce == \A c \in Calls : dispatched[c] <= 1

\* Every submit_tool_result returns or raises.
SubmitsReturn == \A k \in Clients : (client[k].pc = "await") ~> (client[k].pc # "await")

=============================================================================
