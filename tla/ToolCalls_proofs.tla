--------------------------- MODULE ToolCalls_proofs ---------------------------
(***************************************************************************)
(* Proofs about ToolCalls, for any calls, outputs, application tasks and   *)
(* bounds: the provider gets at most one output for a call and no          *)
(* follow-up before the result is acknowledged, the queue of calls that    *)
(* wait for a response is exact, and the dispatcher runs once per call.    *)
(***************************************************************************)
EXTENDS ToolCalls, TLAPS

Acked == {"RESULT_ACKED", "FOLLOWUP_REQUESTED", "FOLLOWUP_STARTED"}

\* What the attempt of a call knows of its record.  The acknowledgement may overtake
\* the return of the write, a response the write of the follow-up.
RecordInv == \A c \in Calls :
    /\ attempt[c].pc # "none" => state[c] # "none" /\ attempt[c].output \in Outputs
    /\ attempt[c].pc \in {"sendResult", "waitAck"} => state[c] \in {"RESULT_SENT", "RESULT_ACKED"}
    /\ attempt[c].pc = "sendFollowup" => state[c] \in {"FOLLOWUP_REQUESTED", "FOLLOWUP_STARTED"}
    /\ acked[c] <=> state[c] \in Acked

\* What the provider has of a call, from what the record says.
WireInv == \A c \in Calls :
    /\ received[c] \subseteq {output[c]}
    /\ acked[c] => received[c] = {output[c]}
    /\ c \in asked => acked[c]

\* A call is dispatched only after it entered _seen_tool_calls, and enters it once.
DispatchInv == \A c \in Calls :
    /\ state[c] # "none" => c \in seenCalls
    /\ client[c].pc = "spawned" => dispatched[c] = 0 /\ c \in seenCalls
    /\ c \notin seenCalls => dispatched[c] = 0
    /\ dispatched[c] <= 1

IInv == TypeOK /\ RecordInv /\ WireInv /\ DispatchInv

-----------------------------------------------------------------------------
(* The queue of calls that wait for a follow-up. *)

Waiting(s) == {s[k] : k \in DOMAIN s}
Distinct(s) == \A j, k \in DOMAIN s : s[j] = s[k] => j = k

LEMMA AppendWaiting ==
    ASSUME NEW s \in Seq(Calls), NEW c \in Calls, c \notin Waiting(s), Distinct(s)
    PROVE  /\ Append(s, c) \in Seq(Calls)
           /\ Waiting(Append(s, c)) = Waiting(s) \cup {c} /\ Distinct(Append(s, c))
<1>1. /\ Append(s, c) \in Seq(Calls) /\ DOMAIN Append(s, c) = 1..(Len(s) + 1)
      /\ \A k \in 1..Len(s) : Append(s, c)[k] = s[k]
      /\ Append(s, c)[Len(s) + 1] = c
      /\ DOMAIN s = 1..Len(s) /\ Len(s) \in Nat
  OBVIOUS
<1>2. Waiting(Append(s, c)) = Waiting(s) \cup {c}
  BY <1>1 DEF Waiting
<1>3. Distinct(Append(s, c))
  <2> SUFFICES ASSUME NEW j \in 1..(Len(s) + 1), NEW k \in 1..(Len(s) + 1),
                      Append(s, c)[j] = Append(s, c)[k]
               PROVE  j = k
    BY <1>1 DEF Distinct
  <2>1. \A i \in 1..Len(s) : s[i] # c
    BY <1>1 DEF Waiting
  <2>2. CASE j \in 1..Len(s) /\ k \in 1..Len(s)
    BY <1>1, <2>2 DEF Distinct
  <2>3. CASE j = Len(s) + 1 \/ k = Len(s) + 1
    BY <1>1, <2>1, <2>3
  <2> QED
    BY <1>1, <2>2, <2>3
<1> QED
  BY <1>1, <1>2, <1>3

LEMMA TailWaiting ==
    ASSUME NEW s \in Seq(Calls), s # <<>>, Distinct(s)
    PROVE  /\ Tail(s) \in Seq(Calls) /\ Head(s) \in Calls
           /\ Waiting(Tail(s)) = Waiting(s) \ {Head(s)} /\ Distinct(Tail(s))
<1>1. /\ Tail(s) \in Seq(Calls) /\ DOMAIN Tail(s) = 1..(Len(s) - 1)
      /\ \A k \in 1..(Len(s) - 1) : Tail(s)[k] = s[k + 1]
      /\ DOMAIN s = 1..Len(s) /\ Len(s) \in Nat \ {0} /\ Head(s) = s[1] /\ Head(s) \in Calls
  OBVIOUS
<1>2. \A k \in 2..Len(s) : s[k] # s[1]
  BY <1>1 DEF Distinct
<1>3. ASSUME NEW x \in Waiting(Tail(s)) PROVE x \in Waiting(s) \ {Head(s)}
  <2>1. PICK k \in 1..(Len(s) - 1) : x = s[k + 1]
    BY <1>1 DEF Waiting
  <2> QED
    BY <1>1, <1>2, <2>1 DEF Waiting
<1>4. ASSUME NEW x \in Waiting(s) \ {Head(s)} PROVE x \in Waiting(Tail(s))
  <2>1. PICK k \in 2..Len(s) : x = s[k]
    BY <1>1 DEF Waiting
  <2>2. k - 1 \in 1..(Len(s) - 1) /\ Tail(s)[k - 1] = x
    BY <1>1, <2>1
  <2> QED
    BY <1>1, <2>2 DEF Waiting
<1>5. Distinct(Tail(s))
  BY <1>1 DEF Distinct
<1> QED
  BY <1>1, <1>3, <1>4, <1>5

\* The queue after a change of the records that neither asks for a follow-up nor
\* starts one.
LEMMA QueueQuiet ==
    ASSUME FollowupQueueExact, UNCHANGED followups,
           \A c \in Calls : state'[c] = "FOLLOWUP_REQUESTED" <=> state[c] = "FOLLOWUP_REQUESTED"
    PROVE  FollowupQueueExact'
BY DEF FollowupQueueExact

-----------------------------------------------------------------------------
LEMMA InitInv == Init => IInv
<1> SUFFICES ASSUME Init PROVE IInv
  OBVIOUS
<1>1. FollowupQueueExact
  BY DEF Init, FollowupQueueExact
<1>2. /\ attempt \in [Calls -> Attempt] /\ client \in [Clients -> Client]
  BY DEF Init, Attempt, Client, NoAttempt, Idle
<1>3. TypeOK
  <2>1. /\ state \in [Calls -> States] /\ acked \in [Calls -> BOOLEAN]
        /\ output \in [Calls -> Outputs \cup {None}]
        /\ \A c \in Calls : state[c] = "none" /\ output[c] = None
    BY DEF Init, States
  <2>2. /\ followups \in Seq(Calls) /\ received \in [Calls -> SUBSET Outputs]
        /\ sends \in [Calls -> Nat] /\ dispatched \in [Calls -> Nat]
    BY DEF Init
  <2> QED
    BY <1>1, <1>2, <2>1, <2>2 DEF Init, TypeOK
<1>4. RecordInv /\ WireInv
  BY DEF Init, RecordInv, WireInv, NoAttempt, Acked
<1>5. DispatchInv
  BY DEF Init, DispatchInv, Clients, Idle
<1> QED
  BY <1>3, <1>4, <1>5 DEF IInv

\* Clients that are cancelled or settled stay clients; no dispatch task is spawned.
LEMMA SurvivingType ==
    ASSUME NEW clients \in [Clients -> Client]
    PROVE  /\ Surviving(clients) \in [Clients -> Client]
           /\ \A c \in Calls : Surviving(clients)[c].pc = "spawned" => clients[c].pc = "spawned"
BY DEF Surviving, Client, Clients, Idle

LEMMA SettledType ==
    ASSUME NEW clients \in [Clients -> Client], NEW c \in Calls,
           NEW result \in {"ok", "retry", "fatal"}
    PROVE  /\ Settled(clients, c, result) \in [Clients -> Client]
           /\ \A d \in Calls : Settled(clients, c, result)[d].pc = "spawned" => clients[d].pc = "spawned"
<1>1. \A k \in Clients : Settled(clients, c, result)[k] \in Client
  BY DEF Settled, Client
<1>2. \A k \in Clients : Settled(clients, c, result)[k].pc = "spawned" => clients[k].pc = "spawned"
  BY DEF Settled, Client
<1> QED
  BY <1>1, <1>2 DEF Settled, Clients

-----------------------------------------------------------------------------
(* The end of the session, and a new one. *)

\* Only the clients, the session's own flags and the counters of its responses change.
LEMMA ClientsOnly ==
    ASSUME IInv, UNCHANGED <<record, attempt, followups, seenCalls, wire, dispatched>>,
           active' \in BOOLEAN, live' \in BOOLEAN, created' \in Nat, generation' \in Nat,
           client' \in [Clients -> Client],
           \A c \in Calls : client'[c].pc = "spawned" => client[c].pc = "spawned"
    PROVE  IInv'
<1>1. FollowupQueueExact'
  BY QueueQuiet DEF IInv, TypeOK, record
<1>2. TypeOK'
  BY <1>1 DEF IInv, TypeOK, record, wire
<1>3. RecordInv' /\ WireInv'
  BY DEF IInv, RecordInv, WireInv, record, wire
<1>4. DispatchInv'
  BY DEF IInv, DispatchInv, record
<1> QED
  BY <1>2, <1>3, <1>4 DEF IInv

LEMMA FailInv ==
    ASSUME IInv, Fail, UNCHANGED <<record, attempt, followups, seenCalls, wire, dispatched>>,
           live' \in BOOLEAN, created' \in Nat, generation' \in Nat
    PROVE  IInv'
<1>1. client \in [Clients -> Client]
  BY DEF IInv, TypeOK
<1> QED
  BY <1>1, SurvivingType, ClientsOnly DEF Fail

LEMMA ReopenInv == ASSUME IInv, Reopen PROVE IInv'
<1>1. FollowupQueueExact'
  BY DEF Reopen, FollowupQueueExact
<1>2. attempt' \in [Calls -> Attempt] /\ client' \in [Clients -> Client]
  BY DEF Reopen, Attempt, Client, NoAttempt, Idle
<1>3. /\ state' \in [Calls -> States] /\ acked' \in [Calls -> BOOLEAN]
      /\ output' \in [Calls -> Outputs \cup {None}]
      /\ \A c \in Calls : state'[c] = "none" /\ output'[c] = None
  BY DEF Reopen, States
<1>4. /\ followups' \in Seq(Calls) /\ received' \in [Calls -> SUBSET Outputs]
      /\ sends' \in [Calls -> Nat] /\ dispatched' \in [Calls -> Nat]
      /\ generation' \in Nat /\ seenCalls' \subseteq Calls
  BY DEF Reopen, IInv, TypeOK
<1>5. TypeOK'
  BY <1>1, <1>2, <1>3, <1>4 DEF Reopen, TypeOK
<1>6. RecordInv' /\ WireInv'
  BY DEF Reopen, RecordInv, WireInv, NoAttempt, Acked
<1>7. DispatchInv'
  BY DEF Reopen, IInv, DispatchInv, Clients, Idle
<1> QED
  BY <1>5, <1>6, <1>7 DEF IInv

-----------------------------------------------------------------------------
(* The provider's events. *)

\* A step of the record of one call that leaves its output, the wire and the other
\* calls alone.
LEMMA StateStep ==
    ASSUME IInv, NEW c \in Calls, NEW s \in States, s # "none",
           state' = [state EXCEPT ![c] = s],
           UNCHANGED <<output, received, asked, dispatched, seenCalls>>,
           (s = "REQUESTED") <=> (output[c] = None),
           state[c] # "none" \/ c \in seenCalls,
           \A d \in Calls : d # c => attempt'[d] = attempt[d] /\ acked'[d] = acked[d],
           RecordInv!(c)', WireInv!(c)',
           \A d \in Calls : client'[d].pc = "spawned" => client[d].pc = "spawned"
    PROVE  /\ state' \in [Calls -> States]
           /\ \A d \in Calls : state'[d] \in {"none", "REQUESTED"} <=> output'[d] = None
           /\ RecordInv' /\ WireInv' /\ DispatchInv'
<1>1. /\ state'[c] = s /\ \A d \in Calls : d # c => state'[d] = state[d]
      /\ state' \in [Calls -> States]
  BY DEF IInv, TypeOK
<1>2. \A d \in Calls : state'[d] \in {"none", "REQUESTED"} <=> output'[d] = None
  BY <1>1 DEF IInv, TypeOK
<1>3. RecordInv'
  <2> SUFFICES ASSUME NEW d \in Calls, d # c PROVE RecordInv!(d)'
    BY DEF RecordInv
  <2>1. attempt'[d] = attempt[d] /\ acked'[d] = acked[d] /\ state'[d] = state[d]
    BY <1>1
  <2> QED
    BY <2>1 DEF IInv, RecordInv
<1>4. WireInv'
  <2> SUFFICES ASSUME NEW d \in Calls, d # c PROVE WireInv!(d)'
    BY DEF WireInv
  <2>1. acked'[d] = acked[d]
    OBVIOUS
  <2> QED
    BY <2>1 DEF IInv, WireInv
<1>5. DispatchInv'
  BY <1>1 DEF IInv, DispatchInv
<1> QED
  BY <1>1, <1>2, <1>3, <1>4, <1>5

LEMMA CreatedInv == ASSUME IInv, Created PROVE IInv'
<1>t. TypeOK
  BY DEF IInv
<1>1. created' \in Nat /\ generation' \in Nat
  BY <1>t DEF Created, TypeOK
<1>2. CASE live
  BY <1>1, <1>2, <1>t, FailInv DEF Created, TypeOK, record
<1>3. CASE ~live /\ followups = <<>>
  BY <1>1, <1>3, <1>t, ClientsOnly DEF Created, TypeOK, record
<1>4. CASE ~live /\ followups # <<>>
  <2>1. PICK c \in Calls : c = Head(followups)
    BY <1>4, <1>t, TailWaiting DEF TypeOK, FollowupQueueExact, Distinct
  <2>2. /\ state' = [state EXCEPT ![c] = "FOLLOWUP_STARTED"]
        /\ followups' = Tail(followups) /\ live' = TRUE
        /\ UNCHANGED <<active, client, generation, output, acked, attempt, seenCalls, wire,
                       dispatched>>
    BY <1>4, <2>1 DEF Created
  <2>3. Distinct(followups) /\ followups \in Seq(Calls)
        /\ Waiting(followups) = {d \in Calls : state[d] = "FOLLOWUP_REQUESTED"}
    BY <1>t DEF TypeOK, FollowupQueueExact, Distinct, Waiting
  <2>4. /\ followups' \in Seq(Calls) /\ Distinct(followups')
        /\ Waiting(followups') = Waiting(followups) \ {c}
    BY <1>4, <2>1, <2>2, <2>3, TailWaiting
  <2>5. state[c] = "FOLLOWUP_REQUESTED"
    <3>1. followups[1] = c /\ 1 \in DOMAIN followups
      BY <1>4, <2>1, <2>3
    <3> QED
      BY <2>3, <3>1 DEF Waiting
  <2>6. output[c] # None /\ c \in seenCalls /\ acked[c]
    BY <2>5, <1>t DEF TypeOK, IInv, DispatchInv, RecordInv, Acked
  <2>7. RecordInv!(c)' /\ WireInv!(c)'
    BY <2>2, <2>5, <2>6, <1>t DEF IInv, RecordInv, WireInv, wire, TypeOK, Acked
  <2>8. /\ state' \in [Calls -> States]
        /\ \A d \in Calls : state'[d] \in {"none", "REQUESTED"} <=> output'[d] = None
        /\ RecordInv' /\ WireInv' /\ DispatchInv'
    <3>1. "FOLLOWUP_STARTED" \in States
      BY DEF States
    <3> QED
      BY <2>2, <2>6, <2>7, <3>1, StateStep DEF wire
  <2>9. FollowupQueueExact'
    <3>1. {d \in Calls : state'[d] = "FOLLOWUP_REQUESTED"} = Waiting(followups) \ {c}
      BY <2>2, <2>3, <1>t DEF TypeOK
    <3> QED
      BY <2>4, <3>1 DEF FollowupQueueExact, Waiting, Distinct
  <2>10. TypeOK'
    BY <1>1, <1>t, <2>2, <2>4, <2>8, <2>9 DEF TypeOK, wire
  <2> QED
    BY <2>8, <2>10 DEF IInv
<1> QED
  BY <1>2, <1>3, <1>4, <1>t DEF TypeOK

\* A call that was never seen: the only step that spawns a dispatch task.
LEMMA FirstRequest ==
    ASSUME IInv, NEW c \in Calls, NEW invalid \in BOOLEAN, ToolCallRequested(c, invalid),
           live, state[c] = "none", c \notin seenCalls
    PROVE  IInv'
<1>t. TypeOK
  BY DEF IInv
<1>1. /\ state' = [state EXCEPT ![c] = "REQUESTED"] /\ seenCalls' = seenCalls \cup {c}
      /\ UNCHANGED <<active, generation, output, acked, attempt, followups, live, created, wire,
                     dispatched>>
  BY DEF ToolCallRequested
<1>2. /\ client' \in [Clients -> Client]
      /\ \A d \in Calls : d # c => client'[d] = client[d]
  <2>1. CASE Dispatcher \/ invalid
    <3> DEFINE spawned == [pc |-> IF invalid THEN "reject" ELSE "spawned",
                           call |-> c, output |-> None]
    <3>1. client' = [client EXCEPT ![c] = spawned]
      BY <2>1 DEF ToolCallRequested
    <3>2. spawned \in Client
      BY DEF Client
    <3> QED
      BY <3>1, <3>2, <1>t DEF TypeOK, Clients
  <2>2. CASE ~(Dispatcher \/ invalid)
    BY <2>2, <1>t DEF ToolCallRequested, TypeOK
  <2> QED
    BY <2>1, <2>2
<1>3. /\ state'[c] = "REQUESTED" /\ \A d \in Calls : d # c => state'[d] = state[d]
      /\ state' \in [Calls -> States]
  BY <1>1, <1>t DEF TypeOK, States
<1>4. FollowupQueueExact'
  BY <1>1, <1>3, <1>t, QueueQuiet DEF TypeOK
<1>5. TypeOK'
  BY <1>1, <1>2, <1>3, <1>4, <1>t DEF TypeOK, wire
<1>6. RecordInv'
  <2> SUFFICES ASSUME NEW d \in Calls PROVE RecordInv!(d)'
    BY DEF RecordInv
  <2>1. attempt[c].pc = "none" /\ ~acked[c]
    BY DEF IInv, RecordInv, Acked
  <2> QED
    BY <1>1, <1>3, <2>1 DEF IInv, RecordInv, Acked
<1>7. WireInv'
  BY <1>1 DEF IInv, WireInv, wire
<1>8. DispatchInv'
  <2> SUFFICES ASSUME NEW d \in Calls PROVE DispatchInv!(d)'
    BY DEF DispatchInv
  <2>1. CASE d = c
    BY <2>1, <1>1 DEF IInv, DispatchInv
  <2>2. CASE d # c
    BY <2>2, <1>1, <1>2, <1>3 DEF IInv, DispatchInv
  <2> QED
    BY <2>1, <2>2
<1> QED
  BY <1>5, <1>6, <1>7, <1>8 DEF IInv

LEMMA ToolCallRequestedInv ==
    ASSUME IInv, NEW c \in Calls, NEW invalid \in BOOLEAN, ToolCallRequested(c, invalid)
    PROVE  IInv'
<1>t. TypeOK
  BY DEF IInv
<1>1. CASE ~live \/ state[c] # "none"
  BY <1>1, <1>t, FailInv DEF ToolCallRequested, TypeOK, record
<1>2. CASE live /\ state[c] = "none" /\ c \in seenCalls
  BY <1>2, <1>t, ClientsOnly DEF ToolCallRequested, TypeOK, record
<1>3. CASE live /\ state[c] = "none" /\ c \notin seenCalls
  BY <1>3, FirstRequest
<1> QED
  BY <1>1, <1>2, <1>3

LEMMA ToolAckInv ==
    ASSUME IInv, NEW c \in Calls, NEW o \in Outputs, ToolAck(c, o)
    PROVE  IInv'
<1>t. TypeOK
  BY DEF IInv
<1>1. CASE output[c] # o
  BY <1>1, <1>t, FailInv DEF ToolAck, TypeOK, record
<1>2. CASE output[c] = o /\ state[c] # "RESULT_SENT"
  BY <1>2, <1>t, ClientsOnly DEF ToolAck, TypeOK, record
<1>3. CASE output[c] = o /\ state[c] = "RESULT_SENT"
  <2>1. /\ state' = [state EXCEPT ![c] = "RESULT_ACKED"] /\ acked' = [acked EXCEPT ![c] = TRUE]
        /\ UNCHANGED <<active, client, generation, output, attempt, followups, seenCalls, live,
                       created, wire, dispatched>>
    BY <1>3 DEF ToolAck
  <2>2. /\ acked' \in [Calls -> BOOLEAN] /\ acked'[c] = TRUE
        /\ \A d \in Calls : d # c => acked'[d] = acked[d]
        /\ state'[c] = "RESULT_ACKED"
    BY <2>1, <1>t DEF TypeOK
  <2>3. received[c] = {output[c]}
    BY <1>3 DEF ToolAck, IInv, WireInv
  <2>4. output[c] # None /\ "RESULT_ACKED" \in States
    BY <1>3, <1>t DEF TypeOK, States
  <2>5. RecordInv!(c)' /\ WireInv!(c)'
    BY <1>3, <2>1, <2>2, <2>3 DEF IInv, RecordInv, WireInv, wire, Acked
  <2>6. /\ state' \in [Calls -> States]
        /\ \A d \in Calls : state'[d] \in {"none", "REQUESTED"} <=> output'[d] = None
        /\ RecordInv' /\ WireInv' /\ DispatchInv'
    BY <1>3, <2>1, <2>2, <2>4, <2>5, StateStep DEF wire
  <2>7. FollowupQueueExact'
    BY <1>3, <2>1, <1>t, QueueQuiet DEF TypeOK
  <2>8. TypeOK'
    BY <1>t, <2>1, <2>2, <2>6, <2>7 DEF TypeOK, wire
  <2> QED
    BY <2>6, <2>8 DEF IInv
<1> QED
  BY <1>1, <1>2, <1>3

-----------------------------------------------------------------------------
(* The clients. *)

\* submit_tool_result by the application or by the dispatch task of the call.
LEMMA SubmitInv ==
    ASSUME IInv, NEW k \in Clients, NEW c \in Calls, NEW o \in Outputs, Submit(k, c, o),
           UNCHANGED <<active, generation, record, followups, seenCalls, live, created,
                       wire, dispatched>>
    PROVE  IInv'
<1>t. TypeOK
  BY DEF IInv
<1>1. /\ client' \in [Clients -> Client]
      /\ \A d \in Calls : client'[d].pc = "spawned" => client[d].pc = "spawned"
  <2> DEFINE waiting == [pc |-> "await", call |-> c, output |-> o]
  <2>1. client' = [client EXCEPT ![k] = waiting]
    BY DEF Submit
  <2>2. waiting \in Client /\ waiting.pc = "await"
    BY DEF Client
  <2> QED
    BY <2>1, <2>2, <1>t DEF TypeOK, Clients
<1>2. state[c] # "none"
  BY DEF Submit
<1>3. /\ attempt' \in [Calls -> Attempt]
      /\ \A d \in Calls : \/ attempt'[d] = attempt[d]
                          \/ d = c /\ attempt'[d] = [pc |-> "spawned", output |-> o]
  BY <1>t DEF Submit, TypeOK, Attempt
<1>4. FollowupQueueExact'
  BY <1>t, QueueQuiet DEF TypeOK, record
<1>5. TypeOK'
  BY <1>t, <1>1, <1>3, <1>4 DEF TypeOK, record, wire
<1>6. RecordInv'
  <2> SUFFICES ASSUME NEW d \in Calls PROVE RecordInv!(d)'
    BY DEF RecordInv
  <2>1. state'[d] = state[d] /\ acked'[d] = acked[d]
    BY DEF record
  <2>2. CASE attempt'[d] = attempt[d]
    BY <2>1, <2>2 DEF IInv, RecordInv
  <2>3. CASE d = c /\ attempt'[d] = [pc |-> "spawned", output |-> o]
    BY <1>2, <2>1, <2>3 DEF IInv, RecordInv
  <2> QED
    BY <1>3, <2>2, <2>3
<1>7. WireInv' /\ DispatchInv'
  BY <1>1 DEF IInv, WireInv, DispatchInv, record, wire
<1> QED
  BY <1>5, <1>6, <1>7 DEF IInv

LEMMA DispatchStartsInv ==
    ASSUME IInv, NEW c \in Calls, DispatchStarts(c)
    PROVE  IInv'
<1>t. TypeOK /\ c \in Clients
  BY DEF IInv, Clients
<1>0. client[c] \in Client
  BY <1>t DEF TypeOK
<1>1. CASE ~active
  <2>1. client' = [client EXCEPT ![c] = Idle] /\ Idle \in Client /\ Idle.pc = "idle"
    BY <1>1 DEF DispatchStarts, Idle, Client
  <2>2. /\ client' \in [Clients -> Client]
        /\ \A d \in Calls : client'[d].pc = "spawned" => client[d].pc = "spawned"
    BY <2>1, <1>t DEF TypeOK, Clients
  <2> QED
    BY <1>1, <2>2, <1>t, ClientsOnly DEF DispatchStarts, TypeOK
<1>2. CASE active
  <2>1. /\ client' = [client EXCEPT ![c] = [client[c] EXCEPT !.pc = "dispatch"]]
        /\ dispatched' = [dispatched EXCEPT ![c] = dispatched[c] + 1]
    BY <1>2, <1>t DEF DispatchStarts, TypeOK
  <2>2. [client[c] EXCEPT !.pc = "dispatch"] \in Client
        /\ [client[c] EXCEPT !.pc = "dispatch"].pc = "dispatch"
    BY <1>0 DEF Client
  <2>3. /\ client' \in [Clients -> Client] /\ client'[c].pc = "dispatch"
        /\ \A d \in Calls : d # c => client'[d] = client[d]
    BY <2>1, <2>2, <1>t DEF TypeOK, Clients
  <2>4. dispatched[c] = 0 /\ c \in seenCalls
    BY DEF DispatchStarts, IInv, DispatchInv
  <2>5. /\ dispatched' \in [Calls -> Nat] /\ dispatched'[c] = 1
        /\ \A d \in Calls : d # c => dispatched'[d] = dispatched[d]
    BY <2>1, <2>4, <1>t DEF TypeOK
  <2>6. UNCHANGED <<active, generation, record, attempt, followups, seenCalls, live, created, wire>>
    BY DEF DispatchStarts
  <2>7. FollowupQueueExact'
    BY <1>t, <2>6, QueueQuiet DEF TypeOK, record
  <2>8. TypeOK'
    BY <1>t, <2>3, <2>5, <2>6, <2>7 DEF TypeOK, record, wire
  <2>9. RecordInv' /\ WireInv'
    BY <2>6 DEF IInv, RecordInv, WireInv, record, wire
  <2>10. DispatchInv'
    BY <2>3, <2>4, <2>5, <2>6 DEF IInv, DispatchInv, record
  <2> QED
    BY <2>8, <2>9, <2>10 DEF IInv
<1> QED
  BY <1>1, <1>2

LEMMA DispatchSubmitsInv ==
    ASSUME IInv, NEW c \in Calls, NEW o \in Outputs, DispatchSubmits(c, o)
    PROVE  IInv'
<1>t. TypeOK /\ c \in Clients
  BY DEF IInv, Clients
<1>1. CASE active /\ ~Changed(c, o)
  BY <1>1, <1>t, SubmitInv DEF DispatchSubmits
<1>2. CASE ~(active /\ ~Changed(c, o))
  <2>0. client[c] \in Client
    BY <1>t DEF TypeOK
  <2>1. client' = [client EXCEPT ![c] = [client[c] EXCEPT !.pc = "error"]]
    BY <1>2, <1>t DEF DispatchSubmits, TypeOK
  <2>2. [client[c] EXCEPT !.pc = "error"] \in Client
        /\ [client[c] EXCEPT !.pc = "error"].pc = "error"
    BY <2>0 DEF Client
  <2>3. /\ client' \in [Clients -> Client]
        /\ \A d \in Calls : client'[d].pc = "spawned" => client[d].pc = "spawned"
    BY <2>1, <2>2, <1>t DEF TypeOK, Clients
  <2> QED
    BY <1>2, <2>3, <1>t, ClientsOnly DEF DispatchSubmits, TypeOK
<1> QED
  BY <1>1, <1>2

LEMMA AppCancelledInv ==
    ASSUME IInv, NEW a \in Apps, AppCancelled(a)
    PROVE  IInv'
<1>1. client' = [client EXCEPT ![a] = Idle] /\ Idle \in Client /\ Idle.pc = "idle"
  BY DEF AppCancelled, Idle, Client
<1>2. /\ client' \in [Clients -> Client]
      /\ \A d \in Calls : client'[d].pc = "spawned" => client[d].pc = "spawned"
  BY <1>1 DEF IInv, TypeOK, Clients
<1> QED
  BY <1>2, ClientsOnly DEF AppCancelled, IInv, TypeOK

-----------------------------------------------------------------------------
(* The attempt. *)

LEMMA AttemptMoves ==
    ASSUME TypeOK, NEW c \in Calls, NEW pc \in {"sendResult", "waitAck", "sendFollowup", "done"},
           attempt' = [attempt EXCEPT ![c].pc = pc]
    PROVE  /\ attempt' \in [Calls -> Attempt]
           /\ attempt'[c].pc = pc /\ attempt'[c].output = attempt[c].output
           /\ \A d \in Calls : d # c => attempt'[d] = attempt[d]
<1>1. attempt[c] \in Attempt
  BY DEF TypeOK
<1>2. /\ [attempt[c] EXCEPT !.pc = pc] \in Attempt
      /\ [attempt[c] EXCEPT !.pc = pc].pc = pc
      /\ [attempt[c] EXCEPT !.pc = pc].output = attempt[c].output
  BY <1>1 DEF Attempt
<1>3. attempt' = [attempt EXCEPT ![c] = [attempt[c] EXCEPT !.pc = pc]]
  BY DEF TypeOK
<1> QED
  BY <1>2, <1>3 DEF TypeOK

\* An attempt that goes on or finishes as its record lets it, with every client as it
\* was or settled.
LEMMA AttemptInv ==
    ASSUME IInv, NEW c \in Calls, NEW pc \in {"sendResult", "waitAck", "sendFollowup", "done"},
           attempt[c].pc # "none",
           attempt' = [attempt EXCEPT ![c].pc = pc],
           pc \in {"sendResult", "waitAck"} => state[c] \in {"RESULT_SENT", "RESULT_ACKED"},
           pc = "sendFollowup" => state[c] \in {"FOLLOWUP_REQUESTED", "FOLLOWUP_STARTED"},
           client' \in [Clients -> Client],
           \A d \in Calls : client'[d].pc = "spawned" => client[d].pc = "spawned",
           received' \in [Calls -> SUBSET Outputs], asked' \subseteq Calls,
           sends' \in [Calls -> Nat], active' \in BOOLEAN, WireInv',
           UNCHANGED <<generation, record, followups, seenCalls, live, created, dispatched>>
    PROVE  IInv'
<1>1. /\ attempt' \in [Calls -> Attempt]
      /\ attempt'[c].pc = pc /\ attempt'[c].output = attempt[c].output
      /\ \A d \in Calls : d # c => attempt'[d] = attempt[d]
  BY AttemptMoves DEF IInv
<1>2. FollowupQueueExact'
  BY QueueQuiet DEF IInv, TypeOK, record
<1>3. TypeOK'
  BY <1>1, <1>2 DEF IInv, TypeOK, record
<1>4. RecordInv'
  <2> SUFFICES ASSUME NEW d \in Calls PROVE RecordInv!(d)'
    BY DEF RecordInv
  <2>1. state'[d] = state[d] /\ acked'[d] = acked[d]
    BY DEF record
  <2>2. CASE d = c
    BY <1>1, <2>1, <2>2 DEF IInv, RecordInv
  <2>3. CASE d # c
    BY <1>1, <2>1, <2>3 DEF IInv, RecordInv
  <2> QED
    BY <2>2, <2>3
<1>5. DispatchInv'
  BY DEF IInv, DispatchInv, record
<1> QED
  BY <1>3, <1>4, <1>5 DEF IInv

\* Nothing on the wire, nothing in the records.
LEMMA WireQuiet == ASSUME IInv, UNCHANGED <<record, received, asked>> PROVE WireInv'
BY DEF IInv, WireInv, record

\* RESULT_ACKED becomes FOLLOWUP_REQUESTED, and the call is queued.
LEMMA RequestFollowupInv ==
    ASSUME IInv, NEW c \in Calls, RequestFollowup(c), state[c] = "RESULT_ACKED",
           attempt[c].pc # "none",
           UNCHANGED <<active, generation, seenCalls, live, created, wire, dispatched>>
    PROVE  IInv'
<1>t. TypeOK
  BY DEF IInv
<1>1. /\ attempt' \in [Calls -> Attempt]
      /\ attempt'[c].pc = "sendFollowup" /\ attempt'[c].output = attempt[c].output
      /\ \A d \in Calls : d # c => attempt'[d] = attempt[d]
  BY <1>t, AttemptMoves DEF RequestFollowup, Goto
<1>2. /\ state' = [state EXCEPT ![c] = "FOLLOWUP_REQUESTED"]
      /\ UNCHANGED <<output, acked, client>>
  BY DEF RequestFollowup, Goto
<1>3. /\ Distinct(followups) /\ followups \in Seq(Calls)
      /\ Waiting(followups) = {d \in Calls : state[d] = "FOLLOWUP_REQUESTED"}
      /\ c \notin Waiting(followups)
  BY <1>t DEF TypeOK, FollowupQueueExact, Distinct, Waiting
<1>4. followups' = Append(followups, c)
  BY <1>3 DEF RequestFollowup, Waiting
<1>5. /\ followups' \in Seq(Calls) /\ Distinct(followups')
      /\ Waiting(followups') = Waiting(followups) \cup {c}
  BY <1>3, <1>4, AppendWaiting
<1>6. FollowupQueueExact'
  <2>1. {d \in Calls : state'[d] = "FOLLOWUP_REQUESTED"} = Waiting(followups) \cup {c}
    BY <1>2, <1>3, <1>t DEF TypeOK
  <2> QED
    BY <1>5, <2>1 DEF FollowupQueueExact, Waiting, Distinct
<1>7. output[c] # None /\ acked[c] /\ "FOLLOWUP_REQUESTED" \in States
  BY <1>t DEF TypeOK, IInv, RecordInv, Acked, States
<1>8. RecordInv!(c)' /\ WireInv!(c)'
  BY <1>1, <1>2, <1>7, <1>t DEF IInv, RecordInv, WireInv, wire, TypeOK, Acked
<1>9. /\ state' \in [Calls -> States]
      /\ \A d \in Calls : state'[d] \in {"none", "REQUESTED"} <=> output'[d] = None
      /\ RecordInv' /\ WireInv' /\ DispatchInv'
  BY <1>1, <1>2, <1>7, <1>8, StateStep DEF wire
<1>10. TypeOK'
  BY <1>t, <1>1, <1>2, <1>5, <1>6, <1>9 DEF TypeOK, wire
<1> QED
  BY <1>9, <1>10 DEF IInv

\* The first attempt fixes the output of the record.
LEMMA PrepareInv ==
    ASSUME IInv, NEW c \in Calls, attempt[c].pc = "spawned", state[c] = "REQUESTED",
           Prepare(c), Goto(c, "sendResult"),
           UNCHANGED <<active, generation, seenCalls, live, created, wire, dispatched, followups>>
    PROVE  IInv'
<1>t. TypeOK
  BY DEF IInv
<1>1. /\ attempt' \in [Calls -> Attempt]
      /\ attempt'[c].pc = "sendResult" /\ attempt'[c].output = attempt[c].output
      /\ \A d \in Calls : d # c => attempt'[d] = attempt[d]
  BY <1>t, AttemptMoves DEF Goto
<1>2. attempt[c].output \in Outputs /\ output[c] = None /\ ~acked[c]
  BY <1>t DEF IInv, RecordInv, TypeOK, Acked
<1>3. received[c] = {} /\ c \notin asked
  BY <1>t, <1>2, TaskAssumption DEF IInv, WireInv, TypeOK
<1>4. /\ output' \in [Calls -> Outputs \cup {None}] /\ output'[c] = attempt[c].output
      /\ acked' \in [Calls -> BOOLEAN] /\ acked'[c] = FALSE
      /\ state' \in [Calls -> States] /\ state'[c] = "RESULT_SENT"
      /\ \A d \in Calls : d # c =>
            output'[d] = output[d] /\ acked'[d] = acked[d] /\ state'[d] = state[d]
  BY <1>t, <1>2 DEF Prepare, TypeOK, States
<1>5. FollowupQueueExact'
  BY <1>t, <1>4, QueueQuiet DEF TypeOK
<1>6. \A d \in Calls : state'[d] \in {"none", "REQUESTED"} <=> output'[d] = None
  BY <1>t, <1>2, <1>4, TaskAssumption DEF TypeOK
<1>7. TypeOK'
  BY <1>t, <1>1, <1>4, <1>5, <1>6 DEF TypeOK, wire, Goto
<1>8. RecordInv'
  <2> SUFFICES ASSUME NEW d \in Calls PROVE RecordInv!(d)'
    BY DEF RecordInv
  <2>1. CASE d = c
    BY <1>1, <1>2, <1>4, <2>1 DEF Acked
  <2>2. CASE d # c
    BY <1>1, <1>4, <2>2 DEF IInv, RecordInv
  <2> QED
    BY <2>1, <2>2
<1>9. WireInv'
  <2> SUFFICES ASSUME NEW d \in Calls PROVE WireInv!(d)'
    BY DEF WireInv
  <2>1. CASE d = c
    BY <1>3, <1>4, <2>1 DEF wire
  <2>2. CASE d # c
    BY <1>4, <2>2 DEF IInv, WireInv, wire
  <2> QED
    BY <2>1, <2>2
<1>10. DispatchInv'
  BY <1>4 DEF IInv, DispatchInv, Goto
<1> QED
  BY <1>7, <1>8, <1>9, <1>10 DEF IInv

LEMMA AttemptStartsInv ==
    ASSUME IInv, NEW c \in Calls, AttemptStarts(c)
    PROVE  IInv'
<1>t. /\ TypeOK /\ attempt[c].pc = "spawned"
      /\ UNCHANGED <<active, generation, seenCalls, live, created, wire, dispatched>>
      /\ received \in [Calls -> SUBSET Outputs] /\ asked \subseteq Calls
      /\ sends \in [Calls -> Nat] /\ active \in BOOLEAN /\ client \in [Clients -> Client]
  BY DEF IInv, TypeOK, AttemptStarts
<1>1. CASE state[c] = "REQUESTED" /\ Prepare(c) /\ Goto(c, "sendResult") /\ UNCHANGED followups
  BY <1>1, <1>t, PrepareInv
<1>2. CASE state[c] = "RESULT_SENT" /\ Goto(c, "sendResult") /\ UNCHANGED <<record, followups>>
  BY <1>2, <1>t, AttemptInv, WireQuiet DEF Goto, wire
<1>3. CASE state[c] = "RESULT_ACKED" /\ RequestFollowup(c)
  BY <1>3, <1>t, RequestFollowupInv
<1>4. CASE /\ state[c] = "FOLLOWUP_REQUESTED" /\ Goto(c, "sendFollowup")
           /\ UNCHANGED <<record, followups>>
  BY <1>4, <1>t, AttemptInv, WireQuiet DEF Goto, wire
<1>5. CASE state[c] = "FOLLOWUP_STARTED" /\ Finish(c, "ok") /\ UNCHANGED <<record, followups>>
  <2>1. /\ client' \in [Clients -> Client]
        /\ \A d \in Calls : client'[d].pc = "spawned" => client[d].pc = "spawned"
    BY <1>5, <1>t, SettledType DEF Finish
  <2>2. WireInv'
    BY <1>5, <1>t, WireQuiet DEF wire
  <2> QED
    BY <1>5, <1>t, <2>1, <2>2, AttemptInv DEF Finish, wire
<1> QED
  BY <1>1, <1>2, <1>3, <1>4, <1>5 DEF AttemptStarts

LEMMA SendResultInv ==
    ASSUME IInv, NEW c \in Calls, NEW gets \in BOOLEAN, NEW returns \in BOOLEAN,
           SendResult(c, gets, returns)
    PROVE  IInv'
<1>t. TypeOK
  BY DEF IInv
<1>1. /\ attempt[c].pc = "sendResult" /\ state[c] \in {"RESULT_SENT", "RESULT_ACKED"}
      /\ output[c] \in Outputs
  BY <1>t DEF SendResult, IInv, RecordInv, TypeOK
<1>2. /\ received' \in [Calls -> SUBSET Outputs] /\ sends' \in [Calls -> Nat]
      /\ \A d \in Calls : received'[d] = received[d] \/ received'[d] = received[d] \cup {output[d]}
  BY <1>t, <1>1 DEF SendResult, TypeOK
<1>3. WireInv'
  <2>1. UNCHANGED <<record, asked>>
    BY DEF SendResult
  <2> QED
    BY <1>2, <2>1 DEF IInv, WireInv, record
<1>4. /\ client' \in [Clients -> Client]
      /\ \A d \in Calls : client'[d].pc = "spawned" => client[d].pc = "spawned"
  <2>0. client \in [Clients -> Client]
    BY <1>t DEF TypeOK
  <2>1. client' = client \/ client' = Settled(client, c, "retry")
    BY DEF SendResult, Goto, Finish
  <2>2. CASE client' = Settled(client, c, "retry")
    BY <2>0, <2>2, SettledType
  <2> QED
    BY <2>0, <2>1, <2>2
<1>5. attempt' = [attempt EXCEPT ![c].pc = "waitAck"] \/ attempt' = [attempt EXCEPT ![c].pc = "done"]
  BY DEF SendResult, Goto, Finish
<1>6. /\ UNCHANGED <<generation, record, followups, seenCalls, live, created, dispatched>>
      /\ active' \in BOOLEAN /\ asked' \subseteq Calls
  BY <1>t DEF SendResult, TypeOK
<1> QED
  BY <1>1, <1>2, <1>3, <1>4, <1>5, <1>6, AttemptInv

LEMMA AckArrivesInv ==
    ASSUME IInv, NEW c \in Calls, AckArrives(c)
    PROVE  IInv'
<1>1. state[c] = "RESULT_ACKED" /\ attempt[c].pc # "none"
  BY DEF AckArrives, IInv, RecordInv, Acked
<1> QED
  BY <1>1, RequestFollowupInv DEF AckArrives

LEMMA AckTimeoutInv ==
    ASSUME IInv, NEW c \in Calls, AckTimeout(c)
    PROVE  IInv'
<1>t. TypeOK
  BY DEF IInv
<1>1. /\ client' \in [Clients -> Client]
      /\ \A d \in Calls : client'[d].pc = "spawned" => client[d].pc = "spawned"
  <2> DEFINE s == Surviving(client)
  <2>1. /\ s \in [Clients -> Client]
        /\ \A d \in Calls : s[d].pc = "spawned" => client[d].pc = "spawned"
    BY <1>t, SurvivingType DEF TypeOK
  <2>2. client' = Settled(s, c, "fatal")
    BY DEF AckTimeout
  <2> HIDE DEF s
  <2> QED
    BY <2>1, <2>2, SettledType
<1>2. WireInv'
  BY WireQuiet DEF AckTimeout, wire
<1> QED
  BY <1>t, <1>1, <1>2, AttemptInv DEF AckTimeout, TypeOK, wire

LEMMA SendFollowupInv ==
    ASSUME IInv, NEW c \in Calls, NEW gets \in BOOLEAN, NEW returns \in BOOLEAN,
           SendFollowup(c, gets, returns)
    PROVE  IInv'
<1>t. TypeOK
  BY DEF IInv
<1>1. attempt[c].pc = "sendFollowup" /\ acked[c]
  BY <1>t DEF SendFollowup, IInv, RecordInv, Acked
<1>2. UNCHANGED <<record, received>> /\ asked' \subseteq asked \cup {c} /\ sends' \in [Calls -> Nat]
  BY <1>t DEF SendFollowup, TypeOK
<1>3. WireInv'
  BY <1>1, <1>2 DEF IInv, WireInv, record
<1>4. /\ client' \in [Clients -> Client]
      /\ \A d \in Calls : client'[d].pc = "spawned" => client[d].pc = "spawned"
  <2>0. client \in [Clients -> Client]
    BY <1>t DEF TypeOK
  <2>1. PICK result \in {"ok", "retry", "fatal"} : client' = Settled(client, c, result)
    BY DEF SendFollowup, Finish
  <2> QED
    BY <2>0, <2>1, SettledType
<1>5. /\ attempt' = [attempt EXCEPT ![c].pc = "done"] /\ asked' \subseteq Calls
      /\ received' \in [Calls -> SUBSET Outputs] /\ active' \in BOOLEAN
      /\ UNCHANGED <<generation, record, followups, seenCalls, live, created, dispatched>>
  BY <1>t, <1>2 DEF SendFollowup, Finish, TypeOK
<1> QED
  BY <1>1, <1>2, <1>3, <1>4, <1>5, AttemptInv

-----------------------------------------------------------------------------
LEMMA StepInv == ASSUME IInv, [Next]_vars PROVE IInv'
<1>t. TypeOK
  BY DEF IInv
<1>1. CASE SessionFails
  BY <1>1, <1>t, FailInv DEF SessionFails, TypeOK
<1>2. CASE ResponseDone \/ UNCHANGED vars
  BY <1>2, <1>t, ClientsOnly DEF ResponseDone, vars, TypeOK
<1>3. ASSUME NEW a \in Apps, NEW c \in Calls, NEW o \in Outputs, AppSubmits(a, c, o)
      PROVE  IInv'
  BY <1>3, SubmitInv DEF AppSubmits, Clients
<1>4. CASE Provider
  BY <1>2, <1>4, CreatedInv, ToolCallRequestedInv, ToolAckInv DEF Provider
<1>5. ASSUME NEW c \in Calls, AttemptStep(c) \/ DispatchStep(c)
      PROVE  IInv'
  BY <1>5, AttemptStartsInv, AckArrivesInv, AckTimeoutInv, SendResultInv, SendFollowupInv,
     DispatchStartsInv, DispatchSubmitsInv DEF AttemptStep, DispatchStep
<1> QED
  BY <1>1, <1>2, <1>3, <1>4, <1>5, ReopenInv, AppCancelledInv DEF Next

LEMMA Invariance == Spec => []IInv
<1>1. IInv /\ [Next]_vars => IInv'
  BY StepInv
<1> QED
  BY InitInv, <1>1, PTL DEF Spec

\* The records keep their types, and _followup_waiting holds exactly the calls whose
\* record says FOLLOWUP_REQUESTED, each once.
THEOREM ToolTypes == Spec => []TypeOK
<1>1. IInv => TypeOK
  BY DEF IInv
<1> QED
  BY Invariance, <1>1, PTL

\* Whoever submits what, in whatever order and however often writes fail, the
\* provider gets at most one output for a call.
THEOREM ToolResultOnce == Spec => []OneResultPerCall
<1>1. IInv => OneResultPerCall
  BY DEF IInv, WireInv, OneResultPerCall
<1> QED
  BY Invariance, <1>1, PTL

\* response.create for a call follows the acknowledgement of its result.
THEOREM ToolFollowupOrder == Spec => []ResultBeforeFollowup
<1>1. IInv => ResultBeforeFollowup
  BY DEF IInv, TypeOK, WireInv, ResultBeforeFollowup
<1> QED
  BY Invariance, <1>1, PTL

\* _seen_tool_calls outlives the session, so the dispatcher runs at most once per call
\* id over all generations.
THEOREM ToolDispatchedOnce == Spec => []DispatchOnce
<1>1. IInv => DispatchOnce
  BY DEF IInv, DispatchInv, DispatchOnce
<1> QED
  BY Invariance, <1>1, PTL

===============================================================================
