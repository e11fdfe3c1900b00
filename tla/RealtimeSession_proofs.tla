------------------------- MODULE RealtimeSession_proofs -------------------------
(***************************************************************************)
(* Proofs about RealtimeSession, for every value of its constants: type    *)
(* correctness, the single terminal event that agrees with its owner, the  *)
(* bound on live responses, the accounting of the input frames, what a     *)
(* clean close leaves behind, the order of the events of a response, the   *)
(* accounting of the output queue and the refinement of RealtimeStream.    *)
(***************************************************************************)
EXTENDS RealtimeSession, FiniteSetTheorems, SequenceTheorems, WellFoundedInduction,
        FunctionTheorems, TLAPS

-----------------------------------------------------------------------------
(* The output queue. *)

Out == [events : Seq(Event), frames : Nat, bytes : Nat, sequence : BOOLEAN]

\* _event_size is a natural number for every event the session emits.
LEMMA SizeType == ASSUME NEW e \in Event PROVE Size(e) \in Nat
BY LimitAssumption DEF Size, Event

\* An update of the queue and its counters.
LEMMA UpdateType ==
    ASSUME NEW o \in Out, NEW s \in Seq(Event), NEW f \in Nat, NEW b \in Nat
    PROVE  [o EXCEPT !.events = s, !.frames = f, !.bytes = b] \in Out
BY DEF Out

\* put_nowait and its two counters keep the type of the queue.
LEMMA PutType == ASSUME NEW o \in Out, NEW e \in Event PROVE Put(o, e) \in Out
<1>1. Size(e) \in Nat
  BY SizeType
<1>2. o.events \in Seq(Event) /\ o.frames \in Nat /\ o.bytes \in Nat
  BY DEF Out
<1>3. Append(o.events, e) \in Seq(Event)
  BY <1>2, AppendProperties
<1>4. o.frames + 1 \in Nat /\ o.bytes + Size(e) \in Nat
  BY <1>1, <1>2
<1> QED
  BY <1>3, <1>4, UpdateType DEF Put

\* The displacement of a full queue keeps its type.
LEMMA DrainedType == ASSUME NEW o \in Out PROVE Drained(o) \in Out
<1>1. <<>> \in Seq(Event)
  BY EmptySeq
<1> QED
  BY <1>1, UpdateType DEF Drained

\* _emit_terminal_safe keeps the type of the queue and starts the sequence.
LEMMA EmitTerminalSafeType ==
    ASSUME NEW o \in Out, NEW e \in Event PROVE EmitTerminalSafe(o, e) \in Out
<1> DEFINE begun == [o EXCEPT !.sequence = TRUE]
<1>1. begun \in Out
  BY DEF Out
<1>2. Drained(begun) \in Out
  BY <1>1, DrainedType
<1>3. Put(begun, e) \in Out /\ Put(Drained(begun), e) \in Out
  BY <1>1, <1>2, PutType
<1> QED
  BY <1>3 DEF EmitTerminalSafe

\* events() taking an event keeps the type: the counters stop at zero.
LEMMA PoppedType ==
    ASSUME NEW o \in Out, o.events # <<>>
    PROVE  Popped(o) \in Out /\ Head(o.events) \in Event
<1>1. o.events \in Seq(Event) /\ o.frames \in Nat /\ o.bytes \in Nat
  BY DEF Out
<1>2. Head(o.events) \in Event /\ Tail(o.events) \in Seq(Event)
  BY <1>1, HeadTailProperties
<1>3. Size(Head(o.events)) \in Nat
  BY <1>2, SizeType
<1>4. Less(o.frames, 1) \in Nat /\ Less(o.bytes, Size(Head(o.events))) \in Nat
  BY <1>1, <1>3 DEF Less
<1> QED
  BY <1>2, <1>4, UpdateType DEF Popped

\* The constructors of events.
LEMMA EventTypesOK ==
    /\ \A t \in EventTypes : Plain(t) \in Event
    /\ \A t \in EventTypes, r \in Responses : About(t, r) \in Event
BY DEF Plain, About, Event

-----------------------------------------------------------------------------
(* The current response. *)

\* A nonempty set of indices has a largest element.
LEMMA Largest ==
    ASSUME NEW n \in Nat, NEW S \in SUBSET (1..n), S # {}
    PROVE  \E k \in S : \A j \in S : j <= k
<1> DEFINE R == OpToRel(<, Nat)
           T == {m \in Nat : \E k \in S : m = n - k}
<1>1. IsWellFoundedOn(R, Nat)
  BY NatLessThanWellFounded
<1>2. T \subseteq Nat
  OBVIOUS
<1>3. \A k \in S : n - k \in T
  OBVIOUS
<1>4. T # {}
  BY <1>3
<1>5. PICK x \in T : \A y \in T : ~(<<y, x>> \in R)
  <2> HIDE DEF R, T
  <2> QED BY <1>1, <1>2, <1>4, WFMin
<1>6. \A y \in T : ~(y < x)
  BY <1>2, <1>5 DEF OpToRel
<1>7. PICK k \in S : x = n - k
  OBVIOUS
<1>8. \A j \in S : ~(n - j < n - k)
  BY <1>3, <1>6, <1>7
<1> QED
  BY <1>8

\* _current_response returns a live response whenever there is one.
LEMMA CurrentResponseLive ==
    ASSUME responses \in Seq(Responses)
    PROVE  /\ Live # {} => CurrentResponse \in Live /\ CurrentResponse \in Responses
           /\ Live = {} => CurrentResponse = None
<1>1. CASE Live # {}
  <2> DEFINE S == {k \in DOMAIN responses : responses[k] \in Live}
  <2>1. Len(responses) \in Nat /\ DOMAIN responses = 1..Len(responses)
    BY LenProperties
  <2>2. S \in SUBSET (1..Len(responses)) /\ S # {}
    BY <1>1, <2>1 DEF Live, Known
  <2>3. \E k \in S : \A j \in S : j <= k
    <3> HIDE DEF S
    <3> QED BY <2>1, <2>2, Largest
  <2>4. \E k \in DOMAIN responses :
           /\ responses[k] \in Live
           /\ \A j \in DOMAIN responses : responses[j] \in Live => j <= k
    BY <2>3
  <2>5. CurrentResponse \in Live
    BY <1>1, <2>4 DEF CurrentResponse
  <2>6. Live \subseteq Responses
    BY <2>1, ElementOfSeq DEF Live, Known
  <2> QED
    BY <1>1, <2>5, <2>6
<1>2. CASE Live = {}
  BY <1>2 DEF CurrentResponse
<1> QED
  BY <1>1, <1>2

-----------------------------------------------------------------------------
(* Type correctness. *)

ClaimOK ==
    /\ owner \in Initiators \cup {None} /\ published \in BOOLEAN
    /\ shutdown \in {"none", "closing", "joining", "done", "abandoned"}
    /\ shutdownBy \in Tasks \cup {None}
FlagsOK ==
    /\ closing \in BOOLEAN /\ ready \in BOOLEAN /\ current \in BOOLEAN
    /\ seen \subseteq 1..MaxEvents
CatalogueOK ==
    /\ responses \in Seq(Responses)
    /\ terminal \subseteq Responses /\ cancelled \subseteq Responses
    /\ items \subseteq Responses \X Items /\ doneItems \subseteq Responses \X Items
    /\ contents \subseteq Responses \X Items \X Contents
    /\ doneContents \subseteq Responses \X Items \X Contents
OutOK == out \in Out
StreamOK == delivered \in Seq(Event) /\ consumer \in {"test", "get", "ended"}
ReceiverOK == receiver \in {"off", "receive", "shutdown", "cancelled", "spin", "done"}
CallersOK == sender \in [Senders -> {"idle", "audio", "cancel"}] /\ inputPending \in Int
CloseOK ==
    /\ closer \in {"none", "spawned", "send", "wait", "shutdown", "done", "raised"}
    /\ closeReason \in CloseReasons \cup {None} /\ closeAck \in BOOLEAN

\* TypeOK is the conjunction of its parts, now and after a step.
LEMMA TypeParts ==
    /\ TypeOK <=> /\ ClaimOK /\ FlagsOK /\ CatalogueOK /\ OutOK /\ StreamOK
                  /\ ReceiverOK /\ CallersOK /\ CloseOK
    /\ TypeOK' <=> /\ ClaimOK' /\ FlagsOK' /\ CatalogueOK' /\ OutOK' /\ StreamOK'
                   /\ ReceiverOK' /\ CallersOK' /\ CloseOK'
BY Zenon DEF TypeOK, ClaimOK, FlagsOK, CatalogueOK, OutOK, StreamOK, ReceiverOK, CallersOK,
       CloseOK, Out

\* A group of variables that a step leaves alone keeps its type.
LEMMA UnchangedTypes ==
    /\ ClaimOK /\ UNCHANGED claim => ClaimOK'
    /\ FlagsOK /\ UNCHANGED <<closing, ready, current, seen>> => FlagsOK'
    /\ CatalogueOK /\ UNCHANGED catalogue => CatalogueOK'
    /\ OutOK /\ UNCHANGED out => OutOK'
    /\ StreamOK /\ UNCHANGED stream => StreamOK'
    /\ ReceiverOK /\ UNCHANGED receiver => ReceiverOK'
    /\ CallersOK /\ UNCHANGED callers => CallersOK'
    /\ CloseOK /\ UNCHANGED closeTask => CloseOK'
BY DEF ClaimOK, FlagsOK, CatalogueOK, OutOK, StreamOK, ReceiverOK, CallersOK, CloseOK,
       claim, catalogue, stream, callers, closeTask

\* _finish_terminal keeps the types of the claim and of the queue.
LEMMA FinishTerminalType ==
    ASSUME ClaimOK, NEW task \in Tasks, NEW o \in Out, NEW e \in Event,
           NEW initiator \in Initiators, FinishTerminal(task, o, e, initiator)
    PROVE  ClaimOK' /\ OutOK'
<1>1. CASE owner # None
  BY <1>1 DEF FinishTerminal, ClaimOK, OutOK, claim
<1>2. CASE owner = None
  <2>1. EmitTerminalSafe(o, e) \in Out
    BY EmitTerminalSafeType
  <2> QED
    BY <1>2, <2>1 DEF FinishTerminal, ClaimOK, OutOK
<1> QED
  BY <1>1, <1>2

\* The tasks and the plain events, by name.
LEMMA Names ==
    /\ {"receiver", "closer", "starter"} \subseteq Tasks
    /\ \A s \in Senders : s \in Tasks
    /\ {"client", "provider", "relay"} \subseteq Initiators
    /\ \A t \in {"SessionReady", "SessionExpiring", "SpeechStarted", "SessionClosed",
                 "SessionFailed"} : Plain(t) \in Event
    /\ \A t \in {"ResponseStarted", "ResponseFinished", "OutputAudioStarted", "OutputAudio"},
         r \in Responses : About(t, r) \in Event
BY EventTypesOK DEF Tasks, Initiators, EventTypes, TerminalTypes, OutputTypes

\* The three ways in which the receiver ends its work on a payload.
LEMMA ReceiverTypes ==
    ASSUME ClaimOK, OutOK, ReceiverOK
    PROVE  /\ ReceiverFails => ClaimOK' /\ OutOK' /\ ReceiverOK'
           /\ ReceiverSkips => ClaimOK' /\ OutOK' /\ ReceiverOK'
           /\ \A e \in Event : ReceiverEmits(e) => ClaimOK' /\ OutOK' /\ ReceiverOK'
<1>1. ReceiverFails => ClaimOK' /\ OutOK' /\ ReceiverOK'
  <2> SUFFICES ASSUME ReceiverFails PROVE ClaimOK' /\ OutOK' /\ ReceiverOK'
    OBVIOUS
  <2>1. ClaimOK' /\ OutOK'
    BY FinishTerminalType, Names DEF ReceiverFails, OutOK
  <2> QED
    BY <2>1 DEF ReceiverFails, ReceiverOK
<1>2. ReceiverSkips => ClaimOK' /\ OutOK' /\ ReceiverOK'
  BY UnchangedTypes DEF ReceiverSkips, LoopTop, ReceiverOK
<1>3. ASSUME NEW e \in Event, ReceiverEmits(e) PROVE ClaimOK' /\ OutOK' /\ ReceiverOK'
  <2>1. CASE Fits(out, e)
    BY <1>3, <2>1, UnchangedTypes, PutType DEF ReceiverEmits, LoopTop, ReceiverOK, OutOK
  <2>2. CASE ~Fits(out, e)
    BY <1>1, <1>3, <2>2 DEF ReceiverEmits
  <2> QED
    BY <2>1, <2>2
<1> QED
  BY <1>1, <1>2, <1>3

\* What the code before the branches of _apply does to the other variables.
LEMMA FreshTypes ==
    ASSUME TypeOK, NEW kind, Fresh(kind), ready' \in BOOLEAN
    PROVE  FlagsOK' /\ StreamOK' /\ CloseOK' /\ CallersOK'
<1>1. StreamOK' /\ CloseOK' /\ CallersOK'
  BY TypeParts, UnchangedTypes DEF Fresh
<1>2. PICK id \in 1..MaxEvents : seen' = seen \cup {id}
  BY DEF Fresh
<1>3. FlagsOK'
  BY <1>2, TypeParts DEF Fresh, FlagsOK
<1> QED
  BY <1>1, <1>3

\* As FreshTypes, once the session is ready.
LEMMA ApplyingTypes ==
    ASSUME TypeOK, NEW kind, Applying(kind)
    PROVE  FlagsOK' /\ StreamOK' /\ CloseOK' /\ CallersOK'
BY FreshTypes, TypeParts DEF Applying, FlagsOK

\* Every payload of the peer, whatever it is, keeps the types.
LEMMA ApplyType == TypeOK /\ Apply => TypeOK'
<1> SUFFICES ASSUME TypeOK, Apply PROVE TypeOK'
  OBVIOUS
<1>0. ClaimOK /\ FlagsOK /\ CatalogueOK /\ OutOK /\ ReceiverOK
  BY TypeParts
<1>1. CASE ApplySessionAck
  <2>1. FlagsOK' /\ StreamOK' /\ CloseOK' /\ CallersOK'
    BY <1>1, FreshTypes DEF ApplySessionAck
  <2>2. ClaimOK' /\ OutOK' /\ ReceiverOK'
    BY <1>0, <1>1, ReceiverTypes, Names DEF ApplySessionAck
  <2> QED
    BY <1>0, <1>1, <2>1, <2>2, TypeParts, UnchangedTypes DEF ApplySessionAck
<1>2. CASE ApplySpeech
  BY <1>0, <1>2, ApplyingTypes, ReceiverTypes, Names, TypeParts, UnchangedTypes DEF ApplySpeech
<1>3. CASE ApplyError
  BY <1>0, <1>3, ApplyingTypes, ReceiverTypes, TypeParts, UnchangedTypes DEF ApplyError
<1>4. ASSUME NEW kind, ApplyBeforeReady(kind) PROVE TypeOK'
  <2>1. FlagsOK' /\ StreamOK' /\ CloseOK' /\ CallersOK'
    BY <1>0, <1>4, FreshTypes DEF ApplyBeforeReady, FlagsOK
  <2> QED
    BY <1>0, <1>4, <2>1, ReceiverTypes, TypeParts, UnchangedTypes DEF ApplyBeforeReady
<1>5. ASSUME NEW r \in Responses, ApplyCreated(r) PROVE TypeOK'
  <2>1. FlagsOK' /\ StreamOK' /\ CloseOK' /\ CallersOK'
    BY <1>5, ApplyingTypes DEF ApplyCreated
  <2>2. ClaimOK' /\ OutOK' /\ ReceiverOK'
    BY <1>0, <1>5, ReceiverTypes, Names DEF ApplyCreated
  <2>3. Append(responses, r) \in Seq(Responses)
    BY <1>0, AppendProperties DEF CatalogueOK
  <2>4. CatalogueOK'
    BY <1>0, <1>5, <2>3 DEF ApplyCreated, CatalogueOK
  <2> QED
    BY <2>1, <2>2, <2>4, TypeParts
<1>6. ASSUME NEW r \in Responses, ApplyDone(r) PROVE TypeOK'
  <2>1. FlagsOK' /\ StreamOK' /\ CloseOK' /\ CallersOK'
    BY <1>6, ApplyingTypes DEF ApplyDone
  <2>2. ClaimOK' /\ OutOK' /\ ReceiverOK'
    BY <1>0, <1>6, ReceiverTypes, Names DEF ApplyDone
  <2>3. CatalogueOK'
    BY <1>0, <1>6 DEF ApplyDone, CatalogueOK
  <2> QED
    BY <2>1, <2>2, <2>3, TypeParts
<1>7. ASSUME NEW r \in Responses, ApplyFailed(r) PROVE TypeOK'
  <2>1. FlagsOK' /\ StreamOK' /\ CloseOK' /\ CallersOK'
    BY <1>7, ApplyingTypes DEF ApplyFailed
  <2> DEFINE o == IF r \in Live THEN EmitTerminalSafe(out, About("ResponseFinished", r)) ELSE out
  <2>2. o \in Out
    BY <1>0, EmitTerminalSafeType, Names DEF OutOK
  <2>3. FinishTerminal("receiver", o, Plain("SessionFailed"), "provider")
    BY <1>7 DEF ApplyFailed
  <2>4. ClaimOK' /\ OutOK'
    <3> HIDE DEF o
    <3> QED BY <1>0, <2>2, <2>3, FinishTerminalType, Names
  <2>5. ReceiverOK' /\ CatalogueOK'
    BY <1>0, <1>7 DEF ApplyFailed, ReceiverOK, CatalogueOK
  <2> QED
    BY <2>1, <2>4, <2>5, TypeParts
<1>8. ASSUME NEW r \in Responses, NEW i \in Items, ApplyItem(r, i) PROVE TypeOK'
  <2>1. FlagsOK' /\ StreamOK' /\ CloseOK' /\ CallersOK'
    BY <1>8, ApplyingTypes DEF ApplyItem
  <2>2. ClaimOK' /\ OutOK' /\ ReceiverOK'
    BY <1>0, <1>8, ReceiverTypes DEF ApplyItem
  <2>3. CatalogueOK'
    BY <1>0, <1>8 DEF ApplyItem, CatalogueOK
  <2> QED
    BY <2>1, <2>2, <2>3, TypeParts
<1>9. ASSUME NEW r \in Responses, NEW i \in Items, ApplyItemDone(r, i) PROVE TypeOK'
  <2>1. FlagsOK' /\ StreamOK' /\ CloseOK' /\ CallersOK'
    BY <1>9, ApplyingTypes DEF ApplyItemDone
  <2>2. ClaimOK' /\ OutOK' /\ ReceiverOK'
    BY <1>0, <1>9, ReceiverTypes DEF ApplyItemDone
  <2>3. CatalogueOK'
    BY <1>0, <1>9 DEF ApplyItemDone, CatalogueOK
  <2> QED
    BY <2>1, <2>2, <2>3, TypeParts
<1>10. ASSUME NEW r \in Responses, NEW i \in Items, NEW c \in Contents, ApplyContent(r, i, c)
       PROVE  TypeOK'
  <2>1. FlagsOK' /\ StreamOK' /\ CloseOK' /\ CallersOK'
    BY <1>10, ApplyingTypes DEF ApplyContent
  <2>2. ClaimOK' /\ OutOK' /\ ReceiverOK'
    BY <1>0, <1>10, ReceiverTypes, Names DEF ApplyContent
  <2>3. CatalogueOK'
    BY <1>0, <1>10 DEF ApplyContent, CatalogueOK
  <2> QED
    BY <2>1, <2>2, <2>3, TypeParts
<1>11. ASSUME NEW r \in Responses, NEW i \in Items, NEW c \in Contents, ApplyContentDone(r, i, c)
       PROVE  TypeOK'
  <2>1. FlagsOK' /\ StreamOK' /\ CloseOK' /\ CallersOK'
    BY <1>11, ApplyingTypes DEF ApplyContentDone
  <2>2. ClaimOK' /\ OutOK' /\ ReceiverOK'
    BY <1>0, <1>11, ReceiverTypes DEF ApplyContentDone
  <2>3. CatalogueOK'
    BY <1>0, <1>11 DEF ApplyContentDone, CatalogueOK
  <2> QED
    BY <2>1, <2>2, <2>3, TypeParts
<1>12. ASSUME NEW r \in Responses, NEW i, NEW c, ApplyOutput(r, i, c) PROVE TypeOK'
  <2>1. FlagsOK' /\ StreamOK' /\ CloseOK' /\ CallersOK'
    BY <1>12, ApplyingTypes DEF ApplyOutput
  <2>2. ClaimOK' /\ OutOK' /\ ReceiverOK'
    BY <1>0, <1>12, ReceiverTypes, Names DEF ApplyOutput
  <2> QED
    BY <1>0, <1>12, <2>1, <2>2, TypeParts, UnchangedTypes DEF ApplyOutput
<1> QED
  BY <1>1, <1>2, <1>3, <1>4, <1>5, <1>6, <1>7, <1>8, <1>9, <1>10, <1>11, <1>12 DEF Apply

\* The receive loop around _apply keeps the types.
LEMMA ReceiveType == TypeOK /\ Receive => TypeOK'
<1> SUFFICES ASSUME TypeOK, Receive PROVE TypeOK'
  OBVIOUS
<1>0. /\ ClaimOK /\ FlagsOK /\ CatalogueOK /\ OutOK /\ ReceiverOK
      /\ StreamOK /\ CallersOK /\ CloseOK
  BY TypeParts
<1> USE <1>0, UnchangedTypes, TypeParts
<1>1. CASE ReceiveEof
  <2>1. CASE closing
    BY <1>1, <2>1 DEF ReceiveEof, ReceiverOK
  <2>2. CASE ~closing
    BY <1>1, <2>2, ReceiverTypes DEF ReceiveEof
  <2> QED
    BY <2>1, <2>2
<1>2. CASE ReceiveError
  BY <1>2, ReceiverTypes DEF ReceiveError
<1>3. CASE ReceiveDead
  BY <1>3 DEF ReceiveDead, ReceiverOK
<1>4. CASE ReceiveMalformed
  BY <1>4, ReceiverTypes DEF ReceiveMalformed
<1>5. CASE ReceiveDropped
  BY <1>5, ReceiverTypes DEF ReceiveDropped
<1>6. CASE ReceiveCloseAck
  <2>1. CloseOK'
    BY <1>6 DEF ReceiveCloseAck, CloseOK
  <2> QED
    BY <1>6, <2>1, ReceiverTypes DEF ReceiveCloseAck
<1>7. CASE ReceiveExpiring
  BY <1>7, ReceiverTypes, Names DEF ReceiveExpiring
<1>8. ASSUME NEW kind, NEW type \in {"SessionFailed", "SessionClosed"},
             ReceiveRelayTerminal(kind, type)
      PROVE  TypeOK'
  <2>1. ClaimOK' /\ OutOK'
    BY <1>8, FinishTerminalType, Names DEF ReceiveRelayTerminal, OutOK
  <2>2. ReceiverOK'
    BY <1>8 DEF ReceiveRelayTerminal, ReceiverOK
  <2> QED
    BY <1>8, <2>1, <2>2 DEF ReceiveRelayTerminal
<1>9. CASE Apply
  BY <1>9, ApplyType
<1> QED
  BY <1>1, <1>2, <1>3, <1>4, <1>5, <1>6, <1>7, <1>8, <1>9 DEF Receive

\* The end of a call keeps the types of the senders.
LEMMA ReturnType == ASSUME CallersOK, NEW s \in Senders, Return(s) PROVE CallersOK'
BY DEF Return, CallersOK

\* The application's calls and their ends keep the types.
LEMMA CallType ==
    ASSUME TypeOK, NEW s \in Senders, Call(s) \/ SendEnds(s) PROVE TypeOK'
<1>0. /\ ClaimOK /\ FlagsOK /\ CatalogueOK /\ OutOK /\ ReceiverOK
      /\ StreamOK /\ CallersOK /\ CloseOK
  BY TypeParts
<1> USE <1>0, UnchangedTypes, TypeParts
<1>1. CASE SendAudio(s)
  <2>1. CallersOK'
    BY <1>1 DEF SendAudio, CallersOK
  <2> QED
    BY <1>1, <2>1 DEF SendAudio
<1>2. CASE CancelResponse(s)
  <2>1. CatalogueOK'
    BY <1>2, CurrentResponseLive DEF CancelResponse, CatalogueOK
  <2>2. CallersOK'
    BY <1>2 DEF CancelResponse, CallersOK
  <2> QED
    BY <1>2, <2>1, <2>2 DEF CancelResponse
<1>3. CASE SendDone(s)
  BY <1>3, ReturnType DEF SendDone
<1>4. CASE SendFails(s)
  <2>1. ClaimOK' /\ OutOK'
    BY <1>4, FinishTerminalType, Names DEF SendFails, OutOK
  <2>2. CallersOK'
    BY <1>4, ReturnType DEF SendFails
  <2> QED
    BY <1>4, <2>1, <2>2 DEF SendFails
<1>5. CASE CallerCancelled(s)
  <2>1. ClaimOK'
    BY <1>5 DEF CallerCancelled, ClaimOK
  <2> QED
    BY <1>5, <2>1, ReturnType DEF CallerCancelled
<1> QED
  BY <1>1, <1>2, <1>3, <1>4, <1>5 DEF Call, SendEnds

\* The close task keeps the types.
LEMMA CloseType == TypeOK /\ CloseStep => TypeOK'
<1> SUFFICES ASSUME TypeOK, CloseStep PROVE TypeOK'
  OBVIOUS
<1>0. /\ ClaimOK /\ FlagsOK /\ CatalogueOK /\ OutOK /\ ReceiverOK
      /\ StreamOK /\ CallersOK /\ CloseOK
  BY TypeParts
<1> USE <1>0, UnchangedTypes, TypeParts
<1>1. CASE ClaimClose
  <2>1. ClaimOK' /\ FlagsOK'
    BY <1>1 DEF ClaimClose, ClaimOK, FlagsOK, Initiators
  <2>2. CloseOK'
    BY <1>1 DEF ClaimClose, CloseOK
  <2> QED
    BY <1>1, <2>1, <2>2 DEF ClaimClose
<1>2. CASE CloseSent
  <2>1. CloseOK'
    BY <1>2 DEF CloseSent, CloseOK
  <2> QED
    BY <1>2, <2>1 DEF CloseSent
<1>3. CASE FinishClose
  <2> DEFINE r == CurrentResponse
             o == IF r = None THEN out ELSE EmitTerminalSafe(out, About("ResponseFinished", r))
  <2>1. r = None \/ r \in Responses
    BY CurrentResponseLive DEF CatalogueOK
  <2>2. o \in Out
    BY <2>1, EmitTerminalSafeType, Names DEF OutOK
  <2>3. /\ out' = EmitTerminalSafe(o, Plain("SessionClosed"))
        /\ terminal' = terminal \cup ({r} \ {None})
    BY <1>3 DEF FinishClose
  <2>4. OutOK'
    <3> HIDE DEF o
    <3> QED BY <2>2, <2>3, EmitTerminalSafeType, Names DEF OutOK
  <2>5. CatalogueOK'
    BY <1>3, <2>1, <2>3 DEF FinishClose, CatalogueOK
  <2>6. ClaimOK' /\ CloseOK'
    BY <1>3, Names DEF FinishClose, ClaimOK, CloseOK
  <2> QED
    BY <1>3, <2>4, <2>5, <2>6 DEF FinishClose
<1> QED
  BY <1>1, <1>2, <1>3 DEF CloseStep, CloseSendFails, CloseAcknowledged, CloseAckTimeout

\* The shutdown and the consumer keep the types.
LEMMA ShutdownType == TypeOK /\ (ShutdownStep \/ Consume) => TypeOK'
<1> SUFFICES ASSUME TypeOK, ShutdownStep \/ Consume PROVE TypeOK'
  OBVIOUS
<1>0. /\ ClaimOK /\ FlagsOK /\ CatalogueOK /\ OutOK /\ ReceiverOK
      /\ StreamOK /\ CallersOK /\ CloseOK
  BY TypeParts
<1> USE <1>0, UnchangedTypes, TypeParts
<1>1. CASE ShutdownClosed
  <2>1. ClaimOK' /\ ReceiverOK' /\ CloseOK'
    BY <1>1 DEF ShutdownClosed, ClaimOK, ReceiverOK, CloseOK
  <2> QED
    BY <1>1, <2>1 DEF ShutdownClosed
<1>2. CASE ReceiverCancelled
  BY <1>2 DEF ReceiverCancelled, ReceiverOK
<1>3. CASE ShutdownJoined
  <2>1. ClaimOK' /\ CloseOK'
    BY <1>3 DEF ShutdownJoined, ClaimOK, CloseOK
  <2>2. CallersOK'
    BY <1>3, ReturnType DEF ShutdownJoined
  <2> QED
    BY <1>3, <2>1, <2>2 DEF ShutdownJoined
<1>4. CASE ConsumerTake
  <2>1. OutOK' /\ Head(out.events) \in Event
    BY <1>4, PoppedType DEF ConsumerTake, OutOK
  <2>2. StreamOK'
    BY <1>4, <2>1, AppendProperties DEF ConsumerTake, StreamOK
  <2> QED
    BY <1>4, <2>1, <2>2 DEF ConsumerTake
<1>5. CASE ConsumerTest
  BY <1>5 DEF ConsumerTest, StreamOK
<1> QED
  BY <1>1, <1>2, <1>3, <1>4, <1>5 DEF ShutdownStep, Consume

\* Every step keeps the types.
LEMMA TypeStep == TypeOK /\ [Next]_vars => TypeOK'
<1> SUFFICES ASSUME TypeOK, [Next]_vars PROVE TypeOK'
  OBVIOUS
<1>0. /\ ClaimOK /\ FlagsOK /\ CatalogueOK /\ OutOK /\ ReceiverOK
      /\ StreamOK /\ CallersOK /\ CloseOK
  BY TypeParts
<1>1. CASE Start
  BY <1>0, <1>1, UnchangedTypes, TypeParts DEF Start, ReceiverOK
<1>2. CASE StartFails
  <2>1. ClaimOK' /\ OutOK'
    BY <1>0, <1>2, FinishTerminalType, Names DEF StartFails, OutOK
  <2> QED
    BY <1>0, <1>2, <2>1, UnchangedTypes, TypeParts DEF StartFails
<1>3. CASE Supersede
  <2>1. FlagsOK'
    BY <1>0, <1>3 DEF Supersede, FlagsOK
  <2> QED
    BY <1>0, <1>3, <2>1, UnchangedTypes, TypeParts DEF Supersede
<1>4. ASSUME NEW s \in Senders, Call(s) \/ SendEnds(s) PROVE TypeOK'
  BY <1>4, CallType
<1>5. ASSUME NEW reason \in CloseReasons, Close(reason) PROVE TypeOK'
  <2>1. CloseOK'
    BY <1>0, <1>5 DEF Close, CloseOK
  <2> QED
    BY <1>0, <1>5, <2>1, UnchangedTypes, TypeParts DEF Close
<1>6. CASE UNCHANGED vars
  BY <1>0, <1>6, UnchangedTypes, TypeParts DEF vars
<1> QED
  BY <1>1, <1>2, <1>3, <1>4, <1>5, <1>6, CloseType, ShutdownType, ReceiveType DEF Next

\* The session's variables have their types in every reachable state.
THEOREM TypeCorrect == Spec => []TypeOK
<1>1. Init => TypeOK
  <2> SUFFICES ASSUME Init PROVE TypeOK
    OBVIOUS
  <2>1. OutOK /\ StreamOK
    BY EmptySeq DEF Init, OutOK, StreamOK, Out
  <2>2. CatalogueOK /\ FlagsOK
    BY EmptySeq DEF Init, CatalogueOK, FlagsOK
  <2>3. ClaimOK /\ ReceiverOK /\ CloseOK
    BY DEF Init, ClaimOK, ReceiverOK, CloseOK
  <2>4. CallersOK
    BY DEF Init, CallersOK
  <2> QED
    BY <2>1, <2>2, <2>3, <2>4, TypeParts
<1>2. QED
  BY <1>1, TypeStep, PTL DEF Spec

-----------------------------------------------------------------------------
(* One session terminal, and it agrees with its owner.                       *)
(*                                                                           *)
(* OneTerminal is not inductive: the close task publishes long after it      *)
(* claims, and a displaced queue could lose a terminal.  TerminalInv adds    *)
(* that a task about to publish still has the claim and nobody published,    *)
(* and that after the publication the queue is never displaced again.        *)

Matches(own, e) ==
    /\ own = "client" => e.type = "SessionClosed"
    /\ own = "provider" => e.type = "SessionFailed"
Agree(own, s) == \A i \in DOMAIN s : IsTerminal(s[i]) => Matches(own, s[i])

TerminalInv ==
    /\ OneTerminal
    /\ Agree(owner, delivered) /\ Agree(owner, out.events)
    /\ published => owner # None /\ out.sequence
    /\ closer \in {"send", "wait"} => owner = "client" /\ ~published

\* The terminals of a sequence after one more event.
LEMMA AppendTerminal ==
    ASSUME NEW s \in Seq(Event), NEW e \in Event
    PROVE  /\ HasTerminal(Append(s, e)) <=> HasTerminal(s) \/ IsTerminal(e)
           /\ AtMostOneTerminal(s) /\ ~(HasTerminal(s) /\ IsTerminal(e)) =>
                 AtMostOneTerminal(Append(s, e))
           /\ \A own : Agree(own, s) /\ (IsTerminal(e) => Matches(own, e)) =>
                 Agree(own, Append(s, e))
<1> DEFINE t == Append(s, e)
<1>1. /\ Len(s) \in Nat /\ DOMAIN s = 1..Len(s) /\ DOMAIN t = 1..(Len(s) + 1)
      /\ \A i \in 1..Len(s) : t[i] = s[i]
      /\ t[Len(s) + 1] = e
  BY LenProperties, AppendProperties
<1> HIDE DEF t
<1>2. HasTerminal(t) <=> HasTerminal(s) \/ IsTerminal(e)
  BY <1>1 DEF HasTerminal
<1>3. AtMostOneTerminal(s) /\ ~(HasTerminal(s) /\ IsTerminal(e)) => AtMostOneTerminal(t)
  BY <1>1 DEF HasTerminal, AtMostOneTerminal
<1>4. \A own : Agree(own, s) /\ (IsTerminal(e) => Matches(own, e)) => Agree(own, t)
  BY <1>1 DEF Agree
<1> QED
  BY <1>2, <1>3, <1>4 DEF t

\* The terminals of a sequence after its head is taken.
LEMMA TailTerminal ==
    ASSUME NEW s \in Seq(Event), s # <<>>
    PROVE  /\ HasTerminal(s) <=> IsTerminal(Head(s)) \/ HasTerminal(Tail(s))
           /\ AtMostOneTerminal(s) =>
                 /\ AtMostOneTerminal(Tail(s))
                 /\ ~(IsTerminal(Head(s)) /\ HasTerminal(Tail(s)))
           /\ \A own : Agree(own, s) =>
                 /\ Agree(own, Tail(s))
                 /\ IsTerminal(Head(s)) => Matches(own, Head(s))
<1> DEFINE t == Tail(s)
           h == Head(s)
<1>1. /\ Len(s) \in Nat \ {0} /\ DOMAIN s = 1..Len(s) /\ t \in Seq(Event)
      /\ Len(t) = Len(s) - 1 /\ \A i \in 1..Len(t) : t[i] = s[i + 1]
  BY LenProperties, HeadTailProperties, EmptySeq
<1>2. h = s[1]
  BY <1>1
<1>3. DOMAIN t = 1..(Len(s) - 1)
  BY <1>1, LenProperties
<1> HIDE DEF t, h
<1>4. \A i \in DOMAIN s : i = 1 \/ (i - 1 \in DOMAIN t /\ s[i] = t[i - 1])
  BY <1>1, <1>3
<1>5. \A i \in DOMAIN t : i + 1 \in DOMAIN s /\ t[i] = s[i + 1] /\ i + 1 # 1
  BY <1>1, <1>3
<1>6. 1 \in DOMAIN s
  BY <1>1
<1>7. HasTerminal(s) <=> IsTerminal(h) \/ HasTerminal(t)
  <2>1. HasTerminal(s) => IsTerminal(h) \/ HasTerminal(t)
    BY <1>2, <1>4 DEF HasTerminal
  <2>2. IsTerminal(h) \/ HasTerminal(t) => HasTerminal(s)
    BY <1>2, <1>5, <1>6 DEF HasTerminal
  <2> QED
    BY <2>1, <2>2
<1>8. AtMostOneTerminal(s) => AtMostOneTerminal(t)
  <2> SUFFICES ASSUME AtMostOneTerminal(s), NEW i \in DOMAIN t, NEW j \in DOMAIN t,
                      IsTerminal(t[i]), IsTerminal(t[j])
               PROVE  i = j
    BY DEF AtMostOneTerminal
  <2>1. i + 1 = j + 1
    BY <1>5 DEF AtMostOneTerminal
  <2> QED
    BY <1>1, <1>3, <2>1
<1>9. AtMostOneTerminal(s) => ~(IsTerminal(h) /\ HasTerminal(t))
  BY <1>2, <1>5, <1>6 DEF AtMostOneTerminal, HasTerminal
<1>10. \A own : Agree(own, s) => Agree(own, t) /\ (IsTerminal(h) => Matches(own, h))
  BY <1>2, <1>5, <1>6 DEF Agree
<1> QED
  BY <1>7, <1>8, <1>9, <1>10 DEF t, h

\* An empty queue.
LEMMA EmptyTerminal ==
    /\ ~HasTerminal(<<>>) /\ AtMostOneTerminal(<<>>) /\ \A own : Agree(own, <<>>)
BY DEF HasTerminal, AtMostOneTerminal, Agree

\* The queue after _emit or _emit_terminal_safe: the event is appended to the old
\* queue or to an empty one, and to the old one once the sequence has started.
LEMMA Emitted ==
    ASSUME NEW o \in Out, NEW e \in Event
    PROVE  /\ Put(o, e).events = Append(o.events, e) /\ Put(o, e).sequence = o.sequence
           /\ EmitTerminalSafe(o, e).sequence
           /\ \/ EmitTerminalSafe(o, e).events = Append(o.events, e)
              \/ ~o.sequence /\ EmitTerminalSafe(o, e).events = Append(<<>>, e)
<1> DEFINE b == [o EXCEPT !.sequence = TRUE]
<1>1. b \in Out /\ b.events = o.events /\ b.sequence = TRUE
  BY DEF Out
<1>2. Drained(b) \in Out /\ Drained(b).events = <<>> /\ Drained(b).sequence = TRUE
  <2>1. Drained(b) \in Out
    BY <1>1, DrainedType
  <2> QED
    BY <1>1, <2>1 DEF Drained, Out
<1>3. ASSUME NEW x \in Out
      PROVE  Put(x, e).events = Append(x.events, e) /\ Put(x, e).sequence = x.sequence
  BY DEF Put, Out
<1>4. CASE o.sequence \/ Fits(o, e)
  BY <1>1, <1>3, <1>4 DEF EmitTerminalSafe
<1>5. CASE ~(o.sequence \/ Fits(o, e))
  BY <1>2, <1>3, <1>5 DEF EmitTerminalSafe
<1> QED
  BY <1>3, <1>4, <1>5

\* None is not an initiator: a claimed owner differs from an unclaimed one.
LEMMA NoneIsNoInitiator == None \notin Initiators
BY NoneAssumption DEF Initiators

\* A queue with the terminals of the present one, as _finish_terminal expects it.
SameTerminals(o) ==
    /\ o \in Out
    /\ HasTerminal(o.events) <=> HasTerminal(out.events)
    /\ AtMostOneTerminal(o.events) /\ Agree(owner, o.events)
    /\ published => o.sequence

\* Emitting anything but a terminal, with or without displacement, leaves the
\* terminals of the stream alone.
LEMMA EmitKeepsTerminals ==
    ASSUME TypeOK, TerminalInv, NEW e \in Event, ~IsTerminal(e)
    PROVE  SameTerminals(out) /\ SameTerminals(Put(out, e)) /\ SameTerminals(EmitTerminalSafe(out, e))
<1>1. out \in Out /\ out.events \in Seq(Event) /\ <<>> \in Seq(Event)
  BY TypeParts, EmptySeq DEF OutOK, Out
<1>2. SameTerminals(out)
  BY <1>1 DEF SameTerminals, TerminalInv, OneTerminal
<1>3. /\ HasTerminal(Append(out.events, e)) <=> HasTerminal(out.events)
      /\ AtMostOneTerminal(Append(out.events, e))
      /\ Agree(owner, Append(out.events, e))
  BY <1>1, AppendTerminal DEF TerminalInv, OneTerminal
<1>4. SameTerminals(Put(out, e))
  BY <1>1, <1>3, Emitted, PutType, ZenonT(40) DEF SameTerminals, TerminalInv
<1>5. /\ ~HasTerminal(Append(<<>>, e)) /\ AtMostOneTerminal(Append(<<>>, e))
      /\ Agree(owner, Append(<<>>, e))
  BY <1>1, AppendTerminal, EmptyTerminal
<1>6. ~out.sequence => ~HasTerminal(out.events)
  BY DEF TerminalInv, OneTerminal
<1>7. EmitTerminalSafe(out, e) \in Out
  BY <1>1, EmitTerminalSafeType
<1>8. SameTerminals(EmitTerminalSafe(out, e))
  BY <1>1, <1>3, <1>5, <1>6, <1>7, Emitted, ZenonT(40) DEF SameTerminals
<1> QED
  BY <1>2, <1>4, <1>8

\* A session terminal put behind a queue that has none.
LEMMA EmitTerminal ==
    ASSUME NEW o \in Out, ~HasTerminal(o.events), NEW e \in Event, IsTerminal(e),
           NEW own, Matches(own, e)
    PROVE  LET q == EmitTerminalSafe(o, e)
           IN  /\ HasTerminal(q.events) /\ AtMostOneTerminal(q.events)
               /\ Agree(own, q.events) /\ q.sequence
<1>1. o.events \in Seq(Event) /\ <<>> \in Seq(Event)
  BY EmptySeq DEF Out
<1>2. AtMostOneTerminal(o.events) /\ Agree(own, o.events)
  BY DEF HasTerminal, AtMostOneTerminal, Agree
<1>3. ASSUME NEW s \in Seq(Event), ~HasTerminal(s), AtMostOneTerminal(s), Agree(own, s)
      PROVE  /\ HasTerminal(Append(s, e)) /\ AtMostOneTerminal(Append(s, e))
             /\ Agree(own, Append(s, e))
  BY <1>3, AppendTerminal
<1>4. /\ HasTerminal(Append(o.events, e)) /\ AtMostOneTerminal(Append(o.events, e))
      /\ Agree(own, Append(o.events, e))
  BY <1>1, <1>2, <1>3
<1>5. /\ HasTerminal(Append(<<>>, e)) /\ AtMostOneTerminal(Append(<<>>, e))
      /\ Agree(own, Append(<<>>, e))
  BY <1>1, <1>3, EmptyTerminal
<1> QED
  BY <1>4, <1>5, Emitted

\* A step that leaves the claim and the stream alone, and in which the close task
\* does not begin to send.
LEMMA TerminalUnchanged ==
    ASSUME TerminalInv, UNCHANGED <<owner, published, out, delivered>>,
           closer' \in {"send", "wait"} => closer \in {"send", "wait"}
    PROVE  TerminalInv'
BY DEF TerminalInv, OneTerminal, Agree

\* A queue with the same terminals takes the place of the present one.
LEMMA TerminalSameQueue ==
    ASSUME TerminalInv, NEW o, SameTerminals(o), out' = o,
           UNCHANGED <<owner, published, delivered, closer>>
    PROVE  TerminalInv'
BY DEF TerminalInv, OneTerminal, SameTerminals, Agree

\* _finish_terminal publishes exactly one terminal, or changes nothing.
LEMMA TerminalFinish ==
    ASSUME TypeOK, TerminalInv, NEW task, NEW o, SameTerminals(o),
           NEW e \in Event, IsTerminal(e), NEW initiator \in Initiators, Matches(initiator, e),
           FinishTerminal(task, o, e, initiator), UNCHANGED <<delivered, closer>>
    PROVE  TerminalInv'
<1>1. CASE owner # None
  BY <1>1, TerminalSameQueue DEF FinishTerminal, claim
<1>2. CASE owner = None
  <2>1. ~published /\ ~HasTerminal(delivered) /\ ~HasTerminal(o.events) /\ o \in Out
    BY <1>2 DEF TerminalInv, OneTerminal, SameTerminals
  <2>2. /\ owner' = initiator /\ out' = EmitTerminalSafe(o, e) /\ published'
    BY <1>2 DEF FinishTerminal
  <2>3. /\ HasTerminal(out'.events) /\ AtMostOneTerminal(out'.events)
        /\ Agree(initiator, out'.events) /\ out'.sequence
    BY <2>1, <2>2, EmitTerminal
  <2>4. Agree(initiator, delivered)
    BY <2>1 DEF Agree, HasTerminal
  <2>5. closer \notin {"send", "wait"} /\ initiator # None
    <3>1. owner # "client"
      BY <1>2, NoneIsNoInitiator DEF Initiators
    <3> QED
      BY <3>1, NoneIsNoInitiator DEF TerminalInv
  <2> QED
    BY <2>1, <2>2, <2>3, <2>4, <2>5 DEF TerminalInv, OneTerminal
<1> QED
  BY <1>1, <1>2

\* The types of events, told apart.
LEMMA EventNames ==
    /\ \A t \in TerminalTypes : IsTerminal(Plain(t))
    /\ \A t \in {"SessionReady", "SessionExpiring", "SpeechStarted"} : ~IsTerminal(Plain(t))
    /\ \A t \in {"ResponseStarted", "ResponseFinished",
                   "OutputAudioStarted", "OutputAudio"} : \A r : ~IsTerminal(About(t, r))
    /\ {"SessionClosed", "SessionFailed"} = TerminalTypes
    /\ Matches("provider", Plain("SessionFailed")) /\ Matches("client", Plain("SessionClosed"))
    /\ \A e : Matches("relay", e)
BY DEF IsTerminal, Plain, About, TerminalTypes, Matches

\* Whatever the receiver does with a payload, except response.done(failed).
LEMMA TerminalReceiver ==
    ASSUME TypeOK, TerminalInv, UNCHANGED <<delivered, closer>>
    PROVE  /\ ReceiverFails => TerminalInv'
           /\ ReceiverSkips => TerminalInv'
           /\ \A e \in Event : ~IsTerminal(e) /\ ReceiverEmits(e) => TerminalInv'
<1>1. ReceiverFails => TerminalInv'
  <2>1. SameTerminals(out)
    BY EmitKeepsTerminals, Names, EventNames
  <2> QED
    BY <2>1, TerminalFinish, Names, EventNames DEF ReceiverFails
<1>2. ReceiverSkips => TerminalInv'
  BY TerminalUnchanged DEF ReceiverSkips, claim
<1>3. ASSUME NEW e \in Event, ~IsTerminal(e), ReceiverEmits(e) PROVE TerminalInv'
  <2>1. CASE Fits(out, e)
    <3>1. SameTerminals(Put(out, e))
      BY <1>3, EmitKeepsTerminals
    <3> QED
      BY <1>3, <2>1, <3>1, TerminalSameQueue DEF ReceiverEmits, claim
  <2>2. CASE ~Fits(out, e)
    BY <1>1, <1>3, <2>2 DEF ReceiverEmits
  <2> QED
    BY <2>1, <2>2
<1> QED
  BY <1>1, <1>2, <1>3

\* The receive loop keeps the invariant.
LEMMA TerminalReceive == TypeOK /\ TerminalInv /\ Receive => TerminalInv'
<1> SUFFICES ASSUME TypeOK, TerminalInv, Receive PROVE TerminalInv'
  OBVIOUS
<1>0. SameTerminals(out)
  BY EmitKeepsTerminals, Names, EventNames
<1> USE TerminalReceiver, Names, EventNames
<1>1. CASE ReceiveEof
  BY <1>1, TerminalUnchanged DEF ReceiveEof, stream, closeTask, claim
<1>2. CASE ReceiveError
  BY <1>2 DEF ReceiveError, stream, closeTask
<1>3. CASE ReceiveDead
  BY <1>3, TerminalUnchanged DEF ReceiveDead, stream, closeTask, claim
<1>4. CASE ReceiveMalformed
  BY <1>4 DEF ReceiveMalformed, stream, closeTask
<1>5. CASE ReceiveDropped
  BY <1>5 DEF ReceiveDropped, stream, closeTask
<1>6. CASE ReceiveCloseAck
  BY <1>6 DEF ReceiveCloseAck, stream
<1>7. CASE ReceiveExpiring
  BY <1>7 DEF ReceiveExpiring, stream, closeTask
<1>8. ASSUME NEW kind, NEW type \in {"SessionFailed", "SessionClosed"},
             ReceiveRelayTerminal(kind, type)
      PROVE  TerminalInv'
  BY <1>0, <1>8, TerminalFinish DEF ReceiveRelayTerminal, stream, closeTask
<1>9. CASE Apply
  <2>1. CASE ApplySessionAck
    BY <2>1 DEF ApplySessionAck, Fresh, stream, closeTask
  <2>2. CASE ApplySpeech
    BY <2>2 DEF ApplySpeech, Applying, Fresh, stream, closeTask
  <2>3. CASE ApplyError
    BY <2>3 DEF ApplyError, Applying, Fresh, stream, closeTask
  <2>4. ASSUME NEW kind, ApplyBeforeReady(kind) PROVE TerminalInv'
    BY <2>4 DEF ApplyBeforeReady, Fresh, stream, closeTask
  <2>5. ASSUME NEW r \in Responses, ApplyCreated(r) PROVE TerminalInv'
    BY <2>5 DEF ApplyCreated, Applying, Fresh, stream, closeTask
  <2>6. ASSUME NEW r \in Responses, ApplyDone(r) PROVE TerminalInv'
    BY <2>6 DEF ApplyDone, Applying, Fresh, stream, closeTask
  <2>7. ASSUME NEW r \in Responses, ApplyFailed(r) PROVE TerminalInv'
    <3> DEFINE o == IF r \in Live THEN EmitTerminalSafe(out, About("ResponseFinished", r)) ELSE out
    <3>1. SameTerminals(o)
      BY <1>0, EmitKeepsTerminals
    <3>2. /\ FinishTerminal("receiver", o, Plain("SessionFailed"), "provider")
          /\ UNCHANGED <<delivered, closer>>
      BY <2>7 DEF ApplyFailed, Applying, Fresh, stream, closeTask
    <3> HIDE DEF o
    <3> QED
      BY <3>1, <3>2, TerminalFinish
  <2>8. ASSUME NEW r, NEW i, ApplyItem(r, i) \/ ApplyItemDone(r, i) PROVE TerminalInv'
    BY <2>8 DEF ApplyItem, ApplyItemDone, Applying, Fresh, stream, closeTask
  <2>9. ASSUME NEW r \in Responses, NEW i, NEW c, ApplyContent(r, i, c) PROVE TerminalInv'
    BY <2>9 DEF ApplyContent, Applying, Fresh, stream, closeTask
  <2>10. ASSUME NEW r, NEW i, NEW c, ApplyContentDone(r, i, c) PROVE TerminalInv'
    BY <2>10 DEF ApplyContentDone, Applying, Fresh, stream, closeTask
  <2>11. ASSUME NEW r \in Responses, NEW i, NEW c, ApplyOutput(r, i, c) PROVE TerminalInv'
    BY <2>11 DEF ApplyOutput, Applying, Fresh, stream, closeTask
  <2> QED
    BY <1>9, <2>1, <2>2, <2>3, <2>4, <2>5, <2>6, <2>7, <2>8, <2>9, <2>10, <2>11 DEF Apply
<1> QED
  BY <1>1, <1>2, <1>3, <1>4, <1>5, <1>6, <1>7, <1>8, <1>9 DEF Receive

\* The close task: the claim comes before any terminal, the publication after it.
LEMMA TerminalClose == TypeOK /\ TerminalInv /\ CloseStep => TerminalInv'
<1> SUFFICES ASSUME TypeOK, TerminalInv, CloseStep PROVE TerminalInv'
  OBVIOUS
<1>1. CASE ClaimClose
  <2>1. CASE owner # None
    BY <1>1, <2>1, TerminalUnchanged DEF ClaimClose, stream
  <2>2. CASE owner = None
    <3>1. ~published /\ ~HasTerminal(delivered) /\ ~HasTerminal(out.events)
      BY <2>2 DEF TerminalInv, OneTerminal
    <3>2. Agree("client", delivered) /\ Agree("client", out.events)
      BY <3>1 DEF Agree, HasTerminal
    <3>3. owner' = "client" /\ UNCHANGED <<published, out, delivered>>
      BY <1>1, <2>2 DEF ClaimClose, stream
    <3> QED
      BY <3>1, <3>2, <3>3 DEF TerminalInv, OneTerminal
  <2> QED
    BY <2>1, <2>2
<1>2. CASE CloseSent
  BY <1>2, TerminalUnchanged DEF CloseSent, claim, stream
<1>3. ASSUME closer \in {"send", "wait"}, FinishClose PROVE TerminalInv'
  <2>1. owner = "client" /\ ~published /\ ~HasTerminal(delivered) /\ ~HasTerminal(out.events)
    BY <1>3 DEF TerminalInv, OneTerminal
  <2> DEFINE r == CurrentResponse
             o == IF r = None THEN out ELSE EmitTerminalSafe(out, About("ResponseFinished", r))
  <2>2. r = None \/ r \in Responses
    BY CurrentResponseLive, TypeParts DEF CatalogueOK
  <2>3. SameTerminals(o)
    <3>1. SameTerminals(out)
      BY EmitKeepsTerminals, Names, EventNames
    <3> QED
      BY <2>2, <3>1, EmitKeepsTerminals, Names, EventNames
  <2>4. /\ out' = EmitTerminalSafe(o, Plain("SessionClosed")) /\ published'
        /\ closer' = "shutdown" /\ UNCHANGED <<owner, delivered>>
    BY <1>3 DEF FinishClose, stream
  <2> HIDE DEF o
  <2>5. o \in Out /\ ~HasTerminal(o.events)
    BY <2>1, <2>3 DEF SameTerminals
  <2>6. /\ HasTerminal(out'.events) /\ AtMostOneTerminal(out'.events)
        /\ Agree("client", out'.events) /\ out'.sequence
    BY <2>4, <2>5, EmitTerminal, Names, EventNames
  <2>7. "client" # None
    BY NoneIsNoInitiator, Names
  <2> QED
    BY <2>1, <2>4, <2>6, <2>7 DEF TerminalInv, OneTerminal
<1> QED
  BY <1>1, <1>2, <1>3 DEF CloseStep, CloseSendFails, CloseAcknowledged, CloseAckTimeout

\* events() moves the head of the queue; a terminal is never skipped.
LEMMA TerminalTake == TypeOK /\ TerminalInv /\ ConsumerTake => TerminalInv'
<1> SUFFICES ASSUME TypeOK, TerminalInv, ConsumerTake PROVE TerminalInv'
  OBVIOUS
<1> DEFINE q == out.events
           h == Head(q)
<1>1. q \in Seq(Event) /\ q # <<>> /\ delivered \in Seq(Event) /\ out \in Out
  BY TypeParts DEF ConsumerTake, OutOK, Out, StreamOK
<1>2. h \in Event
  BY <1>1, HeadTailProperties
<1>3. /\ delivered' = Append(delivered, h) \/ (delivered' = delivered /\ ~IsTerminal(h))
      /\ UNCHANGED <<owner, published, closer>>
  BY DEF ConsumerTake, IsTerminal, claim, closeTask
<1>4. out'.events = Tail(q) /\ out'.sequence = out.sequence
  BY <1>1 DEF ConsumerTake, Popped, Out
<1>5. /\ HasTerminal(q) <=> IsTerminal(h) \/ HasTerminal(Tail(q))
      /\ AtMostOneTerminal(Tail(q)) /\ ~(IsTerminal(h) /\ HasTerminal(Tail(q)))
      /\ Agree(owner, Tail(q)) /\ (IsTerminal(h) => Matches(owner, h))
  BY <1>1, TailTerminal DEF TerminalInv, OneTerminal
<1>6. /\ HasTerminal(delivered') <=> HasTerminal(delivered) \/ IsTerminal(h)
      /\ AtMostOneTerminal(delivered') /\ Agree(owner, delivered')
  <2>1. ~(HasTerminal(delivered) /\ IsTerminal(h))
    BY <1>5 DEF TerminalInv, OneTerminal
  <2>2. AtMostOneTerminal(delivered) /\ Agree(owner, delivered)
    BY DEF TerminalInv, OneTerminal
  <2>3. /\ HasTerminal(Append(delivered, h)) <=> HasTerminal(delivered) \/ IsTerminal(h)
        /\ AtMostOneTerminal(Append(delivered, h)) /\ Agree(owner, Append(delivered, h))
    <3> HIDE DEF h
    <3> QED BY <1>1, <1>2, <1>5, <2>1, <2>2, AppendTerminal
  <2>4. CASE delivered' = Append(delivered, h)
    <3> HIDE DEF h
    <3> QED BY <2>3, <2>4
  <2>5. CASE delivered' = delivered /\ ~IsTerminal(h)
    BY <2>2, <2>5
  <2> QED
    BY <1>3, <2>4, <2>5
<1> HIDE DEF q, h
<1>7. OneTerminal'
  BY <1>3, <1>4, <1>5, <1>6 DEF TerminalInv, OneTerminal, q
<1> QED
  BY <1>3, <1>4, <1>5, <1>6, <1>7 DEF TerminalInv

\* Every step keeps the invariant.
LEMMA TerminalStep == TypeOK /\ TerminalInv /\ [Next]_vars => TerminalInv'
<1> SUFFICES ASSUME TypeOK, TerminalInv, [Next]_vars PROVE TerminalInv'
  OBVIOUS
<1>0. SameTerminals(out)
  BY EmitKeepsTerminals, Names, EventNames
<1>1. CASE Start
  BY <1>1, TerminalUnchanged DEF Start, claim, stream, closeTask
<1>2. CASE StartFails
  BY <1>0, <1>2, TerminalFinish, Names, EventNames DEF StartFails, stream, closeTask
<1>3. CASE Supersede
  BY <1>3, TerminalUnchanged DEF Supersede, claim, stream, closeTask
<1>4. ASSUME NEW s \in Senders, Call(s) PROVE TerminalInv'
  BY <1>4, TerminalUnchanged DEF Call, SendAudio, CancelResponse, claim, stream, closeTask
<1>5. ASSUME NEW s \in Senders, SendDone(s) \/ CallerCancelled(s) PROVE TerminalInv'
  BY <1>5, TerminalUnchanged DEF SendDone, CallerCancelled, claim, stream, closeTask
<1>6. ASSUME NEW s \in Senders, SendFails(s) PROVE TerminalInv'
  BY <1>0, <1>6, TerminalFinish, Names, EventNames DEF SendFails, stream, closeTask
<1>7. ASSUME NEW reason, Close(reason) PROVE TerminalInv'
  BY <1>7, TerminalUnchanged DEF Close, claim, stream
<1>8. CASE ShutdownStep
  <2>1. CASE ShutdownClosed
    BY <2>1, TerminalUnchanged DEF ShutdownClosed, stream
  <2>2. CASE ReceiverCancelled
    BY <2>2, TerminalUnchanged DEF ReceiverCancelled, claim, stream, closeTask
  <2>3. CASE ShutdownJoined
    BY <2>3, TerminalUnchanged DEF ShutdownJoined, stream
  <2> QED
    BY <1>8, <2>1, <2>2, <2>3 DEF ShutdownStep
<1>9. CASE Consume
  <2>1. CASE ConsumerTest
    BY <2>1, TerminalUnchanged DEF ConsumerTest, claim, closeTask
  <2> QED
    BY <1>9, <2>1, TerminalTake DEF Consume
<1>10. CASE UNCHANGED vars
  BY <1>10, TerminalUnchanged DEF vars, claim, stream, closeTask
<1> QED
  BY <1>1, <1>2, <1>3, <1>4, <1>5, <1>6, <1>7, <1>8, <1>9, <1>10, TerminalClose,
     TerminalReceive DEF Next, SendEnds

\* The inductive invariant holds in every reachable state.
LEMMA TerminalInvariant == Spec => []TerminalInv
<1>1. Init => TerminalInv
  <2> SUFFICES ASSUME Init PROVE TerminalInv
    OBVIOUS
  <2>1. delivered = <<>> /\ out.events = <<>> /\ ~published /\ closer = "none"
    BY DEF Init
  <2> QED
    BY <2>1, EmptyTerminal DEF TerminalInv, OneTerminal
<1>2. QED
  BY <1>1, TypeCorrect, TerminalStep, PTL DEF Spec

\* A session has exactly one terminal once it published, and none before, however
\* close(), failing writes, the receiver and displaced queues interleave.
THEOREM ExactlyOneTerminal == Spec => []OneTerminal
<1>1. TerminalInv => OneTerminal
  BY DEF TerminalInv
<1>2. QED
  BY <1>1, TerminalInvariant, PTL

\* The terminal that the application reads names the kind of end that its owner
\* claimed: a clean close is never reported as a failure, nor a failure as clean.
THEOREM TerminalAgrees == Spec => []TerminalMatchesOwner
<1>1. TypeOK /\ TerminalInv => TerminalMatchesOwner
  <2> SUFFICES ASSUME TypeOK, TerminalInv, NEW i \in DOMAIN Stream, IsTerminal(Stream[i])
               PROVE  Matches(owner, Stream[i])
    BY DEF TerminalMatchesOwner, Matches
  <2>1. delivered \in Seq(Event) /\ out.events \in Seq(Event)
    BY TypeParts DEF StreamOK, OutOK, Out
  <2>2. \/ i \in DOMAIN delivered /\ Stream[i] = delivered[i]
        \/ /\ i - Len(delivered) \in DOMAIN out.events
           /\ Stream[i] = out.events[i - Len(delivered)]
    <3>1. DOMAIN Stream = 1..(Len(delivered) + Len(out.events))
      BY <2>1, ConcatProperties, LenProperties DEF Stream
    <3>2. /\ Len(delivered) \in Nat /\ Len(out.events) \in Nat
          /\ DOMAIN delivered = 1..Len(delivered) /\ DOMAIN out.events = 1..Len(out.events)
      BY <2>1, LenProperties
    <3>3. Stream[i] = IF i <= Len(delivered) THEN delivered[i]
                      ELSE out.events[i - Len(delivered)]
      BY <2>1, <3>1, ConcatProperties DEF Stream
    <3> QED
      BY <3>1, <3>2, <3>3
  <2> QED
    BY <2>2 DEF TerminalInv, Agree
<1>2. QED
  BY <1>1, TypeCorrect, TerminalInvariant, PTL

-----------------------------------------------------------------------------
(* Live responses.                                                           *)
(*                                                                           *)
(* Every step but one only finishes or cancels responses.  The exception is  *)
(* response.created, and its guard is enough for the bound.                  *)

LiveInv == IsFiniteSet(Live) /\ LiveResponses

Monotone ==
    responses' = responses /\ terminal \subseteq terminal' /\ cancelled \subseteq cancelled'

\* Finishing and cancelling responses keeps the bound.
LEMMA MonotoneKeepsLive == ASSUME LiveInv, Monotone PROVE LiveInv'
<1>1. Live' \subseteq Live
  BY DEF Monotone, Live, Known
<1>2. /\ IsFiniteSet(Live') /\ Cardinality(Live') <= Cardinality(Live)
      /\ Cardinality(Live') \in Nat /\ Cardinality(Live) \in Nat
  BY <1>1, FS_Subset, FS_CardinalityType DEF LiveInv
<1>3. Live' \ cancelled' \subseteq Live \ cancelled
  BY <1>1 DEF Monotone
<1> QED
  BY <1>2, <1>3 DEF LiveInv, LiveResponses

\* An accepted response.created keeps the bound.
LEMMA IntroduceKeepsLive ==
    ASSUME TypeOK, LiveInv, NEW r \in Responses, MayIntroduce(r),
           responses' = Append(responses, r), UNCHANGED <<terminal, cancelled>>
    PROVE  LiveInv'
<1>1. Known' = Known \cup {r}
  <2>1. /\ Len(responses) \in Nat /\ DOMAIN responses = 1..Len(responses)
        /\ DOMAIN responses' = 1..(Len(responses) + 1)
        /\ \A k \in 1..Len(responses) : responses'[k] = responses[k]
        /\ responses'[Len(responses) + 1] = r
    BY TypeParts, LenProperties, AppendProperties DEF CatalogueOK
  <2> QED
    BY <2>1 DEF Known
<1>2. Live' \subseteq Live \cup {r}
  BY <1>1 DEF Live
<1>3. /\ IsFiniteSet(Live \cup {r}) /\ Cardinality(Live \cup {r}) <= Cardinality(Live) + 1
      /\ Cardinality(Live) \in Nat
  <2>1. IsFiniteSet(Live)
    BY DEF LiveInv
  <2>2. Cardinality(Live) \in Nat
    BY <2>1, FS_CardinalityType
  <2>3. /\ IsFiniteSet(Live \cup {r})
        /\ Cardinality(Live \cup {r}) = IF r \in Live THEN Cardinality(Live)
                                       ELSE Cardinality(Live) + 1
    BY <2>1, FS_AddElement
  <2> QED
    BY <2>2, <2>3
<1>4. /\ IsFiniteSet(Live') /\ Cardinality(Live') <= Cardinality(Live \cup {r})
      /\ Cardinality(Live') \in Nat /\ Cardinality(Live \cup {r}) \in Nat
  BY <1>2, <1>3, FS_Subset, FS_CardinalityType
<1>5. Cardinality(Live') <= 2
  BY <1>3, <1>4 DEF MayIntroduce
<1>6. Live' \ cancelled' \subseteq {r}
  BY <1>2 DEF MayIntroduce
<1> QED
  BY <1>4, <1>5, <1>6 DEF LiveInv, LiveResponses

\* Every other step finishes or cancels responses, or leaves them alone.
LEMMA LiveStep == TypeOK /\ LiveInv /\ [Next]_vars => LiveInv'
<1> SUFFICES ASSUME TypeOK, LiveInv, [Next]_vars PROVE LiveInv'
  OBVIOUS
<1>1. ASSUME NEW r \in Responses, ApplyCreated(r) PROVE LiveInv'
  <2>1. CASE MayIntroduce(r)
    BY <1>1, <2>1, IntroduceKeepsLive DEF ApplyCreated
  <2>2. CASE ~MayIntroduce(r)
    BY <1>1, <2>2, MonotoneKeepsLive DEF ApplyCreated, Monotone
  <2> QED
    BY <2>1, <2>2
<1>2. UNCHANGED catalogue => Monotone
  BY DEF Monotone, catalogue
<1>3. CASE UNCHANGED vars
  BY <1>2, <1>3, MonotoneKeepsLive DEF vars
<1>4. CASE Start \/ StartFails \/ Supersede \/ \E reason \in CloseReasons : Close(reason)
  BY <1>2, <1>4, MonotoneKeepsLive DEF Start, StartFails, Supersede, Close
<1>5. ASSUME NEW s \in Senders, Call(s) \/ SendEnds(s) PROVE LiveInv'
  <2>1. CASE CancelResponse(s)
    BY <2>1, MonotoneKeepsLive DEF CancelResponse, Monotone
  <2> QED
    BY <1>2, <1>5, <2>1, MonotoneKeepsLive DEF Call, SendEnds, SendAudio, SendDone, SendFails,
       CallerCancelled
<1>6. CASE CloseStep
  <2>1. CASE FinishClose
    BY <2>1, MonotoneKeepsLive DEF FinishClose, Monotone
  <2> QED
    BY <1>2, <1>6, <2>1, MonotoneKeepsLive DEF CloseStep, ClaimClose, CloseSent,
       CloseSendFails, CloseAcknowledged, CloseAckTimeout
<1>7. CASE ShutdownStep \/ Consume
  BY <1>2, <1>7, MonotoneKeepsLive DEF ShutdownStep, ShutdownClosed, ReceiverCancelled,
     ShutdownJoined, Consume, ConsumerTake, ConsumerTest
<1>8. CASE Receive
  <2>1. CASE Apply
    <3>1. ASSUME NEW r \in Responses, ApplyDone(r) \/ ApplyFailed(r) PROVE LiveInv'
      BY <3>1, MonotoneKeepsLive DEF ApplyDone, ApplyFailed, Monotone
    <3>2. ASSUME NEW r, NEW i, ApplyItem(r, i) \/ ApplyItemDone(r, i) PROVE LiveInv'
      BY <3>2, MonotoneKeepsLive DEF ApplyItem, ApplyItemDone, Monotone
    <3>3. ASSUME NEW r, NEW i, NEW c, ApplyContent(r, i, c) \/ ApplyContentDone(r, i, c)
          PROVE  LiveInv'
      BY <3>3, MonotoneKeepsLive DEF ApplyContent, ApplyContentDone, Monotone
    <3>4. ASSUME NEW r, NEW i, NEW c, ApplyOutput(r, i, c) PROVE LiveInv'
      BY <1>2, <3>4, MonotoneKeepsLive DEF ApplyOutput
    <3>5. CASE \/ ApplySessionAck \/ ApplySpeech \/ ApplyError
               \/ \E kind \in ProviderKinds \ {"ack"} : ApplyBeforeReady(kind)
      BY <1>2, <3>5, MonotoneKeepsLive DEF ApplySessionAck, ApplySpeech, ApplyError,
         ApplyBeforeReady
    <3> QED
      BY <1>1, <2>1, <3>1, <3>2, <3>3, <3>4, <3>5 DEF Apply
  <2>2. CASE \/ ReceiveEof \/ ReceiveError \/ ReceiveDead \/ ReceiveMalformed
             \/ ReceiveDropped \/ ReceiveCloseAck \/ ReceiveExpiring
    BY <1>2, <2>2, MonotoneKeepsLive DEF ReceiveEof, ReceiveError, ReceiveDead,
       ReceiveMalformed, ReceiveDropped, ReceiveCloseAck, ReceiveExpiring
  <2>3. ASSUME NEW kind, NEW type, ReceiveRelayTerminal(kind, type) PROVE LiveInv'
    BY <1>2, <2>3, MonotoneKeepsLive DEF ReceiveRelayTerminal
  <2> QED
    BY <1>8, <2>1, <2>2, <2>3 DEF Receive
<1> QED
  BY <1>3, <1>4, <1>5, <1>6, <1>7, <1>8 DEF Next

\* At most two responses are live at any time, and at most one of them is not
\* cancelled, whatever response.created, response.done and cancel_response do.
THEOREM LiveResponsesBounded == Spec => []LiveResponses
<1>1. Init => LiveInv
  <2> SUFFICES ASSUME Init PROVE LiveInv
    OBVIOUS
  <2>1. Live = {}
    BY DEF Init, Live, Known
  <2> QED
    BY <2>1, FS_EmptySet DEF LiveInv, LiveResponses
<1>2. LiveInv => LiveResponses
  BY DEF LiveInv
<1>3. QED
  BY <1>1, <1>2, TypeCorrect, LiveStep, PTL DEF Spec

-----------------------------------------------------------------------------
(* The input frames.  Every way a call of send_audio ends goes through       *)
(* Return; the set of calls in progress has to be finite to be counted.      *)

Audio == {s \in Senders : sender[s] = "audio"}

InputInv == IsFiniteSet(Audio) /\ InputAccounting

\* The finally clause of send_audio gives back exactly the frame of its call.
LEMMA ReturnKeepsInput ==
    ASSUME TypeOK, InputInv, NEW s \in Senders, Return(s)
    PROVE  InputInv'
<1>1. /\ sender \in [Senders -> {"idle", "audio", "cancel"}] /\ inputPending \in Int
      /\ InputFrames \in Nat
  BY TypeParts, LimitAssumption DEF CallersOK
<1>2. IsFiniteSet(Audio) /\ Cardinality(Audio) \in Nat /\ inputPending = Cardinality(Audio)
  BY FS_CardinalityType DEF InputInv, InputAccounting, Audio
<1>3. Audio' = Audio \ {s}
  BY <1>1 DEF Audio, Return
<1>4. /\ IsFiniteSet(Audio \ {s})
      /\ Cardinality(Audio \ {s}) = IF s \in Audio THEN Cardinality(Audio) - 1
                                    ELSE Cardinality(Audio)
  BY <1>2, FS_RemoveElement
<1>5. inputPending' = IF s \in Audio THEN inputPending - 1 ELSE inputPending
  BY DEF Return, Audio
<1>6. inputPending' = Cardinality(Audio') /\ inputPending' <= InputFrames
  BY <1>1, <1>2, <1>3, <1>4, <1>5 DEF InputInv, InputAccounting
<1> QED
  BY <1>3, <1>4, <1>6 DEF InputInv, InputAccounting, Audio

LEMMA InputStep == TypeOK /\ InputInv /\ [Next]_vars => InputInv'
<1> SUFFICES ASSUME TypeOK, InputInv, [Next]_vars PROVE InputInv'
  OBVIOUS
<1>1. CASE UNCHANGED callers
  BY <1>1 DEF callers, InputInv, InputAccounting, Audio
<1>2. ASSUME NEW s \in Senders, SendAudio(s) PROVE InputInv'
  <2>1. /\ sender \in [Senders -> {"idle", "audio", "cancel"}] /\ inputPending \in Int
    BY TypeParts DEF CallersOK
  <2>2. Audio' = Audio \cup {s} /\ s \notin Audio
    BY <1>2, <2>1 DEF SendAudio, Audio
  <2>3. IsFiniteSet(Audio) /\ inputPending = Cardinality(Audio)
    BY DEF InputInv, InputAccounting, Audio
  <2>4. IsFiniteSet(Audio \cup {s}) /\ Cardinality(Audio \cup {s}) = Cardinality(Audio) + 1
    BY <2>2, <2>3, FS_AddElement
  <2>5. inputPending' = inputPending + 1 /\ inputPending + 1 <= InputFrames
    BY <1>2 DEF SendAudio
  <2>6. IsFiniteSet(Audio') /\ inputPending' = Cardinality(Audio') /\ inputPending' <= InputFrames
    BY <2>2, <2>3, <2>4, <2>5
  <2> QED
    BY <2>6 DEF InputInv, InputAccounting, Audio
<1>3. ASSUME NEW s \in Senders, CancelResponse(s) PROVE InputInv'
  <2>1. sender \in [Senders -> {"idle", "audio", "cancel"}] /\ UNCHANGED inputPending
    BY <1>3, TypeParts DEF CallersOK, CancelResponse
  <2>2. Audio' = Audio
    BY <1>3, <2>1 DEF CancelResponse, Audio
  <2> QED
    BY <2>1, <2>2 DEF InputInv, InputAccounting, Audio
<1>4. ASSUME NEW s \in Senders, SendEnds(s) PROVE InputInv'
  BY <1>1, <1>4, ReturnKeepsInput DEF SendEnds, SendDone, SendFails, CallerCancelled
<1>5. CASE ShutdownStep
  BY <1>1, <1>5, ReturnKeepsInput DEF ShutdownStep, ShutdownClosed, ReceiverCancelled, ShutdownJoined
<1>6. CASE Start \/ StartFails \/ Supersede \/ \E reason \in CloseReasons : Close(reason)
  BY <1>1, <1>6 DEF Start, StartFails, Supersede, Close
<1>7. CASE CloseStep \/ Consume
  BY <1>1, <1>7 DEF CloseStep, ClaimClose, CloseSent, CloseSendFails, CloseAcknowledged,
     CloseAckTimeout, FinishClose, Consume, ConsumerTake, ConsumerTest
<1>8. CASE Receive
  <2>1. CASE Apply
    BY <1>1, <2>1, ZenonT(40) DEF Apply, ApplySessionAck, ApplySpeech, ApplyError, ApplyBeforeReady,
       ApplyCreated, ApplyDone, ApplyFailed, ApplyItem, ApplyItemDone, ApplyContent,
       ApplyContentDone, ApplyOutput, Applying, Fresh
  <2>2. ASSUME NEW kind, NEW type, ReceiveRelayTerminal(kind, type) PROVE InputInv'
    BY <1>1, <2>2 DEF ReceiveRelayTerminal
  <2> QED
    BY <1>1, <1>8, <2>1, <2>2 DEF Receive, ReceiveEof, ReceiveError, ReceiveDead,
       ReceiveMalformed, ReceiveDropped, ReceiveCloseAck, ReceiveExpiring
<1>9. CASE UNCHANGED vars
  BY <1>1, <1>9 DEF vars
<1> QED
  BY <1>2, <1>3, <1>4, <1>5, <1>6, <1>7, <1>8, <1>9 DEF Next, Call

\* _input_pending_frames is the number of send_audio calls in progress and stays
\* within input_queue_frames, whichever way the calls end.
THEOREM InputCounted == Spec => []InputAccounting
<1>1. Init => InputInv
  <2> SUFFICES ASSUME Init PROVE InputInv
    OBVIOUS
  <2>1. Audio = {} /\ inputPending = 0 /\ InputFrames \in Nat
    BY LimitAssumption DEF Init, Audio
  <2>2. IsFiniteSet(Audio) /\ Cardinality(Audio) = 0
    BY <2>1, FS_EmptySet
  <2> QED
    BY <2>1, <2>2 DEF InputInv, InputAccounting, Audio
<1>2. InputInv => InputAccounting
  BY DEF InputInv
<1> QED
  BY <1>1, <1>2, TypeCorrect, InputStep, PTL DEF Spec

-----------------------------------------------------------------------------
(* What a step may do to the claim.  A claim is for good; the close task marks *)
(* the session closing together with its claim, and every other owner          *)
(* publishes together with it.  From there on _apply introduces no response.   *)

ClaimedInv ==
    /\ owner = "client" => closing
    /\ owner \in {"provider", "relay"} => published

Claims ==
    /\ owner # None => owner' = owner
    /\ published => published'
    /\ closing => closing' /\ responses' = responses
    /\ current' => current
    /\ receiver' = "receive" => receiver = "receive" \/ owner = None
    /\ terminal \subseteq terminal'
    /\ owner' # owner => \/ owner' = "client" /\ closing'
                         \/ owner' \in {"provider", "relay"} /\ published'

\* _finish_terminal claims for the provider or the relay, if at all.
LEMMA FinishClaims ==
    ASSUME NEW task, NEW o, NEW e, NEW initiator \in {"provider", "relay"},
           FinishTerminal(task, o, e, initiator)
    PROVE  /\ owner # None => owner' = owner
           /\ published => published'
           /\ owner' # owner => owner' \in {"provider", "relay"} /\ published'
BY DEF FinishTerminal, claim

\* The receiver's ways to end its work on a payload are such claims.
LEMMA ReceiverClaims ==
    ASSUME ReceiverFails \/ ReceiverSkips \/ \E e : ReceiverEmits(e)
    PROVE  /\ owner # None => owner' = owner
           /\ published => published'
           /\ owner' # owner => owner' \in {"provider", "relay"} /\ published'
<1>1. CASE ReceiverFails
  BY <1>1, FinishClaims DEF ReceiverFails
<1>2. CASE UNCHANGED claim
  BY <1>2 DEF claim
<1> QED
  BY <1>1, <1>2 DEF ReceiverSkips, ReceiverEmits

\* Every payload that is applied.
LEMMA ApplyClaims == Apply => Claims
<1> SUFFICES ASSUME Apply PROVE Claims
  OBVIOUS
<1>0. ~closing /\ receiver = "receive" /\ UNCHANGED <<closing, current>>
  <2>1. \E kind : Fresh(kind)
    <3>1. ASSUME ApplySessionAck \/ ApplySpeech \/ ApplyError PROVE \E kind : Fresh(kind)
      BY <3>1 DEF ApplySessionAck, ApplySpeech, ApplyError, Applying
    <3>2. ASSUME NEW kind \in ProviderKinds \ {"ack"}, ApplyBeforeReady(kind)
          PROVE  \E k : Fresh(k)
      BY <3>2 DEF ApplyBeforeReady
    <3>3. ASSUME NEW r \in Responses, ApplyCreated(r) \/ ApplyDone(r) \/ ApplyFailed(r)
          PROVE  \E kind : Fresh(kind)
      BY <3>3 DEF ApplyCreated, ApplyDone, ApplyFailed, Applying
    <3>4. ASSUME NEW r \in Responses, NEW i \in Items, ApplyItem(r, i) \/ ApplyItemDone(r, i)
          PROVE  \E kind : Fresh(kind)
      BY <3>4 DEF ApplyItem, ApplyItemDone, Applying
    <3>5. ASSUME NEW r \in Responses, NEW i \in Items, NEW c \in Contents,
                 ApplyContent(r, i, c) \/ ApplyContentDone(r, i, c) \/ ApplyOutput(r, i, c)
          PROVE  \E kind : Fresh(kind)
      BY <3>5 DEF ApplyContent, ApplyContentDone, ApplyOutput, Applying
    <3> QED
      BY <3>1, <3>2, <3>3, <3>4, <3>5 DEF Apply
  <2> QED
    BY <2>1 DEF Fresh, Receiving, Open
<1>1. \/ ReceiverFails \/ ReceiverSkips \/ \E e : ReceiverEmits(e)
      \/ \E o, e : FinishTerminal("receiver", o, e, "provider")
  BY ZenonT(40) DEF Apply, ApplySessionAck, ApplySpeech, ApplyError, ApplyBeforeReady, ApplyCreated,
     ApplyDone, ApplyFailed, ApplyItem, ApplyItemDone, ApplyContent, ApplyContentDone,
     ApplyOutput
<1>2. terminal \subseteq terminal'
  BY ZenonT(40) DEF Apply, ApplySessionAck, ApplySpeech, ApplyError, ApplyBeforeReady, ApplyCreated,
     ApplyDone, ApplyFailed, ApplyItem, ApplyItemDone, ApplyContent, ApplyContentDone,
     ApplyOutput, catalogue
<1>3. /\ owner # None => owner' = owner
      /\ published => published'
      /\ owner' # owner => owner' \in {"provider", "relay"} /\ published'
  BY <1>1, FinishClaims, ReceiverClaims
<1> QED
  BY <1>0, <1>2, <1>3 DEF Claims

\* Every step respects the claim.
LEMMA StepClaims == [Next]_vars => Claims
<1> SUFFICES ASSUME [Next]_vars PROVE Claims
  OBVIOUS
<1>0. ASSUME UNCHANGED <<responses, terminal, closing, current>>,
             receiver' = "receive" => receiver = "receive" \/ owner = None,
             \/ ReceiverFails \/ ReceiverSkips \/ UNCHANGED claim
             \/ \E e : ReceiverEmits(e)
             \/ \E task, o, e : \E initiator \in {"provider", "relay"} :
                   FinishTerminal(task, o, e, initiator)
      PROVE  Claims
  <2>1. /\ owner # None => owner' = owner
        /\ published => published'
        /\ owner' # owner => owner' \in {"provider", "relay"} /\ published'
    BY <1>0, FinishClaims, ReceiverClaims DEF claim
  <2> QED
    BY <1>0, <2>1 DEF Claims
<1>1. CASE Start \/ StartFails \/ \E reason \in CloseReasons : Close(reason)
  BY <1>0, <1>1 DEF Start, StartFails, Close, catalogue, claim
<1>2. CASE Supersede
  BY <1>2 DEF Supersede, Claims, claim, catalogue
<1>3. ASSUME NEW s \in Senders, Call(s) PROVE Claims
  BY <1>0, <1>3 DEF Call, SendAudio, CancelResponse, catalogue
<1>4. ASSUME NEW s \in Senders, SendDone(s) \/ SendFails(s) PROVE Claims
  BY <1>0, <1>4 DEF SendDone, SendFails, catalogue
<1>5. ASSUME NEW s \in Senders, CallerCancelled(s) PROVE Claims
  BY <1>5 DEF CallerCancelled, Claims, catalogue
<1>6. CASE CloseStep
  BY <1>6 DEF CloseStep, ClaimClose, CloseSent, CloseSendFails, CloseAcknowledged,
     CloseAckTimeout, FinishClose, Claims, claim, catalogue
<1>7. CASE ShutdownStep \/ Consume
  BY <1>7 DEF ShutdownStep, ShutdownClosed, ReceiverCancelled, ShutdownJoined, Consume,
     ConsumerTake, ConsumerTest, Claims, claim, catalogue
<1>8. CASE Receive
  <2>1. ASSUME NEW kind, NEW type, ReceiveRelayTerminal(kind, type) PROVE Claims
    BY <1>0, <2>1 DEF ReceiveRelayTerminal, Receiving, catalogue
  <2>2. CASE ReceiveEof \/ ReceiveError \/ ReceiveDead \/ ReceiveMalformed \/ ReceiveDropped
             \/ ReceiveCloseAck \/ ReceiveExpiring
    BY <1>0, <2>2 DEF ReceiveEof, ReceiveError, ReceiveDead, ReceiveMalformed, ReceiveDropped,
       ReceiveCloseAck, ReceiveExpiring, Receiving, catalogue
  <2> QED
    BY <1>8, <2>1, <2>2, ApplyClaims DEF Receive
<1>9. CASE UNCHANGED vars
  BY <1>9 DEF vars, Claims, claim, catalogue
<1> QED
  BY <1>1, <1>2, <1>3, <1>4, <1>5, <1>6, <1>7, <1>8, <1>9 DEF Next, SendEnds

\* The owner of every reachable state is closing or has published.
LEMMA ClaimedInvariant == Spec => []ClaimedInv
<1>1. Init => ClaimedInv
  BY NoneIsNoInitiator DEF Init, ClaimedInv, Initiators
<1>2. TypeOK /\ ClaimedInv /\ [Next]_vars => ClaimedInv'
  BY StepClaims, NoneIsNoInitiator, TypeParts DEF ClaimedInv, Claims, Initiators, ClaimOK
<1> QED
  BY <1>1, <1>2, TypeCorrect, PTL DEF Spec

-----------------------------------------------------------------------------
(* The catalogue: what the session stores about a response is about one that *)
(* response.created introduced.                                              *)

CatalogueInv ==
    /\ terminal \subseteq Known
    /\ \A r \in Responses, i \in Items : <<r, i>> \in items => r \in Known
    /\ \A r \in Responses, i \in Items, c \in Contents : <<r, i, c>> \in contents => r \in Known

\* Appending to _response_order adds to _responses.
LEMMA AppendKnown ==
    ASSUME TypeOK, NEW r \in Responses, responses' = Append(responses, r)
    PROVE  Known' = Known \cup {r}
<1>1. /\ Len(responses) \in Nat /\ DOMAIN responses = 1..Len(responses)
      /\ DOMAIN responses' = 1..(Len(responses) + 1)
      /\ \A k \in 1..Len(responses) : responses'[k] = responses[k]
      /\ responses'[Len(responses) + 1] = r
  BY TypeParts, LenProperties, AppendProperties DEF CatalogueOK
<1> QED
  BY <1>1 DEF Known

\* A step that leaves the catalogue's four parts alone.
LEMMA CatalogueSame ==
    ASSUME CatalogueInv, UNCHANGED <<responses, terminal, items, contents>>
    PROVE  CatalogueInv' /\ Known' = Known
BY DEF CatalogueInv, Known

\* Every step keeps the catalogue closed.
LEMMA CatalogueStep == TypeOK /\ CatalogueInv /\ [Next]_vars => CatalogueInv'
<1> SUFFICES ASSUME TypeOK, CatalogueInv, [Next]_vars PROVE CatalogueInv'
  OBVIOUS
<1>0. UNCHANGED catalogue => CatalogueInv'
  BY CatalogueSame DEF catalogue
<1>1. ASSUME NEW r \in Responses, ApplyCreated(r) PROVE CatalogueInv'
  <2>1. CASE responses' = Append(responses, r)
    <3>1. Known' = Known \cup {r} /\ UNCHANGED <<terminal, items, contents>>
      BY <1>1, <2>1, AppendKnown DEF ApplyCreated
    <3> QED
      BY <3>1 DEF CatalogueInv
  <2>2. CASE responses' = responses
    BY <1>1, <2>2, CatalogueSame DEF ApplyCreated
  <2> QED
    BY <1>1, <2>1, <2>2 DEF ApplyCreated
<1>2. ASSUME NEW r \in Responses, ApplyDone(r) \/ ApplyFailed(r) PROVE CatalogueInv'
  BY <1>2 DEF ApplyDone, ApplyFailed, CatalogueInv, Known, Live
<1>3. ASSUME NEW r \in Responses, NEW i \in Items, ApplyItem(r, i) PROVE CatalogueInv'
  BY <1>3 DEF ApplyItem, CatalogueInv, Known
<1>4. ASSUME NEW r \in Responses, NEW i \in Items, NEW c \in Contents, ApplyContent(r, i, c)
      PROVE  CatalogueInv'
  BY <1>4 DEF ApplyContent, CatalogueInv, Known
<1>5. CASE FinishClose
  <2>1. responses \in Seq(Responses)
    BY TypeParts DEF CatalogueOK
  <2>2. {CurrentResponse} \ {None} \subseteq Known
    BY <2>1, CurrentResponseLive DEF Live
  <2>3. terminal' \subseteq Known /\ UNCHANGED <<responses, items, contents>>
    BY <1>5, <2>2 DEF FinishClose, CatalogueInv
  <2> QED
    BY <2>3 DEF CatalogueInv, Known
<1>6. CASE \/ Start \/ StartFails \/ Supersede \/ ShutdownStep \/ Consume
           \/ \E reason \in CloseReasons : Close(reason)
  BY <1>0, <1>6 DEF Start, StartFails, Supersede, Close, ShutdownStep, ShutdownClosed,
     ReceiverCancelled, ShutdownJoined, Consume, ConsumerTake, ConsumerTest
<1>7. ASSUME NEW s \in Senders, Call(s) \/ SendEnds(s) PROVE CatalogueInv'
  BY <1>0, <1>7, CatalogueSame DEF Call, SendEnds, SendAudio, CancelResponse, SendDone,
     SendFails, CallerCancelled
<1>8. CASE CloseStep
  BY <1>0, <1>5, <1>8 DEF CloseStep, ClaimClose, CloseSent, CloseSendFails,
     CloseAcknowledged, CloseAckTimeout
<1>9. CASE Apply
  <2>1. ASSUME NEW r, NEW i, ApplyItemDone(r, i) PROVE CatalogueInv'
    BY <2>1, CatalogueSame DEF ApplyItemDone
  <2>2. ASSUME NEW r, NEW i, NEW c, ApplyContentDone(r, i, c) \/ ApplyOutput(r, i, c)
        PROVE  CatalogueInv'
    BY <1>0, <2>2, CatalogueSame DEF ApplyContentDone, ApplyOutput
  <2>3. CASE \/ ApplySessionAck \/ ApplySpeech \/ ApplyError
             \/ \E kind \in ProviderKinds \ {"ack"} : ApplyBeforeReady(kind)
    BY <1>0, <2>3 DEF ApplySessionAck, ApplySpeech, ApplyError, ApplyBeforeReady
  <2> QED
    BY <1>1, <1>2, <1>3, <1>4, <1>9, <2>1, <2>2, <2>3 DEF Apply
<1>10. CASE Receive
  <2>1. ASSUME NEW kind, NEW type, ReceiveRelayTerminal(kind, type) PROVE CatalogueInv'
    BY <1>0, <2>1 DEF ReceiveRelayTerminal
  <2> QED
    BY <1>0, <1>9, <1>10, <2>1 DEF Receive, ReceiveEof, ReceiveError, ReceiveDead,
       ReceiveMalformed, ReceiveDropped, ReceiveCloseAck, ReceiveExpiring
<1>11. CASE UNCHANGED vars
  BY <1>0, <1>11 DEF vars
<1> QED
  BY <1>6, <1>7, <1>8, <1>10, <1>11 DEF Next

\* The catalogue of every reachable state is closed.
LEMMA CatalogueInvariant == Spec => []CatalogueInv
<1>1. Init => CatalogueInv
  BY DEF Init, CatalogueInv
<1> QED
  BY <1>1, CatalogueStep, TypeCorrect, PTL DEF Spec

-----------------------------------------------------------------------------
(* A clean close finishes the latest response. *)

\* If the latest response is live then it is the one _current_response returns.
LEMMA CurrentIsLatest ==
    ASSUME responses \in Seq(Responses), responses # <<>>,
           responses[Len(responses)] \in Live
    PROVE  CurrentResponse = responses[Len(responses)]
<1> DEFINE n == Len(responses)
           P(k) == /\ responses[k] \in Live
                   /\ \A j \in DOMAIN responses : responses[j] \in Live => j <= k
<1>1. n \in Nat /\ n \in DOMAIN responses /\ DOMAIN responses = 1..n
  BY LenProperties, EmptySeq
<1>2. P(n)
  BY <1>1
<1>3. \A k \in DOMAIN responses : P(k) => k = n
  BY <1>1, <1>2
<1>4. CurrentResponse = responses[CHOOSE k \in DOMAIN responses : P(k)]
  BY DEF CurrentResponse
<1>5. (CHOOSE k \in DOMAIN responses : P(k)) = n
  <2> HIDE DEF P, n
  <2> QED BY <1>1, <1>2, <1>3
<1> QED
  BY <1>4, <1>5

\* Publishing for the client is FinishClose and nothing else.
LEMMA ClientPublishes ==
    ASSUME TypeOK, [Next]_vars, ~published, published', owner' = "client"
    PROVE  FinishClose
<1>0. ASSUME NEW task, NEW o, NEW e, NEW initiator \in {"provider", "relay"}
      PROVE  ~FinishTerminal(task, o, e, initiator)
  BY <1>0 DEF FinishTerminal, claim
<1>1. ~ReceiverFails /\ ~ReceiverSkips /\ \A e : ~ReceiverEmits(e)
  BY <1>0 DEF ReceiverFails, ReceiverSkips, ReceiverEmits, claim
<1>2. ~UNCHANGED claim /\ ~UNCHANGED published
  BY DEF claim
<1>3. ~Apply
  <2> USE <1>0, <1>1
  <2>1. \A r \in Responses : ~ApplyCreated(r) /\ ~ApplyDone(r) /\ ~ApplyFailed(r)
    BY DEF ApplyCreated, ApplyDone, ApplyFailed
  <2>2. \A r \in Responses, i \in Items : ~ApplyItem(r, i) /\ ~ApplyItemDone(r, i)
    BY DEF ApplyItem, ApplyItemDone
  <2>3. \A r \in Responses, i \in Items, c \in Contents :
           ~ApplyContent(r, i, c) /\ ~ApplyContentDone(r, i, c) /\ ~ApplyOutput(r, i, c)
    BY DEF ApplyContent, ApplyContentDone, ApplyOutput
  <2> QED
    BY <2>1, <2>2, <2>3 DEF Apply, ApplySessionAck, ApplySpeech, ApplyError, ApplyBeforeReady
<1>4. ~Receive
  BY <1>0, <1>1, <1>2, <1>3 DEF Receive, ReceiveEof, ReceiveError, ReceiveDead,
     ReceiveMalformed, ReceiveDropped, ReceiveCloseAck, ReceiveExpiring, ReceiveRelayTerminal
<1>5. \A s \in Senders : ~Call(s) /\ ~SendEnds(s)
  BY <1>0, <1>2 DEF Call, SendEnds, SendAudio, CancelResponse, SendDone, SendFails,
     CallerCancelled
<1>6. ~Start /\ ~StartFails /\ ~Supersede /\ ~UNCHANGED vars /\ \A reason : ~Close(reason)
  BY <1>0, <1>2 DEF Start, StartFails, Supersede, Close, vars
<1>7. ~ShutdownStep /\ ~Consume
  BY <1>2 DEF ShutdownStep, ShutdownClosed, ReceiverCancelled, ShutdownJoined, Consume,
     ConsumerTake, ConsumerTest
<1>8. CloseStep
  BY <1>4, <1>5, <1>6, <1>7 DEF Next
<1> QED
  BY <1>2, <1>8 DEF CloseStep, ClaimClose, CloseSent, CloseSendFails, CloseAcknowledged,
     CloseAckTimeout

\* Once SessionClosed of a clean close is in the stream, the latest response is
\* finished: close() finished it, or it was finished and no other came after.
THEOREM CloseFinishes == Spec => []CloseFinishesLatest
<1>1. Init => CloseFinishesLatest
  BY DEF Init, CloseFinishesLatest
<1>2. ASSUME TypeOK, TerminalInv, ClaimedInv, CloseFinishesLatest, [Next]_vars
      PROVE  CloseFinishesLatest'
  <2> SUFFICES ASSUME published', owner' = "client", responses' # <<>>
               PROVE  (responses[Len(responses)] \in terminal)'
    BY DEF CloseFinishesLatest
  <2>0. Claims
    BY <1>2, StepClaims
  <2>1. CASE published
    <3>1. owner = "client"
      BY <1>2, <2>0, <2>1 DEF Claims, TerminalInv
    <3>2. responses' = responses /\ terminal \subseteq terminal'
      BY <1>2, <2>0, <3>1 DEF Claims, ClaimedInv
    <3> QED
      BY <1>2, <2>1, <3>1, <3>2 DEF CloseFinishesLatest
  <2>2. CASE ~published
    <3>1. FinishClose
      BY <1>2, <2>2, ClientPublishes
    <3>2. responses' = responses /\ terminal' = terminal \cup ({CurrentResponse} \ {None})
      BY <3>1 DEF FinishClose
    <3>3. responses \in Seq(Responses) /\ responses # <<>>
      BY <1>2, <3>2, TypeParts DEF CatalogueOK
    <3>4. responses[Len(responses)] \in Known
      BY <3>3, LenProperties, EmptySeq DEF Known
    <3>5. CASE responses[Len(responses)] \in terminal
      BY <3>2, <3>5
    <3>6. CASE responses[Len(responses)] \in Live
      <4>1. CurrentResponse = responses[Len(responses)] /\ CurrentResponse # None
        BY <3>3, <3>6, CurrentIsLatest, CurrentResponseLive, NoneAssumption
      <4> QED
        BY <3>2, <4>1
    <3> QED
      BY <3>4, <3>5, <3>6 DEF Live
  <2> QED
    BY <2>1, <2>2
<1> QED
  BY <1>1, <1>2, TypeCorrect, TerminalInvariant, ClaimedInvariant, PTL DEF Spec

-----------------------------------------------------------------------------
(* The shape of a step.  As far as the event stream goes a step does one of   *)
(* four things, and everything below is argued from these.                    *)

\* Nothing enters or leaves the queue, and no response is introduced.
Rests == UNCHANGED <<out, delivered, published, responses>>

\* _emit accepts an event: about no response, or one that is known and not
\* finished, or the one it introduces.
Emits(e) ==
    /\ e \in Event /\ ~IsTerminal(e) /\ e.response \notin terminal
    /\ out' = Put(out, e) /\ UNCHANGED <<delivered, owner, published>>
    /\ Fits(out, e)
    /\ e.type \in OutputTypes => e.response \notin cancelled
    /\ e.type = "ResponseFinished" => e.response \in terminal'
    /\ \/ responses' = responses /\ e.response \in Known \cup {None}
       \/ /\ e.response \in Responses /\ e = About("ResponseStarted", e.response)
          /\ responses' = Append(responses, e.response)

\* The first event of a terminal batch, ResponseFinished of a live response, if any.
Batch(o) ==
    \/ o = out
    \/ \E r \in Responses : /\ r \notin terminal /\ r \in terminal'
                            /\ o = EmitTerminalSafe(out, About("ResponseFinished", r))

\* The session terminal is published behind the batch, or was published before; a
\* task that emits such a batch reads no more payloads.
Ends ==
    /\ UNCHANGED delivered
    /\ \E o : /\ Batch(o) /\ (o = out \/ receiver' # "receive" \/ closing')
              /\ \/ /\ published /\ out' = o /\ UNCHANGED <<owner, published>>
                    /\ o = out \/ (receiver = "receive" /\ ~closing)
                 \/ /\ ~published /\ published' /\ (owner # None => owner' = owner)
                    /\ owner' \in Initiators
                    /\ \E t \in TerminalTypes : /\ Matches(owner', Plain(t))
                                                /\ out' = EmitTerminalSafe(o, Plain(t))

\* _finish_terminal of anyone but the close task, unless the session is closing.
LEMMA FinishEnds ==
    ASSUME TypeOK, TerminalInv, ClaimedInv, ~closing, NEW task, NEW o, Batch(o),
           o = out \/ (receiver = "receive" /\ receiver' # "receive"),
           NEW t \in TerminalTypes, NEW initiator \in {"provider", "relay"},
           Matches(initiator, Plain(t)), FinishTerminal(task, o, Plain(t), initiator),
           UNCHANGED delivered
    PROVE  Ends
<1>1. CASE owner # None
  <2>1. published
    BY <1>1, TypeParts DEF ClaimOK, Initiators, ClaimedInv
  <2> QED
    BY <1>1, <2>1 DEF FinishTerminal, Ends, claim
<1>2. CASE owner = None
  <2>1. ~published
    BY <1>2 DEF TerminalInv
  <2>2. initiator \in Initiators
    BY Names
  <2> QED
    BY <1>2, <2>1, <2>2 DEF FinishTerminal, Ends
<1> QED
  BY <1>1, <1>2

\* _fail of the receiver, and _emit if it turns into one.
LEMMA ReceiverEnds ==
    ASSUME TypeOK, TerminalInv, ClaimedInv, ~closing, UNCHANGED delivered
    PROVE  /\ ReceiverFails => Ends
           /\ \A e : ReceiverEmits(e) =>
                 Ends \/ (Fits(out, e) /\ out' = Put(out, e) /\ UNCHANGED <<owner, published>>)
<1>1. ASSUME ReceiverFails PROVE Ends
  <2>1. Batch(out) /\ "SessionFailed" \in TerminalTypes /\ "provider" \in {"provider", "relay"}
    BY EventNames DEF Batch
  <2> QED
    BY <1>1, <2>1, FinishEnds, EventNames DEF ReceiverFails
<1>2. ASSUME NEW e, ReceiverEmits(e)
      PROVE  Ends \/ (Fits(out, e) /\ out' = Put(out, e) /\ UNCHANGED <<owner, published>>)
  BY <1>1, <1>2 DEF ReceiverEmits, claim
<1> QED
  BY <1>1, <1>2

Shape == Rests \/ ConsumerTake \/ Ends \/ \E e : Emits(e)

\* Every payload that is applied.
LEMMA ApplyShape == TypeOK /\ TerminalInv /\ ClaimedInv /\ CatalogueInv /\ Apply => Shape
<1> SUFFICES ASSUME TypeOK, TerminalInv, ClaimedInv, CatalogueInv, Apply PROVE Shape
  OBVIOUS
<1>0. ~closing /\ UNCHANGED delivered
  <2>1. \E kind : Fresh(kind)
    BY ZenonT(40) DEF Apply, ApplySessionAck, ApplySpeech, ApplyError, ApplyBeforeReady, ApplyCreated,
       ApplyDone, ApplyFailed, ApplyItem, ApplyItemDone, ApplyContent, ApplyContentDone,
       ApplyOutput, Applying
  <2> QED
    BY <2>1 DEF Fresh, Open, stream
<1>1. ReceiverFails => Shape
  BY <1>0, ReceiverEnds DEF Shape
<1>2. ReceiverSkips /\ responses' = responses => Shape
  BY <1>0 DEF ReceiverSkips, Shape, Rests, claim
<1>3. ASSUME NEW e \in Event, ~IsTerminal(e), ReceiverEmits(e), e.response \notin terminal,
             e.type \in OutputTypes => e.response \notin cancelled,
             e.type = "ResponseFinished" => e.response \in terminal',
             \/ responses' = responses /\ e.response \in Known \cup {None}
             \/ /\ e.response \in Responses /\ e = About("ResponseStarted", e.response)
                /\ responses' = Append(responses, e.response)
      PROVE  Shape
  <2>1. Ends \/ (Fits(out, e) /\ out' = Put(out, e) /\ UNCHANGED <<owner, published>>)
    BY <1>0, <1>3, ReceiverEnds
  <2>2. CASE Fits(out, e) /\ out' = Put(out, e) /\ UNCHANGED <<owner, published>>
    <3>1. Emits(e)
      BY <1>0, <1>3, <2>2 DEF Emits
    <3> QED
      BY <3>1 DEF Shape
  <2> QED
    BY <2>1, <2>2 DEF Shape
<1>4. ASSUME NEW t \in {"SessionReady", "SessionExpiring", "SpeechStarted"},
             ReceiverEmits(Plain(t)), responses' = responses
      PROVE  Shape
  <2>1. /\ Plain(t) \in Event /\ ~IsTerminal(Plain(t)) /\ Plain(t).response = None
        /\ Plain(t).type = t
    BY Names, EventNames DEF Plain
  <2>2. None \notin terminal /\ t # "ResponseFinished" /\ t \notin OutputTypes
    BY TypeParts, NoneAssumption DEF CatalogueOK, OutputTypes
  <2> HIDE DEF Plain
  <2> QED
    BY <1>3, <1>4, <2>1, <2>2
<1>5. ASSUME NEW r \in Responses, r \notin terminal, responses' = responses, r \in Known,
             NEW t \in {"ResponseFinished", "OutputAudioStarted", "OutputAudio"},
             t = "ResponseFinished" => r \in terminal', ReceiverEmits(About(t, r)),
             t # "ResponseFinished" => r \notin cancelled
      PROVE  Shape
  <2>1. /\ About(t, r) \in Event /\ ~IsTerminal(About(t, r)) /\ About(t, r).response = r
        /\ About(t, r).type = t /\ (t \in OutputTypes => t # "ResponseFinished")
    BY Names, EventNames DEF About, OutputTypes
  <2> QED
    BY <1>3, <1>5, <2>1
<1>6. CASE ApplySessionAck \/ ApplySpeech \/ ApplyError
           \/ \E kind \in ProviderKinds \ {"ack"} : ApplyBeforeReady(kind)
  BY <1>1, <1>2, <1>4, <1>6 DEF ApplySessionAck, ApplySpeech, ApplyError, ApplyBeforeReady,
     catalogue
<1>7. ASSUME NEW r \in Responses, ApplyCreated(r) PROVE Shape
  <2>1. CASE MayIntroduce(r)
    <3> DEFINE e == About("ResponseStarted", r)
    <3>1. /\ e \in Event /\ ~IsTerminal(e) /\ e.response = r /\ e.type = "ResponseStarted"
          /\ e = About("ResponseStarted", e.response) /\ e.type \notin OutputTypes
      BY Names, EventNames DEF About, OutputTypes
    <3>2. r \notin terminal /\ responses' = Append(responses, r) /\ ReceiverEmits(e)
      BY <1>7, <2>1 DEF ApplyCreated, MayIntroduce, CatalogueInv
    <3> HIDE DEF e
    <3> QED
      BY <1>3, <3>1, <3>2
  <2> QED
    BY <1>1, <1>7, <2>1 DEF ApplyCreated
<1>8. ASSUME NEW r \in Responses, ApplyDone(r) PROVE Shape
  <2>1. CASE r \in Known \ terminal
    <3>1. /\ r \in terminal' /\ responses' = responses
          /\ ReceiverEmits(About("ResponseFinished", r))
      BY <1>8, <2>1 DEF ApplyDone
    <3> QED
      BY <1>5, <2>1, <3>1
  <2> QED
    BY <1>1, <1>2, <1>8, <2>1 DEF ApplyDone
<1>9. ASSUME NEW r \in Responses, ApplyFailed(r) PROVE Shape
  <2> DEFINE o == IF r \in Live THEN EmitTerminalSafe(out, About("ResponseFinished", r)) ELSE out
  <2>1. Batch(o)
    BY <1>9 DEF Batch, ApplyFailed, Live
  <2>2. FinishTerminal("receiver", o, Plain("SessionFailed"), "provider")
    BY <1>9 DEF ApplyFailed
  <2>3. receiver = "receive" /\ receiver' # "receive"
    BY <1>9 DEF ApplyFailed, Applying, Fresh, Receiving
  <2> HIDE DEF o
  <2>4. Ends
    BY <1>0, <2>1, <2>2, <2>3, FinishEnds, EventNames
  <2> QED
    BY <2>4 DEF Shape
<1>10. ASSUME NEW r \in Responses, NEW i \in Items, ApplyItem(r, i) \/ ApplyItemDone(r, i)
       PROVE  Shape
  BY <1>1, <1>2, <1>10 DEF ApplyItem, ApplyItemDone
<1>11. ASSUME NEW r \in Responses, NEW i \in Items, NEW c \in Contents, ApplyContent(r, i, c)
       PROVE  Shape
  <2>1. CASE /\ <<r, i>> \in items /\ ~Tombstoned(r)
             /\ ReceiverEmits(About("OutputAudioStarted", r))
    <3>1. r \in Known /\ r \notin terminal \cup cancelled /\ responses' = responses
      BY <1>11, <2>1 DEF CatalogueInv, Tombstoned, ApplyContent
    <3> QED
      BY <1>5, <2>1, <3>1
  <2> QED
    BY <1>1, <1>2, <1>11, <2>1 DEF ApplyContent
<1>12. ASSUME NEW r \in Responses, NEW i \in Items, NEW c \in Contents, ApplyContentDone(r, i, c)
       PROVE  Shape
  BY <1>1, <1>2, <1>12 DEF ApplyContentDone
<1>13. ASSUME NEW r \in Responses, NEW i \in Items, NEW c \in Contents, ApplyOutput(r, i, c)
       PROVE  Shape
  <2>1. responses' = responses
    BY <1>13 DEF ApplyOutput, catalogue
  <2>2. CASE /\ <<r, i, c>> \in contents /\ ~Tombstoned(r)
             /\ ReceiverEmits(About("OutputAudio", r))
    <3>1. r \in Known /\ r \notin terminal \cup cancelled
      BY <2>2 DEF CatalogueInv, Tombstoned
    <3> QED
      BY <1>5, <2>1, <2>2, <3>1
  <2> QED
    BY <1>1, <1>2, <1>13, <2>1, <2>2 DEF ApplyOutput
<1> QED
  BY <1>6, <1>7, <1>8, <1>9, <1>10, <1>11, <1>12, <1>13 DEF Apply

\* Every step has the shape.
LEMMA StepShape ==
    TypeOK /\ TerminalInv /\ ClaimedInv /\ CatalogueInv /\ [Next]_vars => Shape
<1> SUFFICES ASSUME TypeOK, TerminalInv, ClaimedInv, CatalogueInv, [Next]_vars PROVE Shape
  OBVIOUS
<1>0. Batch(out)
  BY DEF Batch
<1>1. ASSUME NEW task, NEW e, NEW initiator, FinishTerminal(task, out, e, initiator),
             owner # None, UNCHANGED <<delivered, responses>>
      PROVE  Shape
  BY <1>1 DEF FinishTerminal, Shape, Rests, claim
<1>2. ASSUME NEW task, owner = None, UNCHANGED delivered,
             FinishTerminal(task, out, Plain("SessionFailed"), "provider")
      PROVE  Shape
  <2>1. /\ owner' = "provider" /\ published'
        /\ out' = EmitTerminalSafe(out, Plain("SessionFailed"))
    BY <1>2 DEF FinishTerminal
  <2>2. ~published /\ "SessionFailed" \in TerminalTypes /\ "provider" \in Initiators
        /\ Matches("provider", Plain("SessionFailed"))
    BY <1>2, Names, EventNames DEF TerminalInv
  <2>3. Ends
    BY <1>0, <1>2, <2>1, <2>2 DEF Ends
  <2> QED
    BY <2>3 DEF Shape
<1>3. CASE Start \/ Supersede \/ \E reason \in CloseReasons : Close(reason)
  BY <1>3 DEF Start, Supersede, Close, Shape, Rests, claim, catalogue, stream
<1>4. CASE StartFails
  BY <1>2, <1>4 DEF StartFails, stream
<1>5. ASSUME NEW s \in Senders, Call(s) PROVE Shape
  BY <1>5 DEF Call, SendAudio, CancelResponse, Shape, Rests, claim, catalogue, stream
<1>6. ASSUME NEW s \in Senders, SendDone(s) \/ CallerCancelled(s) PROVE Shape
  BY <1>6 DEF SendDone, CallerCancelled, Shape, Rests, claim, catalogue, stream
<1>7. ASSUME NEW s \in Senders, SendFails(s) PROVE Shape
  BY <1>1, <1>2, <1>7 DEF SendFails, stream, catalogue
<1>8. CASE ClaimClose \/ CloseSent
  BY <1>8 DEF ClaimClose, CloseSent, Shape, Rests, claim, catalogue, stream
<1>9. ASSUME closer \in {"send", "wait"}, FinishClose PROVE Shape
  <2> DEFINE r == CurrentResponse
             o == IF r = None THEN out ELSE EmitTerminalSafe(out, About("ResponseFinished", r))
  <2>1. r = None \/ (r \in Live /\ r \in Responses)
    BY CurrentResponseLive, TypeParts DEF CatalogueOK
  <2>2. Batch(o)
    BY <1>9, <2>1 DEF Batch, FinishClose, Live
  <2>3. /\ out' = EmitTerminalSafe(o, Plain("SessionClosed")) /\ published'
        /\ UNCHANGED <<owner, delivered, closing>>
    BY <1>9 DEF FinishClose, stream
  <2>4. owner = "client" /\ ~published /\ closing /\ "client" \in Initiators
    BY <1>9, Names DEF TerminalInv, ClaimedInv
  <2> HIDE DEF o
  <2>5. Ends
    BY <2>2, <2>3, <2>4, EventNames DEF Ends
  <2> QED
    BY <2>5 DEF Shape
<1>10. CASE ShutdownStep \/ ConsumerTest
  BY <1>10 DEF ShutdownStep, ShutdownClosed, ReceiverCancelled, ShutdownJoined,
     ConsumerTest, Shape, Rests, claim, catalogue, stream
<1>11. CASE Receive /\ ~Apply
  <2>1. UNCHANGED delivered /\ responses' = responses
    BY <1>11 DEF Receive, ReceiveEof, ReceiveError, ReceiveDead, ReceiveMalformed,
       ReceiveDropped, ReceiveCloseAck, ReceiveExpiring, ReceiveRelayTerminal, stream, catalogue
  <2>2. UNCHANGED <<claim, out>> => Shape
    BY <2>1 DEF Shape, Rests, claim
  <2>3. ReceiverFails /\ ~closing => Shape
    BY <2>1, ReceiverEnds DEF Shape
  <2>4. ASSUME NEW kind, NEW type \in TerminalTypes, ReceiveRelayTerminal(kind, type)
        PROVE  Shape
    <3>1. Ends
      BY <1>0, <2>1, <2>4, FinishEnds, EventNames DEF ReceiveRelayTerminal, Open
    <3> QED
      BY <3>1 DEF Shape
  <2>5. CASE ReceiveExpiring
    <3> DEFINE e == Plain("SessionExpiring")
    <3>1. /\ e \in Event /\ ~IsTerminal(e) /\ e.response = None /\ e.type = "SessionExpiring"
          /\ e.type \notin OutputTypes
      BY Names, EventNames DEF Plain, OutputTypes
    <3>2. None \notin terminal /\ ~closing /\ ReceiverEmits(e)
      BY <2>5, TypeParts, NoneAssumption DEF CatalogueOK, ReceiveExpiring, Open
    <3> HIDE DEF e
    <3>3. Ends \/ Emits(e)
      BY <2>1, <3>1, <3>2, ReceiverEnds DEF Emits
    <3> QED
      BY <3>3 DEF Shape
  <2> QED
    BY <1>11, <2>2, <2>3, <2>4, <2>5, EventNames DEF Receive, ReceiveEof, ReceiveError,
       ReceiveDead, ReceiveMalformed, ReceiveDropped, ReceiveCloseAck, ReceiverSkips, Open
<1>12. CASE UNCHANGED vars
  BY <1>12 DEF vars, Shape, Rests, claim, catalogue, stream
<1> QED
  BY <1>3, <1>4, <1>5, <1>6, <1>7, <1>8, <1>9, <1>10, <1>11, <1>12, ApplyShape
  DEF Next, SendEnds, CloseStep, CloseSendFails, CloseAcknowledged, CloseAckTimeout, Consume,
      Shape

-----------------------------------------------------------------------------
(* The order of the events of a response.                                     *)
(*                                                                            *)
(* Ordered adds to the first half of ResponseOrder that every response whose  *)
(* ResponseFinished is in the stream is in _terminal_responses, which is why  *)
(* nothing about it is emitted again.  Begun adds to the second half that     *)
(* every known response has its ResponseStarted in the stream, as long as no  *)
(* event was displaced or skipped.                                            *)

Ordered(s, T) ==
    /\ \A i, j \in DOMAIN s :
          i < j /\ s[i].type = "ResponseFinished" => s[j].response # s[i].response
    /\ \A i \in DOMAIN s : s[i].type = "ResponseFinished" => s[i].response \in T

Begun(s, K) ==
    /\ \A j \in DOMAIN s : s[j].response # None =>
          \E i \in 1..j : s[i] = About("ResponseStarted", s[j].response)
    /\ \A r \in K : \E i \in DOMAIN s : s[i] = About("ResponseStarted", r)

\* s is t without some of its events.
Thinned(s, t) ==
    \E f \in [DOMAIN s -> DOMAIN t] :
        /\ \A i, j \in DOMAIN s : i < j => f[i] < f[j]
        /\ \A i \in DOMAIN s : s[i] = t[f[i]]

\* Appending to the queue appends to the stream.
LEMMA ConcatAppend ==
    ASSUME NEW d \in Seq(Event), NEW q \in Seq(Event), NEW e \in Event
    PROVE  d \o Append(q, e) = Append(d \o q, e)
<1>1. <<e>> \in Seq(Event) /\ d \o q \in Seq(Event)
  BY ConcatProperties
<1>2. Append(q, e) = q \o <<e>> /\ Append(d \o q, e) = (d \o q) \o <<e>>
  BY <1>1, AppendIsConcat
<1>3. (d \o q) \o <<e>> = d \o (q \o <<e>>)
  BY <1>1, ConcatAssociative
<1> QED
  BY <1>2, <1>3

\* Yielding the head of the queue leaves the stream as it is.
LEMMA ConcatTake ==
    ASSUME NEW d \in Seq(Event), NEW q \in Seq(Event), q # <<>>
    PROVE  Append(d, Head(q)) \o Tail(q) = d \o q
<1> DEFINE h == Head(q)
           t == Tail(q)
<1>1. /\ h \in Event /\ t \in Seq(Event) /\ h = q[1] /\ Len(t) = Len(q) - 1
      /\ \A i \in 1..Len(t) : t[i] = q[i + 1]
  BY HeadTailProperties
<1>2. Len(q) \in Nat \ {0} /\ <<h>> \in Seq(Event) /\ Len(<<h>>) = 1 /\ <<h>>[1] = h
  BY <1>1, LenProperties, EmptySeq
<1> HIDE DEF h, t
<1>3. <<h>> \o t = q
  <2>1. /\ <<h>> \o t \in Seq(Event) /\ Len(<<h>> \o t) = 1 + Len(t)
        /\ \A i \in 1..(1 + Len(t)) : (<<h>> \o t)[i] = IF i <= 1 THEN <<h>>[i] ELSE t[i - 1]
    BY <1>1, <1>2, ConcatProperties
  <2>2. /\ Len(<<h>> \o t) = Len(q)
        /\ \A i \in 1..Len(<<h>> \o t) : (<<h>> \o t)[i] = q[i]
    BY <1>1, <1>2, <2>1
  <2> DEFINE u == <<h>> \o t
  <2> HIDE DEF u
  <2>3. u \in Seq(Event) /\ Len(u) = Len(q) /\ \A i \in 1..Len(u) : u[i] = q[i]
    BY <2>1, <2>2 DEF u
  <2>4. u = q
    BY <2>3, SeqEqual
  <2> QED
    BY <2>4 DEF u
<1>4. Append(d, h) = d \o <<h>> /\ (d \o <<h>>) \o t = d \o (<<h>> \o t)
  BY <1>1, <1>2, AppendIsConcat, ConcatAssociative, SMTT(30)
<1> QED
  BY <1>3, <1>4 DEF h, t

\* The elements of the stream.
LEMMA ConcatElements ==
    ASSUME NEW d \in Seq(Event), NEW q \in Seq(Event)
    PROVE  /\ DOMAIN (d \o q) = 1..(Len(d) + Len(q))
           /\ \A i \in 1..(Len(d) + Len(q)) :
                 (d \o q)[i] = IF i <= Len(d) THEN d[i] ELSE q[i - Len(d)]
BY LenProperties, ConcatProperties

\* What was yielded is the stream without the queue.
LEMMA ThinPrefix ==
    ASSUME NEW d \in Seq(Event), NEW q \in Seq(Event) PROVE Thinned(d, d \o q)
<1>1. /\ Len(d) \in Nat /\ Len(q) \in Nat /\ DOMAIN d = 1..Len(d)
      /\ DOMAIN (d \o q) = 1..(Len(d) + Len(q))
      /\ \A i \in 1..Len(d) : (d \o q)[i] = d[i]
  BY LenProperties, ConcatProperties
<1> DEFINE f == [i \in DOMAIN d |-> i]
<1>2. f \in [DOMAIN d -> DOMAIN (d \o q)]
  BY <1>1
<1> QED
  BY <1>1, <1>2 DEF Thinned

\* Skipping the head of the queue thins the stream.
LEMMA ThinDrop ==
    ASSUME NEW d \in Seq(Event), NEW q \in Seq(Event), q # <<>>
    PROVE  Thinned(d \o Tail(q), d \o q)
<1> DEFINE t == Tail(q)
           n == Len(d)
<1>1. /\ n \in Nat /\ Len(q) \in Nat \ {0} /\ t \in Seq(Event) /\ Len(t) = Len(q) - 1
      /\ \A i \in 1..Len(t) : t[i] = q[i + 1]
  BY LenProperties, HeadTailProperties, EmptySeq
<1>2. /\ DOMAIN (d \o q) = 1..(n + Len(q))
      /\ \A i \in 1..(n + Len(q)) : (d \o q)[i] = IF i <= n THEN d[i] ELSE q[i - n]
  BY <1>1, LenProperties, ConcatProperties
<1> HIDE DEF t, n
<1>3. /\ DOMAIN (d \o t) = 1..(n + Len(t))
      /\ \A i \in 1..(n + Len(t)) : (d \o t)[i] = IF i <= n THEN d[i] ELSE t[i - n]
  BY <1>1, ConcatElements DEF n
<1> DEFINE f == [i \in 1..(n + Len(t)) |-> IF i <= n THEN i ELSE i + 1]
<1>4. f \in [DOMAIN (d \o t) -> DOMAIN (d \o q)]
  BY <1>1, <1>2, <1>3
<1>5. \A i, j \in DOMAIN (d \o t) : i < j => f[i] < f[j]
  BY <1>1, <1>3
<1>6. \A i \in DOMAIN (d \o t) : (d \o t)[i] = (d \o q)[f[i]]
  <2> SUFFICES ASSUME NEW i \in 1..(n + Len(t)) PROVE (d \o t)[i] = (d \o q)[f[i]]
    BY <1>3
  <2>1. CASE i <= n
    <3>1. f[i] = i /\ i \in 1..(n + Len(q)) /\ i \in 1..(n + Len(t))
      BY <1>1, <2>1
    <3>2. (d \o t)[i] = d[i] /\ (d \o q)[i] = d[i]
      BY <1>2, <1>3, <2>1, <3>1
    <3> QED
      BY <3>1, <3>2
  <2>2. CASE i > n
    <3>1. (d \o t)[i] = t[i - n] /\ t[i - n] = q[(i - n) + 1]
      BY <1>1, <1>3, <2>2, SMTT(30)
    <3>2. f[i] = i + 1 /\ (d \o q)[i + 1] = q[(i + 1) - n] /\ (i + 1) - n = (i - n) + 1
      BY <1>1, <1>2, <2>2
    <3> QED
      BY <3>1, <3>2
  <2>3. i <= n \/ i > n
    BY <1>1
  <2> HIDE DEF f
  <2> QED
    BY <2>1, <2>2, <2>3
<1> HIDE DEF f
<1>7. Thinned(d \o t, d \o q)
  BY <1>4, <1>5, <1>6 DEF Thinned
<1> QED
  BY <1>7 DEF t

\* A thinned stream is still ordered.
LEMMA OrderedThin ==
    ASSUME NEW s, NEW t, Thinned(s, t), NEW T, Ordered(t, T) PROVE Ordered(s, T)
<1>1. PICK f \in [DOMAIN s -> DOMAIN t] :
        /\ \A i, j \in DOMAIN s : i < j => f[i] < f[j]
        /\ \A i \in DOMAIN s : s[i] = t[f[i]]
  BY DEF Thinned
<1> QED
  BY <1>1 DEF Ordered

\* An event about a response that is not finished keeps the order.
LEMMA OrderedAppend ==
    ASSUME NEW s \in Seq(Event), NEW T, Ordered(s, T), NEW e \in Event, e.response \notin T,
           NEW T2, T \subseteq T2, e.type = "ResponseFinished" => e.response \in T2
    PROVE  Ordered(Append(s, e), T2)
<1> DEFINE t == Append(s, e)
<1>1. /\ Len(s) \in Nat /\ DOMAIN s = 1..Len(s) /\ DOMAIN t = 1..(Len(s) + 1)
      /\ \A i \in 1..Len(s) : t[i] = s[i]
      /\ t[Len(s) + 1] = e
  BY LenProperties, AppendProperties
<1> HIDE DEF t
<1>2. Ordered(t, T2)
  BY <1>1 DEF Ordered
<1> QED
  BY <1>2 DEF t

\* The queue takes an event, with or without displacement.
LEMMA OrderedEmit ==
    ASSUME NEW d \in Seq(Event), NEW o \in Out, NEW T, Ordered(d \o o.events, T),
           NEW e \in Event, e.response \notin T,
           NEW T2, T \subseteq T2, e.type = "ResponseFinished" => e.response \in T2
    PROVE  /\ Ordered(d \o Put(o, e).events, T2)
           /\ Ordered(d \o EmitTerminalSafe(o, e).events, T2)
<1>1. o.events \in Seq(Event) /\ d \o o.events \in Seq(Event) /\ <<>> \in Seq(Event)
  BY ConcatProperties, EmptySeq DEF Out
<1>2. Ordered(d \o Append(o.events, e), T2)
  <2>1. d \o Append(o.events, e) = Append(d \o o.events, e)
    BY <1>1, ConcatAppend
  <2>2. ASSUME NEW s \in Seq(Event), Ordered(s, T) PROVE Ordered(Append(s, e), T2)
    BY <2>2, OrderedAppend
  <2> QED
    BY <1>1, <2>1, <2>2
<1>3. Ordered(d, T)
  BY <1>1, ThinPrefix, OrderedThin
<1>4. d \o Append(<<>>, e) = Append(d, e)
  BY <1>1, ConcatAppend, ConcatEmptySeq
<1>5. Ordered(d \o Append(<<>>, e), T2)
  BY <1>3, <1>4, OrderedAppend
<1> QED
  BY <1>2, <1>5, Emitted

\* ... and its first event, the ResponseFinished of a batch.
LEMMA OrderedBatch ==
    ASSUME TypeOK, Ordered(Stream, terminal), terminal \subseteq terminal', NEW o, Batch(o)
    PROVE  o \in Out /\ Ordered(delivered \o o.events, terminal')
<1>1. out \in Out /\ delivered \in Seq(Event)
  BY TypeParts DEF OutOK, StreamOK
<1>2. CASE o = out
  BY <1>1, <1>2 DEF Ordered, Stream
<1>3. ASSUME NEW r \in Responses, r \notin terminal, r \in terminal',
             o = EmitTerminalSafe(out, About("ResponseFinished", r))
      PROVE  o \in Out /\ Ordered(delivered \o o.events, terminal')
  <2> DEFINE e == About("ResponseFinished", r)
  <2>1. e \in Event /\ e.response = r
    BY Names DEF About
  <2> HIDE DEF e
  <2>2. o \in Out
    BY <1>1, <1>3, <2>1, EmitTerminalSafeType DEF e
  <2> QED
    BY <1>1, <1>3, <2>1, <2>2, OrderedEmit DEF e, Stream
<1> QED
  BY <1>2, <1>3 DEF Batch

\* Every step keeps the stream ordered.
LEMMA OrderedStep ==
    ASSUME TypeOK, TypeOK', Claims, Shape, Ordered(Stream, terminal)
    PROVE  Ordered(Stream, terminal)'
<1>0. /\ out \in Out /\ delivered \in Seq(Event) /\ out.events \in Seq(Event)
      /\ terminal \subseteq terminal' /\ terminal \subseteq Responses
      /\ terminal' \subseteq Responses
  BY TypeParts DEF OutOK, StreamOK, Out, Claims, CatalogueOK
<1>1. CASE Rests
  BY <1>0, <1>1 DEF Rests, Ordered, Stream
<1>2. CASE ConsumerTake
  <2> DEFINE q == out.events
  <2>1. q # <<>> /\ q \in Seq(Event) /\ out'.events = Tail(q) /\ terminal' = terminal
    BY <1>0, <1>2 DEF ConsumerTake, Popped, Out, catalogue
  <2>2. CASE delivered' = Append(delivered, Head(q))
    BY <1>0, <2>1, <2>2, ConcatTake DEF Stream
  <2>3. CASE delivered' = delivered
    BY <1>0, <2>1, <2>3, ThinDrop, OrderedThin DEF Stream
  <2> QED
    BY <1>2, <2>2, <2>3 DEF ConsumerTake
<1>3. ASSUME NEW e, Emits(e) PROVE Ordered(Stream, terminal)'
  <2>1. Ordered(delivered \o Put(out, e).events, terminal')
    BY <1>0, <1>3, OrderedEmit DEF Emits, Stream
  <2> QED
    BY <1>3, <2>1 DEF Emits, Stream
<1>4. CASE Ends
  <2>1. PICK o : /\ Batch(o)
                 /\ out' = o \/ \E t \in TerminalTypes : out' = EmitTerminalSafe(o, Plain(t))
    BY <1>4 DEF Ends
  <2>2. o \in Out /\ Ordered(delivered \o o.events, terminal')
    BY <1>0, <2>1, OrderedBatch
  <2>3. ASSUME NEW t \in TerminalTypes
        PROVE  Ordered(delivered \o EmitTerminalSafe(o, Plain(t)).events, terminal')
    <3> DEFINE e == Plain(t)
    <3>1. e \in Event /\ e.response \notin terminal' /\ e.type # "ResponseFinished"
      BY <1>0, Names, EventNames, NoneAssumption DEF Plain, TerminalTypes
    <3> HIDE DEF e
    <3>2. Ordered(delivered \o EmitTerminalSafe(o, e).events, terminal')
      BY <1>0, <2>2, <3>1, OrderedEmit
    <3> QED
      BY <3>2 DEF e
  <2> QED
    BY <1>4, <2>1, <2>2, <2>3 DEF Ends, Stream
<1> QED
  BY <1>1, <1>2, <1>3, <1>4 DEF Shape

\* An event about a known response, about none, or the one that introduces it.
LEMMA BegunAppend ==
    ASSUME NEW s \in Seq(Event), NEW K, Begun(s, K), NEW e \in Event, NEW K2,
           \/ e.response \in K \cup {None} /\ K2 = K
           \/ e = About("ResponseStarted", e.response) /\ K2 = K \cup {e.response}
    PROVE  Begun(Append(s, e), K2)
<1> DEFINE t == Append(s, e)
           n == Len(s)
<1>1. /\ n \in Nat /\ DOMAIN s = 1..n /\ DOMAIN t = 1..(n + 1)
      /\ \A i \in 1..n : t[i] = s[i]
      /\ t[n + 1] = e
  BY LenProperties, AppendProperties
<1> HIDE DEF t, n
<1>2. \A r \in K : \E i \in DOMAIN t : i \in 1..n /\ t[i] = About("ResponseStarted", r)
  BY <1>1 DEF Begun
<1>3. \A r \in K2 : \E i \in DOMAIN t : t[i] = About("ResponseStarted", r)
  BY <1>1, <1>2
<1>4. ASSUME NEW j \in DOMAIN t, t[j].response # None
      PROVE  \E i \in 1..j : t[i] = About("ResponseStarted", t[j].response)
  <2>1. CASE j \in 1..n
    <3>1. PICK i \in 1..j : s[i] = About("ResponseStarted", s[j].response)
      BY <1>1, <1>4, <2>1 DEF Begun
    <3>2. t[j] = s[j] /\ t[i] = s[i]
      BY <1>1, <2>1
    <3> QED
      BY <3>1, <3>2
  <2>2. CASE j = n + 1
    <3>1. t[j] = e
      BY <1>1, <2>2
    <3>2. CASE e.response \in K
      BY <1>1, <1>2, <2>2, <3>1, <3>2
    <3>3. CASE e = About("ResponseStarted", e.response)
      BY <1>1, <2>2, <3>1, <3>3
    <3> QED
      BY <1>4, <3>1, <3>2, <3>3
  <2> QED
    BY <1>1, <2>1, <2>2
<1>5. Begun(t, K2)
  BY <1>3, <1>4 DEF Begun
<1> QED
  BY <1>5 DEF t

\* A terminal batch starts the terminal sequence.
LEMMA BatchType ==
    ASSUME TypeOK, NEW o, Batch(o) PROVE o \in Out /\ (o = out \/ o.sequence)
<1>1. out \in Out
  BY TypeParts DEF OutOK
<1>2. \A r \in Responses : About("ResponseFinished", r) \in Event
  BY Names
<1>3. \A e \in Event : EmitTerminalSafe(out, e) \in Out /\ EmitTerminalSafe(out, e).sequence
  BY <1>1, Emitted, EmitTerminalSafeType
<1> QED
  BY <1>1, <1>2, <1>3 DEF Batch

\* Every step keeps every response begun, while no event is displaced or skipped.
LEMMA BegunStep ==
    ASSUME TypeOK, TerminalInv, Claims, current' => current, UNCHANGED current \/ ~ConsumerTake,
           Shape, current /\ ~out.sequence => Begun(Stream, Known)
    PROVE  (current /\ ~out.sequence => Begun(Stream, Known))'
<1> SUFFICES ASSUME current', ~out'.sequence PROVE Begun(Stream, Known)'
  OBVIOUS
<1>0. /\ out \in Out /\ delivered \in Seq(Event) /\ out.events \in Seq(Event) /\ current
  BY TypeParts DEF OutOK, StreamOK, Out
<1>1. CASE Rests
  BY <1>0, <1>1 DEF Rests, Stream, Known
<1>2. CASE ConsumerTake
  <2> DEFINE q == out.events
  <2>1. /\ q # <<>> /\ q \in Seq(Event) /\ out'.events = Tail(q) /\ Known' = Known
        /\ out'.sequence = out.sequence /\ delivered' = Append(delivered, Head(q))
    BY <1>0, <1>2 DEF ConsumerTake, Popped, Out, catalogue, Known
  <2>2. Stream' = Stream
    BY <1>0, <2>1, ConcatTake DEF Stream
  <2> QED
    BY <1>0, <2>1, <2>2
<1>3. ASSUME NEW e, Emits(e) PROVE Begun(Stream, Known)'
  <2>1. e \in Event /\ out'.events = Append(out.events, e) /\ out'.sequence = out.sequence
        /\ delivered' = delivered
    BY <1>0, <1>3, Emitted DEF Emits
  <2>2. Stream \in Seq(Event) /\ Stream' = Append(Stream, e) /\ Begun(Stream, Known)
    BY <1>0, <2>1, ConcatAppend, ConcatProperties DEF Stream
  <2>3. \/ e.response \in Known \cup {None} /\ Known' = Known
        \/ e = About("ResponseStarted", e.response) /\ Known' = Known \cup {e.response}
    <3>1. CASE responses' = responses /\ e.response \in Known \cup {None}
      BY <3>1 DEF Known
    <3>2. CASE /\ e.response \in Responses /\ e = About("ResponseStarted", e.response)
               /\ responses' = Append(responses, e.response)
      BY <3>2, AppendKnown
    <3> QED
      BY <1>3, <3>1, <3>2 DEF Emits
  <2>4. Begun(Append(Stream, e), Known')
    BY <2>1, <2>2, <2>3, BegunAppend
  <2> QED
    BY <2>2, <2>4
<1>4. CASE Ends
  <2>1. PICK o : /\ Batch(o)
                 /\ \/ published /\ out' = o
                    \/ \E t \in TerminalTypes : out' = EmitTerminalSafe(o, Plain(t))
    BY <1>4 DEF Ends
  <2>2. o \in Out /\ (o = out \/ o.sequence)
    BY <2>1, BatchType
  <2>3. \A t \in TerminalTypes : EmitTerminalSafe(o, Plain(t)).sequence
    BY <2>2, Emitted, Names, EventNames
  <2>4. out'.sequence
    BY <2>1, <2>2, <2>3 DEF TerminalInv
  <2> QED
    BY <2>4
<1> QED
  BY <1>1, <1>2, <1>3, <1>4 DEF Shape

\* The inductive invariant behind the order of the events.
OrderInv ==
    /\ Ordered(Stream, terminal)
    /\ current /\ ~out.sequence => Begun(Stream, Known)

\* Nothing about a response follows its ResponseFinished, and, unless an event was
\* displaced or skipped, nothing about it precedes its ResponseStarted, however the
\* provider orders and repeats its events.
THEOREM EventsOrdered == Spec => []ResponseOrder
<1>1. Init => OrderInv
  <2> SUFFICES ASSUME Init PROVE OrderInv
    OBVIOUS
  <2>1. Stream = <<>> /\ Known = {} /\ DOMAIN <<>> = {}
    BY DEF Init, Stream, Known
  <2> QED
    BY <2>1 DEF OrderInv, Ordered, Begun
<1>2. ASSUME TypeOK, TypeOK', TerminalInv, ClaimedInv, CatalogueInv, OrderInv, [Next]_vars
      PROVE  OrderInv'
  <2>1. Claims /\ Shape
    BY <1>2, StepClaims, StepShape
  <2>2. Ordered(Stream, terminal)'
    BY <1>2, <2>1, OrderedStep DEF OrderInv
  <2>3. (current' => current) /\ (UNCHANGED current \/ ~ConsumerTake)
    BY <2>1 DEF Claims, ConsumerTake
  <2>4. (current /\ ~out.sequence => Begun(Stream, Known))'
    BY <1>2, <2>1, <2>3, BegunStep DEF OrderInv
  <2> QED
    BY <2>2, <2>4 DEF OrderInv
<1>3. OrderInv => ResponseOrder
  BY DEF OrderInv, Ordered, Begun, ResponseOrder
<1> QED
  BY <1>1, <1>2, <1>3, TypeCorrect, TerminalInvariant, ClaimedInvariant, CatalogueInvariant,
     PTL DEF Spec

-----------------------------------------------------------------------------
(* The refinement of RealtimeStream.  Before the publication no terminal is in *)
(* the stream, afterwards one is, so the counts are decided by its type; and   *)
(* no step displaces or skips it.                                              *)

Counts == [type \in TerminalTypes |-> TerminalCount(type)]
HasType(s, t) == \E i \in DOMAIN s : s[i].type = t

\* The types of events in the stream.
LEMMA StreamHasType ==
    ASSUME NEW d \in Seq(Event), NEW q \in Seq(Event), NEW t
    PROVE  HasType(d \o q, t) <=> HasType(d, t) \/ HasType(q, t)
<1>1. /\ Len(d) \in Nat /\ Len(q) \in Nat
      /\ DOMAIN d = 1..Len(d) /\ DOMAIN q = 1..Len(q)
  BY LenProperties
<1>2. /\ DOMAIN (d \o q) = 1..(Len(d) + Len(q))
      /\ \A i \in 1..(Len(d) + Len(q)) :
            (d \o q)[i] = IF i <= Len(d) THEN d[i] ELSE q[i - Len(d)]
  BY ConcatElements
<1>3. ASSUME NEW i \in DOMAIN (d \o q), (d \o q)[i].type = t
      PROVE  HasType(d, t) \/ HasType(q, t)
  <2>1. CASE i <= Len(d)
    BY <1>1, <1>2, <1>3, <2>1 DEF HasType
  <2>2. CASE i > Len(d)
    <3>1. i - Len(d) \in DOMAIN q /\ q[i - Len(d)].type = t
      BY <1>1, <1>2, <1>3, <2>2
    <3> QED
      BY <3>1 DEF HasType
  <2> QED
    BY <1>1, <1>2, <2>1, <2>2
<1>4. ASSUME NEW i \in DOMAIN d, d[i].type = t PROVE HasType(d \o q, t)
  <2>1. i \in DOMAIN (d \o q) /\ (d \o q)[i] = d[i]
    BY <1>1, <1>2
  <2> QED
    BY <1>4, <2>1 DEF HasType
<1>5. ASSUME NEW i \in DOMAIN q, q[i].type = t PROVE HasType(d \o q, t)
  <2>1. i + Len(d) \in DOMAIN (d \o q) /\ (d \o q)[i + Len(d)] = q[i]
    BY <1>1, <1>2
  <2> QED
    BY <1>5, <2>1 DEF HasType
<1> QED
  BY <1>3, <1>4, <1>5 DEF HasType

\* Appending loses no type.
LEMMA AppendHasType ==
    ASSUME NEW s \in Seq(Event), NEW e \in Event
    PROVE  /\ \A t : HasType(s, t) => HasType(Append(s, e), t)
           /\ HasType(Append(s, e), e.type)
<1> DEFINE u == Append(s, e)
<1>1. /\ Len(s) \in Nat /\ DOMAIN s = 1..Len(s) /\ DOMAIN u = 1..(Len(s) + 1)
      /\ \A i \in 1..Len(s) : u[i] = s[i]
      /\ u[Len(s) + 1] = e
  BY LenProperties, AppendProperties
<1> HIDE DEF u
<1>2. (\A t : HasType(s, t) => HasType(u, t)) /\ HasType(u, e.type)
  BY <1>1 DEF HasType
<1> QED
  BY <1>2 DEF u

\* Taking the head loses no type but its own.
LEMMA TailHasType ==
    ASSUME NEW s \in Seq(Event), s # <<>>, NEW t, Head(s).type # t, HasType(s, t)
    PROVE  HasType(Tail(s), t)
<1> DEFINE u == Tail(s)
<1>1. /\ Len(s) \in Nat \ {0} /\ DOMAIN s = 1..Len(s) /\ u \in Seq(Event)
      /\ Len(u) = Len(s) - 1 /\ \A i \in 1..Len(u) : u[i] = s[i + 1]
  BY LenProperties, HeadTailProperties, EmptySeq
<1>2. DOMAIN u = 1..(Len(s) - 1)
  BY <1>1, LenProperties
<1> HIDE DEF u
<1>3. PICK i \in DOMAIN s : s[i].type = t
  BY DEF HasType
<1>4. i # 1
  BY <1>3
<1>5. i - 1 \in DOMAIN u /\ u[i - 1] = s[i]
  BY <1>1, <1>2, <1>4
<1>6. HasType(u, t)
  BY <1>3, <1>5 DEF HasType
<1> QED
  BY <1>6 DEF u

\* The stream has one terminal at most.
LEMMA StreamOneTerminal ==
    ASSUME TypeOK, TerminalInv PROVE AtMostOneTerminal(Stream)
<1> DEFINE d == delivered
           q == out.events
<1>0. d \in Seq(Event) /\ q \in Seq(Event)
  BY TypeParts DEF StreamOK, OutOK, Out
<1>1. /\ Len(d) \in Nat /\ Len(q) \in Nat
      /\ DOMAIN d = 1..Len(d) /\ DOMAIN q = 1..Len(q)
  BY <1>0, LenProperties
<1>2. /\ DOMAIN (d \o q) = 1..(Len(d) + Len(q))
      /\ \A i \in 1..(Len(d) + Len(q)) :
            (d \o q)[i] = IF i <= Len(d) THEN d[i] ELSE q[i - Len(d)]
  BY <1>0, ConcatElements
<1>3. /\ AtMostOneTerminal(d) /\ AtMostOneTerminal(q)
      /\ ~(HasTerminal(d) /\ HasTerminal(q))
  BY DEF TerminalInv, OneTerminal
<1> HIDE DEF d, q
<1>4. \A i \in DOMAIN (d \o q) :
         \/ i \in DOMAIN d /\ (d \o q)[i] = d[i]
         \/ i > Len(d) /\ i - Len(d) \in DOMAIN q /\ (d \o q)[i] = q[i - Len(d)]
  BY <1>1, <1>2
<1>5. ASSUME NEW i \in DOMAIN (d \o q), NEW j \in DOMAIN (d \o q),
             IsTerminal((d \o q)[i]), IsTerminal((d \o q)[j])
      PROVE  i = j
  <2>1. CASE i \in DOMAIN d /\ (d \o q)[i] = d[i]
    <3>1. HasTerminal(d)
      BY <1>5, <2>1 DEF HasTerminal
    <3>2. j \in DOMAIN d /\ (d \o q)[j] = d[j]
      BY <1>3, <1>4, <1>5, <3>1 DEF HasTerminal
    <3> QED
      BY <1>3, <1>5, <2>1, <3>2 DEF AtMostOneTerminal
  <2>2. CASE i > Len(d) /\ i - Len(d) \in DOMAIN q /\ (d \o q)[i] = q[i - Len(d)]
    <3>1. HasTerminal(q)
      BY <1>5, <2>2 DEF HasTerminal
    <3>2. j > Len(d) /\ j - Len(d) \in DOMAIN q /\ (d \o q)[j] = q[j - Len(d)]
      BY <1>3, <1>4, <1>5, <3>1 DEF HasTerminal
    <3>3. i - Len(d) = j - Len(d)
      BY <1>3, <1>5, <2>2, <3>2 DEF AtMostOneTerminal
    <3> QED
      BY <1>1, <1>2, <3>3
  <2> QED
    BY <1>4, <2>1, <2>2
<1> QED
  BY <1>5 DEF AtMostOneTerminal, Stream, d, q

\* The counts before the publication and after it.
Decided ==
    /\ ~published => Counts = TerminalPromise!NoTerminal
    /\ published => \E t \in TerminalTypes : HasType(Stream, t)
    /\ \A t \in TerminalTypes : HasType(Stream, t) =>
          Counts = [TerminalPromise!NoTerminal EXCEPT ![t] = 1]

\* TerminalInv decides the counts.
LEMMA CountsDecided == TypeOK /\ TerminalInv => Decided
<1> SUFFICES ASSUME TypeOK, TerminalInv PROVE Decided
  OBVIOUS
<1>0. delivered \in Seq(Event) /\ out.events \in Seq(Event)
  BY TypeParts DEF StreamOK, OutOK, Out
<1>1. published <=> \E t \in TerminalTypes : HasType(Stream, t)
  <2>1. \A s : HasTerminal(s) <=> \E t \in TerminalTypes : HasType(s, t)
    BY DEF HasTerminal, HasType, IsTerminal
  <2>2. \A t : HasType(Stream, t) <=> HasType(delivered, t) \/ HasType(out.events, t)
    BY <1>0, StreamHasType DEF Stream
  <2> QED
    BY <2>1, <2>2 DEF TerminalInv, OneTerminal
<1>2. ASSUME NEW t \in TerminalTypes, ~HasType(Stream, t) PROVE TerminalCount(t) = 0
  <2>1. {k \in DOMAIN Stream : Stream[k].type = t} = {}
    BY <1>2 DEF HasType
  <2> QED
    BY <2>1, FS_EmptySet DEF TerminalCount
<1>3. ASSUME NEW t \in TerminalTypes, HasType(Stream, t)
      PROVE  TerminalCount(t) = 1 /\ \A t2 \in TerminalTypes \ {t} : TerminalCount(t2) = 0
  <2>1. PICK i \in DOMAIN Stream : Stream[i].type = t
    BY <1>3 DEF HasType
  <2>2. \A j \in DOMAIN Stream : Stream[j].type \in TerminalTypes => j = i
    BY <2>1, StreamOneTerminal DEF AtMostOneTerminal, IsTerminal
  <2>3. {k \in DOMAIN Stream : Stream[k].type = t} = {i}
    BY <2>1, <2>2
  <2>4. \A t2 \in TerminalTypes \ {t} : ~HasType(Stream, t2)
    BY <2>1, <2>2 DEF HasType
  <2> QED
    BY <1>2, <2>3, <2>4, FS_Singleton DEF TerminalCount
<1>4. TerminalPromise!NoTerminal = [t \in TerminalTypes |-> 0]
  BY DEF TerminalPromise!NoTerminal
<1>5. ~published => Counts = TerminalPromise!NoTerminal
  BY <1>1, <1>2, <1>4 DEF Counts
<1>6. ASSUME NEW t \in TerminalTypes, HasType(Stream, t)
      PROVE  Counts = [TerminalPromise!NoTerminal EXCEPT ![t] = 1]
  BY <1>3, <1>4, <1>6 DEF Counts
<1> QED
  BY <1>1, <1>5, <1>6 DEF Decided

\* The terminal types in the stream after an emission.
LEMMA EmitHasType ==
    ASSUME NEW d \in Seq(Event), NEW o \in Out, NEW e \in Event
    PROVE  /\ HasType(d \o EmitTerminalSafe(o, e).events, e.type)
           /\ o.sequence => \A t : HasType(d \o o.events, t) =>
                               HasType(d \o EmitTerminalSafe(o, e).events, t)
           /\ \A t : HasType(d \o o.events, t) => HasType(d \o Put(o, e).events, t)
<1>1. /\ o.events \in Seq(Event) /\ <<>> \in Seq(Event)
      /\ Append(o.events, e) \in Seq(Event) /\ Append(<<>>, e) \in Seq(Event)
  BY EmptySeq, AppendProperties DEF Out
<1>2. /\ HasType(Append(o.events, e), e.type) /\ HasType(Append(<<>>, e), e.type)
      /\ \A t : HasType(o.events, t) => HasType(Append(o.events, e), t)
  BY <1>1, AppendHasType
<1>3. /\ \A t : HasType(d \o o.events, t) => HasType(d \o Append(o.events, e), t)
      /\ HasType(d \o Append(o.events, e), e.type) /\ HasType(d \o Append(<<>>, e), e.type)
  BY <1>1, <1>2, StreamHasType
<1> QED
  BY <1>3, Emitted

\* No step takes a published terminal out of the stream.
LEMMA TerminalStays ==
    ASSUME TypeOK, TerminalInv, published, Shape, NEW t \in TerminalTypes, HasType(Stream, t)
    PROVE  HasType(Stream, t)'
<1>0. /\ out \in Out /\ delivered \in Seq(Event) /\ out.events \in Seq(Event)
      /\ out.sequence
  BY TypeParts DEF OutOK, StreamOK, Out, TerminalInv
<1>1. CASE Rests
  BY <1>1 DEF Rests, HasType, Stream
<1>2. CASE ConsumerTake
  <2> DEFINE q == out.events
  <2>1. /\ q # <<>> /\ q \in Seq(Event) /\ out'.events = Tail(q) /\ Tail(q) \in Seq(Event)
    BY <1>0, <1>2, HeadTailProperties DEF ConsumerTake, Popped, Out
  <2>2. CASE delivered' = Append(delivered, Head(q))
    BY <1>0, <2>1, <2>2, ConcatTake DEF Stream
  <2>3. CASE delivered' = delivered /\ Head(q).type \notin TerminalTypes
    <3>1. HasType(delivered, t) \/ HasType(q, t)
      BY <1>0, StreamHasType DEF Stream
    <3>2. HasType(delivered, t) \/ HasType(Tail(q), t)
      BY <2>1, <2>3, <3>1, TailHasType
    <3>3. HasType(delivered \o Tail(q), t)
      BY <1>0, <2>1, <3>2, StreamHasType
    <3> QED
      BY <2>1, <2>3, <3>3 DEF Stream
  <2> QED
    BY <1>2, <2>2, <2>3 DEF ConsumerTake
<1>3. ASSUME NEW e, Emits(e) PROVE HasType(Stream, t)'
  <2>1. HasType(delivered \o Put(out, e).events, t)
    BY <1>0, <1>3, EmitHasType DEF Emits, Stream
  <2> QED
    BY <1>3, <2>1 DEF Emits, Stream
<1>4. CASE Ends
  <2>1. PICK o : Batch(o) /\ out' = o
    BY <1>4 DEF Ends
  <2>2. \A r \in Responses : About("ResponseFinished", r) \in Event
    BY Names
  <2>3. HasType(delivered \o o.events, t)
    BY <1>0, <2>1, <2>2, EmitHasType DEF Batch, Stream
  <2> QED
    BY <1>4, <2>1, <2>3 DEF Ends, Stream
<1> QED
  BY <1>1, <1>2, <1>3, <1>4 DEF Shape

\* Every step is a step of RealtimeStream, or leaves the claim and the terminals alone.
LEMMA RefinementStep ==
    ASSUME TypeOK, TypeOK', TerminalInv, TerminalInv', Claims, Shape
    PROVE  TerminalPromise!Next \/ UNCHANGED <<owner, Counts>>
<1>0. owner' \in Initiators \cup {None}
  BY TypeParts DEF ClaimOK
<1>1. Decided
  BY CountsDecided
<1>2. Decided'
  BY CountsDecided, PTL
<1>3. CASE published
  <2>1. PICK t \in TerminalTypes : HasType(Stream, t)
    BY <1>1, <1>3 DEF Decided
  <2>2. HasType(Stream, t)'
    BY <1>3, <2>1, TerminalStays
  <2>3. Counts = [TerminalPromise!NoTerminal EXCEPT ![t] = 1]
    BY <1>1, <2>1 DEF Decided
  <2>4. Counts' = [TerminalPromise!NoTerminal EXCEPT ![t] = 1]
    BY <1>2, <2>2 DEF Decided, TerminalPromise!NoTerminal
  <2>5. owner' = owner
    BY <1>3 DEF TerminalInv, Claims
  <2> QED
    BY <2>3, <2>4, <2>5
<1>4. CASE ~published /\ ~published'
  <2>1. Counts = TerminalPromise!NoTerminal /\ Counts' = TerminalPromise!NoTerminal
    BY <1>1, <1>2, <1>4 DEF Decided, TerminalPromise!NoTerminal
  <2>2. CASE owner' # owner
    <3>1. owner = None /\ owner' \in Initiators
      BY <1>0, <2>2 DEF Claims
    <3>2. TerminalPromise!Claim
      BY <2>1, <3>1 DEF TerminalPromise!Claim, Counts
    <3> QED
      BY <3>2 DEF TerminalPromise!Next
  <2> QED
    BY <2>1, <2>2
<1>5. CASE ~published /\ published'
  <2>1. Counts = TerminalPromise!NoTerminal
    BY <1>1, <1>5 DEF Decided
  <2>2. /\ Ends /\ out \in Out /\ delivered \in Seq(Event)
    BY <1>5, TypeParts DEF Shape, Rests, Emits, ConsumerTake, claim, OutOK, StreamOK
  <2>a. PICK o : /\ Batch(o)
                 /\ \E t \in TerminalTypes :
                       /\ (owner # None => owner' = owner) /\ owner' \in Initiators
                       /\ Matches(owner', Plain(t)) /\ out' = EmitTerminalSafe(o, Plain(t))
    BY <1>5, <2>2 DEF Ends
  <2>3. PICK t \in TerminalTypes :
           /\ (owner # None => owner' = owner) /\ owner' \in Initiators
           /\ Matches(owner', Plain(t)) /\ out' = EmitTerminalSafe(o, Plain(t))
    BY <2>a
  <2>4. Plain(t) \in Event /\ Plain(t).type = t /\ o \in Out
    BY <2>a, Names, EventNames, BatchType DEF Plain
  <2>5. HasType(delivered \o EmitTerminalSafe(o, Plain(t)).events, t)
    BY <2>2, <2>4, EmitHasType
  <2>6. HasType(Stream, t)'
    BY <2>2, <2>3, <2>5 DEF Ends, Stream
  <2>7. Counts' = [TerminalPromise!NoTerminal EXCEPT ![t] = 1]
    BY <1>2, <2>6 DEF Decided, TerminalPromise!NoTerminal
  <2>8. TerminalPromise!Agrees(owner', t)
    BY <2>3, <2>4 DEF Matches, TerminalPromise!Agrees
  <2>9. TerminalPromise!Publish(t)
    BY <2>1, <2>3, <2>7, <2>8 DEF TerminalPromise!Publish, Counts
  <2> QED
    BY <2>3, <2>9 DEF TerminalPromise!Next
<1> QED
  BY <1>3, <1>4, <1>5

\* The session keeps the promise of RealtimeStream, apart from its fairness: the claim
\* never changes hands, and one terminal that agrees with it enters the stream, once.
THEOREM KeepsTerminalPromise == Spec => TerminalPromise!Safety
<1>1. Init => TerminalPromise!Init
  <2> SUFFICES ASSUME Init PROVE TerminalPromise!Init
    OBVIOUS
  <2>1. owner = None /\ Stream = <<>> /\ DOMAIN <<>> = {}
    BY DEF Init, Stream
  <2>2. \A t : {k \in DOMAIN Stream : Stream[k].type = t} = {}
    BY <2>1
  <2>3. \A t : TerminalCount(t) = 0
    BY <2>2, FS_EmptySet DEF TerminalCount
  <2> QED
    BY <2>1, <2>3 DEF TerminalPromise!Init, TerminalPromise!NoTerminal
<1>2. ASSUME TypeOK, TypeOK', TerminalInv, TerminalInv', ClaimedInv, CatalogueInv, [Next]_vars
      PROVE  [TerminalPromise!Next]_TerminalPromise!vars
  <2>1. TerminalPromise!Next \/ UNCHANGED <<owner, Counts>>
    BY <1>2, RefinementStep, StepClaims, StepShape
  <2> QED
    BY <2>1 DEF TerminalPromise!vars, Counts
<1> QED
  BY <1>1, <1>2, TypeCorrect, TerminalInvariant, ClaimedInvariant, CatalogueInvariant, PTL
  DEF Spec, TerminalPromise!Safety

-----------------------------------------------------------------------------
(* The bound of the output queue.                                             *)
(*                                                                            *)
(* The terminal sequence ignores the limits, so the bound needs that it adds  *)
(* at most two events to a queue within them: a batch of two at once, or one  *)
(* terminal of a failing write and one ResponseFinished of the receiver that  *)
(* did not notice yet.  The first one displaces a full queue.                 *)

QueueInv ==
    /\ out.frames = Len(out.events) /\ Len(out.events) <= OutputFrames + 1
    /\ out.sequence <=> published
    /\ ~published => Len(out.events) <= OutputFrames /\ out.bytes <= OutputBytes
    /\ published /\ receiver = "receive" /\ ~closing => Len(out.events) <= OutputFrames

\* The frames of the queue after an emission.
LEMMA EmitFrames ==
    ASSUME NEW o \in Out, o.frames = Len(o.events), NEW e \in Event
    PROVE  LET p == Put(o, e)
               t == EmitTerminalSafe(o, e)
           IN  /\ p.frames = Len(p.events) /\ Len(p.events) = Len(o.events) + 1
               /\ p.bytes = o.bytes + Size(e) /\ p.sequence = o.sequence
               /\ t.frames = Len(t.events) /\ t.sequence
               /\ o.sequence => Len(t.events) = Len(o.events) + 1
               /\ ~o.sequence => Len(t.events) <= OutputFrames
<1>1. ASSUME NEW x \in Out, x.frames = Len(x.events)
      PROVE  /\ Put(x, e).frames = Len(Put(x, e).events)
             /\ Len(Put(x, e).events) = Len(x.events) + 1
             /\ Put(x, e).bytes = x.bytes + Size(e) /\ Put(x, e).sequence = x.sequence
  <2>1. /\ x.events \in Seq(Event) /\ Put(x, e).events = Append(x.events, e)
        /\ Put(x, e).frames = x.frames + 1
        /\ Put(x, e).bytes = x.bytes + Size(e) /\ Put(x, e).sequence = x.sequence
    BY DEF Put, Out
  <2>2. Len(Append(x.events, e)) = Len(x.events) + 1
    BY <2>1, AppendProperties
  <2> QED
    BY <1>1, <2>1, <2>2
<1> DEFINE b == [o EXCEPT !.sequence = TRUE]
<1>2. b \in Out /\ b.events = o.events /\ b.sequence = TRUE /\ b.frames = o.frames
  BY DEF Out
<1>3. /\ Drained(b) \in Out /\ Drained(b).events = <<>> /\ Drained(b).sequence = TRUE
      /\ Drained(b).frames = 0
  <2>1. Drained(b) \in Out
    BY <1>2, DrainedType
  <2> QED
    BY <1>2, <2>1 DEF Drained, Out
<1>4. Len(<<>>) = 0 /\ OutputFrames \in Nat \ {0} /\ o.frames \in Nat
  BY LimitAssumption DEF Out
<1>5. CASE o.sequence \/ Fits(o, e)
  <2>1. EmitTerminalSafe(o, e) = Put(b, e)
    BY <1>5 DEF EmitTerminalSafe
  <2>2. /\ Put(b, e).frames = Len(Put(b, e).events) /\ Put(b, e).sequence
        /\ Len(Put(b, e).events) = Len(o.events) + 1
    BY <1>1, <1>2
  <2>3. ~o.sequence => Len(o.events) + 1 <= OutputFrames
    BY <1>5 DEF Fits
  <2> QED
    BY <1>1, <2>1, <2>2, <2>3
<1>6. CASE ~(o.sequence \/ Fits(o, e))
  <2>1. EmitTerminalSafe(o, e) = Put(Drained(b), e)
    BY <1>6 DEF EmitTerminalSafe
  <2>2. /\ Drained(b) \in Out /\ Drained(b).frames = Len(Drained(b).events)
        /\ Len(Drained(b).events) = 0 /\ Drained(b).sequence = TRUE
    BY <1>3, <1>4
  <2> DEFINE d == Drained(b)
             p == Put(d, e)
  <2>3. /\ p.frames = Len(p.events) /\ Len(p.events) = Len(d.events) + 1
        /\ p.sequence = d.sequence
    <3> HIDE DEF d
    <3>1. d \in Out /\ d.frames = Len(d.events)
      BY <2>2 DEF d
    <3> QED
      BY <1>1, <3>1
  <2> HIDE DEF d, p
  <2>4. d.sequence = TRUE /\ Len(d.events) = 0
    BY <2>2 DEF d
  <2>5. p.frames = Len(p.events) /\ Len(p.events) = 1 /\ p.sequence = TRUE
    BY <2>3, <2>4
  <2>6. EmitTerminalSafe(o, e) = p
    BY <2>1 DEF p, d
  <2>7. Len(p.events) <= OutputFrames /\ ~o.sequence
    BY <1>4, <1>6, <2>5
  <2>8. LET t == EmitTerminalSafe(o, e)
        IN  /\ t.frames = Len(t.events) /\ t.sequence
            /\ o.sequence => Len(t.events) = Len(o.events) + 1
            /\ ~o.sequence => Len(t.events) <= OutputFrames
    BY <2>5, <2>6, <2>7
  <2> QED
    BY <1>1, <2>8
<1> QED
  BY <1>5, <1>6

\* Every step keeps the bound.
LEMMA QueueStep ==
    ASSUME TypeOK, TypeOK', Claims, Shape, TerminalInv, QueueInv
    PROVE  QueueInv'
<1>0. /\ out \in Out /\ out.events \in Seq(Event) /\ out.bytes \in Nat /\ out.frames \in Nat
      /\ Len(out.events) \in Nat /\ OutputFrames \in Nat \ {0} /\ OutputBytes \in Nat
      /\ out' \in Out /\ out'.events \in Seq(Event) /\ Len(out'.events) \in Nat
  BY TypeParts, LimitAssumption, LenProperties DEF OutOK, Out
<1>1. /\ published => published' /\ owner # None
      /\ closing => closing'
      /\ published /\ receiver' = "receive" => receiver = "receive"
  BY DEF Claims, TerminalInv
<1>2. CASE Rests
  BY <1>0, <1>1, <1>2 DEF Rests, QueueInv
<1>3. CASE ConsumerTake
  <2>1. /\ out.events # <<>> /\ out'.events = Tail(out.events) /\ published' = published
        /\ out'.sequence = out.sequence /\ out'.frames = Less(out.frames, 1)
        /\ out'.bytes = Less(out.bytes, Size(Head(out.events)))
    BY <1>0, <1>3 DEF ConsumerTake, Popped, Out, claim
  <2>2. Len(out'.events) = Len(out.events) - 1 /\ Size(Head(out.events)) \in Nat
    BY <1>0, <2>1, HeadTailProperties, SizeType
  <2>3. out'.frames = Len(out'.events) /\ out'.bytes <= out.bytes
    BY <1>0, <2>1, <2>2 DEF Less, QueueInv
  <2> QED
    BY <1>0, <1>1, <2>1, <2>2, <2>3 DEF QueueInv, Out
<1>4. ASSUME NEW e, Emits(e) PROVE QueueInv'
  <2>1. /\ out'.frames = Len(out'.events) /\ Len(out'.events) = Len(out.events) + 1
        /\ out'.bytes = out.bytes + Size(e) /\ out'.sequence = out.sequence
        /\ published' = published
    BY <1>0, <1>4, EmitFrames DEF Emits, QueueInv
  <2>2. Len(out.events) + 1 <= OutputFrames /\ out.bytes + Size(e) <= OutputBytes
    BY <1>4 DEF Emits, Fits, QueueInv
  <2> QED
    BY <1>0, <2>1, <2>2 DEF QueueInv
<1>5. CASE Ends
  <2>1. PICK o : /\ Batch(o) /\ (o = out \/ receiver' # "receive" \/ closing')
                 /\ \/ /\ published /\ out' = o /\ published' = published
                       /\ o = out \/ (receiver = "receive" /\ ~closing)
                    \/ /\ ~published /\ published'
                       /\ \E t \in TerminalTypes : out' = EmitTerminalSafe(o, Plain(t))
    BY <1>5 DEF Ends
  <2>2. o \in Out
    BY <2>1, BatchType
  <2>3. CASE o = out
    <3>1. CASE published
      BY <1>0, <1>1, <2>1, <2>3, <3>1 DEF QueueInv
    <3>2. CASE ~published
      <4>1. PICK t \in TerminalTypes : out' = EmitTerminalSafe(out, Plain(t))
        BY <2>1, <2>3, <3>2
      <4>2. Plain(t) \in Event
        BY Names, EventNames
      <4>3. out'.frames = Len(out'.events) /\ out'.sequence /\ Len(out'.events) <= OutputFrames
        BY <1>0, <3>2, <4>1, <4>2, EmitFrames DEF QueueInv
      <4> QED
        BY <1>0, <2>1, <3>2, <4>3 DEF QueueInv
    <3> QED
      BY <3>1, <3>2
  <2>4. CASE o # out
    <3>1. PICK r \in Responses : o = EmitTerminalSafe(out, About("ResponseFinished", r))
      BY <2>1, <2>4 DEF Batch
    <3>2. About("ResponseFinished", r) \in Event
      BY Names
    <3>3. /\ o.frames = Len(o.events) /\ o.sequence
          /\ out.sequence => Len(o.events) = Len(out.events) + 1
          /\ ~out.sequence => Len(o.events) <= OutputFrames
      BY <1>0, <3>1, <3>2, EmitFrames DEF QueueInv
    <3>4. CASE published
      BY <1>0, <2>1, <2>4, <3>3, <3>4 DEF QueueInv
    <3>5. CASE ~published
      <4>1. PICK t \in TerminalTypes : out' = EmitTerminalSafe(o, Plain(t))
        BY <2>1, <3>5
      <4>2. Plain(t) \in Event
        BY Names, EventNames
      <4>3. /\ out'.frames = Len(out'.events) /\ out'.sequence
            /\ Len(out'.events) = Len(o.events) + 1
        BY <2>2, <3>3, <4>1, <4>2, EmitFrames
      <4>4. Len(o.events) <= OutputFrames
        BY <3>3, <3>5 DEF QueueInv
      <4>5. Len(out'.events) <= OutputFrames + 1
        <5>1. Len(o.events) \in Nat
          BY <2>2, LenProperties DEF Out
        <5> QED
          BY <1>0, <4>3, <4>4, <5>1
      <4> QED
        BY <1>0, <2>1, <2>4, <3>5, <4>3, <4>5 DEF QueueInv
    <3> QED
      BY <3>4, <3>5
  <2> QED
    BY <2>3, <2>4
<1> QED
  BY <1>2, <1>3, <1>4, <1>5 DEF Shape

\* The queue never holds more than one event above its limit, although the terminal
\* sequence ignores the limits, and its frame counter never drifts.
THEOREM QueueStaysBounded == Spec => []QueueBounded
<1>1. Init => QueueInv
  <2> SUFFICES ASSUME Init PROVE QueueInv
    OBVIOUS
  <2>1. /\ out.events = <<>> /\ out.frames = 0 /\ out.bytes = 0 /\ ~out.sequence /\ ~published
        /\ Len(<<>>) = 0 /\ OutputFrames \in Nat /\ OutputBytes \in Nat
    BY LimitAssumption DEF Init
  <2> QED
    BY <2>1 DEF QueueInv
<1>2. ASSUME TypeOK, TypeOK', TerminalInv, ClaimedInv, CatalogueInv, QueueInv, [Next]_vars
      PROVE  QueueInv'
  BY <1>2, QueueStep, StepClaims, StepShape
<1>3. QueueInv => QueueBounded
  BY DEF QueueInv, QueueBounded
<1> QED
  BY <1>1, <1>2, <1>3, TypeCorrect, TerminalInvariant, ClaimedInvariant, CatalogueInvariant,
     PTL DEF Spec

-----------------------------------------------------------------------------
(* Tombstones. *)

OutputAt(s, r) == {k \in DOMAIN s : s[k].response = r /\ s[k].type \in OutputTypes}

\* The output events of a response in a sequence are finitely many.
LEMMA OutputFinite ==
    ASSUME NEW s \in Seq(Event), NEW r
    PROVE  /\ IsFiniteSet(OutputAt(s, r)) /\ OutputCount(s, r) = Cardinality(OutputAt(s, r))
           /\ OutputCount(s, r) \in Nat
<1>1. Len(s) \in Nat /\ DOMAIN s = 1..Len(s)
  BY LenProperties
<1>2. IsFiniteSet(1..Len(s))
  BY <1>1, FS_Interval
<1>3. OutputAt(s, r) \subseteq 1..Len(s)
  BY <1>1 DEF OutputAt
<1>4. IsFiniteSet(OutputAt(s, r))
  BY <1>2, <1>3, FS_Subset
<1>5. OutputCount(s, r) = Cardinality(OutputAt(s, r))
  BY DEF OutputCount, OutputAt
<1> QED
  BY <1>4, <1>5, FS_CardinalityType

\* Another event than output of r does not add to the output of r.
LEMMA OutputAppend ==
    ASSUME NEW s \in Seq(Event), NEW r, NEW e \in Event,
           e.response # r \/ e.type \notin OutputTypes
    PROVE  OutputCount(Append(s, e), r) = OutputCount(s, r)
<1> DEFINE u == Append(s, e)
<1>1. /\ Len(s) \in Nat /\ DOMAIN s = 1..Len(s) /\ DOMAIN u = 1..(Len(s) + 1)
      /\ \A i \in 1..Len(s) : u[i] = s[i]
      /\ u[Len(s) + 1] = e
  BY LenProperties, AppendProperties
<1> HIDE DEF u
<1>2. OutputAt(u, r) = OutputAt(s, r)
  BY <1>1 DEF OutputAt
<1> QED
  BY <1>2 DEF u, OutputCount, OutputAt

\* Taking the head of the queue does not add to it either.
LEMMA OutputTail ==
    ASSUME NEW s \in Seq(Event), s # <<>>, NEW r
    PROVE  OutputCount(Tail(s), r) <= OutputCount(s, r)
<1> DEFINE u == Tail(s)
<1>1. /\ Len(s) \in Nat \ {0} /\ DOMAIN s = 1..Len(s) /\ u \in Seq(Event)
      /\ Len(u) = Len(s) - 1 /\ \A i \in 1..Len(u) : u[i] = s[i + 1]
  BY LenProperties, HeadTailProperties, EmptySeq
<1>2. DOMAIN u = 1..(Len(s) - 1)
  BY <1>1, LenProperties
<1> HIDE DEF u
<1> DEFINE f == [k \in OutputAt(u, r) |-> k + 1]
<1>3. f \in Injection(OutputAt(u, r), OutputAt(s, r))
  <2>1. \A k \in OutputAt(u, r) : k \in Nat /\ k + 1 \in OutputAt(s, r)
    BY <1>1, <1>2 DEF OutputAt
  <2>2. f \in [OutputAt(u, r) -> OutputAt(s, r)]
    BY <2>1
  <2>3. \A a, b \in OutputAt(u, r) : f[a] = f[b] => a = b
    BY <2>1
  <2> HIDE DEF f
  <2> QED
    BY <2>2, <2>3, Fun_IsInj
<1>4. IsFiniteSet(OutputAt(s, r))
  BY OutputFinite
<1>5. Cardinality(OutputAt(u, r)) <= Cardinality(OutputAt(s, r))
  <2> HIDE DEF f
  <2> QED BY <1>3, <1>4, FS_Injection
<1> QED
  BY <1>1, <1>5, OutputFinite DEF u

\* Nor does the terminal sequence, with or without displacement.
LEMMA OutputTerminalSafe ==
    ASSUME NEW o \in Out, NEW r, NEW e \in Event, e.type \notin OutputTypes
    PROVE  OutputCount(EmitTerminalSafe(o, e).events, r) <= OutputCount(o.events, r)
<1>1. o.events \in Seq(Event) /\ <<>> \in Seq(Event)
  BY EmptySeq DEF Out
<1>2. /\ OutputCount(Append(o.events, e), r) = OutputCount(o.events, r)
      /\ OutputCount(Append(<<>>, e), r) = OutputCount(<<>>, r)
      /\ OutputCount(o.events, r) \in Nat
  BY <1>1, OutputAppend, OutputFinite
<1>3. OutputCount(<<>>, r) = 0
  <2>1. {k \in DOMAIN <<>> : <<>>[k].response = r /\ <<>>[k].type \in OutputTypes} = {}
    OBVIOUS
  <2> QED
    BY <2>1, FS_EmptySet DEF OutputCount
<1>4. \/ EmitTerminalSafe(o, e).events = Append(o.events, e)
      \/ EmitTerminalSafe(o, e).events = Append(<<>>, e)
  BY Emitted
<1>5. CASE EmitTerminalSafe(o, e).events = Append(o.events, e)
  BY <1>2, <1>5
<1>6. CASE EmitTerminalSafe(o, e).events = Append(<<>>, e)
  <2>1. OutputCount(EmitTerminalSafe(o, e).events, r) = 0
    BY <1>2, <1>3, <1>6
  <2> QED
    BY <1>2, <2>1
<1> QED
  BY <1>4, <1>5, <1>6

\* No step adds output of a finished or cancelled response to the queue.
LEMMA SilentStep ==
    ASSUME TypeOK, Shape, NEW r \in terminal \cup cancelled
    PROVE  OutputCount(out'.events, r) <= OutputCount(out.events, r)
<1>0. out \in Out /\ out.events \in Seq(Event) /\ OutputCount(out.events, r) \in Nat
  BY TypeParts, OutputFinite DEF OutOK, Out
<1>1. CASE Rests
  BY <1>0, <1>1 DEF Rests
<1>2. CASE ConsumerTake
  <2>1. out.events # <<>> /\ out'.events = Tail(out.events)
    BY <1>0, <1>2 DEF ConsumerTake, Popped, Out
  <2> QED
    BY <1>0, <2>1, OutputTail
<1>3. ASSUME NEW e, Emits(e) PROVE OutputCount(out'.events, r) <= OutputCount(out.events, r)
  <2>1. e \in Event /\ (e.response # r \/ e.type \notin OutputTypes)
    BY <1>3 DEF Emits
  <2>2. out'.events = Append(out.events, e)
    BY <1>0, <1>3, <2>1, Emitted DEF Emits
  <2> QED
    BY <1>0, <2>1, <2>2, OutputAppend
<1>4. CASE Ends
  <2>1. PICK o : /\ Batch(o)
                 /\ out' = o \/ \E t \in TerminalTypes : out' = EmitTerminalSafe(o, Plain(t))
    BY <1>4 DEF Ends
  <2>2. o \in Out /\ OutputCount(o.events, r) \in Nat
    BY <2>1, BatchType, OutputFinite DEF Out
  <2>3. \A x \in Responses : /\ About("ResponseFinished", x) \in Event
                             /\ About("ResponseFinished", x).type \notin OutputTypes
    BY Names DEF About, OutputTypes
  <2>4. OutputCount(o.events, r) <= OutputCount(out.events, r)
    BY <1>0, <2>1, <2>3, OutputTerminalSafe DEF Batch
  <2>5. \A t \in TerminalTypes : Plain(t) \in Event /\ Plain(t).type \notin OutputTypes
    BY Names, EventNames DEF Plain, OutputTypes, TerminalTypes
  <2>6. ASSUME NEW t \in TerminalTypes, out' = EmitTerminalSafe(o, Plain(t))
        PROVE  OutputCount(out'.events, r) <= OutputCount(out.events, r)
    <3>1. OutputCount(out'.events, r) <= OutputCount(o.events, r)
      BY <2>2, <2>5, <2>6, OutputTerminalSafe
    <3>2. OutputCount(out'.events, r) \in Nat
      BY <2>2, <2>5, <2>6, EmitTerminalSafeType, OutputFinite DEF Out
    <3> QED
      BY <1>0, <2>2, <2>4, <3>1, <3>2
  <2> QED
    BY <2>1, <2>4, <2>6
<1> QED
  BY <1>1, <1>2, <1>3, <1>4 DEF Shape

\* Cancelled and finished responses are silent from then on, whatever deltas the
\* provider still sends for them.
THEOREM TombstonesStaySilent == Spec => TombstonesSilence
<1>1. ASSUME TypeOK, TerminalInv, ClaimedInv, CatalogueInv, [Next]_vars
      PROVE  [\A r \in terminal \cup cancelled :
                OutputCount(out'.events, r) <= OutputCount(out.events, r)]_vars
  BY <1>1, SilentStep, StepShape
<1> QED
  BY <1>1, TypeCorrect, TerminalInvariant, ClaimedInvariant, CatalogueInvariant, PTL
  DEF Spec, TombstonesSilence

-----------------------------------------------------------------------------
(* The byte counter of the output queue.                                      *)
(*                                                                            *)
(* Bytes adds along a recursive function.  A least length without such a      *)
(* function, or a least index where two of them part, would be a              *)
(* counterexample; the well-order of the naturals says there is none.         *)

\* g adds up the sizes of the first n events of s.
Adds(g, s, n) == g = [k \in 0..n |-> IF k = 0 THEN 0 ELSE g[k - 1] + Size(s[k])]

\* A set of naturals that is not empty has a least element.
LEMMA LeastNatural ==
    ASSUME NEW S \in SUBSET Nat, S # {}
    PROVE  \E x \in S : \A y \in S : x <= y
<1>1. PICK x \in S : \A y \in S : ~ (<<y, x>> \in OpToRel(<, Nat))
  BY WFMin, NatLessThanWellFounded
<1>2. \A y \in S : ~ (y < x)
  BY <1>1 DEF OpToRel
<1> QED
  BY <1>2

\* The recursion of Bytes is well defined, whatever the length of the queue.
LEMMA AddsExists ==
    ASSUME NEW s, NEW n \in Nat
    PROVE  \E g : Adds(g, s, n)
<1> DEFINE Bad == {m \in Nat : ~ \E g : Adds(g, s, m)}
<1>1. ASSUME Bad # {} PROVE FALSE
  <2>1. PICK m \in Bad : \A y \in Bad : m <= y
    <3> HIDE DEF Bad
    <3>1. Bad \in SUBSET Nat
      BY DEF Bad
    <3> QED
      BY <1>1, <3>1, LeastNatural
  <2>2. CASE m = 0
    <3>1. Adds([k \in 0..0 |-> 0], s, 0)
      BY DEF Adds
    <3> QED
      BY <2>2, <3>1
  <2>3. CASE m # 0
    <3>1. m - 1 \in Nat /\ m - 1 \notin Bad
      BY <2>1, <2>3
    <3>2. PICK g : Adds(g, s, m - 1)
      BY <3>1
    <3> DEFINE h == [k \in 0..m |-> IF k = m THEN g[m - 1] + Size(s[m]) ELSE g[k]]
    <3>3. ASSUME NEW k \in 0..m
          PROVE  h[k] = IF k = 0 THEN 0 ELSE h[k - 1] + Size(s[k])
      BY <2>3, <3>2 DEF Adds
    <3>4. Adds(h, s, m)
      BY <3>3 DEF Adds
    <3> QED
      BY <3>4
  <2> QED
    BY <2>2, <2>3
<1> QED
  BY <1>1

\* Bytes is the last value of such a function.
LEMMA BytesAdds ==
    ASSUME NEW s \in Seq(Event)
    PROVE  \E g : Adds(g, s, Len(s)) /\ Bytes(s) = g[Len(s)]
<1> DEFINE g == CHOOSE f : Adds(f, s, Len(s))
<1>1. Adds(g, s, Len(s))
  <2>1. Len(s) \in Nat
    BY LenProperties
  <2>2. \E f : Adds(f, s, Len(s))
    BY <2>1, AddsExists
  <2> QED
    BY <2>2
<1>2. Bytes(s) = g[Len(s)]
  BY DEF Bytes, Adds
<1> QED
  BY <1>1, <1>2

\* The function adds one size per index.
LEMMA AddsStep ==
    ASSUME NEW s, NEW n \in Nat, NEW g, Adds(g, s, n)
    PROVE  /\ g[0] = 0
           /\ \A k \in 1..n : g[k] = g[k - 1] + Size(s[k])
<1>1. \A k \in 0..n : g[k] = IF k = 0 THEN 0 ELSE g[k - 1] + Size(s[k])
  BY DEF Adds
<1>2. ASSUME NEW k \in 1..n PROVE g[k] = g[k - 1] + Size(s[k])
  <2>1. k \in 0..n /\ k # 0
    OBVIOUS
  <2> QED
    BY <1>1, <2>1
<1> QED
  BY <1>1, <1>2

\* Every partial sum is a natural number.
LEMMA AddsType ==
    ASSUME NEW s \in Seq(Event), NEW g, Adds(g, s, Len(s))
    PROVE  \A k \in 0..Len(s) : g[k] \in Nat
<1> DEFINE Bad == {k \in 0..Len(s) : g[k] \notin Nat}
<1>0. /\ g[0] = 0 /\ Len(s) \in Nat
      /\ \A k \in 1..Len(s) : g[k] = g[k - 1] + Size(s[k]) /\ Size(s[k]) \in Nat
  BY AddsStep, SizeType, LenProperties, ElementOfSeq
<1>1. ASSUME Bad # {} PROVE FALSE
  <2>1. PICK m \in Bad : \A y \in Bad : m <= y
    <3>1. Bad \in SUBSET Nat
      BY <1>0
    <3> HIDE DEF Bad
    <3> QED
      BY <1>1, <3>1, LeastNatural
  <2>2. m # 0 /\ m - 1 \notin Bad /\ m \in 1..Len(s) /\ m - 1 \in 0..Len(s)
    BY <1>0, <2>1
  <2>3. g[m - 1] \in Nat
    BY <2>2
  <2>4. g[m] = g[m - 1] + Size(s[m]) /\ Size(s[m]) \in Nat
    BY <1>0, <2>2
  <2> QED
    BY <2>1, <2>3, <2>4
<1> QED
  BY <1>1

\* A sum is the sum of its parts.
LEMMA BytesConcat ==
    ASSUME NEW s \in Seq(Event), NEW t \in Seq(Event)
    PROVE  Bytes(s \o t) = Bytes(s) + Bytes(t) /\ Bytes(s) \in Nat /\ Bytes(t) \in Nat
<1> DEFINE q == s \o t
           p == Len(s)
<1>1. /\ q \in Seq(Event) /\ Len(q) = p + Len(t) /\ p \in Nat /\ Len(t) \in Nat
      /\ \A k \in 1..p : q[k] = s[k]
      /\ \A k \in 1..Len(t) : q[p + k] = t[k]
  BY ConcatProperties, LenProperties
<1> HIDE DEF q
<1>2. PICK g : Adds(g, q, Len(q)) /\ Bytes(q) = g[Len(q)]
  BY <1>1, BytesAdds
<1>3. PICK f : Adds(f, s, p) /\ Bytes(s) = f[p]
  BY BytesAdds
<1>4. PICK h : Adds(h, t, Len(t)) /\ Bytes(t) = h[Len(t)]
  BY BytesAdds
<1>5. /\ \A k \in 0..Len(q) : g[k] \in Nat
      /\ \A k \in 0..p : f[k] \in Nat
      /\ \A k \in 0..Len(t) : h[k] \in Nat
  BY <1>1, <1>2, <1>3, <1>4, AddsType
<1>6. /\ g[0] = 0 /\ f[0] = 0 /\ h[0] = 0
      /\ \A k \in 1..Len(q) : g[k] = g[k - 1] + Size(q[k])
      /\ \A k \in 1..p : f[k] = f[k - 1] + Size(s[k])
      /\ \A k \in 1..Len(t) : h[k] = h[k - 1] + Size(t[k])
  <2>1. Len(q) \in Nat
    BY <1>1
  <2>2. g[0] = 0 /\ \A k \in 1..Len(q) : g[k] = g[k - 1] + Size(q[k])
    BY <1>2, <2>1, AddsStep
  <2>3. f[0] = 0 /\ \A k \in 1..p : f[k] = f[k - 1] + Size(s[k])
    BY <1>1, <1>3, AddsStep
  <2>4. h[0] = 0 /\ \A k \in 1..Len(t) : h[k] = h[k - 1] + Size(t[k])
    BY <1>1, <1>4, AddsStep
  <2> QED
    BY <2>2, <2>3, <2>4
<1>7. g[p] = f[p]
  <2> DEFINE Bad == {k \in 0..p : g[k] # f[k]}
  <2>1. ASSUME Bad # {} PROVE FALSE
    <3>1. PICK m \in Bad : \A y \in Bad : m <= y
      <4>1. Bad \in SUBSET Nat
        BY <1>1
      <4> HIDE DEF Bad
      <4> QED
        BY <2>1, <4>1, LeastNatural
    <3>2. m \in 1..p /\ m - 1 \in 0..p /\ m - 1 \notin Bad /\ m \in 1..Len(q)
      BY <1>1, <1>6, <3>1
    <3>3. g[m - 1] = f[m - 1] /\ q[m] = s[m]
      BY <1>1, <3>2
    <3>4. g[m] = f[m]
      BY <1>6, <3>2, <3>3
    <3> QED
      BY <3>1, <3>4
  <2>2. p \notin Bad
    BY <2>1
  <2>3. p \in 0..p
    BY <1>1
  <2> QED
    BY <2>2, <2>3
<1>8. g[p + Len(t)] = g[p] + h[Len(t)]
  <2> DEFINE Bad == {k \in 0..Len(t) : g[p + k] # g[p] + h[k]}
  <2>1. ASSUME Bad # {} PROVE FALSE
    <3>1. PICK m \in Bad : \A y \in Bad : m <= y
      <4>1. Bad \in SUBSET Nat
        BY <1>1
      <4> HIDE DEF Bad
      <4> QED
        BY <2>1, <4>1, LeastNatural
    <3>2. m \in 0..Len(t) /\ g[p + m] # g[p] + h[m] /\ g[p] \in Nat
      BY <1>1, <1>5, <3>1
    <3>3. m # 0
      BY <1>1, <1>6, <3>2
    <3>4. /\ m \in 1..Len(t) /\ m - 1 \in 0..Len(t) /\ m - 1 \notin Bad
          /\ p + m \in 1..Len(q) /\ p + m - 1 = p + (m - 1)
      <4>1. /\ m \in 1..Len(t) /\ m - 1 \in 0..Len(t) /\ ~(m <= m - 1)
            /\ p + m \in 1..Len(q) /\ p + m - 1 = p + (m - 1)
        BY <1>1, <3>2, <3>3
      <4> HIDE DEF Bad
      <4> QED
        BY <3>1, <4>1
    <3>5. g[p + (m - 1)] = g[p] + h[m - 1] /\ q[p + m] = t[m] /\ h[m - 1] \in Nat
      BY <1>1, <1>5, <3>4
    <3>6. g[p + m] = g[p + (m - 1)] + Size(q[p + m]) /\ h[m] = h[m - 1] + Size(t[m])
      BY <1>6, <3>4
    <3>7. Size(t[m]) \in Nat
      BY <3>4, SizeType, ElementOfSeq
    <3> QED
      BY <3>2, <3>5, <3>6, <3>7
  <2>2. Len(t) \notin Bad
    BY <2>1
  <2>3. Len(t) \in 0..Len(t)
    BY <1>1
  <2> QED
    BY <2>2, <2>3
<1>9. f[p] \in Nat /\ h[Len(t)] \in Nat
  BY <1>1, <1>5
<1> QED
  BY <1>1, <1>2, <1>3, <1>4, <1>7, <1>8, <1>9 DEF q

\* One event.
LEMMA BytesSingle == ASSUME NEW e \in Event PROVE Bytes(<<e>>) = Size(e)
<1>1. <<e>> \in Seq(Event) /\ Len(<<e>>) = 1 /\ <<e>>[1] = e /\ Size(e) \in Nat
  BY SizeType
<1>2. PICK g : Adds(g, <<e>>, 1) /\ Bytes(<<e>>) = g[1]
  BY <1>1, BytesAdds
<1>3. g[0] = 0 /\ g[1] = g[1 - 1] + Size(<<e>>[1])
  BY <1>2, AddsStep
<1> QED
  BY <1>1, <1>2, <1>3

\* put_nowait adds the size of its event.
LEMMA BytesAppend ==
    ASSUME NEW s \in Seq(Event), NEW e \in Event
    PROVE  Bytes(Append(s, e)) = Bytes(s) + Size(e)
<1>1. <<e>> \in Seq(Event) /\ Append(s, e) = s \o <<e>>
  BY AppendIsConcat
<1> QED
  BY <1>1, BytesConcat, BytesSingle

\* The head leaves with its size.
LEMMA BytesTail ==
    ASSUME NEW s \in Seq(Event), s # <<>>
    PROVE  Bytes(s) = Size(Head(s)) + Bytes(Tail(s)) /\ Bytes(Tail(s)) \in Nat
<1>1. Head(s) \in Event /\ Tail(s) \in Seq(Event) /\ <<Head(s)>> \in Seq(Event)
  BY HeadTailProperties
<1>2. s = <<Head(s)>> \o Tail(s)
  <2> DEFINE c == <<Head(s)>> \o Tail(s)
  <2>1. /\ c \in Seq(Event) /\ Len(<<Head(s)>>) = 1 /\ <<Head(s)>>[1] = s[1]
        /\ Len(Tail(s)) = Len(s) - 1 /\ Len(s) \in Nat \ {0}
        /\ \A k \in 1..Len(Tail(s)) : Tail(s)[k] = s[k + 1]
    BY <1>1, HeadTailProperties, EmptySeq, ConcatProperties
  <2>2. /\ Len(c) = Len(s)
        /\ \A k \in 1..Len(s) : c[k] = IF k <= 1 THEN <<Head(s)>>[k] ELSE Tail(s)[k - 1]
    BY <1>1, <2>1, ConcatProperties
  <2>3. \A k \in 1..Len(s) : c[k] = s[k]
    BY <2>1, <2>2
  <2> HIDE DEF c
  <2>4. s = c
    BY <2>1, <2>2, <2>3, SeqEqual
  <2> QED
    BY <2>4 DEF c
<1> QED
  BY <1>1, <1>2, BytesConcat, BytesSingle

\* An empty queue has no bytes.
LEMMA BytesEmpty == Bytes(<<>>) = 0
<1>1. <<>> \in Seq(Event) /\ Len(<<>>) = 0
  BY EmptySeq
<1>2. PICK g : Adds(g, <<>>, Len(<<>>)) /\ Bytes(<<>>) = g[Len(<<>>)]
  BY <1>1, BytesAdds
<1> QED
  BY <1>1, <1>2, AddsStep

\* Both ways to emit keep the counter equal to the sum.
LEMMA EmitBytes ==
    ASSUME NEW o \in Out, o.bytes = Bytes(o.events), NEW e \in Event
    PROVE  /\ Put(o, e).bytes = Bytes(Put(o, e).events)
           /\ EmitTerminalSafe(o, e).bytes = Bytes(EmitTerminalSafe(o, e).events)
<1>1. ASSUME NEW x \in Out, x.bytes = Bytes(x.events)
      PROVE  Put(x, e).bytes = Bytes(Put(x, e).events)
  <2>1. /\ x.events \in Seq(Event) /\ Put(x, e).events = Append(x.events, e)
        /\ Put(x, e).bytes = x.bytes + Size(e)
    BY DEF Put, Out
  <2> QED
    BY <1>1, <2>1, BytesAppend
<1> DEFINE b == [o EXCEPT !.sequence = TRUE]
<1>2. b \in Out /\ b.events = o.events /\ b.bytes = o.bytes
  BY DEF Out
<1> HIDE DEF b
<1>3. Drained(b) \in Out /\ Drained(b).events = <<>> /\ Drained(b).bytes = 0
  <2>1. Drained(b) \in Out
    BY <1>2, DrainedType
  <2> QED
    BY <1>2, <2>1 DEF Drained, Out
<1>4. Drained(b).bytes = Bytes(Drained(b).events)
  BY <1>3, BytesEmpty
<1>5. EmitTerminalSafe(o, e) = Put(b, e) \/ EmitTerminalSafe(o, e) = Put(Drained(b), e)
  BY DEF EmitTerminalSafe, b
<1>6. /\ Put(b, e).bytes = Bytes(Put(b, e).events)
      /\ Put(Drained(b), e).bytes = Bytes(Put(Drained(b), e).events)
  BY <1>1, <1>2, <1>3, <1>4
<1> QED
  BY <1>1, <1>5, <1>6

\* Every step keeps the byte counter: an emission adds the size of its event, the consumer
\* takes the size of the head off, and displacement starts again from nothing.
LEMMA BytesStep ==
    ASSUME TypeOK, Shape, out.bytes = Bytes(out.events)
    PROVE  (out.bytes = Bytes(out.events))'
<1>0. out \in Out /\ out.events \in Seq(Event) /\ out.bytes \in Nat
  BY TypeParts DEF OutOK, Out
<1>1. CASE Rests
  BY <1>1 DEF Rests
<1>2. CASE ConsumerTake
  <2>1. /\ out.events # <<>> /\ out'.events = Tail(out.events)
        /\ out'.bytes = Less(out.bytes, Size(Head(out.events)))
    BY <1>0, <1>2 DEF ConsumerTake, Popped, Out
  <2>2. /\ out.bytes = Size(Head(out.events)) + Bytes(Tail(out.events))
        /\ Bytes(Tail(out.events)) \in Nat /\ Size(Head(out.events)) \in Nat
    BY <1>0, <2>1, BytesTail, SizeType, HeadTailProperties
  <2>3. Less(out.bytes, Size(Head(out.events))) = Bytes(Tail(out.events))
    BY <1>0, <2>2 DEF Less
  <2> QED
    BY <2>1, <2>3
<1>3. ASSUME NEW e, Emits(e) PROVE (out.bytes = Bytes(out.events))'
  BY <1>0, <1>3, EmitBytes DEF Emits
<1>4. CASE Ends
  <2>1. PICK o : /\ Batch(o)
                 /\ \/ out' = o
                    \/ \E t \in TerminalTypes : out' = EmitTerminalSafe(o, Plain(t))
    BY <1>4 DEF Ends
  <2>2. o \in Out /\ o.bytes = Bytes(o.events)
    <3>1. o \in Out
      BY <2>1, BatchType
    <3>2. CASE o = out
      BY <3>1, <3>2
    <3>3. CASE o # out
      <4>1. PICK r \in Responses : o = EmitTerminalSafe(out, About("ResponseFinished", r))
        BY <2>1, <3>3 DEF Batch
      <4>2. About("ResponseFinished", r) \in Event
        BY Names
      <4> QED
        BY <1>0, <3>1, <4>1, <4>2, EmitBytes
    <3> QED
      BY <3>2, <3>3
  <2>3. CASE out' = o
    BY <2>2, <2>3
  <2>4. ASSUME NEW t \in TerminalTypes, out' = EmitTerminalSafe(o, Plain(t))
        PROVE  (out.bytes = Bytes(out.events))'
    <3>1. Plain(t) \in Event
      BY Names, EventNames
    <3> QED
      BY <2>2, <2>4, <3>1, EmitBytes
  <2> QED
    BY <2>1, <2>3, <2>4
<1> QED
  BY <1>1, <1>2, <1>3, <1>4 DEF Shape

\* The queue keeps its bound, and its byte counter is always the sum of the sizes of the
\* events in it: no order of emissions, takes and displacement makes the limit drift.
THEOREM BytesExact == Spec => []ByteAccounting
<1>1. Init => out.bytes = Bytes(out.events)
  BY BytesEmpty DEF Init
<1>2. ASSUME TypeOK, TerminalInv, ClaimedInv, CatalogueInv, out.bytes = Bytes(out.events),
             [Next]_vars
      PROVE  (out.bytes = Bytes(out.events))'
  BY <1>2, BytesStep, StepShape
<1>3. QueueBounded /\ out.bytes = Bytes(out.events) => ByteAccounting
  BY DEF ByteAccounting
<1> QED
  BY <1>1, <1>2, <1>3, QueueStaysBounded, TypeCorrect, TerminalInvariant, ClaimedInvariant,
     CatalogueInvariant, PTL DEF Spec

===============================================================================
