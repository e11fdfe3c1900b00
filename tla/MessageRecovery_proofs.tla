------------------------ MODULE MessageRecovery_proofs ------------------------
(***************************************************************************)
(* Proofs about MessageRecovery, for any keys, digests, tasks, provider,   *)
(* limits and bounds: a key reaches the provider once, and once more for   *)
(* each claim of it that a crash lost unsaved; and which snapshots cannot  *)
(* be restored.                                                            *)
(***************************************************************************)
EXTENDS MessageRecovery, TLAPS

Working == {"send", "waitAck", "trigger"}

\* The calls of append_message that have neither returned nor raised.
Calling == [pc : {"waitLock", "send", "waitAck", "trigger"}, key : Keys, digest : Digests,
            generation : 0..MaxGenerations, acked : BOOLEAN]

\* Two calls past claim_message have different keys, whichever sessions they run in:
\* the claim, not the lock, keeps them apart.
ClaimInv == \A t, u \in Tasks :
    t # u /\ task[t].pc \in Working /\ task[u].pc \in Working => task[t].key # task[u].key

\* What the provider has of the key of a call, and what the table says of it: before
\* the write, no more than what earlier claims that were forgotten sent.
StageInv == \A t \in Tasks :
    LET k == task[t].key
    IN  /\ task[t].pc = "send" =>
              delivered[k] <= forgotten[k] /\ messages[k].status = "pending"
        /\ task[t].pc = "waitAck" =>
              triggered[k] < delivered[k] /\ messages[k].status = "pending"
        /\ task[t].pc = "trigger" =>
              triggered[k] < delivered[k] /\ messages[k].status = "confirmed"

\* The same for every key, with or without a call at work.
KeyInv == \A k \in Keys :
    /\ triggered[k] <= delivered[k]
    /\ delivered[k] <= 1 + forgotten[k]
    /\ messages[k].status = "absent" => delivered[k] <= forgotten[k]
    /\ messages[k].status = "confirmed" => delivered[k] > 0

\* What the saved snapshot says: a claim it does not have is counted as unsaved.
DiskInv == \A k \in Keys :
    /\ messages[k].status # "absent" =>
           k \in unsaved \/ disk.messages[k].status # "absent"
    /\ disk.messages[k].status = "confirmed" => delivered[k] > 0

IInv == TypeOK /\ ClaimInv /\ StageInv /\ KeyInv /\ DiskInv

-----------------------------------------------------------------------------
USE DEF Calling

LEMMA InitInv == Init => IInv
<1> SUFFICES ASSUME Init PROVE IInv
  OBVIOUS
<1>1. disk.messages = messages /\ disk \in Saved /\ messages \in [Keys -> Entry]
  BY BoundAssumption DEF Init, Snapshot, SavedMessages, UserItems, Saved, Others, Entry, Absent
<1>2. TypeOK
  <2>1. task \in [Tasks -> Call]
    BY DEF Init, Call
  <2>2. /\ generation \in 0..MaxGenerations /\ crashes \in 0..MaxCrashes /\ others \in Others
        /\ identities \in SUBSET Item /\ unsaved \in SUBSET Keys
    BY BoundAssumption DEF Init, Others
  <2>3. /\ delivered \in [Keys -> Nat] /\ triggered \in [Keys -> Nat]
        /\ forgotten \in [Keys -> Nat] /\ active \in BOOLEAN
    BY DEF Init
  <2> QED
    BY <1>1, <2>1, <2>2, <2>3 DEF TypeOK
<1> QED
  BY <1>1, <1>2 DEF Init, IInv, ClaimInv, StageInv, KeyInv, DiskInv, Working, Absent, Idle

\* Which entry a key has, and which fields a call, spelled out for the provers.
LEMMA EntryCases ==
    ASSUME TypeOK, NEW k \in Keys
    PROVE  /\ messages[k] = Absent <=> messages[k].status = "absent"
           /\ messages[k].status \in {"absent", "pending", "confirmed"}
           /\ messages[k].status # "absent" => messages[k].digest \in Digests
BY DEF TypeOK, Entry, Absent, Status

LEMMA CallFields ==
    ASSUME TypeOK, NEW t \in Tasks
    PROVE  /\ task[t].pc \in {"idle", "waitLock", "send", "waitAck", "trigger"}
           /\ task[t].pc # "idle" => task[t] \in Calling
BY DEF TypeOK, Call, Idle

\* Replacing the record of one task by Idle.
LEMMA DoneTask ==
    ASSUME TypeOK, NEW t \in Tasks, Done(t)
    PROVE  /\ task' \in [Tasks -> Call]
           /\ task'[t].pc = "idle" /\ task'[t].acked = FALSE
           /\ \A u \in Tasks : u # t => task'[u] = task[u]
BY DEF TypeOK, Done, Call, Idle

\* Moving a call to another stage.
LEMMA StepTask ==
    ASSUME TypeOK, NEW t \in Tasks, task[t].pc # "idle",
           NEW pc \in {"waitLock", "send", "waitAck", "trigger"}, Step(t, pc)
    PROVE  /\ task' \in [Tasks -> Call]
           /\ task'[t].pc = pc /\ task'[t].key = task[t].key
           /\ task'[t].digest = task[t].digest
           /\ task'[t].acked = task[t].acked
           /\ \A u \in Tasks : u # t => task'[u] = task[u]
<1>1. task[t] \in Calling
  BY CallFields
<1> QED
  BY <1>1 DEF TypeOK, Step, Call

\* A call that gets the lock: it ends, or it writes.
LEMMA EnterTask ==
    ASSUME TypeOK, NEW t \in Tasks, NEW call, NEW isActive \in BOOLEAN,
           call \in Calling,
           Enter(t, call, isActive)
    PROVE  /\ task' \in [Tasks -> Call]
           /\ \A u \in Tasks : u # t => task'[u] = task[u]
           /\ \/ task'[t].pc = "idle" /\ task'[t].acked = FALSE
              \/ /\ task'[t].pc = "send" /\ task'[t].key = call.key
                 /\ task'[t].acked = call.acked
<1>1. CASE messages[call.key] # Absent \/ ~isActive
  BY <1>1, DoneTask DEF Enter
<1>2. CASE messages[call.key] = Absent /\ isActive
  <2> DEFINE next == [call EXCEPT !.pc = "send"]
  <2>1. /\ next \in Calling
        /\ next.pc = "send" /\ next.key = call.key /\ next.acked = call.acked
    OBVIOUS
  <2>2. task' = [task EXCEPT ![t] = next]
    BY <1>2 DEF Enter
  <2> QED
    BY <2>1, <2>2 DEF TypeOK, Call
<1> QED
  BY <1>1, <1>2

-----------------------------------------------------------------------------
\* A call that ends without a change of the provider or of the table.
LEMMA EndsQuietly ==
    ASSUME IInv, NEW t \in Tasks, Done(t),
           UNCHANGED <<messages, disk, provider, unsaved, forgotten>>
    PROVE  ClaimInv' /\ StageInv' /\ KeyInv' /\ DiskInv'
<1>1. task'[t].pc = "idle" /\ \A u \in Tasks : u # t => task'[u] = task[u]
  BY DoneTask DEF IInv
<1> QED
  BY <1>1 DEF IInv, ClaimInv, StageInv, KeyInv, DiskInv, Working, provider

\* claim_message by a call that then writes, or gives up because the session ended.
LEMMA EnterStep ==
    ASSUME IInv, NEW t \in Tasks, NEW call, NEW isActive \in BOOLEAN,
           call \in Calling,
           task[t].pc \in {"idle", "waitLock"},
           Enter(t, call, isActive), UNCHANGED <<disk, provider, forgotten>>
    PROVE  /\ messages' \in [Keys -> Entry] /\ task' \in [Tasks -> Call]
           /\ unsaved' \in SUBSET Keys
           /\ ClaimInv' /\ StageInv' /\ KeyInv' /\ DiskInv'
<1>t. TypeOK
  BY DEF IInv
<1>1. CASE messages[call.key] # Absent
  BY <1>1, <1>t, EndsQuietly, DoneTask DEF Enter, TypeOK
<1>2. CASE messages[call.key] = Absent
  <2> DEFINE k == call.key
  <2>1. /\ k \in Keys /\ messages[k].status = "absent"
        /\ delivered[k] <= forgotten[k]
    BY <1>2, <1>t, EntryCases DEF IInv, KeyInv
  <2>2. \A u \in Tasks : task[u].pc \in Working => task[u].key # k
    BY <2>1 DEF IInv, StageInv, Working
  <2>3. /\ messages' = [messages EXCEPT ![k] = [digest |-> call.digest, status |-> "pending"]]
        /\ messages' \in [Keys -> Entry]
        /\ unsaved' = unsaved \cup {k}
    BY <1>2, <1>t DEF Enter, Claim, TypeOK, Entry, Status
  <2>4. /\ messages'[k].status = "pending"
        /\ \A j \in Keys : j # k => messages'[j] = messages[j]
    BY <2>1, <2>3, <1>t DEF TypeOK
  <2>5. /\ task' \in [Tasks -> Call]
        /\ \A u \in Tasks : u # t => task'[u] = task[u]
        /\ \/ task'[t].pc = "idle"
           \/ task'[t].pc = "send" /\ task'[t].key = k
    <3> HIDE DEF Calling
    <3> QED
      BY <1>t, EnterTask
  <2>6. KeyInv' /\ DiskInv'
    <3>1. KeyInv'
      BY <2>1, <2>4, <1>t DEF IInv, TypeOK, KeyInv, provider
    <3>2. DiskInv'
      BY <2>1, <2>3, <2>4 DEF IInv, DiskInv, provider
    <3> QED
      BY <3>1, <3>2
  <2>7. ClaimInv'
    BY <2>2, <2>5 DEF IInv, ClaimInv, Working
  <2>8. StageInv'
    <3> SUFFICES ASSUME NEW u \in Tasks
                 PROVE  StageInv!(u)'
      BY DEF StageInv
    <3>1. CASE u = t
      BY <3>1, <2>1, <2>4, <2>5 DEF provider
    <3>2. CASE u # t
      <4>1. task'[u] = task[u] /\ (task[u].pc \in Working => task[u].key \in Keys)
        BY <3>2, <2>5, <1>t, CallFields DEF Working
      <4> QED
        BY <4>1, <2>2, <2>4 DEF IInv, StageInv, Working, provider
    <3> QED
      BY <3>1, <3>2
  <2> QED
    BY <2>1, <2>3, <2>5, <2>6, <2>7, <2>8, <1>t DEF TypeOK
<1> QED
  BY <1>1, <1>2

\* A call alone decides what is said of its key: when it moves on, the calls with
\* other keys are as they were.
LEMMA KeyStep ==
    ASSUME IInv, NEW t \in Tasks, NEW k \in Keys, task[t].pc \in Working,
           task[t].key = k, task'[t].pc \in Working => task'[t].key = k,
           \A u \in Tasks : u # t => task'[u] = task[u],
           \A j \in Keys : j # k =>
               /\ messages'[j] = messages[j]
               /\ delivered'[j] = delivered[j] /\ triggered'[j] = triggered[j],
           UNCHANGED <<disk, unsaved, forgotten>>,
           StageInv!(t)', KeyInv!(k)', DiskInv!(k)'
    PROVE  ClaimInv' /\ StageInv' /\ KeyInv' /\ DiskInv'
<1>1. \A u \in Tasks : u # t /\ task[u].pc \in Working =>
          task[u].key \in Keys /\ task[u].key # k
  BY CallFields DEF IInv, ClaimInv, Working
<1>2. ClaimInv'
  BY DEF IInv, ClaimInv
<1>3. StageInv'
  <2> SUFFICES ASSUME NEW u \in Tasks, u # t
               PROVE  StageInv!(u)'
    BY DEF StageInv
  <2>1. task'[u] = task[u]
    OBVIOUS
  <2> QED
    BY <1>1, <2>1 DEF IInv, StageInv, Working
<1>4. KeyInv'
  <2> SUFFICES ASSUME NEW j \in Keys, j # k
               PROVE  KeyInv!(j)'
    BY DEF KeyInv
  <2> QED
    BY DEF IInv, KeyInv
<1>5. DiskInv'
  <2> SUFFICES ASSUME NEW j \in Keys, j # k
               PROVE  DiskInv!(j)'
    BY DEF DiskInv
  <2> QED
    BY DEF IInv, DiskInv
<1> QED
  BY <1>2, <1>3, <1>4, <1>5

-----------------------------------------------------------------------------
LEMMA AppendInv ==
    ASSUME IInv, NEW t \in Tasks, NEW k \in Keys, NEW d \in Digests, Append(t, k, d)
    PROVE  IInv'
<1>t. TypeOK
  BY DEF IInv
<1>1. CASE \E u \in Tasks : Holds(u, generation) \/ Waits(u, generation)
  <2>1. task' = [task EXCEPT ![t] = Called(k, d, "waitLock")] /\ UNCHANGED <<messages, disk, provider, unsaved, forgotten>>
    BY <1>1 DEF Append
  <2>2. task'[t].pc = "waitLock" /\ \A u \in Tasks : u # t => task'[u] = task[u]
    BY <2>1, <1>t DEF TypeOK, Called
  <2>3. TypeOK'
    BY <2>1, <1>t DEF Append, TypeOK, Called, Call, memory, provider
  <2> QED
    BY <2>1, <2>2, <2>3 DEF IInv, ClaimInv, StageInv, KeyInv, DiskInv, Working, provider
<1>2. CASE ~\E u \in Tasks : Holds(u, generation) \/ Waits(u, generation)
  <2>1. Called(k, d, "send") \in Calling
    BY <1>t DEF Called, TypeOK
  <2>2. /\ Enter(t, Called(k, d, "send"), TRUE) /\ task[t].pc = "idle"
        /\ UNCHANGED <<disk, provider, forgotten>>
    BY <1>2 DEF Append
  <2>3. /\ messages' \in [Keys -> Entry] /\ task' \in [Tasks -> Call]
        /\ unsaved' \in SUBSET Keys
        /\ ClaimInv' /\ StageInv' /\ KeyInv' /\ DiskInv'
    BY <2>1, <2>2, EnterStep
  <2> QED
    BY <2>3, <1>t DEF Append, IInv, TypeOK, provider
<1> QED
  BY <1>1, <1>2

LEMMA LockedInv ==
    ASSUME IInv, NEW t \in Tasks, Locked(t)
    PROVE  IInv'
<1>t. TypeOK
  BY DEF IInv
<1>1. task[t] \in Calling
  BY <1>t, CallFields DEF Locked
<1>2. /\ messages' \in [Keys -> Entry] /\ task' \in [Tasks -> Call]
      /\ unsaved' \in SUBSET Keys
      /\ ClaimInv' /\ StageInv' /\ KeyInv' /\ DiskInv'
  <2>1. Active(t) \in BOOLEAN
    BY <1>t DEF Active, TypeOK
  <2> QED
    BY <1>1, <2>1, EnterStep DEF Locked
<1> QED
  BY <1>2, <1>t DEF Locked, IInv, TypeOK, provider

LEMMA SentInv ==
    ASSUME IInv, NEW t \in Tasks, NEW gets \in BOOLEAN, NEW returns \in BOOLEAN,
           Sent(t, gets, returns)
    PROVE  IInv'
<1>t. TypeOK
  BY DEF IInv
<1>0. PICK k \in Keys : k = task[t].key
  BY <1>t, CallFields DEF Sent
<1>1. /\ delivered[k] <= forgotten[k] /\ messages[k].status = "pending"
      /\ task[t].pc = "send" /\ triggered[k] <= delivered[k]
  BY <1>0, <1>t, CallFields DEF Sent, IInv, StageInv, KeyInv
<1>2. /\ task' \in [Tasks -> Call]
      /\ \A u \in Tasks : u # t => task'[u] = task[u]
      /\ \/ task'[t].pc = "waitAck" /\ task'[t].key = k /\ returns
         \/ task'[t].pc = "idle"
  BY <1>0, <1>t, <1>1, StepTask, DoneTask DEF Sent
<1>3. /\ delivered' \in [Keys -> Nat]
      /\ delivered'[k] = IF gets THEN delivered[k] + 1 ELSE delivered[k]
      /\ \A j \in Keys : j # k => delivered'[j] = delivered[j]
  BY <1>0, <1>t, <1>1 DEF Sent, TypeOK
<1>4. UNCHANGED <<messages, triggered, disk, unsaved, forgotten>> /\ (returns => gets)
  BY DEF Sent, memory, history
<1>n. delivered[k] \in Nat /\ triggered[k] \in Nat /\ forgotten[k] \in Nat
  BY <1>t DEF TypeOK
<1>5. StageInv!(t)' /\ KeyInv!(k)' /\ DiskInv!(k)'
  <2>1. DiskInv!(k)
    BY DEF IInv, DiskInv
  <2>2. StageInv!(t)'
    BY <1>0, <1>1, <1>2, <1>3, <1>4, <1>n
  <2> QED
    BY <2>1, <2>2, <1>1, <1>3, <1>4, <1>n
<1>6. ClaimInv' /\ StageInv' /\ KeyInv' /\ DiskInv'
  BY <1>0, <1>1, <1>2, <1>3, <1>4, <1>5, KeyStep DEF Working
<1>7. TypeOK'
  BY <1>t, <1>2, <1>3 DEF Sent, TypeOK, memory, history
<1> QED
  BY <1>6, <1>7 DEF IInv

LEMMA AcknowledgeInv ==
    ASSUME IInv, NEW t \in Tasks, Acknowledge(t)
    PROVE  IInv'
<1>t. TypeOK
  BY DEF IInv
<1>1. task[t] \in Calling
  BY <1>t, CallFields DEF Acknowledge
<1>2. task' \in [Tasks -> Call]
  BY <1>t, <1>1 DEF Acknowledge, TypeOK, Call
<1>3. \A u \in Tasks : task'[u].pc = task[u].pc /\ task'[u].key = task[u].key
  BY <1>t, <1>1 DEF Acknowledge, TypeOK
<1>4. identities' \in SUBSET Item
  BY <1>t, <1>1, DigestAssumption DEF Acknowledge, AckItems, TypeOK, Item
<1>5. TypeOK'
  BY <1>t, <1>2, <1>4 DEF Acknowledge, TypeOK, provider, history
<1> QED
  BY <1>3, <1>5 DEF Acknowledge, IInv, ClaimInv, StageInv, KeyInv, DiskInv, provider, history

\* The provider's refusal, the timeout and a cancellation that no write meets.
LEMMA QuietEndInv ==
    ASSUME IInv, NEW t \in Tasks, Done(t), active' \in BOOLEAN,
           UNCHANGED <<memory, disk, provider, history>>
    PROVE  IInv'
<1>1. ClaimInv' /\ StageInv' /\ KeyInv' /\ DiskInv'
  BY EndsQuietly DEF memory, history
<1>2. TypeOK'
  BY DoneTask DEF IInv, TypeOK, memory, provider, history
<1> QED
  BY <1>1, <1>2 DEF IInv

LEMMA ResumeInv ==
    ASSUME IInv, NEW t \in Tasks, Resume(t)
    PROVE  IInv'
<1>t. TypeOK
  BY DEF IInv
<1>1. CASE ~Active(t)
  BY <1>1, <1>t, QuietEndInv DEF Resume, memory, TypeOK
<1>2. CASE Active(t)
  <2>0. PICK k \in Keys : k = task[t].key
    BY <1>t, CallFields DEF Resume
  <2>1. /\ triggered[k] < delivered[k] /\ messages[k].status = "pending"
        /\ task[t].pc = "waitAck" /\ delivered[k] <= 1 + forgotten[k]
    BY <2>0, <1>t, CallFields DEF Resume, IInv, StageInv, KeyInv
  <2>2. /\ task' \in [Tasks -> Call]
        /\ \A u \in Tasks : u # t => task'[u] = task[u]
        /\ \/ task'[t].pc = "trigger" /\ task'[t].key = k
           \/ task'[t].pc = "idle"
    BY <2>0, <1>t, <1>2, <2>1, StepTask, DoneTask DEF Resume
  <2>3. messages[k] \in [digest : Digests, status : Status]
    BY <2>0, <1>t, <2>1 DEF TypeOK, Entry, Absent
  <2>4. /\ messages' \in [Keys -> Entry]
        /\ messages'[k].status = "confirmed"
        /\ \A j \in Keys : j # k => messages'[j] = messages[j]
    BY <2>0, <1>t, <1>2, <2>1, <2>3 DEF Resume, Confirm, TypeOK, Entry, Status
  <2>5. UNCHANGED <<delivered, triggered, disk, unsaved, forgotten>>
    BY DEF Resume, provider, history
  <2>n. delivered[k] \in Nat /\ triggered[k] \in Nat /\ forgotten[k] \in Nat
    BY <1>t DEF TypeOK
  <2>6. StageInv!(t)' /\ KeyInv!(k)' /\ DiskInv!(k)'
    <3>1. DiskInv!(k)
      BY DEF IInv, DiskInv
    <3>2. StageInv!(t)'
      BY <2>0, <2>1, <2>2, <2>4, <2>5
    <3> QED
      BY <3>1, <3>2, <2>1, <2>4, <2>5, <2>n
  <2>7. ClaimInv' /\ StageInv' /\ KeyInv' /\ DiskInv'
    BY <2>0, <2>1, <2>2, <2>4, <2>5, <2>6, KeyStep DEF Working
  <2>8. TypeOK'
    BY <1>t, <2>2, <2>4 DEF Resume, TypeOK, provider, history
  <2> QED
    BY <2>7, <2>8 DEF IInv
<1> QED
  BY <1>1, <1>2

LEMMA TriggerSentInv ==
    ASSUME IInv, NEW t \in Tasks, NEW gets \in BOOLEAN, NEW returns \in BOOLEAN,
           TriggerSent(t, gets, returns)
    PROVE  IInv'
<1>t. TypeOK
  BY DEF IInv
<1>0. PICK k \in Keys : k = task[t].key
  BY <1>t, CallFields DEF TriggerSent
<1>1. /\ triggered[k] < delivered[k] /\ messages[k].status = "confirmed"
      /\ task[t].pc = "trigger" /\ delivered[k] <= 1 + forgotten[k]
  BY <1>0, <1>t, CallFields DEF TriggerSent, IInv, StageInv, KeyInv
<1>2. /\ task' \in [Tasks -> Call] /\ task'[t].pc = "idle"
      /\ \A u \in Tasks : u # t => task'[u] = task[u]
  BY <1>t, DoneTask DEF TriggerSent
<1>3. /\ triggered' \in [Keys -> Nat] /\ triggered'[k] \in {triggered[k], triggered[k] + 1}
      /\ \A j \in Keys : j # k => triggered'[j] = triggered[j]
  BY <1>0, <1>t, <1>1 DEF TriggerSent, TypeOK
<1>4. UNCHANGED <<messages, delivered, disk, unsaved, forgotten>>
  BY DEF TriggerSent, memory, history
<1>n. delivered[k] \in Nat /\ triggered[k] \in Nat /\ forgotten[k] \in Nat
  BY <1>t DEF TypeOK
<1>5. StageInv!(t)' /\ KeyInv!(k)' /\ DiskInv!(k)'
  <2>1. DiskInv!(k)
    BY DEF IInv, DiskInv
  <2> QED
    BY <2>1, <1>1, <1>2, <1>3, <1>4, <1>n
<1>6. ClaimInv' /\ StageInv' /\ KeyInv' /\ DiskInv'
  BY <1>0, <1>1, <1>2, <1>3, <1>4, <1>5, KeyStep DEF Working
<1>7. TypeOK'
  BY <1>t, <1>2, <1>3 DEF TriggerSent, TypeOK, memory, history
<1> QED
  BY <1>6, <1>7 DEF IInv

LEMMA AppCancelledInv ==
    ASSUME IInv, NEW t \in Tasks, NEW gets \in BOOLEAN, AppCancelled(t, gets)
    PROVE  IInv'
<1>t. TypeOK
  BY DEF IInv
<1>1. CASE ~gets
  BY <1>1, <1>t, QuietEndInv DEF AppCancelled, TypeOK, provider
<1>2. CASE gets
  <2>0. PICK k \in Keys : k = task[t].key
    BY <1>t, CallFields DEF AppCancelled
  <2>1. /\ task[t].pc \in {"send", "trigger"}
        /\ triggered[k] <= delivered[k] /\ delivered[k] <= 1 + forgotten[k]
        /\ task[t].pc = "send" => delivered[k] <= forgotten[k] /\ messages[k].status = "pending"
        /\ task[t].pc = "trigger" => triggered[k] < delivered[k] /\ messages[k].status = "confirmed"
    BY <2>0, <1>2, <1>t, CallFields DEF AppCancelled, IInv, StageInv, KeyInv
  <2>2. /\ task' \in [Tasks -> Call] /\ task'[t].pc = "idle"
        /\ \A u \in Tasks : u # t => task'[u] = task[u]
    BY <1>t, DoneTask DEF AppCancelled
  <2>3. /\ delivered' \in [Keys -> Nat] /\ triggered' \in [Keys -> Nat]
        /\ delivered'[k] = delivered[k] + IF task[t].pc = "send" THEN 1 ELSE 0
        /\ triggered'[k] = triggered[k] + IF task[t].pc = "trigger" THEN 1 ELSE 0
        /\ \A j \in Keys : j # k => delivered'[j] = delivered[j] /\ triggered'[j] = triggered[j]
    BY <2>0, <1>t, <1>2, <2>1 DEF AppCancelled, TypeOK
  <2>4. UNCHANGED <<messages, disk, unsaved, forgotten>>
    BY DEF AppCancelled, memory, history
  <2>n. delivered[k] \in Nat /\ triggered[k] \in Nat /\ forgotten[k] \in Nat
    BY <1>t DEF TypeOK
  <2>5. StageInv!(t)' /\ KeyInv!(k)' /\ DiskInv!(k)'
    <3>1. DiskInv!(k)
      BY DEF IInv, DiskInv
    <3> QED
      BY <3>1, <2>1, <2>2, <2>3, <2>4, <2>n
  <2>6. ClaimInv' /\ StageInv' /\ KeyInv' /\ DiskInv'
    BY <2>0, <2>1, <2>2, <2>3, <2>4, <2>5, KeyStep DEF Working
  <2>7. TypeOK'
    BY <1>t, <2>2, <2>3 DEF AppCancelled, TypeOK, memory, history
  <2> QED
    BY <2>6, <2>7 DEF IInv
<1> QED
  BY <1>1, <1>2

\* A restart may find a key free that the provider has: the claims it lost are those
\* the host had not saved.
LEMMA CrashInv == ASSUME IInv, Crash PROVE IInv'
<1>t. TypeOK /\ disk \in Saved
  BY DEF IInv, TypeOK
<1>1. \A t \in Tasks : task'[t] = Idle
  BY DEF Crash
<1>2. TypeOK'
  <2>1. /\ messages' \in [Keys -> Entry] /\ identities' \in SUBSET Item
        /\ generation' \in 0..MaxGenerations /\ others' \in Others
    BY <1>t DEF Crash, Saved
  <2>2. crashes' \in 0..MaxCrashes
    BY <1>t, BoundAssumption DEF Crash, TypeOK
  <2>3. task' \in [Tasks -> Call]
    BY DEF Crash, Call
  <2>4. unsaved' \in SUBSET Keys /\ forgotten' \in [Keys -> Nat]
    BY <1>t DEF Crash, TypeOK
  <2> QED
    BY <1>t, <2>1, <2>2, <2>3, <2>4 DEF Crash, TypeOK, provider
<1>3. KeyInv' /\ DiskInv'
  <2> SUFFICES ASSUME NEW k \in Keys
               PROVE  KeyInv!(k)' /\ DiskInv!(k)'
    BY DEF KeyInv, DiskInv
  <2>1. KeyInv!(k) /\ DiskInv!(k)
    BY DEF IInv, KeyInv, DiskInv
  <2>2. /\ messages'[k] = disk.messages[k] /\ UNCHANGED <<disk, delivered, triggered>>
        /\ forgotten'[k] = forgotten[k] + IF k \in unsaved THEN 1 ELSE 0
    BY DEF Crash, provider
  <2>3. messages[k].status \in {"absent", "pending", "confirmed"}
    BY <1>t, EntryCases
  <2>4. delivered[k] \in Nat /\ triggered[k] \in Nat /\ forgotten[k] \in Nat
    BY <1>t DEF TypeOK
  <2> QED
    BY <2>1, <2>2, <2>3, <2>4
<1> QED
  BY <1>1, <1>2, <1>3 DEF IInv, ClaimInv, StageInv, Working, Idle

LEMMA SaveInv == ASSUME IInv, Save PROVE IInv'
<1>t. TypeOK
  BY DEF IInv
<1>1. /\ disk' = Snapshot /\ unsaved' = {}
      /\ UNCHANGED <<messages, task, delivered, triggered, forgotten>>
  BY DEF Save, memory, provider
<1>2. Snapshot \in Saved /\ Snapshot.messages = messages
  BY <1>t DEF Snapshot, SavedMessages, UserItems, Saved, TypeOK
<1>3. TypeOK'
  BY <1>t, <1>1, <1>2 DEF Save, TypeOK, memory, provider
<1>4. KeyInv' /\ DiskInv'
  BY <1>1, <1>2 DEF IInv, KeyInv, DiskInv
<1> QED
  BY <1>1, <1>3, <1>4 DEF IInv, ClaimInv, StageInv

LEMMA SessionInv ==
    ASSUME IInv, SessionEnds \/ Reopen \/ (\E c \in Collections : Record(c)) \/ UNCHANGED vars
    PROVE  IInv'
<1>t. TypeOK
  BY DEF IInv
<1>1. UNCHANGED <<messages, task, disk, delivered, triggered, unsaved, forgotten>>
  BY DEF SessionEnds, Reopen, Record, vars, memory, provider, history
<1>2. TypeOK'
  <2>1. CASE SessionEnds
    BY <2>1, <1>t DEF SessionEnds, TypeOK, memory, provider, history
  <2>2. CASE Reopen
    BY <2>2, <1>t, BoundAssumption DEF Reopen, UserItems, TypeOK, provider, history
  <2>3. ASSUME NEW c \in Collections, Record(c)
        PROVE  TypeOK'
    <3>1. others' \in Others
      BY <2>3, <1>t DEF Record, TypeOK, Others
    <3> QED
      BY <2>3, <3>1, <1>t DEF Record, TypeOK, provider, history
  <2>4. CASE UNCHANGED vars
    BY <2>4, <1>t DEF vars, TypeOK, memory, provider, history
  <2> QED
    BY <2>1, <2>2, <2>3, <2>4
<1> QED
  BY <1>1, <1>2 DEF IInv, ClaimInv, StageInv, KeyInv, DiskInv

LEMMA StepInv == ASSUME IInv, [Next]_vars PROVE IInv'
<1>1. ASSUME NEW t \in Tasks, Reject(t) \/ NotAcknowledged(t)
      PROVE  IInv'
  BY <1>1, QuietEndInv DEF Reject, NotAcknowledged, IInv, TypeOK
<1> QED
  BY <1>1, AppendInv, LockedInv, SentInv, AcknowledgeInv, ResumeInv, TriggerSentInv,
     AppCancelledInv, CrashInv, SaveInv, SessionInv DEF Next, TaskStep

LEMMA Invariance == Spec => []IInv
<1>1. IInv /\ [Next]_vars => IInv'
  BY StepInv
<1> QED
  BY InitInv, <1>1, PTL DEF Spec

\* append_message under one idempotency key: however calls, cancellations, failed
\* writes, reconnects and restarts interleave, the item is created once, and once more
\* only for a claim that a crash lost before the host saved it; no more responses are
\* requested than items created, and a confirmed key was received.
THEOREM MessageOnceUnlessForgotten == Spec => []OnceUnlessForgotten
<1>1. IInv => OnceUnlessForgotten
  BY DEF IInv, KeyInv, OnceUnlessForgotten
<1> QED
  BY Invariance, <1>1, PTL

-----------------------------------------------------------------------------
\* Which messages from_snapshot takes once they are confirmed: user messages of a
\* session of the Qwen adapter, whose item is registered and survives.
Registrable(d) == Provider = "qwen" /\ RoleOf[d] = "user"

\* The item of a key is registered, and begin_generation and snapshot() keep it.
UserRegistered(k) == \E i \in UserItems(identities) : i.item = k

\* An item is registered for a key that was claimed, with the role behind its digest;
\* the saved ones have the role user.
ItemRoleInv ==
    /\ \A i \in identities :
          /\ Provider = "qwen" /\ messages[i.item].status # "absent"
          /\ i.role = RoleOf[messages[i.item].digest]
    /\ \A i \in disk.identities :
          /\ i.role = "user" /\ disk.messages[i.item].status # "absent"
          /\ Registrable(disk.messages[i.item].digest)

\* An acknowledged call has its item registered before Resume confirms the key, and
\* the key was claimed with its digest.
RegisteredInv ==
    /\ \A t \in Tasks :
          /\ task[t].pc \in Working => task[t].digest = messages[task[t].key].digest
          /\ task[t].acked => task[t].pc \in Working
          /\ task[t].acked /\ Registrable(task[t].digest) => UserRegistered(task[t].key)
    /\ \A k \in Keys : messages[k].status = "confirmed" /\ Registrable(messages[k].digest) =>
           UserRegistered(k)

ItemInv == ItemRoleInv /\ RegisteredInv

\* A step after which every call is as it was, or has no acknowledgement and is at no
\* stage past claim_message.
LEMMA ItemQuiet ==
    ASSUME IInv, ItemInv, UNCHANGED messages,
           UserItems(identities') = UserItems(identities), identities' \subseteq identities,
           \A t \in Tasks :
               \/ ~task'[t].acked /\ task'[t].pc \notin Working
               \/ /\ task'[t].acked => task[t].acked
                  /\ task'[t].pc \in Working <=> task[t].pc \in Working
                  /\ task'[t].key = task[t].key /\ task'[t].digest = task[t].digest,
           \/ disk' = disk
           \/ disk' = Snapshot
    PROVE  ItemInv'
<1>1. ItemRoleInv'
  <2>1. \A i \in identities' : i \in identities
    OBVIOUS
  <2>2. ASSUME disk' = Snapshot, NEW i \in disk'.identities
        PROVE  /\ i.role = "user" /\ disk'.messages[i.item].status # "absent"
               /\ Registrable(disk'.messages[i.item].digest)
    BY <2>2 DEF ItemInv, ItemRoleInv, Snapshot, SavedMessages, UserItems, Registrable
  <2> QED
    BY <2>1, <2>2 DEF ItemInv, ItemRoleInv, Registrable
<1>2. \A k : UserRegistered(k)' <=> UserRegistered(k)
  BY DEF UserRegistered, UserItems
<1>3. RegisteredInv'
  BY <1>2 DEF ItemInv, RegisteredInv, Registrable
<1> QED
  BY <1>1, <1>3 DEF ItemInv

LEMMA AcknowledgeItem ==
    ASSUME IInv, ItemInv, NEW t \in Tasks, Acknowledge(t)
    PROVE  ItemInv'
<1>t. TypeOK
  BY DEF IInv
<1>0. task[t] \in Calling
  BY <1>t, CallFields DEF Acknowledge
<1> DEFINE k == task[t].key
           d == task[t].digest
<1>1. k \in Keys /\ d \in Digests /\ task[t].pc \in Working
  BY <1>t, CallFields DEF Acknowledge, Working
<1>2. messages[k].digest = d /\ messages[k].status = "pending"
  BY <1>1 DEF Acknowledge, IInv, StageInv, ItemInv, RegisteredInv
<1>3. /\ identities' = identities \cup AckItems(k, d)
      /\ UNCHANGED <<messages, disk>>
  BY DEF Acknowledge
<1>4. \A u \in Tasks :
          /\ task'[u].pc = task[u].pc /\ task'[u].key = task[u].key
          /\ task'[u].digest = task[u].digest /\ (u # t => task'[u].acked = task[u].acked)
  BY <1>0, <1>t DEF Acknowledge, TypeOK
<1>5. \A j : UserRegistered(j) => UserRegistered(j)'
  BY <1>3 DEF UserRegistered, UserItems
<1>6. Registrable(d) => UserRegistered(k)'
  <2> SUFFICES ASSUME Registrable(d)
               PROVE  UserRegistered(k)'
    OBVIOUS
  <2> DEFINE i == [item |-> k, role |-> RoleOf[d]]
  <2>1. i \in UserItems(identities)' /\ i.item = k
    BY <1>3 DEF AckItems, Registrable, UserItems
  <2>2. \E j \in UserItems(identities)' : j.item = k
    BY <2>1
  <2>3. k' = k
    BY <1>4
  <2> QED
    BY <2>2, <2>3 DEF UserRegistered
<1>7. ItemRoleInv'
  <2>1. \A i \in AckItems(k, d) : Provider = "qwen" /\ i.item = k /\ i.role = RoleOf[d]
    BY DEF AckItems
  <2> QED
    BY <2>1, <1>2, <1>3 DEF ItemInv, ItemRoleInv, Registrable
<1>8. RegisteredInv'
  <2>1. ASSUME NEW u \in Tasks, task'[u].acked, Registrable(task'[u].digest)
        PROVE  UserRegistered(task[u].key)'
    <3>1. CASE u = t
      BY <3>1, <2>1, <1>4, <1>6
    <3>2. CASE u # t
      BY <3>2, <2>1, <1>4, <1>5 DEF ItemInv, RegisteredInv
    <3> QED
      BY <3>1, <3>2
  <2>2. ASSUME NEW u \in Tasks
        PROVE  /\ task'[u].pc \in Working => task'[u].digest = messages'[task'[u].key].digest
               /\ task'[u].acked => task'[u].pc \in Working
    BY <1>1, <1>3, <1>4 DEF ItemInv, RegisteredInv
  <2>3. ASSUME NEW j \in Keys, messages'[j].status = "confirmed", Registrable(messages'[j].digest)
        PROVE  UserRegistered(j)'
    BY <2>3, <1>3, <1>5 DEF ItemInv, RegisteredInv
  <2>4. ASSUME NEW u \in Tasks
        PROVE  (task[u].acked /\ Registrable(task[u].digest) => UserRegistered(task[u].key))'
    BY <2>1 DEF Registrable
  <2> QED
    BY <2>2, <2>3, <2>4 DEF RegisteredInv, Registrable
<1> QED
  BY <1>7, <1>8 DEF ItemInv

\* confirm_message keeps the digest of the entry.
LEMMA ResumeItem ==
    ASSUME IInv, ItemInv, NEW t \in Tasks, Resume(t)
    PROVE  ItemInv'
<1>t. TypeOK
  BY DEF IInv
<1> DEFINE k == task[t].key
<1>1. k \in Keys /\ task[t].pc \in Working /\ task[t].acked /\ task[t].pc # "idle"
  BY <1>t, CallFields DEF Resume, Working
<1>2. UNCHANGED <<identities, disk>>
  BY DEF Resume
<1>3. \A j \in Keys : messages'[j].digest = messages[j].digest
                     /\ (messages'[j].status = "absent" <=> messages[j].status = "absent")
                     /\ (messages'[j].status = "confirmed" => messages[j].status = "confirmed" \/ j = k)
  <2>1. messages[k].status = "pending"
    BY <1>1 DEF Resume, IInv, StageInv
  <2>2. messages[k] \in [digest : Digests, status : Status]
    BY <1>t, <1>1, <2>1 DEF TypeOK, Entry, Absent
  <2> QED
    BY <1>t, <1>1, <2>1, <2>2 DEF Resume, Confirm, TypeOK
<1>4. \A u \in Tasks :
          \/ ~task'[u].acked /\ task'[u].pc \notin Working
          \/ /\ task'[u].acked => task[u].acked
             /\ task'[u].pc \in Working <=> task[u].pc \in Working
             /\ task'[u].key = task[u].key /\ task'[u].digest = task[u].digest
  BY <1>t, <1>1, DoneTask, StepTask DEF Resume, Working
<1>5. UserRegistered(k) \/ ~Registrable(messages[k].digest)
  BY <1>1 DEF ItemInv, RegisteredInv
<1>6. \A j : UserRegistered(j)' <=> UserRegistered(j)
  BY <1>2 DEF UserRegistered, UserItems
<1>7. \A i \in identities : i.item \in Keys
  BY <1>t DEF TypeOK, Item
<1>8. ItemRoleInv'
  BY <1>2, <1>3, <1>7 DEF ItemInv, ItemRoleInv
<1>9. RegisteredInv'
  <2>1. \A u \in Tasks : task[u].pc \in Working => task[u].key \in Keys
    BY <1>t, CallFields DEF Working
  <2>2. ASSUME NEW u \in Tasks
        PROVE  /\ task'[u].pc \in Working => task'[u].digest = messages'[task'[u].key].digest
               /\ task'[u].acked => task'[u].pc \in Working
               /\ task'[u].acked /\ Registrable(task'[u].digest) => UserRegistered(task[u].key)'
    BY <2>1, <1>3, <1>4, <1>6 DEF ItemInv, RegisteredInv
  <2>3. ASSUME NEW j \in Keys, messages'[j].status = "confirmed", Registrable(messages'[j].digest)
        PROVE  UserRegistered(j)'
    BY <2>3, <1>3, <1>5, <1>6 DEF ItemInv, RegisteredInv
  <2> QED
    BY <2>2, <2>3 DEF RegisteredInv, Registrable
<1> QED
  BY <1>8, <1>9 DEF ItemInv

\* A claim takes a key for which nothing is registered and no call is at work.
LEMMA EnterItem ==
    ASSUME IInv, ItemInv, NEW t \in Tasks, NEW call, NEW isActive \in BOOLEAN,
           call \in Calling, ~call.acked,
           Enter(t, call, isActive), UNCHANGED <<identities, disk>>
    PROVE  ItemInv'
<1>t. TypeOK
  BY DEF IInv
<1> DEFINE k == call.key
<1>1. CASE messages[k] # Absent
  <2>1. Done(t) /\ UNCHANGED messages
    BY <1>1 DEF Enter
  <2> QED
    BY <1>t, <2>1, DoneTask, ItemQuiet DEF Working
<1>2. CASE messages[k] = Absent
  <2>1. k \in Keys /\ messages[k].status = "absent"
    BY <1>2, <1>t, EntryCases
  <2>2. /\ messages'[k] = [digest |-> call.digest, status |-> "pending"]
        /\ \A j \in Keys : j # k => messages'[j] = messages[j]
    BY <1>2, <1>t, <2>1 DEF Enter, Claim, TypeOK
  <2>3. \A u \in Tasks : task[u].pc \in Working => task[u].key # k /\ task[u].key \in Keys
    BY <2>1, <1>t, CallFields DEF IInv, StageInv, Working
  <2>4. /\ \A u \in Tasks : u # t => task'[u] = task[u]
        /\ ~task'[t].acked
        /\ \/ task'[t].pc \notin Working
           \/ task'[t].key = k /\ task'[t].digest = call.digest
    <3>1. CASE isActive
      <4>1. task' = [task EXCEPT ![t] = [call EXCEPT !.pc = "send"]]
        BY <1>2, <3>1 DEF Enter
      <4> QED
        BY <1>t, <4>1 DEF TypeOK
    <3>2. CASE ~isActive
      BY <1>2, <3>2, <1>t, DoneTask DEF Enter, Working
    <3> QED
      BY <3>1, <3>2
  <2>5. \A i \in identities : i.item \in Keys
    BY <1>t DEF TypeOK, Item
  <2>6. ItemRoleInv'
    BY <2>1, <2>2, <2>5 DEF ItemInv, ItemRoleInv
  <2>7. \A j : UserRegistered(j)' <=> UserRegistered(j)
    BY DEF UserRegistered, UserItems
  <2>8. ASSUME NEW u \in Tasks
        PROVE  /\ task'[u].pc \in Working => task'[u].digest = messages'[task'[u].key].digest
               /\ task'[u].acked => task'[u].pc \in Working
               /\ task'[u].acked /\ Registrable(task'[u].digest) => UserRegistered(task[u].key)'
    <3>1. CASE u = t
      BY <3>1, <2>2, <2>4
    <3>2. CASE u # t
      BY <3>2, <2>2, <2>3, <2>4, <2>7 DEF ItemInv, RegisteredInv
    <3> QED
      BY <3>1, <3>2
  <2>9. ASSUME NEW j \in Keys, messages'[j].status = "confirmed", Registrable(messages'[j].digest)
        PROVE  UserRegistered(j)'
    BY <2>9, <2>2, <2>7 DEF ItemInv, RegisteredInv
  <2> QED
    BY <2>6, <2>8, <2>9 DEF ItemInv, RegisteredInv, Registrable
<1> QED
  BY <1>1, <1>2

LEMMA AppendItem ==
    ASSUME IInv, ItemInv, NEW t \in Tasks, NEW k \in Keys, NEW d \in Digests, Append(t, k, d)
    PROVE  ItemInv'
<1>t. TypeOK
  BY DEF IInv
<1>1. CASE \E u \in Tasks : Holds(u, generation) \/ Waits(u, generation)
  <2>1. /\ task' = [task EXCEPT ![t] = Called(k, d, "waitLock")]
        /\ UNCHANGED <<messages, identities, disk>>
    BY <1>1 DEF Append
  <2>2. /\ ~task'[t].acked /\ task'[t].pc \notin Working
        /\ \A u \in Tasks : u # t => task'[u] = task[u]
    BY <1>t, <2>1 DEF Called, TypeOK, Working
  <2> QED
    BY <2>1, <2>2, ItemQuiet
<1>2. CASE ~\E u \in Tasks : Holds(u, generation) \/ Waits(u, generation)
  <2>1. Called(k, d, "send") \in Calling /\ ~Called(k, d, "send").acked
    BY <1>t DEF Called, TypeOK
  <2> QED
    BY <1>2, <2>1, EnterItem DEF Append
<1> QED
  BY <1>1, <1>2

\* An acknowledged call has written.
LEMMA LockedItem == ASSUME IInv, ItemInv, NEW t \in Tasks, Locked(t) PROVE ItemInv'
<1>t. TypeOK
  BY DEF IInv
<1>1. task[t] \in Calling
  BY <1>t, CallFields DEF Locked
<1>2. Active(t) \in BOOLEAN
  BY <1>t DEF Active, TypeOK
<1>3. ~task[t].acked
  BY DEF Locked, ItemInv, RegisteredInv, Working
<1> QED
  BY <1>1, <1>2, <1>3, EnterItem DEF Locked

\* A restart takes back what Restorable accepted, and a snapshot has user items only.
LEMMA CrashItem == ASSUME IInv, ItemInv, Crash PROVE ItemInv'
<1>1. \A t \in Tasks : task'[t] = Idle
  BY DEF Crash
<1>2. /\ messages' = disk.messages /\ identities' = disk.identities /\ disk' = disk
      /\ Restorable(disk)
  BY DEF Crash
<1>3. \A k \in Keys : messages'[k].status = "confirmed" => UserRegistered(k)'
  BY <1>2 DEF Restorable, UserRegistered, UserItems, ItemInv, ItemRoleInv
<1> QED
  BY <1>1, <1>2, <1>3 DEF ItemInv, ItemRoleInv, RegisteredInv, Registrable, Idle, Working

LEMMA ItemStep == ASSUME IInv, ItemInv, [Next]_vars PROVE ItemInv'
<1>t. TypeOK
  BY DEF IInv
<1>1. ASSUME NEW t \in Tasks, UNCHANGED <<memory, disk>>, Done(t)
      PROVE  ItemInv'
  BY <1>1, <1>t, DoneTask, ItemQuiet DEF memory, Working
<1>2. ASSUME NEW t \in Tasks, NEW gets \in BOOLEAN, NEW returns \in BOOLEAN,
             Sent(t, gets, returns)
      PROVE  ItemInv'
  <2>1. CASE ~returns
    BY <1>1, <1>2, <2>1 DEF Sent
  <2>2. CASE returns
    <3>1. task[t].pc = "send" /\ Step(t, "waitAck") /\ UNCHANGED <<messages, identities, disk>>
      BY <1>2, <2>2 DEF Sent, memory
    <3>2. \A u \in Tasks : /\ task'[u].acked = task[u].acked /\ task'[u].key = task[u].key
                           /\ task'[u].digest = task[u].digest
                           /\ task'[u].pc \in Working <=> task[u].pc \in Working
      <4>1. task[t] \in Calling
        BY <1>t, <3>1, CallFields
      <4> QED
        BY <1>t, <3>1, <4>1 DEF Step, TypeOK, Working
    <3> QED
      BY <3>1, <3>2, ItemQuiet
  <2> QED
    BY <2>1, <2>2
<1>3. ASSUME SessionEnds \/ Reopen \/ Save \/ (\E c \in Collections : Record(c)) \/ UNCHANGED vars
      PROVE  ItemInv'
  <2>1. UNCHANGED <<messages, task>> /\ (disk' = disk \/ disk' = Snapshot)
    BY <1>3 DEF SessionEnds, Reopen, Save, Record, vars, memory
  <2>2. identities' = identities \/ identities' = UserItems(identities)
    BY <1>3 DEF SessionEnds, Reopen, Save, Record, vars, memory
  <2>3. UserItems(identities') = UserItems(identities) /\ identities' \subseteq identities
    BY <2>2 DEF UserItems
  <2> QED
    BY <2>1, <2>3, ItemQuiet
<1> QED
  BY <1>1, <1>2, <1>3, AcknowledgeItem, ResumeItem, AppendItem, LockedItem, CrashItem
     DEF Next, TaskStep, Reject, NotAcknowledged, TriggerSent, AppCancelled

\* from_snapshot refuses what snapshot() returns exactly when it exceeds a size limit
\* or holds a confirmed message that is a system message or was sent through the
\* OpenAI adapter: whatever calls, acknowledgements, reconnects and restarts came before.
THEOREM SnapshotRefusedExactly == Spec => []RefusedExactly
<1>1. Init => ItemInv
  BY DEF Init, Snapshot, SavedMessages, UserItems, ItemInv, ItemRoleInv, RegisteredInv,
     Absent, Idle, Working
<1>2. IInv /\ ItemInv /\ [Next]_vars => ItemInv'
  BY ItemStep
<1>3. IInv /\ ItemInv => RefusedExactly
  <2> SUFFICES ASSUME IInv, ItemInv, NEW k \in Keys, messages[k].status = "confirmed"
               PROVE  (\E i \in UserItems(identities) : i.item = k)
                        <=> Registrable(messages[k].digest)
    BY DEF RefusedExactly, Restorable, Snapshot, SavedMessages, Registrable
  <2>1. ASSUME NEW i \in UserItems(identities), i.item = k
        PROVE  Registrable(messages[k].digest)
    BY <2>1 DEF ItemInv, ItemRoleInv, UserItems, Registrable
  <2>2. Registrable(messages[k].digest) => UserRegistered(k)
    BY DEF ItemInv, RegisteredInv
  <2> QED
    BY <2>1, <2>2 DEF UserRegistered
<1> QED
  BY Invariance, <1>1, <1>2, <1>3, PTL DEF Spec

=============================================================================
