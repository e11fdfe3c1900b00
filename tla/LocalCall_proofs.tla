--------------------------- MODULE LocalCall_proofs ---------------------------
(***************************************************************************)
(* Proofs about LocalCall: whichever of the reader, the forwarder and the  *)
(* host ends a call, the product is told call.closed at most once and      *)
(* nothing behind it (ClosedIsLast), and neither the message nor the       *)
(* return of run leaves an open session behind (NoOrphanSession), for any  *)
(* number of events and of failed writes.                                  *)
(***************************************************************************)
EXTENDS LocalCall, TLAPS

Write == [task : Tasks, message : Messages]
Places == ReaderPlaces \cup ForwarderPlaces \cup FailPlaces
LastPlaces == {"lastClose", "lastChannel", "lastWait", "done"}

\* The messages a task may be writing at a place.
WritesAt(place) ==
    {m \in Messages :
       \/ place \in {"connecting", "closing"} /\ m = place
       \/ place = "sendReady" /\ m = "ready"
       \/ place = "sendEvent" /\ m \in {"active", "event"}
       \/ place = "sendError" /\ m = "error"
       \/ place = "sendClosed" /\ m = "closed"}
WritePlaces == {"connecting", "closing", "sendReady", "sendEvent", "sendError", "sendClosed"}

-----------------------------------------------------------------------------
(* The inductive invariant. *)

PlaceInv ==
    /\ pc \in [Tasks -> Places]
    /\ pc["reader"] \in ReaderPlaces \cup FailPlaces
    /\ pc["forwarder"] \in ForwarderPlaces \cup FailPlaces

\* The simple variables of the type invariant.
ScalarInv ==
    /\ started \in BOOLEAN /\ ready \in BOOLEAN /\ terminal \in BOOLEAN /\ bound \in BOOLEAN
    /\ session \in {"none", "open", "ending", "closed", "failed"}
    /\ channel \in {"open", "closing", "closed", "abandoned"}
    /\ closer \in Tasks \cup {"none", "host"}
    /\ connected \in BOOLEAN /\ host \in {"serving", "closing", "closed"}
    /\ events \in 0..MaxEvents /\ faults \in 0..MaxFaults

\* The terminal is claimed by one task, and no forwarder exists before the session does.
ClaimInv ==
    /\ \A t \in Tasks : pc[t] \in FailPlaces => terminal
    /\ ~ (pc["reader"] \in FailPlaces /\ pc["forwarder"] \in FailPlaces)
    /\ pc["reader"] \in {"hello", "connecting", "opening"} \/ ~started => pc["forwarder"] = "none"
    /\ pc["reader"] \in {"connecting", "opening"} => started
    /\ pc["forwarder"] = "none" /\ terminal =>
          pc["reader"] \in FailPlaces \cup LastPlaces \cup {"finally"}

\* Whoever claims the terminal closes the session first, and so does the finally block.
SessionInv ==
    /\ session = "open" => bound
    /\ terminal => session # "open"
    /\ pc["reader"] \in LastPlaces => session # "open" /\ Ended

\* Each task has at most one write and it is the one of its place; an error that is not
\* in the queue was refused by a channel that is no longer open.
QueueInv ==
    /\ queue \in Seq(Write)
    /\ \A j, k \in 1..Len(queue) : queue[j].task = queue[k].task => j = k
    /\ \A k \in 1..Len(queue) : queue[k].message \in WritesAt(pc[queue[k].task])
    /\ \A t \in Tasks : pc[t] = "sendError" /\ ~Queued(t) => channel # "open"

\* Nothing waits behind call.closed, and only the second half of call.ready behind
\* call.error; a call.ready is never ahead of call.closed, for it would put its second
\* half behind it.
OrderInv ==
    \A j, k \in 1..Len(queue) : j < k =>
       /\ queue[j].message # "closed"
       /\ queue[j].message = "error" => queue[k].message = "active"
       /\ queue[k].message = "closed" => queue[j].message # "ready"

\* No task is on its way to a message of the terminal.
Silent(places) == terminal /\ \A t \in Tasks : pc[t] \notin places

Told(m) == \E k \in DOMAIN product : product[k] = m

ProductInv ==
    /\ product \in Seq(Messages)
    /\ Told("closed") => queue = <<>> /\ Silent({"failClose", "sendError", "sendClosed"})
    /\ Told("error") =>
          /\ Silent({"failClose", "sendError"})
          /\ \A k \in 1..Len(queue) : queue[k].message # "error"
    /\ \A k \in DOMAIN product : product[k] = "closed" => k = Len(product)
    /\ \A j, k \in DOMAIN product : product[j] = "error" /\ product[k] = "error" => j = k

IInv == PlaceInv /\ ScalarInv /\ ClaimInv /\ SessionInv /\ QueueInv /\ OrderInv /\ ProductInv

-----------------------------------------------------------------------------
(* The queue of writes. *)

\* The entry that is left when a task leaves the queue is the other's.
LEMMA WithoutFacts ==
    ASSUME QueueInv, NEW t \in Tasks
    PROVE  /\ Without(t) \in Seq(Write) /\ Len(Without(t)) <= 1
           /\ \A k \in 1..Len(Without(t)) :
                 /\ Without(t)[k].task # t
                 /\ \E j \in 1..Len(queue) : Without(t)[k] = queue[j] /\ (Holds(t) => j = 2)
           /\ Holds(t) => Len(Without(t)) = Len(queue) - 1
<1>1. queue \in Seq(Write) /\ (\A j, k \in 1..Len(queue) : queue[j].task = queue[k].task => j = k)
      /\ (\A k \in 1..Len(queue) : queue[k].task \in {"reader", "forwarder"}) /\ Len(queue) \in Nat
  <2>1. queue \in Seq(Write) /\ Len(queue) \in Nat /\ \A k \in 1..Len(queue) : queue[k] \in Write
    BY DEF QueueInv
  <2>2. \A w \in Write : w.task \in {"reader", "forwarder"}
    BY DEF Write, Tasks
  <2> QED
    BY <2>1, <2>2 DEF QueueInv
<1>2. Len(queue) <= 2
  <2> SUFFICES ASSUME Len(queue) > 2 PROVE FALSE
    BY <1>1
  <2>1. 1 \in 1..Len(queue) /\ 2 \in 1..Len(queue) /\ 3 \in 1..Len(queue)
    BY <1>1
  <2> QED
    BY <1>1, <2>1
<1>3. DOMAIN queue = 1..Len(queue)
  BY <1>1
<1>4. CASE ~Queued(t)
  <2>1. Without(t) = queue
    BY <1>4 DEF Without
  <2>2. \A k \in 1..Len(queue) : queue[k].task # t
    BY <1>3, <1>4 DEF Queued
  <2>3. Len(queue) <= 1
    <3> SUFFICES ASSUME Len(queue) > 1 PROVE FALSE
      BY <1>1, <1>2
    <3>1. 1 \in 1..Len(queue) /\ 2 \in 1..Len(queue)
      BY <1>1
    <3> QED
      BY <1>1, <2>2, <3>1 DEF Tasks
  <2>4. ~Holds(t)
    <3> SUFFICES ASSUME queue # <<>>, Head(queue).task = t PROVE FALSE
      BY DEF Holds
    <3>1. 1 \in 1..Len(queue) /\ Head(queue) = queue[1]
      BY <1>1
    <3> QED
      BY <2>2, <3>1
  <2> QED
    BY <1>1, <2>1, <2>2, <2>3, <2>4
<1>5. CASE Queued(t) /\ Holds(t)
  <2>1. Without(t) = Tail(queue) /\ queue # <<>> /\ Head(queue).task = t
    BY <1>5 DEF Without, Holds
  <2>2. 1 \in 1..Len(queue) /\ queue[1].task = t
    BY <1>1, <2>1
  <2>3. Tail(queue) \in Seq(Write) /\ Len(Tail(queue)) = Len(queue) - 1
        /\ \A k \in 1..Len(Tail(queue)) : Tail(queue)[k] = queue[k + 1]
    BY <1>1, <2>1
  <2>4. ASSUME NEW k \in 1..Len(Tail(queue))
        PROVE  k = 1 /\ 2 \in 1..Len(queue) /\ Tail(queue)[k] = queue[2] /\ queue[2].task # t
    BY <1>1, <1>2, <2>2, <2>3
  <2> QED
    BY <1>1, <1>2, <2>1, <2>3, <2>4
<1>6. CASE Queued(t) /\ ~Holds(t)
  <2>1. Without(t) = <<Head(queue)>>
    BY <1>6 DEF Without
  <2>2. queue # <<>>
    BY <1>1, <1>3, <1>6 DEF Queued
  <2>3. 1 \in 1..Len(queue) /\ Head(queue) = queue[1] /\ queue[1] \in Write /\ queue[1].task # t
    BY <1>1, <1>6, <2>2 DEF Holds
  <2>4. <<queue[1]>> \in Seq(Write) /\ Len(<<queue[1]>>) = 1 /\ <<queue[1]>>[1] = queue[1]
    BY <2>3
  <2> QED
    BY <1>6, <2>1, <2>3, <2>4
<1> QED
  BY <1>4, <1>5, <1>6

-----------------------------------------------------------------------------
(* Where the tasks are, who has claimed the terminal, and what became of the session. *)

\* A task sets out for a message of the terminal only by claiming it.
Enters ==
    /\ terminal => terminal'
    /\ channel' = "open" => channel = "open"
    /\ \A t \in Tasks :
          /\ pc'[t] = "failClose" => pc[t] = "failClose" \/ ~terminal
          /\ pc'[t] = "sendError" => pc[t] \in {"sendError", "failClose"}
          /\ pc'[t] = "sendClosed" => pc[t] \in {"sendClosed", "sendError"} \/ ~terminal

Kept == PlaceInv' /\ ScalarInv' /\ ClaimInv' /\ SessionInv' /\ Enters

\* A set of places has its places as members.
LEMMA PlaceSets ==
    /\ ReaderPlaces \cup FailPlaces \subseteq Places /\ ForwarderPlaces \cup FailPlaces \subseteq Places
    /\ Tasks = {"reader", "forwarder"}
BY DEF Places, Tasks

\* One task goes to another place, whether it claims the terminal or not.
LEMMA TaskGoes ==
    ASSUME PlaceInv, ClaimInv, SessionInv, ScalarInv, ScalarInv',
           NEW t \in Tasks, NEW b, Goto(t, b),
           t = "reader" => b \in ReaderPlaces \cup FailPlaces,
           t = "forwarder" => pc[t] \notin {"none", "done"} /\ b # "none" /\ b \in ForwarderPlaces \cup FailPlaces,
           \* the terminal
           terminal => terminal', terminal' => terminal \/ b \in FailPlaces,
           b \in FailPlaces => terminal' /\ (pc[t] \in FailPlaces \/ ~terminal),
           b = "failClose" => pc[t] = "failClose" \/ ~terminal,
           b = "sendError" => pc[t] \in {"sendError", "failClose"},
           b = "sendClosed" => pc[t] \in {"sendClosed", "sendError"} \/ ~terminal,
           \* the reader
           started => started', ~started /\ started' => t = "reader",
           t = "reader" /\ pc[t] \in FailPlaces \cup LastPlaces \cup {"finally"} =>
              b \in FailPlaces \cup LastPlaces \cup {"finally"},
           t = "reader" /\ b \in {"hello", "connecting", "opening"} => pc["forwarder"] = "none",
           t = "reader" /\ b \in {"connecting", "opening"} => started',
           t = "reader" /\ b \in LastPlaces => pc[t] \in LastPlaces,
           \* session and channel
           session' = "open" => session = "open", session' = "open" => bound' = bound,
           terminal' /\ ~terminal => session' # "open",
           channel' = "open" => channel = "open"
    PROVE  Kept
<1>1. pc' = [pc EXCEPT ![t] = b] /\ pc \in [Tasks -> Places] /\ b \in Places
  BY PlaceSets DEF Goto, PlaceInv
<1>2. pc' \in [Tasks -> Places] /\ pc'[t] = b /\ \A u \in Tasks : u # t => pc'[u] = pc[u]
  BY <1>1
<1>3. t = "reader" \/ t = "forwarder"
  BY PlaceSets
<1>4. PlaceInv'
  BY <1>2, <1>3, PlaceSets DEF PlaceInv
<1>5. Enters
  BY <1>2 DEF Enters
<1>6. ClaimInv'
  <2>1. \A u \in Tasks : pc'[u] \in FailPlaces => terminal'
    BY <1>2 DEF ClaimInv
  <2>2. ~ (pc'["reader"] \in FailPlaces /\ pc'["forwarder"] \in FailPlaces)
    BY <1>2, <1>3, PlaceSets DEF ClaimInv
  <2>3. pc'["reader"] \in {"hello", "connecting", "opening"} \/ ~started' => pc'["forwarder"] = "none"
    BY <1>2, <1>3, PlaceSets DEF ClaimInv
  <2>4. pc'["forwarder"] = "none" /\ terminal' =>
           pc'["reader"] \in FailPlaces \cup LastPlaces \cup {"finally"}
    BY <1>2, <1>3, PlaceSets DEF ClaimInv
  <2>5. pc'["reader"] \in {"connecting", "opening"} => started'
    BY <1>2, <1>3, PlaceSets DEF ClaimInv
  <2> QED
    BY <2>1, <2>2, <2>3, <2>4, <2>5 DEF ClaimInv
<1>7. SessionInv'
  <2>1. pc'["reader"] \in LastPlaces => pc["reader"] \in LastPlaces
    BY <1>2, <1>3, PlaceSets
  <2>2. Ended => Ended' \/ t = "forwarder"
    BY <1>2, <1>3, PlaceSets DEF Ended
  <2>3. t = "forwarder" => ~Ended
    BY DEF Ended
  <2> QED
    BY <2>1, <2>2, <2>3 DEF SessionInv
<1> QED
  BY <1>4, <1>5, <1>6, <1>7 DEF Kept

-----------------------------------------------------------------------------
(* The four things a step does to the writes. *)

\* A task that does not write stays, or goes to another place without a write.
Aside(t) == pc'[t] = pc[t] \/ (pc[t] \notin WritePlaces /\ pc'[t] \notin WritePlaces)

Idles == UNCHANGED <<queue, product>> /\ \A t \in Tasks : Aside(t)

\* A task asks for a write, before the terminal is claimed or as the one that claimed it.
Puts(t, m) ==
    /\ pc[t] \notin WritePlaces /\ m \in WritesAt(pc'[t])
    /\ ~terminal \/ pc[t] = "failClose"
    /\ m = "closed" => t = "forwarder" /\ ~terminal
    /\ \A u \in Tasks : u # t => Aside(u)
    /\ Request(queue, t, m) /\ UNCHANGED product

\* The write of a task has reached the product, or not.
Sends(t) ==
    \/ UNCHANGED product
    \/ Holds(t) /\ product' = Append(product, Head(queue).message)

\* The write of a task ends, or is cut off.
Drops(t) ==
    /\ pc'[t] \notin WritePlaces /\ \A u \in Tasks : u # t => Aside(u)
    /\ queue' = Without(t) /\ Sends(t)

\* A task that has written goes on with a second write.
Repeats(t, m) ==
    /\ \/ pc[t] = "sendError" /\ pc'[t] = "sendClosed" /\ m = "closed" /\ (Holds(t) \/ ~Queued(t))
       \/ pc[t] = "sendReady" /\ pc'[t] = "sendEvent" /\ m = "active" /\ Holds(t)
    /\ \A u \in Tasks : u # t => Aside(u)
    /\ Request(Without(t), t, m) /\ Sends(t)

Writing == Idles \/ \E t \in Tasks : Drops(t) \/ \E m \in Messages : Puts(t, m) \/ Repeats(t, m)

\* A queue whose entries are the writes of their tasks' places.
LEMMA WritesPlaces ==
    /\ \A place : place \notin WritePlaces => WritesAt(place) = {}
    /\ \A place : "error" \in WritesAt(place) <=> place = "sendError"
    /\ \A place : "closed" \in WritesAt(place) <=> place = "sendClosed"
    /\ \A place : "ready" \in WritesAt(place) <=> place = "sendReady"
    /\ \A place : "active" \in WritesAt(place) <=> place = "sendEvent"
    /\ {"sendError", "sendClosed", "failClose"} \subseteq FailPlaces
    /\ "sendReady" \notin ReaderPlaces \cup FailPlaces
BY DEF WritesAt, WritePlaces, Messages, FailPlaces, ReaderPlaces

\* What the entries of the queue say about the places of their tasks.
LEMMA QueueEntries ==
    ASSUME QueueInv, PlaceInv, ClaimInv
    PROVE  /\ Len(queue) \in Nat /\ DOMAIN queue = 1..Len(queue)
           /\ \A k \in 1..Len(queue) :
                 /\ queue[k] \in Write /\ queue[k].task \in Tasks /\ queue[k].message \in Messages
                 /\ pc[queue[k].task] \in WritePlaces
                 /\ queue[k].message = "error" => pc[queue[k].task] = "sendError"
                 /\ queue[k].message = "closed" => pc[queue[k].task] = "sendClosed"
                 /\ queue[k].message = "ready" => pc[queue[k].task] = "sendReady" /\ queue[k].task = "forwarder"
           /\ \A t, u \in Tasks : pc[t] \in FailPlaces /\ pc[u] \in FailPlaces => t = u
<1>1. queue \in Seq(Write) /\ Len(queue) \in Nat /\ DOMAIN queue = 1..Len(queue)
      /\ \A k \in 1..Len(queue) : queue[k] \in Write
  BY DEF QueueInv
<1>2. \A w \in Write : w.task \in Tasks /\ w.message \in Messages
  BY DEF Write
<1>3. \A k \in 1..Len(queue) : queue[k].message \in WritesAt(pc[queue[k].task])
  BY DEF QueueInv
<1>4. \A t, u \in Tasks : pc[t] \in FailPlaces /\ pc[u] \in FailPlaces => t = u
  BY PlaceSets DEF ClaimInv
<1>5. ASSUME NEW k \in 1..Len(queue), queue[k].message = "ready"
      PROVE  pc[queue[k].task] = "sendReady" /\ queue[k].task = "forwarder"
  BY <1>1, <1>2, <1>3, <1>5, WritesPlaces, PlaceSets DEF PlaceInv
<1> QED
  BY <1>1, <1>2, <1>3, <1>4, <1>5, WritesPlaces

\* Whatever is left of the queue, or is put at its end, is in order.
LEMMA QueueKept ==
    ASSUME PlaceInv, ClaimInv, QueueInv, OrderInv, Kept, Writing
    PROVE  QueueInv' /\ OrderInv'
<1>0. PlaceInv' /\ ClaimInv' /\ Enters
  BY DEF Kept
<1>1. ASSUME NEW list, NEW t \in Tasks, list \in Seq(Write),
             \A k \in 1..Len(list) : list[k].task # t /\ \E j \in 1..Len(queue) : list[k] = queue[j],
             \A u \in Tasks : u # t => Aside(u),
             \A j, k \in 1..Len(list) : list[j].task = list[k].task => j = k,
             NEW m, m \in WritesAt(pc'[t]), Request(list, t, m)
      PROVE  /\ queue' \in Seq(Write)
             /\ \A j, k \in 1..Len(queue') : queue'[j].task = queue'[k].task => j = k
             /\ \A k \in 1..Len(queue') : queue'[k].message \in WritesAt(pc'[queue'[k].task])
             /\ channel = "open" => queue' = Append(list, [task |-> t, message |-> m])
             /\ channel # "open" => queue' = list
  <2> DEFINE w == [task |-> t, message |-> m]
  <2>1. w \in Write /\ w.task = t /\ w.message = m
    BY <1>1 DEF Write, WritesAt
  <2>2. \A k \in 1..Len(list) : list[k].message \in WritesAt(pc'[list[k].task])
    <3> SUFFICES ASSUME NEW k \in 1..Len(list)
                 PROVE  list[k].message \in WritesAt(pc'[list[k].task])
      OBVIOUS
    <3>1. PICK j \in 1..Len(queue) : list[k] = queue[j]
      BY <1>1
    <3>2. queue[j].message \in WritesAt(pc[queue[j].task]) /\ pc[queue[j].task] \in WritePlaces
          /\ queue[j].task \in Tasks
      BY QueueEntries DEF QueueInv
    <3>3. Aside(queue[j].task)
      BY <1>1, <3>1, <3>2
    <3> QED
      BY <3>1, <3>2, <3>3 DEF Aside
  <2>3. queue' = IF channel = "open" THEN Append(list, w) ELSE list
    BY <1>1 DEF Request
  <2> HIDE DEF w
  <2>4. CASE channel = "open"
    <3>1. queue' = Append(list, w) /\ queue' \in Seq(Write) /\ Len(queue') = Len(list) + 1
          /\ Len(list) \in Nat
          /\ \A k \in 1..Len(queue') : queue'[k] = IF k <= Len(list) THEN list[k] ELSE w
      BY <1>1, <2>1, <2>3, <2>4
    <3>2. \A k \in 1..Len(queue') : k <= Len(list) => k \in 1..Len(list)
      BY <3>1
    <3>3. \A k \in 1..Len(queue') : ~ (k <= Len(list)) => k = Len(list) + 1
      BY <3>1
    <3>4. \A j, k \in 1..Len(queue') : queue'[j].task = queue'[k].task => j = k
      BY <1>1, <2>1, <3>1, <3>2, <3>3
    <3>5. \A k \in 1..Len(queue') : queue'[k].message \in WritesAt(pc'[queue'[k].task])
      BY <1>1, <2>1, <2>2, <3>1, <3>2, <3>3
    <3> QED
      BY <2>4, <3>1, <3>4, <3>5 DEF w
  <2>5. CASE channel # "open"
    BY <1>1, <2>2, <2>3, <2>5
  <2> QED
    BY <2>4, <2>5
<1>2. CASE Idles
  <2>1. queue' = queue
    BY <1>2 DEF Idles
  <2>2. \A t \in Tasks : Queued(t)' <=> Queued(t)
    BY <2>1 DEF Queued
  <2>3. \A t \in Tasks : pc'[t] = "sendError" => pc[t] = "sendError"
    BY <1>2 DEF Idles, Aside, WritePlaces
  <2>4. \A k \in 1..Len(queue) : queue[k].message \in WritesAt(pc'[queue[k].task])
    BY <1>2, QueueEntries DEF Idles, Aside, QueueInv
  <2> QED
    BY <1>0, <2>1, <2>2, <2>3, <2>4 DEF QueueInv, OrderInv, Enters
<1>3. ASSUME NEW t \in Tasks, Drops(t) PROVE QueueInv' /\ OrderInv'
  <2>1. queue' = Without(t)
    BY <1>3 DEF Drops
  <2>2. /\ queue' \in Seq(Write) /\ Len(queue') <= 1 /\ Len(queue') \in Nat
        /\ \A k \in 1..Len(queue') : queue'[k].task # t /\ \E j \in 1..Len(queue) : queue'[k] = queue[j]
    BY <2>1, WithoutFacts
  <2>3. \A k \in 1..Len(queue') : queue'[k].message \in WritesAt(pc'[queue'[k].task])
    <3> SUFFICES ASSUME NEW k \in 1..Len(queue')
                 PROVE  queue'[k].message \in WritesAt(pc'[queue'[k].task])
      OBVIOUS
    <3>1. PICK j \in 1..Len(queue) : queue'[k] = queue[j]
      BY <2>2
    <3>2. queue[j].message \in WritesAt(pc[queue[j].task]) /\ pc[queue[j].task] \in WritePlaces
          /\ queue[j].task \in Tasks
      BY QueueEntries DEF QueueInv
    <3>3. Aside(queue[j].task)
      BY <1>3, <2>2, <3>1, <3>2 DEF Drops
    <3> QED
      BY <3>1, <3>2, <3>3 DEF Aside
  <2>4. ASSUME NEW u \in Tasks, pc'[u] = "sendError", channel' = "open"
        PROVE  Queued(u)'
    <3>1. u # t /\ pc[u] = "sendError" /\ channel = "open"
      BY <1>0, <1>3, <2>4 DEF Drops, Aside, WritePlaces, Enters
    <3>2. Queued(u)
      BY <3>1 DEF QueueInv
    <3>3. \E k \in DOMAIN queue' : queue'[k].task = u
      <4>1. PICK j \in 1..Len(queue) : queue[j].task = u
        BY <3>2, QueueEntries DEF Queued
      <4>2. CASE ~Queued(t)
        BY <2>1, <4>1, <4>2, QueueEntries DEF Without
      <4>3. CASE Queued(t) /\ Holds(t)
        <5>1. queue' = Tail(queue) /\ queue # <<>> /\ Head(queue).task = t /\ queue \in Seq(Write)
          BY <2>1, <4>3 DEF Without, Holds, QueueInv
        <5>2. queue[1].task = t /\ j # 1 /\ j - 1 \in 1..Len(queue') /\ queue'[j - 1] = queue[j]
              /\ DOMAIN queue' = 1..Len(queue')
          BY <3>1, <4>1, <5>1
        <5> QED
          BY <4>1, <5>2
      <4>4. CASE Queued(t) /\ ~Holds(t)
        <5>1. queue' = <<Head(queue)>> /\ queue # <<>> /\ Head(queue).task # t /\ queue \in Seq(Write)
          BY <2>1, <4>1, <4>4 DEF Without, Holds, QueueInv
        <5>2. Head(queue) = queue[1] /\ 1 \in 1..Len(queue)
          BY <5>1
        <5>3. queue[1].task = u
          BY <3>1, <5>1, <5>2, QueueEntries, PlaceSets
        <5>4. 1 \in DOMAIN queue' /\ queue'[1] = queue[1]
          BY <5>1, <5>2
        <5> QED
          BY <5>3, <5>4
      <4> QED
        BY <4>2, <4>3, <4>4
    <3> QED
      BY <3>3 DEF Queued
  <2>5. \A j, k \in 1..Len(queue') : j = k
    BY <2>2
  <2> QED
    BY <2>2, <2>3, <2>4, <2>5 DEF QueueInv, OrderInv
<1>4. ASSUME NEW t \in Tasks, NEW m \in Messages, Puts(t, m) PROVE QueueInv' /\ OrderInv'
  <2>1. /\ queue \in Seq(Write)
        /\ \A j, k \in 1..Len(queue) : queue[j].task = queue[k].task => j = k
        /\ \A k \in 1..Len(queue) : queue[k].task # t
    BY <1>4, QueueEntries DEF QueueInv, Puts
  <2>2. /\ queue' \in Seq(Write)
        /\ \A j, k \in 1..Len(queue') : queue'[j].task = queue'[k].task => j = k
        /\ \A k \in 1..Len(queue') : queue'[k].message \in WritesAt(pc'[queue'[k].task])
        /\ channel = "open" => queue' = Append(queue, [task |-> t, message |-> m])
        /\ channel # "open" => queue' = queue
    BY <1>1, <1>4, <2>1 DEF Puts
  <2>3. \A k \in 1..Len(queue) : queue[k].message \notin {"error", "closed"}
    BY <1>4, <2>1, QueueEntries, WritesPlaces DEF Puts, ClaimInv
  <2>4. m = "closed" => \A k \in 1..Len(queue) : queue[k].message # "ready"
    BY <1>4, <2>1, QueueEntries DEF Puts
  <2>5. CASE channel = "open"
    <3> DEFINE w == [task |-> t, message |-> m]
    <3>1. w \in Write /\ w.task = t /\ w.message = m
      BY DEF Write
    <3>2. queue' = Append(queue, w)
      BY <2>2, <2>5
    <3> HIDE DEF w
    <3>3. Len(queue') = Len(queue) + 1 /\ Len(queue) \in Nat /\ DOMAIN queue' = 1..Len(queue')
          /\ \A k \in 1..Len(queue') : queue'[k] = IF k <= Len(queue) THEN queue[k] ELSE w
      BY <2>1, <3>1, <3>2
    <3>4. OrderInv'
      <4> SUFFICES ASSUME NEW j \in 1..Len(queue'), NEW k \in 1..Len(queue'), j < k
                   PROVE  /\ queue'[j].message # "closed"
                          /\ queue'[j].message = "error" => queue'[k].message = "active"
                          /\ queue'[k].message = "closed" => queue'[j].message # "ready"
        BY DEF OrderInv
      <4>1. j \in 1..Len(queue) /\ queue'[j] = queue[j]
        BY <3>3
      <4>2. CASE k \in 1..Len(queue)
        BY <2>3, <3>3, <4>1, <4>2
      <4>3. CASE k = Len(queue) + 1
        BY <2>3, <2>4, <3>1, <3>3, <4>1, <4>3
      <4> QED
        BY <3>3, <4>2, <4>3
    <3>5. ASSUME NEW u \in Tasks, pc'[u] = "sendError"
          PROVE  Queued(u)'
      <4>1. CASE u = t
        BY <3>1, <3>3, <4>1 DEF Queued
      <4>2. CASE u # t
        <5>1. pc[u] = "sendError"
          BY <1>4, <3>5, <4>2 DEF Puts, Aside, WritePlaces
        <5>2. PICK k \in 1..Len(queue) : queue[k].task = u
          BY <2>5, <5>1, QueueEntries DEF QueueInv, Queued
        <5> QED
          BY <3>3, <5>2 DEF Queued
      <4> QED
        BY <4>1, <4>2
    <3> QED
      BY <2>2, <3>4, <3>5 DEF QueueInv
  <2>6. CASE channel # "open"
    <3>1. channel' # "open" /\ queue' = queue
      BY <1>0, <2>2, <2>6 DEF Enters
    <3> QED
      BY <2>2, <3>1 DEF QueueInv, OrderInv
  <2> QED
    BY <2>5, <2>6
<1>5. ASSUME NEW t \in Tasks, NEW m \in Messages, Repeats(t, m) PROVE QueueInv' /\ OrderInv'
  <2> DEFINE list == Without(t)
  <2>1. /\ list \in Seq(Write) /\ Len(list) <= 1 /\ Len(list) \in Nat
        /\ \A k \in 1..Len(list) : list[k].task # t /\ \E j \in 1..Len(queue) : list[k] = queue[j] /\ (Holds(t) => j = 2)
    BY WithoutFacts
  <2>2. m \in WritesAt(pc'[t])
    BY <1>5, WritesPlaces DEF Repeats
  <2>3. Request(list, t, m) /\ \A u \in Tasks : u # t => Aside(u)
    BY <1>5 DEF Repeats
  <2> HIDE DEF list
  <2>4. /\ queue' \in Seq(Write)
        /\ \A j, k \in 1..Len(queue') : queue'[j].task = queue'[k].task => j = k
        /\ \A k \in 1..Len(queue') : queue'[k].message \in WritesAt(pc'[queue'[k].task])
        /\ channel = "open" => queue' = Append(list, [task |-> t, message |-> m])
        /\ channel # "open" => queue' = list
    BY <1>1, <2>1, <2>2, <2>3
  <2>5. CASE channel # "open"
    <3>1. channel' # "open" /\ queue' = list
      BY <1>0, <2>4, <2>5 DEF Enters
    <3>2. \A j, k \in 1..Len(queue') : ~ (j < k)
      BY <2>1, <3>1
    <3> QED
      BY <2>4, <3>1, <3>2 DEF QueueInv, OrderInv
  <2>6. CASE channel = "open"
    <3>1. Holds(t)
      BY <1>5, <2>6 DEF Repeats, QueueInv
    <3>2. queue # <<>> /\ Head(queue).task = t /\ queue \in Seq(Write)
      BY <3>1 DEF Holds, QueueInv
    <3>3. 1 \in 1..Len(queue) /\ queue[1].task = t
      BY <3>2
    <3>4. \A k \in 1..Len(list) :
             /\ m = "closed" => list[k].message = "active"
             /\ m = "active" => list[k].message # "closed"
      <4> SUFFICES ASSUME NEW k \in 1..Len(list)
                   PROVE  /\ m = "closed" => list[k].message = "active"
                          /\ m = "active" => list[k].message # "closed"
        OBVIOUS
      <4>1. 2 \in 1..Len(queue) /\ list[k] = queue[2]
        BY <2>1, <3>1
      <4>2. queue[1].message \in WritesAt(pc[t])
        BY <3>3 DEF QueueInv
      <4>3. m = "closed" => queue[1].message = "error"
        BY <1>5, <4>2 DEF Repeats, WritesAt
      <4>4. m = "active" => queue[1].message = "ready"
        BY <1>5, <4>2 DEF Repeats, WritesAt
      <4> QED
        BY <3>3, <4>1, <4>3, <4>4 DEF OrderInv
    <3> DEFINE w == [task |-> t, message |-> m]
    <3>5. w \in Write /\ w.task = t /\ w.message = m
      BY DEF Write
    <3>6. queue' = Append(list, w)
      BY <2>4, <2>6
    <3> HIDE DEF w
    <3>7. Len(queue') = Len(list) + 1 /\ Len(list) \in Nat /\ DOMAIN queue' = 1..Len(queue')
          /\ \A k \in 1..Len(queue') : queue'[k] = IF k <= Len(list) THEN list[k] ELSE w
      BY <2>1, <3>5, <3>6
    <3>8. OrderInv'
      <4> SUFFICES ASSUME NEW j \in 1..Len(queue'), NEW k \in 1..Len(queue'), j < k
                   PROVE  /\ queue'[j].message # "closed"
                          /\ queue'[j].message = "error" => queue'[k].message = "active"
                          /\ queue'[k].message = "closed" => queue'[j].message # "ready"
        BY DEF OrderInv
      <4>1. j \in 1..Len(list) /\ queue'[j] = list[j] /\ queue'[k] = w
        BY <2>1, <3>7
      <4>2. m = "closed" \/ m = "active"
        BY <1>5 DEF Repeats
      <4> QED
        BY <3>4, <3>5, <4>1, <4>2
    <3>9. \A u \in Tasks : pc'[u] = "sendError" => Queued(u)'
      <4> SUFFICES ASSUME NEW u \in Tasks, pc'[u] = "sendError" PROVE Queued(u)'
        OBVIOUS
      <4>1. u # t /\ pc[u] = "sendError"
        BY <1>5 DEF Repeats, Aside, WritePlaces
      <4>2. PICK k \in 1..Len(queue) : queue[k].task = u
        BY <2>6, <4>1, QueueEntries DEF QueueInv, Queued
      <4>3. list = Tail(queue)
        BY <3>1, <3>2, <3>3, QueueEntries DEF list, Without, Queued
      <4>4. k - 1 \in 1..Len(list) /\ list[k - 1] = queue[k]
        BY <3>2, <3>3, <4>1, <4>2, <4>3
      <4>5. k - 1 \in DOMAIN queue' /\ queue'[k - 1] = queue[k]
        BY <3>7, <4>4
      <4> QED
        BY <4>2, <4>5 DEF Queued
    <3> QED
      BY <2>4, <3>8, <3>9 DEF QueueInv
  <2> QED
    BY <2>5, <2>6
<1> QED
  BY <1>2, <1>3, <1>4, <1>5 DEF Writing

\* What the product has been told grows by the message at the head of the queue, if at all.
LEMMA ProductKept ==
    ASSUME PlaceInv, ClaimInv, QueueInv, OrderInv, ProductInv, Kept, Writing
    PROVE  ProductInv'
<1>0. PlaceInv' /\ ClaimInv' /\ Enters
  BY DEF Kept
<1>1. /\ product \in Seq(Messages) /\ Len(product) \in Nat /\ DOMAIN product = 1..Len(product)
      /\ Len(queue) \in Nat
  BY QueueEntries DEF ProductInv
<1>2. \* who was silent stays silent
      /\ Silent({"failClose", "sendError", "sendClosed"}) => Silent({"failClose", "sendError", "sendClosed"})'
      /\ Silent({"failClose", "sendError"}) => Silent({"failClose", "sendError"})'
  BY <1>0 DEF Silent, Enters
<1>3. \* a message of the terminal enters the queue only on the way from failClose
      Silent({"failClose", "sendError"}) /\ (\A k \in 1..Len(queue) : queue[k].message # "error") =>
         \A k \in 1..Len(queue') : queue'[k].message # "error"
  <2>1. QueueInv'
    BY QueueKept
  <2>2. \A k \in 1..Len(queue') : queue'[k].message = "error" => pc'[queue'[k].task] = "sendError"
        /\ queue'[k].task \in Tasks
    <3>1. \A k \in 1..Len(queue') : queue'[k] \in Write /\ queue'[k].message \in WritesAt(pc'[queue'[k].task])
      BY <2>1 DEF QueueInv
    <3> QED
      BY <3>1, WritesPlaces DEF Write
  <2> QED
    BY <1>2, <2>2 DEF Silent
<1>4. Told("closed") => queue' = <<>>
  <2> SUFFICES ASSUME Told("closed") PROVE queue' = <<>>
    OBVIOUS
  <2>1. queue = <<>> /\ Silent({"failClose", "sendError", "sendClosed"})
    BY DEF ProductInv
  <2>2. \A t \in Tasks : ~Queued(t) /\ ~Holds(t) /\ Without(t) = <<>>
    BY <2>1 DEF Queued, Holds, Without
  <2>3. \A t \in Tasks, m \in Messages : ~ Puts(t, m)
    BY <2>1 DEF Puts, Silent
  <2>4. \A t \in Tasks, m \in Messages : ~ Repeats(t, m)
    BY <2>1, <2>2 DEF Repeats, Silent
  <2> QED
    BY <2>1, <2>2, <2>3, <2>4 DEF Writing, Idles, Drops
<1>5. UNCHANGED product \/ \E t \in Tasks : Holds(t) /\ product' = Append(product, Head(queue).message)
                                          /\ (Drops(t) \/ \E m \in Messages : Repeats(t, m))
  BY DEF Writing, Idles, Puts, Drops, Repeats, Sends
<1>6. CASE UNCHANGED product
  <2>1. \A m : Told(m)' <=> Told(m)
    BY <1>6 DEF Told
  <2> QED
    BY <1>2, <1>3, <1>4, <1>6, <2>1 DEF ProductInv
<1>7. ASSUME NEW t \in Tasks, Holds(t), product' = Append(product, Head(queue).message),
             Drops(t) \/ \E m \in Messages : Repeats(t, m)
      PROVE  ProductInv'
  <2>1. queue # <<>> /\ Head(queue).task = t /\ queue \in Seq(Write)
    BY <1>7 DEF Holds, QueueInv
  <2>2. 1 \in 1..Len(queue) /\ Head(queue) = queue[1] /\ queue[1].task = t
    BY <2>1
  <2> DEFINE m == queue[1].message
  <2>3. m \in Messages /\ m \in WritesAt(pc[t])
    BY <2>2, QueueEntries DEF QueueInv
  <2>4. ~Told("closed")
    BY <2>1 DEF ProductInv
  <2> HIDE DEF m
  <2>5. product' = Append(product, m)
    BY <1>7, <2>2 DEF m
  <2>6. /\ product' \in Seq(Messages) /\ Len(product') = Len(product) + 1 /\ DOMAIN product' = 1..Len(product')
        /\ \A k \in 1..Len(product') : product'[k] = IF k <= Len(product) THEN product[k] ELSE m
    BY <1>1, <2>3, <2>5
  <2>7. \A x : Told(x)' => Told(x) \/ x = m
    BY <1>1, <2>6 DEF Told
  <2>8. \A k \in DOMAIN product' : product'[k] = "closed" => k = Len(product')
    BY <1>1, <2>4, <2>6 DEF Told
  <2>9. m = "error" => ~Told("error")
    BY <2>2 DEF m, ProductInv
  <2>10. \A j, k \in DOMAIN product' : product'[j] = "error" /\ product'[k] = "error" => j = k
    <3> SUFFICES ASSUME NEW j \in DOMAIN product', NEW k \in DOMAIN product',
                        product'[j] = "error", product'[k] = "error"
                 PROVE  j = k
      OBVIOUS
    <3>1. CASE m = "error"
      <4>1. j = Len(product) + 1
        BY <1>1, <2>6, <2>9, <3>1 DEF Told
      <4>2. k = Len(product) + 1
        BY <1>1, <2>6, <2>9, <3>1 DEF Told
      <4> QED
        BY <4>1, <4>2
    <3>2. CASE m # "error"
      <4>1. j \in DOMAIN product /\ product[j] = "error" /\ k \in DOMAIN product /\ product[k] = "error"
        BY <1>1, <2>6, <3>2
      <4> QED
        BY <4>1 DEF ProductInv
    <3> QED
      BY <3>1, <3>2
  <2>11. ASSUME m = "closed" PROVE queue' = <<>> /\ Silent({"failClose", "sendError", "sendClosed"})'
    <3>1. pc[t] = "sendClosed" /\ terminal
      BY <2>3, <2>11, WritesPlaces DEF ClaimInv
    <3>2. Len(queue) = 1
      <4>1. Len(queue) >= 1
        BY <1>1, <2>2
      <4>2. ~ (2 \in 1..Len(queue))
        BY <2>2, <2>11 DEF OrderInv, m
      <4> QED
        BY <1>1, <4>1, <4>2
    <3>3. Drops(t)
      BY <1>7, <3>1 DEF Repeats
    <3>4. queue' = Without(t) /\ Without(t) \in Seq(Write) /\ Len(Without(t)) = 0
      BY <1>7, <3>2, <3>3, WithoutFacts DEF Drops
    <3>5. queue' = <<>>
      BY <3>4
    <3>6. \A u \in Tasks : u # t => pc[u] \notin FailPlaces
      BY <3>1, QueueEntries, WritesPlaces
    <3>7. \A u \in Tasks : pc'[u] \notin {"failClose", "sendError", "sendClosed"}
      <4>1. pc'[t] \notin {"failClose", "sendError", "sendClosed"}
        BY <1>0, <3>1, <3>3 DEF Drops, WritePlaces, Enters
      <4>2. \A u \in Tasks : u # t => pc'[u] \notin {"failClose", "sendError", "sendClosed"}
        BY <1>0, <3>1, <3>6, WritesPlaces DEF Enters
      <4> QED
        BY <4>1, <4>2
    <3> QED
      BY <1>0, <3>1, <3>5, <3>7 DEF Silent, Enters
  <2>12. ASSUME m = "error"
         PROVE  Silent({"failClose", "sendError"})' /\ \A k \in 1..Len(queue') : queue'[k].message # "error"
    <3>1. pc[t] = "sendError" /\ terminal
      BY <2>3, <2>12, WritesPlaces DEF ClaimInv
    <3>2. \A u \in Tasks : u # t => pc[u] \notin FailPlaces
      BY <3>1, QueueEntries, WritesPlaces
    <3>3. pc'[t] # "sendError"
      BY <1>7, <3>1 DEF Drops, Repeats, WritePlaces
    <3>4. \A u \in Tasks : pc'[u] \notin {"failClose", "sendError"}
      <4>1. pc'[t] \notin {"failClose", "sendError"}
        BY <1>0, <3>1, <3>3 DEF Enters
      <4>2. \A u \in Tasks : u # t => pc'[u] \notin {"failClose", "sendError"}
        BY <1>0, <3>1, <3>2, WritesPlaces DEF Enters
      <4> QED
        BY <4>1, <4>2
    <3>5. QueueInv'
      BY QueueKept
    <3>6. \A k \in 1..Len(queue') : queue'[k].message = "error" =>
             pc'[queue'[k].task] = "sendError" /\ queue'[k].task \in Tasks
      <4>1. \A k \in 1..Len(queue') : queue'[k] \in Write /\ queue'[k].message \in WritesAt(pc'[queue'[k].task])
        BY <3>5 DEF QueueInv
      <4> QED
        BY <4>1, WritesPlaces DEF Write
    <3> QED
      BY <1>0, <3>1, <3>4, <3>6 DEF Silent, Enters
  <2>13. Told("closed")' => queue' = <<>> /\ Silent({"failClose", "sendError", "sendClosed"})'
    BY <2>4, <2>7, <2>11
  <2>14. Told("error")' =>
            /\ Silent({"failClose", "sendError"})'
            /\ \A k \in 1..Len(queue') : queue'[k].message # "error"
    <3>1. CASE m = "error"
      BY <2>12, <3>1
    <3>2. CASE m # "error" /\ Told("error")
      BY <1>2, <1>3, <3>2 DEF ProductInv
    <3> QED
      BY <2>7, <3>1, <3>2
  <2> QED
    BY <2>6, <2>8, <2>10, <2>13, <2>14 DEF ProductInv
<1> QED
  BY <1>5, <1>6, <1>7

-----------------------------------------------------------------------------
(* The steps. *)

\* A write that ends was at the head of the queue, or was refused by the channel.
LEMMA WriteEnds ==
    ASSUME ScalarInv, NEW t \in Tasks, Delivered(t) \/ Lost(t)
    PROVE  Sends(t) /\ (Holds(t) \/ ~Queued(t)) /\ faults' \in 0..MaxFaults
<1>1. Sends(t) /\ (Holds(t) \/ ~Queued(t))
  BY DEF Delivered, Lost, Sends
<1>2. faults' \in 0..MaxFaults
  BY BoundAssumption DEF Delivered, Lost, ScalarInv
<1> QED
  BY <1>1, <1>2

\* The steps of a task that leave the other's place alone.
LEMMA OthersAside ==
    ASSUME PlaceInv, NEW t \in Tasks, NEW b, Goto(t, b)
    PROVE  /\ pc'[t] = b
           /\ \A u \in Tasks : u # t => Aside(u)
           /\ pc[t] \notin WritePlaces /\ b \notin WritePlaces => \A u \in Tasks : Aside(u)
BY DEF Goto, PlaceInv, Aside

\* _fail: claims the terminal and closes the session, or finds it claimed.
LEMMA FailKeeps ==
    ASSUME PlaceInv, ScalarInv, ClaimInv, SessionInv, NEW t \in Tasks, Fail(t),
           t = "reader" => pc[t] \notin FailPlaces \cup LastPlaces \cup {"finally"},
           t = "forwarder" => pc[t] \notin FailPlaces \cup {"none", "done"},
           UNCHANGED <<channel, closer, host, connected, events>>, faults' \in 0..MaxFaults
    PROVE  /\ Kept /\ pc'[t] \notin WritePlaces
           /\ \A u \in Tasks : u # t => Aside(u)
           /\ pc[t] \notin WritePlaces => \A u \in Tasks : Aside(u)
<1>0. t = "reader" \/ t = "forwarder"
  BY PlaceSets
<1>1. PICK b : Goto(t, b) /\ b = IF terminal THEN AfterFail(t) ELSE "failClose"
  BY DEF Fail
<1>2. terminal' = TRUE /\ UNCHANGED <<started, ready>> /\ bound' \in BOOLEAN
      /\ session' \in {"none", "open", "ending", "closed", "failed"}
      /\ (session' = "open" => session = "open" /\ bound' = bound)
      /\ session' # "open"
  BY DEF Fail, CloseSession, SessionInv, ScalarInv
<1>3. ScalarInv'
  BY <1>2 DEF ScalarInv
<1>4. /\ b \in {"finally", "done", "failClose"} /\ b \notin WritePlaces
      /\ t = "reader" => b \in {"finally", "failClose"}
      /\ t = "forwarder" => b \in {"done", "failClose"}
      /\ b = "failClose" <=> ~terminal
  BY <1>0, <1>1 DEF AfterFail, WritePlaces
<1>5. Kept
  BY <1>0, <1>1, <1>2, <1>3, <1>4, TaskGoes DEF FailPlaces, ReaderPlaces, ForwarderPlaces, LastPlaces
<1> QED
  BY <1>1, <1>4, <1>5, OthersAside

\* A reader that only goes on: everything but its place is left alone.
LEMMA ReaderWalks ==
    ASSUME PlaceInv, ScalarInv, ClaimInv, SessionInv,
           UNCHANGED <<call, session, channel, closer, queue, product, host, env>>,
           Hello \/ ReceiveOther \/ StopClosed \/ StopJoined \/ EofClosed \/ LastClosed
    PROVE  Kept /\ Writing
<1>1. ScalarInv'
  BY DEF ScalarInv, call, env
<1>2. PICK b : /\ Goto("reader", b) /\ b \in ReaderPlaces
               /\ b \notin {"hello", "connecting", "opening"} \cup WritePlaces \cup FailPlaces
               /\ pc["reader"] \in ReaderPlaces \ ({"finally"} \cup WritePlaces)
               /\ pc["reader"] \in LastPlaces <=> b \in LastPlaces
  <2>1. LoopTop \in {"finally", "receive"}
    BY DEF LoopTop
  <2> QED
    BY <2>1 DEF Hello, ReceiveOther, StopClosed, StopJoined, EofClosed, LastClosed, At,
                ReaderPlaces, WritePlaces, FailPlaces, LastPlaces
<1>3. pc["reader"] \notin FailPlaces
  BY <1>2 DEF ReaderPlaces, FailPlaces
<1>4. b # "failClose" /\ b # "sendError" /\ b # "sendClosed" /\ "reader" # "forwarder"
  BY <1>2 DEF FailPlaces
<1>5. Kept
  BY <1>1, <1>2, <1>3, <1>4, TaskGoes, PlaceSets DEF call
<1>6. Idles
  BY <1>2, OthersAside, PlaceSets DEF Idles
<1> QED
  BY <1>5, <1>6 DEF Writing

\* The way of the task that has claimed the terminal, and of the reader's own close.
LEMMA FailStepKeeps ==
    ASSUME PlaceInv, ScalarInv, ClaimInv, SessionInv, QueueInv,
           NEW t \in Tasks, FailStep(t) \/ ChannelTimeout(t)
    PROVE  Kept /\ Writing
<1>0. t = "reader" \/ t = "forwarder"
  BY PlaceSets
<1>1. ASSUME NEW b, Goto(t, b), UNCHANGED call, ScalarInv',
             pc[t] \in FailPlaces,
             b \in FailPlaces \cup {AfterFail(t)},
             b # "failClose",
             b = "sendError" => pc[t] = "failClose", b = "sendClosed" => pc[t] = "sendError",
             session' = "open" => session = "open",
             channel' = "open" => channel = "open"
      PROVE  Kept
  <2>1. terminal /\ pc[t] \notin {"none", "done", "finally"} \cup LastPlaces
    BY <1>1 DEF ClaimInv, FailPlaces, LastPlaces
  <2>2. /\ b \notin {"none", "hello", "connecting", "opening"}
        /\ t = "reader" => b \in FailPlaces \cup {"finally"} /\ b \notin LastPlaces
        /\ t = "forwarder" => b \in FailPlaces \cup {"done"}
    BY <1>0, <1>1 DEF AfterFail, FailPlaces, LastPlaces
  <2>3. "finally" \in ReaderPlaces /\ "done" \in ForwarderPlaces
    BY DEF ReaderPlaces, ForwarderPlaces
  <2>4. terminal' = terminal /\ started' = started /\ bound' = bound
    BY <1>1 DEF call
  <2> QED
    BY <1>1, <2>1, <2>2, <2>3, <2>4, TaskGoes
<1>2. CASE FailClosed(t)
  <2> USE <1>2 DEF FailClosed, At
  <2>1. ScalarInv'
    BY DEF ScalarInv, call, env
  <2>2. Kept
    BY <1>1, <2>1 DEF FailPlaces
  <2>3. pc'[t] = "sendError" /\ \A u \in Tasks : u # t => Aside(u)
    BY OthersAside
  <2>4. Puts(t, "error")
    BY <2>3, WritesPlaces DEF Puts, WritePlaces
  <2>5. "error" \in Messages
    BY DEF Messages
  <2> QED
    BY <2>2, <2>4, <2>5 DEF Writing
<1>3. CASE ErrorSent(t)
  <2> USE <1>3 DEF ErrorSent, At
  <2>0. Sends(t) /\ (Holds(t) \/ ~Queued(t)) /\ faults' \in 0..MaxFaults
    BY WriteEnds
  <2>1. ScalarInv'
    BY <2>0 DEF ScalarInv, call
  <2>2. Kept
    BY <1>1, <2>1 DEF FailPlaces
  <2>3. pc'[t] = "sendClosed" /\ \A u \in Tasks : u # t => Aside(u)
    BY OthersAside
  <2>4. Repeats(t, "closed")
    BY <2>0, <2>3 DEF Repeats
  <2>5. "closed" \in Messages
    BY DEF Messages
  <2> QED
    BY <2>2, <2>4, <2>5 DEF Writing
<1>4. CASE ClosedSent(t)
  <2> USE <1>4 DEF ClosedSent, At
  <2>0. Sends(t) /\ faults' \in 0..MaxFaults
    BY WriteEnds
  <2>1. ScalarInv'
    BY <2>0 DEF ScalarInv, call
  <2>2. Kept
    BY <1>1, <2>1 DEF FailPlaces
  <2>3. Drops(t)
    BY <2>0, OthersAside DEF Drops, WritePlaces
  <2> QED
    BY <2>2, <2>3 DEF Writing
<1>5. \* a place of the claim without a write
      ASSUME NEW b, Goto(t, b), pc[t] \in {"closeChannel", "channelWait"}, b \in {"channelWait", AfterFail(t)},
             UNCHANGED <<call, queue, product>>, ScalarInv',
             session' = "open" => session = "open",
             channel' = "open" => channel = "open"
      PROVE  Kept /\ Writing
  <2>1. pc[t] \in FailPlaces /\ b \in {"channelWait", "finally", "done"} /\ b \in FailPlaces \cup {AfterFail(t)}
    BY <1>5 DEF FailPlaces, AfterFail
  <2>2. Kept
    BY <1>1, <1>5, <2>1
  <2>3. Idles
    BY <1>5, <2>1, OthersAside DEF Idles, WritePlaces
  <2> QED
    BY <2>2, <2>3 DEF Writing
<1>6. \* the last close of the reader
      ASSUME NEW b, Goto(t, b), pc[t] \in {"lastChannel", "lastWait"}, b \in {"lastWait", "done"},
             UNCHANGED <<call, queue, product>>, ScalarInv',
             session' = "open" => session = "open",
             channel' = "open" => channel = "open"
      PROVE  Kept /\ Writing
  <2>1. t = "reader"
    BY <1>0, <1>6 DEF PlaceInv, ForwarderPlaces, FailPlaces
  <2>2. b \in ReaderPlaces /\ b \in LastPlaces /\ pc[t] \in LastPlaces /\ b \notin FailPlaces
        /\ b \notin {"hello", "connecting", "opening", "failClose", "sendError", "sendClosed"}
    BY <1>6 DEF ReaderPlaces, LastPlaces, FailPlaces
  <2>3. terminal' = terminal /\ started' = started /\ bound' = bound
    BY <1>6 DEF call
  <2>4. Kept
    BY <1>6, <2>1, <2>2, <2>3, TaskGoes
  <2>5. Idles
    BY <1>6, OthersAside DEF Idles, WritePlaces
  <2> QED
    BY <2>4, <2>5 DEF Writing
<1>7. CASE CloseChannel(t)
  <2> USE <1>7 DEF CloseChannel
  <2>1. ScalarInv' /\ (session' = "open" => session = "open") /\ (channel' = "open" => channel = "open")
    BY DEF BeginChannelClose, ScalarInv, call, env
  <2> QED
    BY <1>5, <1>6, <2>1 DEF At
<1>8. CASE ChannelWaited(t)
  <2> USE <1>8 DEF ChannelWaited
  <2>1. ScalarInv'
    BY DEF ScalarInv, call, env
  <2> QED
    BY <1>5, <1>6, <2>1 DEF At
<1>9. CASE ChannelTimeout(t)
  <2> USE <1>9 DEF ChannelTimeout
  <2>1. ScalarInv' /\ (channel' = "open" => channel = "open")
    BY DEF ScalarInv, call, env
  <2> QED
    BY <1>5, <2>1 DEF At
<1> QED
  BY <1>2, <1>3, <1>4, <1>7, <1>8, <1>9 DEF FailStep

\* _close_session leaves no open session.
LEMMA CloseSessionEnds ==
    ASSUME ScalarInv, SessionInv, CloseSession
    PROVE  /\ bound' \in BOOLEAN /\ session' # "open"
           /\ session' \in {"none", "open", "ending", "closed", "failed"}
BY DEF CloseSession, SessionInv, ScalarInv

\* The reader at work: run up to its finally block.
LEMMA ReaderKeeps ==
    ASSUME PlaceInv, ScalarInv, ClaimInv, SessionInv, QueueInv,
           \/ ReceiveBad \/ CallStart \/ CallStop \/ ConnectingSent \/ OpenFails \/ Opened
           \/ ClosingSent \/ StopTimeout \/ ReceiveFails \/ WriteFails \/ Finally
    PROVE  Kept /\ Writing
<1>0. "reader" \in Tasks /\ "forwarder" \in Tasks /\ "reader" # "forwarder"
      /\ \A u \in Tasks : u # "reader" <=> u = "forwarder"
  BY PlaceSets
<1>1. \* the reader goes to another of its own places before the finally block
      ASSUME NEW b, Goto("reader", b), ScalarInv',
             b \in {"connecting", "opening", "closing", "stopClose", "eofClose"},
             pc["reader"] \in {"hello", "receive", "connecting", "closing"},
             b \in {"connecting", "opening"} => pc["forwarder"] = "none" /\ started',
             UNCHANGED <<terminal, channel>>, started => started',
             session' = "open" => session = "open", session' = "open" => bound' = bound
      PROVE  Kept
  <2>1. b \in ReaderPlaces /\ b \notin FailPlaces \cup LastPlaces /\ b # "hello"
        /\ pc["reader"] \notin FailPlaces \cup LastPlaces \cup {"finally"}
    BY <1>1 DEF ReaderPlaces, FailPlaces, LastPlaces
  <2>2. b # "failClose" /\ b # "sendError" /\ b # "sendClosed"
    BY <1>1
  <2> QED
    BY <1>0, <1>1, <2>1, <2>2, TaskGoes
<1>2. \* _fail called by the reader, with its write cut off or without one
      ASSUME Fail("reader"), UNCHANGED <<channel, closer, host, connected, events>>, faults' \in 0..MaxFaults,
             pc["reader"] \in {"hello", "receive", "opening", "stopWait", "connecting", "closing"},
             \/ UNCHANGED <<queue, product>> /\ pc["reader"] \notin WritePlaces
             \/ queue' = Without("reader") /\ Sends("reader")
      PROVE  Kept /\ Writing
  <2>1. pc["reader"] \notin FailPlaces \cup LastPlaces \cup {"finally"}
    BY <1>2 DEF FailPlaces, LastPlaces
  <2>2. Kept /\ pc'["reader"] \notin WritePlaces
        /\ (\A u \in Tasks : u # "reader" => Aside(u))
        /\ (pc["reader"] \notin WritePlaces => \A u \in Tasks : Aside(u))
    BY <1>0, <1>2, <2>1, FailKeeps
  <2>3. Idles \/ Drops("reader")
    BY <1>2, <2>2 DEF Idles, Drops
  <2> QED
    BY <1>0, <2>2, <2>3 DEF Writing
<1>3. \* a lost connection, likewise
      ASSUME ConnectionLost, UNCHANGED <<channel, closer, host, connected, events>>, faults' \in 0..MaxFaults,
             pc["reader"] \in {"hello", "receive", "connecting", "closing"},
             \/ UNCHANGED <<queue, product>> /\ pc["reader"] \notin WritePlaces
             \/ queue' = Without("reader") /\ Sends("reader")
      PROVE  Kept /\ Writing
  <2>1. Goto("reader", "eofClose") /\ UNCHANGED <<started, ready, terminal>> /\ CloseSession
    BY <1>3 DEF ConnectionLost
  <2>2. ScalarInv' /\ session' # "open"
    BY <1>3, <2>1, CloseSessionEnds DEF ScalarInv
  <2>3. Kept
    BY <1>1, <1>3, <2>1, <2>2
  <2>4. pc'["reader"] = "eofClose" /\ (\A u \in Tasks : u # "reader" => Aside(u))
        /\ (pc["reader"] \notin WritePlaces => \A u \in Tasks : Aside(u))
    BY <1>0, <2>1, OthersAside DEF WritePlaces
  <2>5. Idles \/ Drops("reader")
    BY <1>3, <2>4 DEF Idles, Drops, WritePlaces
  <2> QED
    BY <1>0, <2>3, <2>5 DEF Writing
<1>4. faults \in 0..MaxFaults
  BY DEF ScalarInv
<1>5. CASE ReceiveBad
  BY <1>2, <1>4, <1>5 DEF ReceiveBad, Receiving, env, WritePlaces
<1>6. CASE OpenFails
  BY <1>2, <1>4, <1>6 DEF OpenFails, At, env, WritePlaces
<1>7. CASE StopTimeout
  BY <1>2, <1>4, <1>7 DEF StopTimeout, At, env, WritePlaces
<1>8. CASE ReceiveFails
  BY <1>2, <1>3, <1>4, <1>8 DEF ReceiveFails, env, WritePlaces
<1>9. CASE WriteFails
  <2>1. Sends("reader") /\ faults' \in 0..MaxFaults
    BY <1>0, <1>9, WriteEnds DEF WriteFails
  <2> QED
    BY <1>2, <1>3, <1>9, <2>1 DEF WriteFails
<1>10. CASE CallStart
  <2> USE <1>10 DEF CallStart, Receiving, At
  <2>1. ScalarInv'
    BY DEF ScalarInv, env
  <2>2. pc["forwarder"] = "none" /\ started' = TRUE
    BY DEF ClaimInv
  <2>3. Kept
    BY <1>1, <2>1, <2>2
  <2>4. pc'["reader"] = "connecting" /\ \A u \in Tasks : u # "reader" => Aside(u)
    BY <1>0, OthersAside
  <2>5. "connecting" \in Messages /\ "connecting" \in WritesAt("connecting")
    BY DEF Messages, WritesAt
  <2>6. Puts("reader", "connecting")
    BY <2>4, <2>5 DEF Puts, WritePlaces
  <2> QED
    BY <1>0, <2>3, <2>5, <2>6 DEF Writing
<1>11. CASE CallStop
  <2> USE <1>11 DEF CallStop, Receiving, At
  <2>1. ScalarInv'
    BY DEF ScalarInv, call, env
  <2>2. Kept
    BY <1>1, <2>1 DEF call
  <2>3. pc'["reader"] = "closing" /\ \A u \in Tasks : u # "reader" => Aside(u)
    BY <1>0, OthersAside
  <2>4. "closing" \in Messages /\ "closing" \in WritesAt("closing")
    BY DEF Messages, WritesAt
  <2>5. Puts("reader", "closing")
    BY <2>3, <2>4 DEF Puts, WritePlaces
  <2> QED
    BY <1>0, <2>2, <2>4, <2>5 DEF Writing
<1>12. CASE ConnectingSent
  <2> USE <1>12 DEF ConnectingSent, At
  <2>0. Sends("reader") /\ faults' \in 0..MaxFaults
    BY <1>0, WriteEnds
  <2>1. ScalarInv'
    BY <2>0 DEF ScalarInv, call
  <2>2. pc["forwarder"] = "none" /\ started
    BY DEF ClaimInv
  <2>3. Kept
    BY <1>1, <2>1, <2>2 DEF call
  <2>4. Drops("reader")
    BY <1>0, <2>0, OthersAside DEF Drops, WritePlaces
  <2> QED
    BY <1>0, <2>3, <2>4 DEF Writing
<1>13. CASE ClosingSent
  <2> USE <1>13 DEF ClosingSent, At
  <2>0. Sends("reader") /\ faults' \in 0..MaxFaults
    BY <1>0, WriteEnds
  <2>1. ScalarInv' /\ session' # "open"
    BY <2>0, CloseSessionEnds DEF ScalarInv
  <2>2. Kept
    BY <1>1, <2>1
  <2>3. Drops("reader")
    BY <1>0, <2>0, OthersAside DEF Drops, WritePlaces
  <2> QED
    BY <1>0, <2>2, <2>3 DEF Writing
<1>14. CASE Opened
  <2> USE <1>14 DEF Opened, At
  <2>0. pc["reader"] = "opening" /\ pc["forwarder"] = "none" /\ ~terminal
    BY DEF ClaimInv, FailPlaces, LastPlaces
  <2>1. CASE channel = "open"
    <3>1. /\ bound' = TRUE /\ session' = "open" /\ UNCHANGED terminal
          /\ pc' = [reader |-> "receive", forwarder |-> "run"]
      BY <2>0, <2>1 DEF LoopTop
    <3>2. pc'["reader"] = "receive" /\ pc'["forwarder"] = "run"
      BY <3>1
    <3>3. pc' \in [Tasks -> Places]
      BY <3>1, PlaceSets DEF Places, ReaderPlaces, ForwarderPlaces
    <3>4. PlaceInv'
      BY <3>2, <3>3 DEF PlaceInv, ReaderPlaces, ForwarderPlaces
    <3>5. ScalarInv'
      BY <3>1 DEF ScalarInv, env
    <3>6. started'
      BY <1>14 DEF ClaimInv
    <3>7. ClaimInv'
      BY <1>0, <2>0, <3>1, <3>2, <3>6, PlaceSets DEF ClaimInv, FailPlaces
    <3>8. SessionInv'
      BY <2>0, <3>1, <3>2 DEF SessionInv, LastPlaces
    <3>9. Enters
      BY <1>0, <3>1, <3>2 DEF Enters
    <3>10. Idles
      BY <1>0, <2>0, <3>2 DEF Idles, Aside, WritePlaces
    <3> QED
      BY <3>4, <3>5, <3>7, <3>8, <3>9, <3>10 DEF Kept, Writing
  <2>2. CASE channel # "open"
    <3>1. Goto("reader", "failClose") /\ terminal' = TRUE /\ session' = "ending" /\ bound' = FALSE
      BY <2>2
    <3>2. ScalarInv'
      BY <3>1 DEF ScalarInv, env
    <3>3. Kept
      BY <1>0, <2>0, <3>1, <3>2, TaskGoes DEF FailPlaces, LastPlaces
    <3>4. Idles
      BY <1>0, <2>0, <3>1, OthersAside DEF Idles, WritePlaces
    <3> QED
      BY <3>3, <3>4 DEF Writing
  <2> QED
    BY <2>1, <2>2
<1>15. CASE Finally
  <2> USE <1>15 DEF Finally, At
  <2> DEFINE f == IF Ended THEN pc["forwarder"] ELSE "done"
  <2>1. pc["reader"] = "finally" /\ f \in {"none", "done"} /\ (f = "none" => pc["forwarder"] = "none")
    BY DEF Ended
  <2>2. (pc["forwarder"] = "none" => f = "none") /\ pc' = [reader |-> "lastClose", forwarder |-> f]
    BY DEF Ended
  <2> HIDE DEF f
  <2>3. pc'["reader"] = "lastClose" /\ pc'["forwarder"] = f
    BY <2>2
  <2>4. pc' \in [Tasks -> Places]
    BY <2>1, <2>2, PlaceSets DEF Places, ReaderPlaces, ForwarderPlaces
  <2>5. PlaceInv'
    BY <2>1, <2>3, <2>4 DEF PlaceInv, ReaderPlaces, ForwarderPlaces
  <2>6. bound' \in BOOLEAN /\ session' # "open" /\ session' \in {"none", "open", "ending", "closed", "failed"}
    BY CloseSessionEnds
  <2>7. ScalarInv'
    BY <2>6 DEF ScalarInv, env
  <2>8. ClaimInv'
    BY <1>0, <2>1, <2>2, <2>3 DEF ClaimInv, FailPlaces, LastPlaces
  <2>9. SessionInv'
    BY <2>1, <2>3, <2>6 DEF SessionInv, Ended
  <2>10. Enters
    BY <1>0, <2>1, <2>3 DEF Enters
  <2>11. Drops("forwarder")
    BY <1>0, <2>1, <2>3 DEF Drops, Sends, Aside, WritePlaces
  <2> QED
    BY <1>0, <2>5, <2>7, <2>8, <2>9, <2>10, <2>11 DEF Kept, Writing
<1> QED
  BY <1>5, <1>6, <1>7, <1>8, <1>9, <1>10, <1>11, <1>12, <1>13, <1>14, <1>15

\* The forwarder at work.
LEMMA ForwarderKeeps ==
    ASSUME PlaceInv, ScalarInv, ClaimInv, SessionInv, QueueInv,
           \/ ForwardReady \/ ReadySent \/ ForwardEvent \/ EventSent \/ ForwardWriteFails
           \/ ForwardRefused \/ ForwardTerminal \/ ForwardLate
    PROVE  Kept /\ Writing
<1>0. "reader" \in Tasks /\ "forwarder" \in Tasks /\ "reader" # "forwarder"
      /\ {"ready", "active", "event", "closed"} \subseteq Messages
  BY PlaceSets DEF Messages
<1>1. \* the forwarder goes to another of its own places
      ASSUME NEW b, Goto("forwarder", b), ScalarInv',
             b \in {"run", "sendReady", "sendEvent", "done"},
             pc["forwarder"] \in {"run", "sendReady", "sendEvent"},
             UNCHANGED <<terminal, started, bound, session, channel>>
      PROVE  Kept
  <2>1. b \in ForwarderPlaces /\ b \notin FailPlaces /\ b # "none"
        /\ b # "failClose" /\ b # "sendError" /\ b # "sendClosed"
    BY <1>1 DEF ForwarderPlaces, FailPlaces
  <2> QED
    BY <1>0, <1>1, <2>1, TaskGoes
<1>2. \* _fail called by the forwarder, with its write cut off or without one
      ASSUME Fail("forwarder"), UNCHANGED <<channel, closer, host, connected, events>>,
             faults' \in 0..MaxFaults,
             pc["forwarder"] \in {"run", "sendReady", "sendEvent"},
             \/ UNCHANGED <<queue, product>> /\ pc["forwarder"] \notin WritePlaces
             \/ queue' = Without("forwarder") /\ Sends("forwarder")
      PROVE  Kept /\ Writing
  <2>1. pc["forwarder"] \notin FailPlaces \cup {"none", "done"}
    BY <1>2 DEF FailPlaces
  <2>2. Kept /\ pc'["forwarder"] \notin WritePlaces
        /\ (\A u \in Tasks : u # "forwarder" => Aside(u))
        /\ (pc["forwarder"] \notin WritePlaces => \A u \in Tasks : Aside(u))
    BY <1>0, <1>2, <2>1, FailKeeps
  <2>3. Idles \/ Drops("forwarder")
    BY <1>2, <2>2 DEF Idles, Drops
  <2> QED
    BY <1>0, <2>2, <2>3 DEF Writing
<1>3. faults \in 0..MaxFaults
  BY DEF ScalarInv
<1>4. CASE ForwardReady
  <2> USE <1>4 DEF ForwardReady, Forwarding, At
  <2>1. ScalarInv'
    BY DEF ScalarInv, env
  <2>2. Kept
    BY <1>1, <2>1
  <2>3. pc'["forwarder"] = "sendReady" /\ \A u \in Tasks : u # "forwarder" => Aside(u)
    BY <1>0, OthersAside
  <2>4. Puts("forwarder", "ready")
    BY <2>3, WritesPlaces DEF Puts, WritePlaces
  <2> QED
    BY <1>0, <2>2, <2>4 DEF Writing
<1>5. CASE ForwardEvent
  <2> USE <1>5 DEF ForwardEvent, Forwarding, At
  <2>1. events' \in 0..MaxEvents
    BY BoundAssumption DEF ScalarInv
  <2>2. ScalarInv'
    BY <2>1 DEF ScalarInv, call
  <2>3. Kept
    BY <1>1, <2>2 DEF call
  <2>4. pc'["forwarder"] = "sendEvent" /\ \A u \in Tasks : u # "forwarder" => Aside(u)
    BY <1>0, OthersAside
  <2>5. "event" \in WritesAt("sendEvent")
    BY DEF WritesAt, Messages
  <2>6. Puts("forwarder", "event")
    BY <2>4, <2>5 DEF Puts, WritePlaces
  <2> QED
    BY <1>0, <2>3, <2>6 DEF Writing
<1>6. CASE ReadySent
  <2> USE <1>6 DEF ReadySent, At
  <2>1. Sends("forwarder") /\ Holds("forwarder") /\ faults' \in 0..MaxFaults
    BY <1>0, WriteEnds DEF Delivered
  <2>2. ScalarInv'
    BY <2>1 DEF ScalarInv, call
  <2>3. Kept
    BY <1>1, <2>2 DEF call
  <2>4. Repeats("forwarder", "active")
    BY <1>0, <2>1, OthersAside DEF Repeats
  <2> QED
    BY <1>0, <2>3, <2>4 DEF Writing
<1>7. CASE EventSent
  <2> USE <1>7 DEF EventSent, At
  <2>1. Sends("forwarder") /\ faults' \in 0..MaxFaults
    BY <1>0, WriteEnds
  <2>2. ScalarInv'
    BY <2>1 DEF ScalarInv, call
  <2>3. Kept
    BY <1>1, <2>2 DEF call
  <2>4. Drops("forwarder")
    BY <1>0, <2>1, OthersAside DEF Drops, WritePlaces
  <2> QED
    BY <1>0, <2>3, <2>4 DEF Writing
<1>8. CASE ForwardWriteFails
  <2>1. Sends("forwarder") /\ faults' \in 0..MaxFaults
    BY <1>0, <1>8, WriteEnds DEF ForwardWriteFails
  <2> QED
    BY <1>2, <1>8, <2>1 DEF ForwardWriteFails
<1>9. CASE ForwardRefused
  BY <1>2, <1>3, <1>9 DEF ForwardRefused, Forwarding, At, env, WritePlaces
<1>10. CASE ForwardTerminal
  <2> USE <1>10 DEF ForwardTerminal, Forwarding, At
  <2>1. CASE session = "failed" /\ Fail("forwarder") /\ UNCHANGED queue
    BY <1>2, <1>3, <2>1 DEF env, WritePlaces
  <2>2. CASE /\ session = "closed" /\ terminal' = TRUE
             /\ Goto("forwarder", "sendClosed") /\ Request(queue, "forwarder", "closed")
             /\ UNCHANGED <<started, ready, bound, session>>
    <3>1. ScalarInv'
      BY <2>2 DEF ScalarInv, env
    <3>2. Kept
      BY <1>0, <2>2, <3>1, TaskGoes DEF FailPlaces, ForwarderPlaces
    <3>3. pc'["forwarder"] = "sendClosed" /\ \A u \in Tasks : u # "forwarder" => Aside(u)
      BY <1>0, <2>2, OthersAside
    <3>4. Puts("forwarder", "closed")
      BY <2>2, <3>3, WritesPlaces DEF Puts, WritePlaces
    <3> QED
      BY <1>0, <3>2, <3>4 DEF Writing
  <2> QED
    BY <2>1, <2>2
<1>11. CASE ForwardLate
  <2> USE <1>11 DEF ForwardLate, At
  <2>1. ScalarInv'
    BY DEF ScalarInv, call, env
  <2>2. Kept
    BY <1>1, <2>1 DEF call
  <2>3. Idles
    BY <1>0, OthersAside DEF Idles, WritePlaces
  <2> QED
    BY <2>2, <2>3 DEF Writing
<1> QED
  BY <1>4, <1>5, <1>6, <1>7, <1>8, <1>9, <1>10, <1>11

\* The session, the product and the host, and the steps that change nothing.
LEMMA WorldKeeps ==
    ASSUME PlaceInv, ScalarInv, ClaimInv, SessionInv, QueueInv,
           ChannelClosed \/ SessionEnds \/ Disconnect \/ HostCloses \/ HostCancels \/ UNCHANGED vars
    PROVE  Kept /\ Writing
<1>0. "reader" \in Tasks /\ "forwarder" \in Tasks /\ "reader" # "forwarder"
  BY PlaceSets
<1>1. ASSUME UNCHANGED <<pc, started, terminal, bound, queue, product>>, ScalarInv',
             session' = "open" => session = "open", channel' = "open" => channel = "open"
      PROVE  Kept /\ Writing
  <2>1. PlaceInv'
    BY <1>1 DEF PlaceInv
  <2>2. ClaimInv'
    BY <1>1 DEF ClaimInv
  <2>3. SessionInv'
    BY <1>1 DEF SessionInv, Ended
  <2>4. Enters
    BY <1>1 DEF Enters
  <2>5. Idles
    BY <1>1 DEF Idles, Aside
  <2> QED
    BY <1>1, <2>1, <2>2, <2>3, <2>4, <2>5 DEF Kept, Writing
<1>2. CASE ChannelClosed \/ SessionEnds \/ Disconnect \/ UNCHANGED vars
  <2>1. ScalarInv'
    BY <1>2, ZenonT(40) DEF ScalarInv, ChannelClosed, SessionEnds, Disconnect, vars, call, env
  <2> QED
    BY <1>1, <1>2, <2>1 DEF ChannelClosed, SessionEnds, Disconnect, vars, call
<1>3. CASE HostCloses
  <2>1. ScalarInv' /\ (session' = "open" => session = "open") /\ (channel' = "open" => channel = "open")
    BY <1>3 DEF HostCloses, BeginChannelClose, ScalarInv, call, env
  <2> QED
    BY <1>1, <1>3, <2>1 DEF HostCloses, call
<1>4. CASE HostCancels
  <2>1. PICK b : /\ Goto("reader", b)
                 /\ b = IF pc["reader"] \in LastPlaces THEN "done" ELSE "finally"
    BY <1>4 DEF HostCancels, LastPlaces
  <2>2. UNCHANGED <<call, session, channel, product>> /\ queue' = Without("reader")
    BY <1>4 DEF HostCancels
  <2>3. ScalarInv'
    BY <1>4 DEF HostCancels, ScalarInv, call, env
  <2>4. b \in {"done", "finally"} /\ (b \in LastPlaces <=> pc["reader"] \in LastPlaces) /\ b \in ReaderPlaces
        /\ b \notin FailPlaces /\ b \in FailPlaces \cup LastPlaces \cup {"finally"}
    BY <2>1 DEF LastPlaces, ReaderPlaces, FailPlaces
  <2>5. Kept
    BY <1>0, <2>1, <2>2, <2>3, <2>4, TaskGoes DEF call
  <2>6. Drops("reader")
    BY <1>0, <2>1, <2>2, <2>4, OthersAside DEF Drops, Sends, WritePlaces
  <2> QED
    BY <1>0, <2>5, <2>6 DEF Writing
<1> QED
  BY <1>2, <1>3, <1>4

-----------------------------------------------------------------------------
(* The theorems. *)

\* Every call starts in the invariant.
LEMMA InitIInv == Init => IInv
<1> SUFFICES ASSUME Init PROVE IInv
  OBVIOUS
<1> USE DEF Init
<1>1. pc["reader"] = "hello" /\ pc["forwarder"] = "none" /\ pc \in [Tasks -> Places]
  BY DEF Tasks, Places, ReaderPlaces, ForwarderPlaces
<1>2. PlaceInv
  BY <1>1 DEF PlaceInv, ReaderPlaces, ForwarderPlaces
<1>3. ScalarInv
  <2>1. events \in 0..MaxEvents /\ faults \in 0..MaxFaults
    BY BoundAssumption
  <2>2. closer \in Tasks \cup {"none", "host"}
    BY DEF Tasks
  <2>3. started \in BOOLEAN /\ ready \in BOOLEAN /\ terminal \in BOOLEAN /\ bound \in BOOLEAN
        /\ connected \in BOOLEAN
    OBVIOUS
  <2> QED
    BY <2>1, <2>2, <2>3 DEF ScalarInv
<1>4. ClaimInv
  BY <1>1, PlaceSets DEF ClaimInv, FailPlaces
<1>5. SessionInv
  BY <1>1 DEF SessionInv, LastPlaces
<1>6. queue = <<>> /\ Len(queue) = 0 /\ queue \in Seq(Write) /\ product = <<>> /\ product \in Seq(Messages)
      /\ DOMAIN product = {}
  OBVIOUS
<1>7. QueueInv /\ OrderInv
  BY <1>1, <1>6, PlaceSets DEF QueueInv, OrderInv
<1>8. ProductInv
  BY <1>6 DEF ProductInv, Told
<1> QED
  BY <1>2, <1>3, <1>4, <1>5, <1>7, <1>8 DEF IInv

\* Every step stays in it.
LEMMA NextIInv == IInv /\ [Next]_vars => IInv'
<1> SUFFICES ASSUME IInv, [Next]_vars PROVE IInv'
  OBVIOUS
<1> USE DEF IInv
<1>1. Kept /\ Writing
  <2>1. CASE Hello \/ ReceiveOther \/ StopClosed \/ StopJoined \/ EofClosed \/ LastClosed
    <3>1. UNCHANGED <<call, session, channel, closer, queue, product, host, env>>
      BY <2>1 DEF Hello, ReceiveOther, StopClosed, StopJoined, EofClosed, LastClosed
    <3> QED
      BY <2>1, <3>1, ReaderWalks
  <2>2. CASE \/ ReceiveBad \/ CallStart \/ CallStop \/ ConnectingSent \/ OpenFails \/ Opened
             \/ ClosingSent \/ StopTimeout \/ ReceiveFails \/ WriteFails \/ Finally
    BY <2>2, ReaderKeeps
  <2>3. CASE \/ ForwardReady \/ ReadySent \/ ForwardEvent \/ EventSent \/ ForwardWriteFails
             \/ ForwardRefused \/ ForwardTerminal \/ ForwardLate
    BY <2>3, ForwarderKeeps
  <2>4. CASE \E t \in Tasks : FailStep(t) \/ ChannelTimeout(t)
    BY <2>4, FailStepKeeps
  <2>5. CASE ChannelClosed \/ SessionEnds \/ Disconnect \/ HostCloses \/ HostCancels \/ UNCHANGED vars
    BY <2>5, WorldKeeps
  <2> QED
    BY <2>1, <2>2, <2>3, <2>4, <2>5 DEF Next, ReaderStep, ForwarderStep
<1>2. QueueInv' /\ OrderInv'
  BY <1>1, QueueKept
<1>3. ProductInv'
  BY <1>1, ProductKept
<1> QED
  BY <1>1, <1>2, <1>3 DEF Kept

\* The invariant holds throughout.
LEMMA AlwaysIInv == Spec => []IInv
BY InitIInv, NextIInv, PTL DEF Spec

\* The queue holds at most the two writes of the two tasks.
LEMMA InvTypes == IInv => TypeOK
<1> SUFFICES ASSUME IInv PROVE TypeOK
  OBVIOUS
<1> USE DEF IInv
<1>1. Len(queue) \in Nat /\ DOMAIN queue = 1..Len(queue)
      /\ \A k \in 1..Len(queue) : queue[k] \in Write /\ queue[k].task \in Tasks
  BY QueueEntries
<1>2. Len(queue) <= 2
  <2> SUFFICES ASSUME Len(queue) > 2 PROVE FALSE
    BY <1>1
  <2>1. 1 \in 1..Len(queue) /\ 2 \in 1..Len(queue) /\ 3 \in 1..Len(queue)
    BY <1>1
  <2> QED
    BY <1>1, <2>1, PlaceSets DEF QueueInv
<1> QED
  BY <1>1, <1>2 DEF TypeOK, PlaceInv, ScalarInv, ProductInv, Write

\* For any number of events and of failed writes, and whichever of the reader, the
\* forwarder, the session and the host ends the call first: _claim_terminal and the send
\* lock let call.closed reach the product at most once and nothing behind it, and
\* call.error at most once before it.
THEOREM CallClosedIsLast == Spec => []ClosedIsLast
<1>1. IInv => ClosedIsLast
  BY InvTypes DEF IInv, ProductInv, ClosedIsLast
<1> QED
  BY <1>1, AlwaysIInv, PTL

\* Session first: _fail, the forwarder's terminal and the finally block of run close the
\* session before call.closed is written and before run returns, and run does not
\* return before its forwarder has ended.
THEOREM CallLeavesNoSession == Spec => []NoOrphanSession
<1>1. IInv => NoOrphanSession
  <2> SUFFICES ASSUME IInv PROVE NoOrphanSession
    OBVIOUS
  <2>1. Announced => terminal
    BY DEF IInv, ProductInv, Announced, Told, Silent
  <2>2. "done" \in LastPlaces
    BY DEF LastPlaces
  <2> QED
    BY <2>1, <2>2 DEF IInv, SessionInv, NoOrphanSession, At
<1> QED
  BY <1>1, AlwaysIInv, PTL

===============================================================================
