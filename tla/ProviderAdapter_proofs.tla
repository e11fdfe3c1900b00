------------------------- MODULE ProviderAdapter_proofs -------------------------
(***************************************************************************)
(* Proofs about ProviderAdapter, for both providers and any number of      *)
(* requests, items, events, repetitions and generations: the identity      *)
(* table is closed and stable, a transcription is published once, a        *)
(* waiting request is known to the adapter, and no more requests count as  *)
(* accepted than the provider accepted.                                    *)
(***************************************************************************)
EXTENDS ProviderAdapter, FiniteSetTheorems, WellFoundedInduction, TLAPS

Codes == {"TIMEOUT", "UNAVAILABLE", "PROTOCOL_ERROR", "UNSUPPORTED", "INVALID_REQUEST",
          "RATE_LIMITED"}
Injected == [kind : Kinds, body : Bodies,
              end : {"open", "cancelled", "failed", "rejected", "acked"}]

-----------------------------------------------------------------------------
(* The identity table. *)

\* Every id of an item finds the same identity, which knows it, and its canonical id.
ClosedTable(t) ==
    /\ DOMAIN t \subseteq Items
    /\ \A id \in DOMAIN t :
          /\ t[id] \in Identity
          /\ id \in t[id].aliases /\ t[id].canonical \in t[id].aliases
          /\ t[id].aliases \subseteq DOMAIN t
          /\ \A a \in t[id].aliases : t[a] = t[id]

\* What a table may never take back within a generation.
Keeps(t, u) ==
    \A id \in DOMAIN t :
       /\ id \in DOMAIN u
       /\ u[id].role = t[id].role
       /\ u[id].canonical = t[id].canonical
       /\ t[id].confirmed => u[id].confirmed

\* register keeps the table closed and takes nothing back.
LEMMA RegisterKeeps ==
    ASSUME NEW t, ClosedTable(t), NEW id \in Items, NEW role \in Roles,
           NEW source \in ItemSources, NEW confirmed \in BOOLEAN,
           NEW aliases \in SUBSET Items
    PROVE  /\ ClosedTable(Register(t, id, role, source, confirmed, aliases))
           /\ Keeps(t, Register(t, id, role, source, confirmed, aliases))
<1> DEFINE u == Register(t, id, role, source, confirmed, aliases)
           linked == Linked(t, id, aliases)
           sure == confirmed \/ (id \in DOMAIN t /\ t[id].confirmed)
           origin == IF id \in DOMAIN t THEN t[id].origin ELSE source
           item == [canonical |-> id, role |-> role, source |-> source, aliases |-> linked,
                    confirmed |-> sure, origin |-> origin]
<1>1. CASE Registers(t, id, role, source, aliases) # "set"
  <2>1. u = t
    BY <1>1 DEF Register
  <2> QED
    BY <2>1 DEF Keeps
<1>2. CASE Registers(t, id, role, source, aliases) = "set"
  <2>1. /\ id \in DOMAIN t => t[id].role = role
        /\ \A a \in linked \cap DOMAIN t : t[a].canonical = id
    BY <1>2 DEF Registers
  <2>2. u = [a \in DOMAIN t \cup linked |-> IF a \in linked THEN item ELSE t[a]]
    BY <1>2 DEF Register
  <2>3. \A a \in DOMAIN t : t[a] \in Identity /\ t[a].aliases \subseteq Items
                            /\ t[a].origin \in ItemSources /\ t[a].confirmed \in BOOLEAN
    BY DEF ClosedTable, Identity
  <2>4. linked \subseteq Items /\ id \in linked
    BY <2>3 DEF Linked
  <2>5. item \in Identity
    <3>1. sure \in BOOLEAN
      OBVIOUS
    <3>2. origin \in ItemSources
      BY <2>3
    <3> HIDE DEF sure, origin, linked
    <3> QED
      BY <2>4, <3>1, <3>2 DEF Identity
  <2>6. item.canonical = id /\ item.role = role /\ item.aliases = linked /\ item.confirmed = sure
    OBVIOUS
  <2> HIDE DEF item, u, sure
  <2>7. DOMAIN u = DOMAIN t \cup linked /\ (\A a \in linked : u[a] = item)
        /\ \A a \in DOMAIN t : a \notin linked => u[a] = t[a]
    BY <2>2
  <2>8. \* an id that shares an identity with a linked one is linked
        ASSUME NEW b \in DOMAIN t, NEW a \in t[b].aliases, a \in linked
        PROVE  b \in linked
    <3>1. a \in DOMAIN t /\ t[a] = t[b] /\ t[b].canonical = id
      BY <2>1, <2>8 DEF ClosedTable
    <3>2. id \in DOMAIN t /\ t[id] = t[b] /\ b \in t[id].aliases
      BY <3>1 DEF ClosedTable
    <3> QED
      BY <3>2 DEF Linked
  <2>9. ClosedTable(u)
    <3>1. ASSUME NEW b \in DOMAIN u, b \in linked
          PROVE  /\ u[b] \in Identity
                 /\ b \in u[b].aliases /\ u[b].canonical \in u[b].aliases
                 /\ u[b].aliases \subseteq DOMAIN u
                 /\ \A a \in u[b].aliases : u[a] = u[b]
      BY <2>4, <2>5, <2>6, <2>7, <3>1
    <3>2. ASSUME NEW b \in DOMAIN u, b \notin linked
          PROVE  /\ u[b] \in Identity
                 /\ b \in u[b].aliases /\ u[b].canonical \in u[b].aliases
                 /\ u[b].aliases \subseteq DOMAIN u
                 /\ \A a \in u[b].aliases : u[a] = u[b]
      <4>1. b \in DOMAIN t /\ u[b] = t[b]
        BY <2>7, <3>2
      <4>2. \A a \in t[b].aliases : a \in DOMAIN t /\ a \notin linked /\ t[a] = t[b]
        BY <2>8, <3>2, <4>1 DEF ClosedTable
      <4> QED
        BY <2>3, <2>7, <4>1, <4>2 DEF ClosedTable
    <3>3. DOMAIN u \subseteq Items
      BY <2>4, <2>7 DEF ClosedTable
    <3> QED
      BY <3>1, <3>2, <3>3 DEF ClosedTable
  <2>10. Keeps(t, u)
    <3> SUFFICES ASSUME NEW a \in DOMAIN t
                 PROVE  /\ a \in DOMAIN u /\ u[a].role = t[a].role
                        /\ u[a].canonical = t[a].canonical
                        /\ t[a].confirmed => u[a].confirmed
      BY DEF Keeps
    <3>1. CASE a \notin linked
      BY <2>7, <3>1
    <3>2. CASE a \in linked
      <4>1. t[a].canonical = id
        BY <2>1, <3>2
      <4>2. id \in DOMAIN t /\ t[id] = t[a]
        BY <4>1 DEF ClosedTable
      <4>3. t[a].confirmed => sure
        BY <4>2 DEF sure
      <4> QED
        BY <2>1, <2>6, <2>7, <3>2, <4>1, <4>2, <4>3
    <3> QED
      BY <3>1, <3>2
  <2> QED
    BY <2>9, <2>10 DEF u
<1> QED
  BY <1>1, <1>2

\* begin_generation keeps whole items, and so a closed table.
LEMMA BeginGenerationKeeps ==
    ASSUME NEW t, ClosedTable(t)
    PROVE  /\ ClosedTable(BeginGeneration(t))
           /\ DOMAIN BeginGeneration(t) = {id \in DOMAIN t : t[id].role = "user" /\ t[id].confirmed}
<1> DEFINE S == {id \in DOMAIN t : t[id].role = "user" /\ t[id].confirmed}
           u == BeginGeneration(t)
<1>1. u = [x \in S |-> t[x]]
  BY DEF BeginGeneration, Restrict
<1>2. DOMAIN u = S /\ \A x \in S : x \in DOMAIN t /\ u[x] = t[x]
  BY <1>1
<1>3. ASSUME NEW b \in S, NEW a \in t[b].aliases PROVE a \in S
  BY DEF ClosedTable
<1> HIDE DEF u, S
<1>4. ClosedTable(u)
  BY <1>2, <1>3 DEF ClosedTable
<1> QED
  BY <1>2, <1>4 DEF u, S

-----------------------------------------------------------------------------
(* Events, and what decoding them gives. *)

ProviderTypes == {"session.updated", "session.created", "item.created", "response.created",
                  "error", "transcript", "committed", "speech_started", "output_item", "user_side"}

EventFields ==
    [type : ProviderTypes, id : Items \cup {0}, body : Roles \cup {"none", "initial"},
     audio : BOOLEAN, completed : BOOLEAN, ack : {"ok", "config", "tools"},
     code : {"none", "invalid", "unsupported", "limit"}, n : Nat]

\* An event of an item names one, and an item that was injected is a request's.
GoodEvent(e) ==
    /\ e \in EventFields
    /\ e.type \in {"item.created", "transcript", "committed", "speech_started", "output_item",
                   "user_side"} => e.id \in Items
    /\ e.type \in {"item.created", "output_item"} => e.body \in Roles
    /\ provider = "openai" => e.audio = FALSE
    /\ e.id \in Requests => e.id <= Len(requests)

AdapterFields ==
    [pending : SUBSET (1..Len(requests)), update : 0..Len(requests), response : 0..Len(requests),
     seenItems : SUBSET Items, seenEvents : SUBSET Nat]

GoodAdapter(a) ==
    /\ a \in AdapterFields
    /\ a.update # 0 => requests[a.update].kind = "instructions"
    /\ a.response # 0 => requests[a.response].kind = "response"

Outs == [raises : Codes \cup {"none"}, request : 0..Len(requests), rejected : 0..Len(requests),
         sessionAck : BOOLEAN, ready : BOOLEAN, failed : Codes \cup {"none"},
         turn : Items \cup {0}, by : {"none", "asr", "side"}]

\* The variables decoding reads.
DecodeTypes ==
    /\ provider \in {"qwen", "openai"} /\ requests \in Seq(Injected) /\ Len(requests) <= MaxRequests
    /\ GoodAdapter(adapter) /\ ClosedTable(table)

\* Decoding this event again would change nothing.
Spent(e, a) ==
    /\ provider = "openai" /\ e.type \in {"item.created", "error"} => e.id \notin a.pending
    /\ provider = "qwen" /\ e.type \in {"item.created", "session.updated"} => e.n \in a.seenEvents

\* The event shows that a message, or instructions, with this body were carried out.
AnswerTo(e, kind, body) ==
    /\ e.body = body
    /\ kind = "message" => e.type = "item.created" /\ ~e.audio
    /\ kind = "instructions" => e.type = "session.updated"

\* At most one request is used up, and the session is told which and how it ended.
UsesUp(a, d) ==
    \E r : /\ a.pending = adapter.pending \ {r}
           /\ r \in adapter.pending => r = d.request \/ r = d.rejected

Confirms(e, d) ==
    d.request # 0 /\ requests[d.request].kind \in {"message", "instructions"} =>
       AnswerTo(e, requests[d.request].kind, requests[d.request].body)

\* What the session relies on.
GoodDecoding(e, x) ==
    /\ GoodAdapter(x.adapter) /\ ClosedTable(x.table) /\ Keeps(table, x.table) /\ x.out \in Outs
    /\ UsesUp(x.adapter, x.out)
    /\ x.out.request = 0 \/ x.out.rejected = 0
    /\ Confirms(e, x.out)
    /\ x.out.turn # 0 => x.out.by # "none"
    /\ provider = "qwen" /\ x.out.turn # 0 /\ x.out.by = "asr" => Counted(x.table, x.out.turn)
    /\ x.out.raises = "none" => Spent(e, x.adapter)
    /\ Spent(e, adapter) /\ e.type \notin Nameless => x.adapter.pending = adapter.pending

\* The ids of requests are ids of items.
LEMMA RequestIds ==
    ASSUME DecodeTypes
    PROVE  /\ Len(requests) \in Nat /\ DOMAIN requests = 1..Len(requests)
           /\ 1..Len(requests) \subseteq Items /\ 1..Len(requests) \subseteq Requests
           /\ 0 \notin Items
           /\ \A r \in 1..Len(requests) : requests[r] \in Injected /\ requests[r].kind \in Kinds /\ requests[r].body \in Bodies
<1>1. requests \in Seq(Injected) /\ Len(requests) \in Nat /\ DOMAIN requests = 1..Len(requests)
      /\ \A r \in 1..Len(requests) : requests[r] \in Injected
  BY DEF DecodeTypes
<1>2. \A i \in Injected : i.kind \in Kinds /\ i.body \in Bodies
  BY DEF Injected
<1>3. MaxRequests \in Nat /\ MaxItems \in Nat
  BY BoundAssumption
<1>4. 1..Len(requests) \subseteq Items /\ 1..Len(requests) \subseteq Requests /\ 0 \notin Items
  BY <1>1, <1>3 DEF DecodeTypes, Items, Requests
<1> QED
  BY <1>1, <1>2, <1>4

\* The forms of what the session hears of an event.
OutRaises(c) == [Nothing EXCEPT !.raises = c]
OutFails(c) == [Nothing EXCEPT !.failed = c]
OutRejects(r) == [Nothing EXCEPT !.rejected = r, !.failed = "UNSUPPORTED"]
OutAcks(b) == [Nothing EXCEPT !.sessionAck = b]
OutReady(b) == [Nothing EXCEPT !.sessionAck = TRUE, !.ready = b]
OutUpdated(r) == [Nothing EXCEPT !.sessionAck = TRUE, !.request = r]
OutConfirms(r) == [Nothing EXCEPT !.request = r]
OutTurn(i, s) == [Nothing EXCEPT !.turn = i, !.by = s]

\* Each of them in its fields.
LEMMA OutForms ==
    ASSUME Len(requests) \in Nat
    PROVE  /\ Nothing \in Outs /\ Nothing.raises = "none" /\ Nothing.request = 0
           /\ Nothing.rejected = 0 /\ Nothing.turn = 0
           /\ \A c \in Codes \cup {"none"} :
              LET d == OutRaises(c)
              IN  d \in Outs /\ d.raises = c /\ d.request = 0 /\ d.rejected = 0 /\ d.turn = 0
           /\ \A c \in Codes \cup {"none"} :
              LET d == OutFails(c)
              IN  d \in Outs /\ d.raises = "none" /\ d.request = 0 /\ d.rejected = 0 /\ d.turn = 0
           /\ \A r \in 0..Len(requests) :
              LET d == OutRejects(r)
              IN  d \in Outs /\ d.raises = "none" /\ d.request = 0 /\ d.rejected = r /\ d.turn = 0
           /\ \A b \in BOOLEAN :
              LET d == OutAcks(b)
              IN  d \in Outs /\ d.raises = "none" /\ d.request = 0 /\ d.rejected = 0 /\ d.turn = 0
           /\ \A b \in BOOLEAN :
              LET d == OutReady(b)
              IN  d \in Outs /\ d.raises = "none" /\ d.request = 0 /\ d.rejected = 0 /\ d.turn = 0
           /\ \A r \in 0..Len(requests) :
              LET d == OutUpdated(r)
              IN  d \in Outs /\ d.raises = "none" /\ d.request = r /\ d.rejected = 0 /\ d.turn = 0
           /\ \A r \in 0..Len(requests) :
              LET d == OutConfirms(r)
              IN  d \in Outs /\ d.raises = "none" /\ d.request = r /\ d.rejected = 0 /\ d.turn = 0
           /\ \A i \in Items \cup {0}, s \in {"asr", "side"} :
              LET d == OutTurn(i, s)
              IN  d \in Outs /\ d.raises = "none" /\ d.request = 0 /\ d.rejected = 0
                  /\ d.turn = i /\ d.by = s
<1>1. 0 \in 0..Len(requests) /\ "UNSUPPORTED" \in Codes
  BY DEF Codes
<1> QED
  BY <1>1 DEF Nothing, Outs, OutRaises, OutFails, OutRejects, OutAcks, OutReady, OutUpdated, OutConfirms, OutTurn

\* A decoding that uses up no request.
LEMMA Passes ==
    ASSUME DecodeTypes, NEW e, NEW a, NEW t, NEW d,
           GoodAdapter(a), a.pending = adapter.pending, ClosedTable(t), Keeps(table, t), d \in Outs,
           d.request = 0, d.rejected = 0, d.raises = "none" => Spent(e, a),
           d.turn # 0 => d.by # "none",
           provider = "qwen" /\ d.turn # 0 /\ d.by = "asr" => Counted(t, d.turn)
    PROVE  GoodDecoding(e, Decoded(a, t, d))
<1> DEFINE x == Decoded(a, t, d)
<1>1. x.adapter = a /\ x.table = t /\ x.out = d
  BY DEF Decoded
<1>2. UsesUp(a, d)
  <2>1. adapter.pending \ {0} = adapter.pending /\ 0 \notin adapter.pending
    BY RequestIds DEF DecodeTypes, GoodAdapter, AdapterFields
  <2> QED
    BY <2>1 DEF UsesUp
<1> HIDE DEF x
<1>3. GoodDecoding(e, x)
  BY <1>1, <1>2 DEF GoodDecoding, Confirms
<1> QED
  BY <1>3 DEF x

\* A decoding that uses up a request, which it confirms or rejects.
LEMMA Ends ==
    ASSUME DecodeTypes, NEW e, NEW a, NEW t, NEW d, NEW r,
           GoodAdapter(a), a.pending = adapter.pending \ {r}, ClosedTable(t), Keeps(table, t), d \in Outs,
           d.turn = 0, d.request = 0 \/ d.rejected = 0, r = d.request \/ r = d.rejected,
           Confirms(e, d), Spent(e, a), ~Spent(e, adapter) \/ e.type \in Nameless
    PROVE  GoodDecoding(e, Decoded(a, t, d))
<1> DEFINE x == Decoded(a, t, d)
<1>1. x.adapter = a /\ x.table = t /\ x.out = d
  BY DEF Decoded
<1>2. UsesUp(a, d)
  BY DEF UsesUp
<1> HIDE DEF x
<1>3. GoodDecoding(e, x)
  BY <1>1, <1>2 DEF GoodDecoding
<1> QED
  BY <1>3 DEF x

\* A table keeps what it is.
LEMMA TableStays == \A t : Keeps(t, t)
BY DEF Keeps

\* An event that cannot be decoded.
LEMMA RaisesWell ==
    ASSUME DecodeTypes, NEW e, NEW c \in Codes
    PROVE  GoodDecoding(e, Raises(c))
<1>1. Len(requests) \in Nat
  BY RequestIds
<1>2. c # "none"
  BY DEF Codes
<1>3. GoodDecoding(e, Decoded(adapter, table, OutRaises(c)))
  BY <1>1, <1>2, OutForms, Passes, TableStays DEF DecodeTypes
<1> QED
  BY <1>3 DEF Raises, OutRaises

\* The updates of the adapter's own state: an answered instruction update, an echoed
\* message, a confirmed request, an answered response, a rejected request.
Updated(e, r) == [Heard(e) EXCEPT !.update = 0, !.pending = Without(r)]
Echoed(e, ids, r) == [Noted(e, ids) EXCEPT !.pending = Without(r)]
Confirmed(r) == [adapter EXCEPT !.pending = Without(r)]
Responded(r) == [adapter EXCEPT !.pending = Without(r), !.response = 0]
Rejected(r) ==
    [adapter EXCEPT !.pending = Without(r),
                    !.seenItems = IF provider = "qwen" THEN @ \cup {r} ELSE @,
                    !.update = IF @ = r THEN 0 ELSE @,
                    !.response = IF @ = r THEN 0 ELSE @]

\* The variables of the adapter keep their types, and what was pending is, but one request.
LEMMA AdapterForms ==
    ASSUME DecodeTypes, NEW e, GoodEvent(e)
    PROVE  /\ GoodAdapter(Heard(e)) /\ Heard(e).pending = adapter.pending
           /\ provider = "qwen" => e.n \in Heard(e).seenEvents
           /\ \A ids \in SUBSET Items :
                 /\ GoodAdapter(Noted(e, ids)) /\ Noted(e, ids).pending = adapter.pending
                 /\ provider = "qwen" => e.n \in Noted(e, ids).seenEvents
           /\ \A r \in 0..Len(requests) :
                 /\ GoodAdapter(Updated(e, r)) /\ Updated(e, r).pending = adapter.pending \ {r}
                 /\ provider = "qwen" => e.n \in Updated(e, r).seenEvents
                 /\ GoodAdapter(Confirmed(r)) /\ Confirmed(r).pending = adapter.pending \ {r}
                 /\ GoodAdapter(Responded(r)) /\ Responded(r).pending = adapter.pending \ {r}
           /\ \A r \in Items : GoodAdapter(Rejected(r)) /\ Rejected(r).pending = adapter.pending \ {r}
<1>1. e.n \in Nat /\ 0 \in 0..Len(requests) /\ Len(requests) \in Nat
  BY RequestIds DEF GoodEvent, EventFields
<1>2. /\ adapter \in AdapterFields /\ adapter.pending \subseteq 1..Len(requests)
      /\ adapter.update \in 0..Len(requests) /\ adapter.response \in 0..Len(requests)
      /\ adapter.seenItems \subseteq Items /\ adapter.seenEvents \subseteq Nat
      /\ (adapter.update # 0 => requests[adapter.update].kind = "instructions")
      /\ (adapter.response # 0 => requests[adapter.response].kind = "response")
  BY DEF DecodeTypes, GoodAdapter, AdapterFields
<1>3. ASSUME NEW a \in AdapterFields, a.update \in {0, adapter.update}, a.response \in {0, adapter.response}
      PROVE  GoodAdapter(a)
  BY <1>2, <1>3 DEF GoodAdapter
<1> DEFINE heard == IF provider = "qwen" THEN adapter.seenEvents \cup {e.n} ELSE adapter.seenEvents
<1>4. heard \subseteq Nat /\ (provider = "qwen" => e.n \in heard)
  BY <1>1, <1>2
<1>5. Heard(e) = [adapter EXCEPT !.seenEvents = heard]
  BY <1>2 DEF Heard, AdapterFields
<1>6. \A ids : Noted(e, ids) = [adapter EXCEPT !.seenEvents = heard, !.seenItems = @ \cup ids]
  BY <1>2, <1>5 DEF Noted, AdapterFields
<1> HIDE DEF heard
<1>7. /\ GoodAdapter(Heard(e)) /\ Heard(e).pending = adapter.pending /\ Heard(e).seenEvents = heard
  <2>1. Heard(e) \in AdapterFields /\ Heard(e).update = adapter.update /\ Heard(e).response = adapter.response
        /\ Heard(e).pending = adapter.pending /\ Heard(e).seenEvents = heard
    BY <1>2, <1>4, <1>5 DEF AdapterFields
  <2> QED
    BY <1>3, <2>1
<1>8. ASSUME NEW ids \in SUBSET Items
      PROVE  /\ GoodAdapter(Noted(e, ids)) /\ Noted(e, ids).pending = adapter.pending
             /\ Noted(e, ids).seenEvents = heard
  <2>1. /\ Noted(e, ids) \in AdapterFields /\ Noted(e, ids).update = adapter.update
        /\ Noted(e, ids).response = adapter.response
        /\ Noted(e, ids).pending = adapter.pending /\ Noted(e, ids).seenEvents = heard
    <3>1. Noted(e, ids) = [adapter EXCEPT !.seenEvents = heard, !.seenItems = @ \cup ids]
      BY <1>6
    <3>2. adapter.seenItems \cup ids \in SUBSET Items
      BY <1>2
    <3> QED
      BY <1>2, <1>4, <3>1, <3>2 DEF AdapterFields
  <2> QED
    BY <1>3, <2>1
<1>9. ASSUME NEW r
      PROVE  GoodAdapter(Updated(e, r)) /\ Updated(e, r).pending = adapter.pending \ {r}
             /\ Updated(e, r).seenEvents = heard
  <2>1. /\ Updated(e, r) \in AdapterFields /\ Updated(e, r).update = 0
        /\ Updated(e, r).response = adapter.response
        /\ Updated(e, r).pending = adapter.pending \ {r} /\ Updated(e, r).seenEvents = heard
    BY <1>1, <1>2, <1>4, <1>5 DEF AdapterFields, Without, Updated
  <2> QED
    BY <1>3, <2>1
<1>10. ASSUME NEW r PROVE GoodAdapter(Confirmed(r)) /\ Confirmed(r).pending = adapter.pending \ {r}
  <2>1. /\ Confirmed(r) \in AdapterFields /\ Confirmed(r).update = adapter.update
        /\ Confirmed(r).response = adapter.response /\ Confirmed(r).pending = adapter.pending \ {r}
    BY <1>1, <1>2 DEF AdapterFields, Without, Confirmed
  <2> QED
    BY <1>3, <2>1
<1>11. ASSUME NEW r PROVE GoodAdapter(Responded(r)) /\ Responded(r).pending = adapter.pending \ {r}
  <2>1. /\ Responded(r) \in AdapterFields /\ Responded(r).update = adapter.update
        /\ Responded(r).response = 0 /\ Responded(r).pending = adapter.pending \ {r}
    BY <1>1, <1>2 DEF AdapterFields, Without, Responded
  <2> QED
    BY <1>3, <2>1
<1>12. ASSUME NEW r \in Items PROVE GoodAdapter(Rejected(r)) /\ Rejected(r).pending = adapter.pending \ {r}
  <2>1. /\ Rejected(r) \in AdapterFields /\ Rejected(r).update \in {0, adapter.update}
        /\ Rejected(r).response \in {0, adapter.response} /\ Rejected(r).pending = adapter.pending \ {r}
    BY <1>1, <1>2 DEF AdapterFields, Without, Rejected
  <2> QED
    BY <1>3, <2>1
<1> QED
  BY <1>4, <1>7, <1>8, <1>9, <1>10, <1>11, <1>12

\* The same of an echoed message.
LEMMA EchoedForm ==
    ASSUME DecodeTypes, NEW e, GoodEvent(e), NEW ids \in SUBSET Items, NEW r, provider = "qwen"
    PROVE  /\ GoodAdapter(Echoed(e, ids, r)) /\ Echoed(e, ids, r).pending = adapter.pending \ {r}
           /\ e.n \in Echoed(e, ids, r).seenEvents
<1> DEFINE a == Noted(e, ids)
           b == Echoed(e, ids, r)
<1>1. GoodAdapter(a) /\ a.pending = adapter.pending /\ e.n \in a.seenEvents
  BY AdapterForms
<1>2. b = [a EXCEPT !.pending = adapter.pending \ {r}]
  BY DEF Echoed, Without
<1>3. adapter.pending \ {r} \in SUBSET (1..Len(requests))
  BY DEF DecodeTypes, GoodAdapter, AdapterFields
<1> HIDE DEF a, b
<1>4. b \in AdapterFields /\ b.pending = adapter.pending \ {r} /\ b.seenEvents = a.seenEvents
      /\ b.update = a.update /\ b.response = a.response
  BY <1>1, <1>2, <1>3 DEF GoodAdapter, AdapterFields
<1>5. GoodAdapter(b) /\ e.n \in b.seenEvents
  BY <1>1, <1>4 DEF GoodAdapter
<1> QED
  BY <1>4, <1>5 DEF b

\* Events both adapters take the same way: the acknowledgement of the session.
LEMMA SessionAckWell ==
    ASSUME DecodeTypes, NEW e, GoodEvent(e), e.type \in {"session.updated", "session.created"}
    PROVE  GoodDecoding(e, SessionAck(e))
<1> DEFINE code == IF provider = "qwen" THEN QwenAck(e) ELSE OpenAIAck(e)
<1>1. code \in {"UNSUPPORTED", "PROTOCOL_ERROR", "none"}
  BY DEF QwenAck, OpenAIAck
<1>2. SessionAck(e) = IF code # "none" THEN Raises(code)
                      ELSE Decoded(Heard(e), table, OutReady(e.type = "session.updated"))
  BY DEF SessionAck, OutReady
<1> HIDE DEF code
<1>3. CASE code # "none"
  <2>1. code \in Codes
    BY <1>1, <1>3 DEF Codes
  <2> QED
    BY <1>2, <1>3, <2>1, RaisesWell
<1>4. CASE code = "none"
  <2>1. Len(requests) \in Nat /\ (e.type = "session.updated") \in BOOLEAN
    BY RequestIds
  <2> DEFINE d == OutReady(e.type = "session.updated")
  <2>2. d \in Outs /\ d.raises = "none" /\ d.request = 0 /\ d.rejected = 0 /\ d.turn = 0
    BY <2>1, OutForms
  <2>3. GoodAdapter(Heard(e)) /\ Heard(e).pending = adapter.pending /\ Spent(e, Heard(e))
    BY AdapterForms DEF Spent
  <2> HIDE DEF d
  <2>4. GoodDecoding(e, Decoded(Heard(e), table, d))
    BY <2>2, <2>3, Passes, TableStays DEF DecodeTypes
  <2> QED
    BY <1>2, <1>4, <2>4 DEF d
<1> QED
  BY <1>3, <1>4

\* session.updated answers the instruction update, if its text is the one asked for.
LEMMA SessionUpdatedWell ==
    ASSUME DecodeTypes, NEW e, GoodEvent(e), e.type = "session.updated",
           provider = "qwen" => e.n \notin adapter.seenEvents
    PROVE  GoodDecoding(e, SessionUpdated(e))
<1> DEFINE r == adapter.update
<1>1. r \in 0..Len(requests) /\ (r # 0 => requests[r].kind = "instructions") /\ Len(requests) \in Nat
  BY RequestIds DEF DecodeTypes, GoodAdapter, AdapterFields
<1>2. SessionUpdated(e) = IF r # 0 /\ requests[r].body = e.body
                          THEN Decoded(Updated(e, r), table, OutUpdated(r))
                          ELSE IF r # 0 /\ provider = "qwen" THEN Raises("PROTOCOL_ERROR")
                          ELSE SessionAck(e)
  BY DEF SessionUpdated, Updated, OutUpdated
<1> HIDE DEF r
<1>3. CASE r # 0 /\ requests[r].body = e.body
  <2> DEFINE d == OutUpdated(r)
  <2>1. d \in Outs /\ d.raises = "none" /\ d.request = r /\ d.rejected = 0 /\ d.turn = 0
    BY <1>1, OutForms
  <2>2. GoodAdapter(Updated(e, r)) /\ Updated(e, r).pending = adapter.pending \ {r}
        /\ (provider = "qwen" => e.n \in Updated(e, r).seenEvents)
    BY <1>1, AdapterForms
  <2>6. Spent(e, Updated(e, r))
    BY <2>2 DEF Spent
  <2>3. ~Spent(e, adapter) \/ e.type \in Nameless
    BY DEF Spent, Nameless, DecodeTypes
  <2> HIDE DEF d
  <2>4. Confirms(e, d)
    BY <1>1, <1>3, <2>1 DEF Confirms, AnswerTo
  <2>5. GoodDecoding(e, Decoded(Updated(e, r), table, d))
    BY <2>1, <2>2, <2>3, <2>4, <2>6, Ends, TableStays DEF DecodeTypes
  <2> QED
    BY <1>2, <1>3, <2>5 DEF d
<1>4. CASE ~(r # 0 /\ requests[r].body = e.body)
  BY <1>2, <1>4, SessionAckWell, RaisesWell DEF Codes
<1> QED
  BY <1>3, <1>4

\* A nonempty set of requests has an oldest one.
LEMMA OldestExists ==
    ASSUME NEW S \in SUBSET Nat, S # {}
    PROVE  Min(S) \in S
<1>1. PICK x \in S : \A y \in S : ~ (<<y, x>> \in OpToRel(<, Nat))
  BY WFMin, NatLessThanWellFounded
<1>2. \A y \in S : ~ (y < x)
  BY <1>1 DEF OpToRel
<1>3. \A y \in S : x <= y
  BY <1>2
<1> QED
  BY <1>3 DEF Min

\* An error, of a request or of something else.
LEMMA ErrorWell ==
    ASSUME DecodeTypes, NEW e, GoodEvent(e), e.type = "error"
    PROVE  GoodDecoding(e, ErrorEvent(e))
<1> DEFINE r == Blamed(e)
           code == MapError(e.code)
<1>0. code \in Codes
  BY DEF MapError, Codes
<1>1. Len(requests) \in Nat /\ adapter.pending \subseteq 1..Len(requests) /\ 0 \notin adapter.pending
      /\ 1..Len(requests) \subseteq Items
  BY RequestIds DEF DecodeTypes, GoodAdapter, AdapterFields
<1>2. provider = "openai" => r = e.id
  BY DEF Blamed
<1>3. ErrorEvent(e) = IF r = 0 \/ ~IsPending(r) THEN Decoded(adapter, table, OutFails(code))
                      ELSE Decoded(Rejected(r), table, OutRejects(r))
  BY DEF ErrorEvent, Unchanged, OutFails, Rejected, OutRejects
<1> HIDE DEF r, code
<1>4. CASE r \notin adapter.pending
  <2> DEFINE d == OutFails(code)
  <2>1. d \in Outs /\ d.raises = "none" /\ d.request = 0 /\ d.rejected = 0 /\ d.turn = 0
    BY <1>0, <1>1, OutForms
  <2>2. Spent(e, adapter)
    BY <1>2, <1>4 DEF Spent
  <2> HIDE DEF d
  <2>3. GoodDecoding(e, Decoded(adapter, table, d))
    BY <2>1, <2>2, Passes, TableStays DEF DecodeTypes
  <2> QED
    BY <1>3, <1>4, <2>3 DEF d, IsPending
<1>5. CASE r \in adapter.pending
  <2> DEFINE d == OutRejects(r)
  <2>0. r \in 0..Len(requests) /\ r \in Items /\ r # 0
    BY <1>1, <1>5
  <2>1. d \in Outs /\ d.raises = "none" /\ d.request = 0 /\ d.rejected = r /\ d.turn = 0
    BY <1>1, <2>0, OutForms
  <2>2. GoodAdapter(Rejected(r)) /\ Rejected(r).pending = adapter.pending \ {r}
    BY <2>0, AdapterForms
  <2>3. Spent(e, Rejected(r))
    BY <1>2, <2>2 DEF Spent
  <2>4. ~Spent(e, adapter) \/ e.type \in Nameless
    BY <1>2, <1>5 DEF Spent, Nameless, DecodeTypes
  <2> HIDE DEF d
  <2>5. Confirms(e, d)
    BY <2>1 DEF Confirms
  <2>6. GoodDecoding(e, Decoded(Rejected(r), table, d))
    BY <2>1, <2>2, <2>3, <2>4, <2>5, Ends, TableStays DEF DecodeTypes
  <2> QED
    BY <1>3, <1>5, <2>0, <2>6 DEF d, IsPending
<1> QED
  BY <1>4, <1>5

\* An event that registers its item, if the table allows it.
LEMMA RegisteringWell ==
    ASSUME DecodeTypes, NEW e, NEW a, GoodAdapter(a), a.pending = adapter.pending, Spent(e, a),
           NEW id \in Items, NEW role \in Roles, NEW source \in ItemSources, NEW confirmed \in BOOLEAN,
           NEW d \in Outs, d.request = 0, d.rejected = 0, d.raises = "none",
           d.turn # 0 => d.by # "none" /\ d.turn = id /\ source = "transcript"
    PROVE  GoodDecoding(e, Registering(a, id, role, source, confirmed, d))
<1> DEFINE t == Register(table, id, role, source, confirmed, {})
           answer == Registers(table, id, role, source, {})
<1>1. CASE answer = "error"
  BY <1>1, RaisesWell DEF Registering, Codes
<1>2. CASE answer # "error"
  <2>1. ClosedTable(t) /\ Keeps(table, t)
    BY RegisterKeeps DEF DecodeTypes
  <2>2. ASSUME source = "transcript" PROVE Counted(t, id)
    <3>1. answer = "set"
      BY <1>2, <2>2 DEF Registers
    <3>2. id \in Linked(table, id, {})
      BY DEF Linked
    <3>3. id \in DOMAIN t /\ t[id].source = source
      BY <3>1, <3>2 DEF Register
    <3> QED
      BY <2>2, <3>3 DEF Counted
  <2> HIDE DEF t
  <2>3. GoodDecoding(e, Decoded(a, t, d))
    BY <2>1, <2>2, Passes
  <2> QED
    BY <1>2, <2>3 DEF Registering, t
<1> QED
  BY <1>1, <1>2

\* conversation.item.created, as the Qwen adapter takes it.
LEMMA QwenItemWell ==
    ASSUME DecodeTypes, NEW e, GoodEvent(e), e.type = "item.created", provider = "qwen",
           e.n \notin adapter.seenEvents
    PROVE  GoodDecoding(e, QwenItemCreated(e))
<1>0. /\ e.id \in Items /\ e.body \in Roles /\ e.completed \in BOOLEAN /\ e.audio \in BOOLEAN
      /\ Len(requests) \in Nat /\ adapter.pending \subseteq 1..Len(requests) /\ 1..Len(requests) \subseteq Items
  BY RequestIds DEF GoodEvent, EventFields, DecodeTypes, GoodAdapter, AdapterFields
<1>1. Nothing \in Outs /\ Nothing.raises = "none" /\ Nothing.request = 0 /\ Nothing.rejected = 0
      /\ Nothing.turn = 0
  BY <1>0, OutForms
<1>2. \A ids \in SUBSET Items : GoodAdapter(Noted(e, ids)) /\ Noted(e, ids).pending = adapter.pending
                                /\ Spent(e, Noted(e, ids))
  BY AdapterForms DEF Spent
<1>3. GoodDecoding(e, Raises("PROTOCOL_ERROR"))
  BY RaisesWell DEF Codes
<1>4. \A ids \in SUBSET Items : GoodDecoding(e, Decoded(Noted(e, ids), table, Nothing))
  BY <1>1, <1>2, Passes, TableStays DEF DecodeTypes
<1>5. CASE IsInput(e)
  <2> DEFINE source == IF e.audio THEN "input_audio_item" ELSE table[e.id].source
  <2>1. source \in ItemSources
    BY <1>5 DEF IsInput, DecodeTypes, ClosedTable, Identity, ItemSources
  <2>2. {e.id} \in SUBSET Items /\ "user" \in Roles
    BY <1>0 DEF Roles
  <2>3. QwenItemCreated(e) = IF IsPending(e.id) THEN Raises("PROTOCOL_ERROR")
                             ELSE Registering(Noted(e, {e.id}), e.id, "user", source, e.completed, Nothing)
    BY <1>5 DEF QwenItemCreated
  <2> HIDE DEF source
  <2>4. GoodDecoding(e, Registering(Noted(e, {e.id}), e.id, "user", source, e.completed, Nothing))
    BY <1>0, <1>1, <1>2, <2>1, <2>2, RegisteringWell
  <2> QED
    BY <1>3, <2>3, <2>4
<1>6. CASE ~IsInput(e) /\ (e.id \in adapter.seenItems \/ Messages = {})
  <2>1. {e.id} \in SUBSET Items /\ {} \in SUBSET Items
    BY <1>0
  <2>2. QwenItemCreated(e) \in {Decoded(Noted(e, {}), table, Nothing), Raises("PROTOCOL_ERROR"),
                                Decoded(Noted(e, {e.id}), table, Nothing)}
    BY <1>6 DEF QwenItemCreated
  <2>3. GoodDecoding(e, Decoded(Noted(e, {}), table, Nothing))
        /\ GoodDecoding(e, Decoded(Noted(e, {e.id}), table, Nothing))
    BY <1>4, <2>1
  <2> QED
    BY <1>3, <2>2, <2>3
<1>7. CASE ~IsInput(e) /\ e.id \notin adapter.seenItems /\ Messages # {}
  <2> DEFINE r == Min(Messages)
             t == Register(table, e.id, e.body, "context_ack", TRUE, {r})
             d == OutConfirms(r)
             ids == {r, e.id}
  <2>1. r \in Messages
    <3>1. Messages \in SUBSET Nat
      BY <1>0 DEF Messages
    <3> QED
      BY <1>7, <3>1, OldestExists
  <2>2. r \in adapter.pending /\ requests[r].kind = "message" /\ r \in 0..Len(requests) /\ r \in Items
    BY <1>0, <2>1 DEF Messages
  <2>3. QwenItemCreated(e) =
           IF ~Matches(e, r) \/ Registers(table, e.id, e.body, "context_ack", {r}) = "error"
           THEN Raises("PROTOCOL_ERROR") ELSE Decoded(Echoed(e, ids, r), t, d)
    BY <1>7 DEF QwenItemCreated, Echoed, OutConfirms
  <2> HIDE DEF r
  <2>4. CASE Matches(e, r)
    <3>1. d \in Outs /\ d.raises = "none" /\ d.request = r /\ d.rejected = 0 /\ d.turn = 0
      BY <1>0, <2>2, OutForms
    <3>2. {r} \in SUBSET Items /\ "context_ack" \in ItemSources /\ TRUE \in BOOLEAN
      BY <2>2 DEF ItemSources
    <3>3. ClosedTable(t) /\ Keeps(table, t)
      BY <1>0, <3>2, RegisterKeeps DEF DecodeTypes
    <3>4. ids \in SUBSET Items
      BY <1>0, <2>2
    <3> HIDE DEF t, d, ids
    <3>5. GoodAdapter(Echoed(e, ids, r)) /\ Echoed(e, ids, r).pending = adapter.pending \ {r}
          /\ e.n \in Echoed(e, ids, r).seenEvents
      BY <3>4, EchoedForm
    <3>6. Spent(e, Echoed(e, ids, r)) /\ ~Spent(e, adapter)
      BY <3>5 DEF Spent
    <3>7. Confirms(e, d)
      BY <1>7, <2>2, <2>4, <3>1 DEF Confirms, AnswerTo, Matches, IsInput
    <3>8. GoodDecoding(e, Decoded(Echoed(e, ids, r), t, d))
      BY <3>1, <3>3, <3>5, <3>6, <3>7, Ends
    <3> QED
      BY <1>3, <2>3, <3>8
  <2>5. CASE ~Matches(e, r)
    BY <1>3, <2>3, <2>5
  <2> QED
    BY <2>4, <2>5
<1> QED
  BY <1>5, <1>6, <1>7

\* The other events of the Qwen adapter.
LEMMA QwenWell ==
    ASSUME DecodeTypes, NEW e, GoodEvent(e), provider = "qwen"
    PROVE  GoodDecoding(e, QwenDecode(e))
<1>0. Len(requests) \in Nat /\ GoodAdapter(adapter) /\ e.type \in ProviderTypes
  BY RequestIds DEF DecodeTypes, GoodEvent, EventFields
<1>1. \* an event that leaves the adapter alone
      ASSUME NEW d \in Outs, d.request = 0, d.rejected = 0, d.turn # 0 => d.by = "side", Spent(e, adapter)
      PROVE  GoodDecoding(e, Unchanged(d))
  BY <1>0, <1>1, Passes, TableStays DEF DecodeTypes, Unchanged
<1>2. e.type \notin {"item.created", "session.updated"} => Spent(e, adapter)
  BY DEF Spent
<1>3. CASE e.n \in adapter.seenEvents
  <2> DEFINE d == OutAcks(e.type = "session.updated")
  <2>1. d \in Outs /\ d.request = 0 /\ d.rejected = 0 /\ d.turn = 0
    BY <1>0, OutForms
  <2>2. Spent(e, adapter)
    BY <1>3 DEF Spent
  <2>3. QwenDecode(e) = Unchanged(d)
    BY <1>3 DEF QwenDecode, OutAcks
  <2> HIDE DEF d
  <2> QED
    BY <1>1, <2>1, <2>2, <2>3
<1>4. CASE e.n \notin adapter.seenEvents /\ e.type \in {"session.updated", "item.created", "error"}
  BY <1>4, SessionUpdatedWell, QwenItemWell, ErrorWell DEF QwenDecode
<1>5. CASE e.n \notin adapter.seenEvents /\ e.type \in {"committed", "speech_started", "transcript"}
  <2> DEFINE d == IF e.type = "transcript" THEN OutTurn(e.id, "asr") ELSE Nothing
  <2>1. e.id \in Items /\ e.type \in ItemSources /\ "user" \in Roles /\ (e.type # "speech_started") \in BOOLEAN
    BY <1>5 DEF GoodEvent, ItemSources, Roles
  <2>2. d \in Outs /\ d.raises = "none" /\ d.request = 0 /\ d.rejected = 0
        /\ (d.turn # 0 => d.by # "none" /\ d.turn = e.id /\ e.type = "transcript")
    <3>1. CASE e.type = "transcript"
      <4>1. d = OutTurn(e.id, "asr")
        BY <3>1
      <4>2. LET o == OutTurn(e.id, "asr")
            IN  o \in Outs /\ o.raises = "none" /\ o.request = 0 /\ o.rejected = 0 /\ o.turn = e.id /\ o.by = "asr"
        BY <1>0, <2>1, OutForms
      <4> QED
        BY <3>1, <4>1, <4>2
    <3>2. CASE e.type # "transcript"
      BY <1>0, <3>2, OutForms
    <3> QED
      BY <3>1, <3>2
  <2>3. QwenDecode(e) = Registering(adapter, e.id, "user", e.type, e.type # "speech_started", d)
    BY <1>5 DEF QwenDecode, QwenInput, OutTurn
  <2>4. Spent(e, adapter)
    BY <1>2, <1>5
  <2> HIDE DEF d
  <2>5. GoodDecoding(e, Registering(adapter, e.id, "user", e.type, e.type # "speech_started", d))
    BY <1>0, <2>1, <2>2, <2>4, RegisteringWell
  <2> QED
    BY <2>3, <2>5
<1>6. CASE e.n \notin adapter.seenEvents /\ e.type = "output_item"
  <2>1. e.id \in Items /\ e.body \in Roles /\ "output_item" \in ItemSources /\ (e.body = "user") \in BOOLEAN
    BY <1>6 DEF GoodEvent, ItemSources
  <2>2. Nothing \in Outs /\ Nothing.raises = "none" /\ Nothing.request = 0 /\ Nothing.rejected = 0
        /\ Nothing.turn = 0
    BY <1>0, OutForms
  <2>3. QwenDecode(e) = Registering(adapter, e.id, e.body, "output_item", e.body = "user", Nothing)
    BY <1>6 DEF QwenDecode, QwenOutputItem
  <2>4. Spent(e, adapter)
    BY <1>2, <1>6
  <2>5. GoodDecoding(e, Registering(adapter, e.id, e.body, "output_item", e.body = "user", Nothing))
    BY <1>0, <2>1, <2>2, <2>4, RegisteringWell
  <2> QED
    BY <2>3, <2>5
<1>7. CASE e.n \notin adapter.seenEvents /\ e.type = "user_side"
  <2> DEFINE d == OutTurn(e.id, "side")
  <2>1. e.id \in Items
    BY <1>7 DEF GoodEvent
  <2>2. d \in Outs /\ d.request = 0 /\ d.rejected = 0 /\ d.by = "side"
    BY <1>0, <2>1, OutForms
  <2>3. QwenDecode(e) \in {Raises("PROTOCOL_ERROR"), Unchanged(d)}
    BY <1>7 DEF QwenDecode, UserSide, OutTurn
  <2> HIDE DEF d
  <2>4. GoodDecoding(e, Unchanged(d))
    BY <1>1, <1>2, <1>7, <2>2
  <2> QED
    BY <2>3, <2>4, RaisesWell DEF Codes
<1>8. CASE e.n \notin adapter.seenEvents /\ e.type \in {"session.created", "response.created"}
  <2>1. QwenDecode(e) = Unchanged(Nothing)
    BY <1>8 DEF QwenDecode
  <2>2. Nothing \in Outs /\ Nothing.request = 0 /\ Nothing.rejected = 0 /\ Nothing.turn = 0
    BY <1>0, OutForms
  <2> QED
    BY <1>1, <1>2, <1>8, <2>1, <2>2
<1> QED
  BY <1>0, <1>3, <1>4, <1>5, <1>6, <1>7, <1>8 DEF ProviderTypes

\* The events of the OpenAI adapter.
LEMMA OpenAIWell ==
    ASSUME DecodeTypes, NEW e, GoodEvent(e), provider = "openai"
    PROVE  GoodDecoding(e, OpenAIDecode(e))
<1>0. Len(requests) \in Nat /\ GoodAdapter(adapter) /\ e.type \in ProviderTypes
      /\ adapter.pending \subseteq 1..Len(requests) /\ adapter.response \in 0..Len(requests)
      /\ (adapter.response # 0 => requests[adapter.response].kind = "response")
  BY RequestIds DEF DecodeTypes, GoodEvent, EventFields, GoodAdapter, AdapterFields
<1>1. ASSUME NEW d \in Outs, d.request = 0, d.rejected = 0, d.turn # 0 => d.by # "none", Spent(e, adapter)
      PROVE  GoodDecoding(e, Unchanged(d))
  BY <1>0, <1>1, Passes, TableStays DEF DecodeTypes, Unchanged
<1>2. Nothing \in Outs /\ Nothing.raises = "none" /\ Nothing.request = 0 /\ Nothing.rejected = 0
      /\ Nothing.turn = 0
  BY <1>0, OutForms
<1>3. CASE e.type \in {"session.updated", "session.created", "error"}
  BY <1>3, SessionUpdatedWell, SessionAckWell, ErrorWell DEF OpenAIDecode
<1>4. CASE e.type = "item.created"
  <2> DEFINE d == OutConfirms(e.id)
  <2>1. OpenAIDecode(e) =
          IF ~IsPending(e.id) THEN Unchanged(Nothing)
          ELSE IF requests[e.id].kind # "message" \/ ~e.completed \/ e.body # requests[e.id].body
          THEN Raises("PROTOCOL_ERROR")
          ELSE Decoded(Confirmed(e.id), table, d)
    BY <1>4 DEF OpenAIDecode, OpenAIItemCreated, Confirmed, OutConfirms
  <2>2. CASE e.id \notin adapter.pending
    <3>1. Spent(e, adapter)
      BY <2>2 DEF Spent
    <3> QED
      BY <1>1, <1>2, <2>1, <2>2, <3>1 DEF IsPending
  <2>3. CASE e.id \in adapter.pending /\ requests[e.id].kind = "message" /\ e.body = requests[e.id].body
    <3>1. e.id \in 0..Len(requests)
      BY <1>0, <2>3
    <3>2. d \in Outs /\ d.raises = "none" /\ d.request = e.id /\ d.rejected = 0 /\ d.turn = 0
      BY <1>0, <3>1, OutForms
    <3>3. GoodAdapter(Confirmed(e.id)) /\ Confirmed(e.id).pending = adapter.pending \ {e.id}
      BY <3>1, AdapterForms
    <3>4. Spent(e, Confirmed(e.id)) /\ ~Spent(e, adapter)
      BY <1>4, <2>3, <3>3 DEF Spent
    <3> HIDE DEF d
    <3>5. Confirms(e, d)
      BY <1>4, <2>3, <3>2 DEF Confirms, AnswerTo, GoodEvent
    <3>6. GoodDecoding(e, Decoded(Confirmed(e.id), table, d))
      BY <3>2, <3>3, <3>4, <3>5, Ends, TableStays DEF DecodeTypes
    <3>7. GoodDecoding(e, Raises("PROTOCOL_ERROR"))
      BY RaisesWell DEF Codes
    <3> QED
      BY <2>1, <2>3, <3>6, <3>7 DEF IsPending
  <2>4. CASE e.id \in adapter.pending /\ ~(requests[e.id].kind = "message" /\ e.body = requests[e.id].body)
    BY <2>1, <2>4, RaisesWell DEF Codes, IsPending
  <2> QED
    BY <2>2, <2>3, <2>4
<1>5. CASE e.type = "response.created"
  <2> DEFINE r == adapter.response
             d == OutConfirms(r)
  <2>1. OpenAIDecode(e) = Decoded(Responded(r), table, d)
    BY <1>5 DEF OpenAIDecode, ResponseCreated, Responded, OutConfirms
  <2>2. d \in Outs /\ d.raises = "none" /\ d.request = r /\ d.rejected = 0 /\ d.turn = 0
    BY <1>0, OutForms
  <2>3. GoodAdapter(Responded(r)) /\ Responded(r).pending = adapter.pending \ {r}
    BY <1>0, AdapterForms
  <2> HIDE DEF d, r
  <2>4. Spent(e, Responded(r)) /\ e.type \in Nameless
    BY <1>5 DEF Spent, Nameless
  <2>5. Confirms(e, d)
    BY <1>0, <2>2 DEF Confirms, r
  <2>6. GoodDecoding(e, Decoded(Responded(r), table, d))
    BY <2>2, <2>3, <2>4, <2>5, Ends, TableStays DEF DecodeTypes
  <2> QED
    BY <2>1, <2>6
<1>6. CASE e.type = "transcript"
  <2> DEFINE d == OutTurn(e.id, "asr")
  <2>1. e.id \in Items
    BY <1>6 DEF GoodEvent
  <2>2. d \in Outs /\ d.request = 0 /\ d.rejected = 0 /\ d.by = "asr"
    BY <1>0, <2>1, OutForms
  <2>3. OpenAIDecode(e) = Unchanged(d)
    BY <1>6 DEF OpenAIDecode, OutTurn
  <2>4. Spent(e, adapter)
    BY <1>6 DEF Spent
  <2> HIDE DEF d
  <2>5. GoodDecoding(e, Unchanged(d))
    BY <1>0, <2>2, <2>4, Passes, TableStays DEF DecodeTypes, Unchanged
  <2> QED
    BY <2>3, <2>5
<1>7. CASE e.type \in {"committed", "speech_started", "output_item", "user_side"}
  <2>1. OpenAIDecode(e) = Unchanged(Nothing)
    BY <1>7 DEF OpenAIDecode
  <2>2. Spent(e, adapter)
    BY <1>7 DEF Spent
  <2> QED
    BY <1>1, <1>2, <2>1, <2>2
<1> QED
  BY <1>0, <1>3, <1>4, <1>5, <1>6, <1>7 DEF ProviderTypes

\* Whatever the provider sends, the session can rely on what the adapter makes of it.
LEMMA DecodeWell ==
    ASSUME DecodeTypes, NEW e, GoodEvent(e)
    PROVE  GoodDecoding(e, Decode(e))
BY QwenWell, OpenAIWell DEF Decode, DecodeTypes

-----------------------------------------------------------------------------
(* The inductive invariant. *)

SessionInv ==
    /\ provider \in Providers /\ ready \in BOOLEAN /\ written \in BOOLEAN /\ repeated \in BOOLEAN
    /\ failure \in Codes \cup {"none"} /\ generation \in Nat
    /\ requests \in Seq(Injected) /\ Len(requests) <= MaxRequests
    /\ holder \in 0..Len(requests) /\ (~Active => holder = 0)
    /\ completed \subseteq Items /\ reported \in [Items -> [{"asr", "side"} -> Nat]]
    /\ events \in Nat /\ seen \subseteq 1..events

\* A request is on the wire once, and is carried out once.
OutboxInv ==
    /\ outbox \in Seq(Requests) /\ applied \subseteq 1..Len(requests)
    /\ \A k \in 1..Len(outbox) : outbox[k] <= Len(requests) /\ outbox[k] \notin applied
    /\ \A j, k \in 1..Len(outbox) : outbox[j] = outbox[k] => j = k
    /\ holder # 0 /\ ~written => holder \notin applied /\ \A k \in 1..Len(outbox) : outbox[k] # holder

\* Only the first event can be one the session has seen, and decoding it again then
\* changes nothing, unless it is of a type that names no request.
InboxInv ==
    /\ inbox \in Seq(EventFields)
    /\ \A k \in 1..Len(inbox) :
          /\ GoodEvent(inbox[k]) /\ inbox[k].n \in 1..events
          /\ inbox[k].n \in seen =>
                /\ k = 1 /\ Spent(inbox[k], adapter)
                /\ inbox[k].type \in Nameless => repeated
    /\ \A j, k \in 1..Len(inbox) : j < k => inbox[j].n < inbox[k].n

\* A published transcription is a completed input.
OnceInv ==
    provider = "qwen" =>
       \A i \in Items : reported[i]["asr"] <= 1 /\ (reported[i]["asr"] = 1 => i \in completed)

\* The requests that count as accepted, the answers still to be read, and the requests the
\* provider accepted, of one kind and one body.
Acked(kind, body) ==
    {r \in DOMAIN requests : requests[r].kind = kind /\ requests[r].body = body
                             /\ requests[r].end = "acked"}
Fresh(kind, body) ==
    {n \in 1..events : n \notin seen /\ \E k \in 1..Len(inbox) :
                          inbox[k].n = n /\ AnswerTo(inbox[k], kind, body)}
Carried(kind, body) == {r \in applied : requests[r].kind = kind /\ requests[r].body = body}

\* Every acknowledgement used up an answer of its own.
AckInv ==
    \A kind \in {"message", "instructions"}, body \in Bodies :
       Cardinality(Acked(kind, body)) + Cardinality(Fresh(kind, body))
          <= Cardinality(Carried(kind, body))

Core == SessionInv /\ GoodAdapter(adapter) /\ ClosedTable(table) /\ OutboxInv /\ InboxInv
IInv == Core /\ OnceInv /\ AckInv /\ WaiterIsKnown

-----------------------------------------------------------------------------
(* Requests, counts and sequences. *)

\* Requests are added and end; their kinds and bodies stay.
Grows ==
    /\ requests' \in Seq(Injected)
    /\ Len(requests) <= Len(requests') /\ Len(requests') <= MaxRequests
    /\ \A k \in 1..Len(requests) : requests'[k].kind = requests[k].kind /\ requests'[k].body = requests[k].body

\* What is good stays good while the requests grow.
LEMMA GrowsKeeps ==
    ASSUME SessionInv, Grows, provider' = provider
    PROVE  /\ Len(requests) \in Nat /\ Len(requests') \in Nat
           /\ \A e : GoodEvent(e) => GoodEvent(e)'
           /\ \A a : GoodAdapter(a) => GoodAdapter(a)'
           /\ \A e, a : Spent(e, a) => Spent(e, a)'
           /\ Nameless' = Nameless
<1>1. Len(requests) \in Nat /\ Len(requests') \in Nat /\ Len(requests) <= Len(requests')
  BY DEF SessionInv, Grows
<1>2. \A e : GoodEvent(e) => GoodEvent(e)'
  <2> SUFFICES ASSUME NEW e, GoodEvent(e) PROVE GoodEvent(e)'
    OBVIOUS
  <2>1. e.id \in Requests => e.id <= Len(requests')
    <3>1. e.id \in Requests => e.id \in Nat /\ e.id <= Len(requests)
      BY BoundAssumption DEF GoodEvent, Requests
    <3> QED
      BY <1>1, <3>1
  <2> QED
    BY <2>1 DEF GoodEvent
<1>3. \A a : GoodAdapter(a) => GoodAdapter(a)'
  <2> SUFFICES ASSUME NEW a, GoodAdapter(a) PROVE GoodAdapter(a)'
    OBVIOUS
  <2>1. 1..Len(requests) \subseteq 1..Len(requests') /\ 0..Len(requests) \subseteq 0..Len(requests')
    BY <1>1
  <2>2. AdapterFields \subseteq AdapterFields'
    BY <2>1 DEF AdapterFields
  <2>3. a \in AdapterFields' /\ a.update \in 0..Len(requests) /\ a.response \in 0..Len(requests)
    BY <2>2 DEF GoodAdapter, AdapterFields
  <2>4. /\ a.update # 0 => requests'[a.update].kind = "instructions"
        /\ a.response # 0 => requests'[a.response].kind = "response"
    BY <1>1, <2>3 DEF GoodAdapter, Grows
  <2> QED
    BY <2>3, <2>4 DEF GoodAdapter
<1>4. \A e, a : Spent(e, a) => Spent(e, a)'
  BY DEF Spent
<1>5. Nameless' = Nameless
  BY DEF Nameless
<1> QED
  BY <1>1, <1>2, <1>3, <1>4, <1>5

\* The end of a request is set.
LEMMA EndSet ==
    ASSUME SessionInv, NEW r \in 1..Len(requests),
           NEW x \in {"open", "cancelled", "failed", "rejected", "acked"},
           requests' = [requests EXCEPT ![r].end = x]
    PROVE  /\ Grows /\ Len(requests') = Len(requests) /\ requests'[r].end = x
           /\ \A k \in 1..Len(requests) : k # r => requests'[k] = requests[k]
<1>1. requests \in Seq(Injected) /\ Len(requests) \in Nat /\ requests[r] \in Injected
  BY DEF SessionInv
<1> DEFINE new == [requests[r] EXCEPT !.end = x]
<1>2. new \in Injected /\ new.end = x /\ new.kind = requests[r].kind /\ new.body = requests[r].body
  BY <1>1 DEF Injected
<1>3. requests' = [requests EXCEPT ![r] = new]
  BY <1>1
<1> HIDE DEF new
<1>4. /\ requests' \in Seq(Injected) /\ Len(requests') = Len(requests) /\ requests'[r] = new
      /\ \A k \in 1..Len(requests) : k # r => requests'[k] = requests[k]
  BY <1>1, <1>2, <1>3
<1> QED
  BY <1>1, <1>2, <1>4 DEF Grows, SessionInv

\* Requests that stay as they are grow, too.
LEMMA SameGrows == SessionInv /\ requests' = requests => Grows
BY DEF SessionInv, Grows

\* The three ways in which the counts of AckInv move.
LEMMA Counting ==
    ASSUME NEW A, NEW F, NEW C, NEW A2, NEW F2, NEW C2,
           IsFiniteSet(A), IsFiniteSet(F), IsFiniteSet(C2),
           Cardinality(A) + Cardinality(F) <= Cardinality(C),
           \/ A2 \subseteq A /\ F2 \subseteq F /\ C \subseteq C2
           \/ \E r, n : A2 \subseteq A \cup {r} /\ n \in F /\ F2 \subseteq F \ {n} /\ C \subseteq C2
           \/ \E r, n : A2 \subseteq A /\ F2 \subseteq F \cup {n} /\ r \notin C /\ C \cup {r} \subseteq C2
    PROVE  Cardinality(A2) + Cardinality(F2) <= Cardinality(C2)
<1>1. /\ C \subseteq C2 /\ IsFiniteSet(C) /\ Cardinality(C) <= Cardinality(C2)
      /\ Cardinality(A) \in Nat /\ Cardinality(F) \in Nat /\ Cardinality(C) \in Nat /\ Cardinality(C2) \in Nat
  <2>1. C \subseteq C2
    OBVIOUS
  <2> QED
    BY <2>1, FS_Subset, FS_CardinalityType
<1>2. CASE A2 \subseteq A /\ F2 \subseteq F
  <2>1. Cardinality(A2) <= Cardinality(A) /\ Cardinality(F2) <= Cardinality(F)
        /\ Cardinality(A2) \in Nat /\ Cardinality(F2) \in Nat
    BY <1>2, FS_Subset, FS_CardinalityType
  <2> QED
    BY <1>1, <2>1
<1>3. ASSUME NEW r, NEW n, A2 \subseteq A \cup {r}, n \in F, F2 \subseteq F \ {n}
      PROVE  Cardinality(A2) + Cardinality(F2) <= Cardinality(C2)
  <2>1. IsFiniteSet(A \cup {r}) /\ Cardinality(A \cup {r}) <= Cardinality(A) + 1
    <3>1. IsFiniteSet(A \cup {r}) /\ (Cardinality(A \cup {r}) = Cardinality(A) \/ Cardinality(A \cup {r}) = Cardinality(A) + 1)
      BY FS_AddElement
    <3> QED
      BY <1>1, <3>1
  <2>2. IsFiniteSet(F \ {n}) /\ Cardinality(F \ {n}) = Cardinality(F) - 1
    BY <1>3, FS_RemoveElement
  <2>3. Cardinality(A2) <= Cardinality(A \cup {r}) /\ Cardinality(F2) <= Cardinality(F \ {n})
        /\ Cardinality(A2) \in Nat /\ Cardinality(F2) \in Nat /\ Cardinality(A \cup {r}) \in Nat
    BY <1>3, <2>1, <2>2, FS_Subset, FS_CardinalityType
  <2> QED
    BY <1>1, <2>1, <2>2, <2>3
<1>4. ASSUME NEW r, NEW n, A2 \subseteq A, F2 \subseteq F \cup {n}, r \notin C, C \cup {r} \subseteq C2
      PROVE  Cardinality(A2) + Cardinality(F2) <= Cardinality(C2)
  <2>1. IsFiniteSet(F \cup {n}) /\ Cardinality(F \cup {n}) <= Cardinality(F) + 1
    <3>1. IsFiniteSet(F \cup {n}) /\ (Cardinality(F \cup {n}) = Cardinality(F) \/ Cardinality(F \cup {n}) = Cardinality(F) + 1)
      BY FS_AddElement
    <3> QED
      BY <1>1, <3>1
  <2>2. Cardinality(C \cup {r}) = Cardinality(C) + 1 /\ Cardinality(C \cup {r}) <= Cardinality(C2)
    BY <1>1, <1>4, FS_AddElement, FS_Subset
  <2>3. Cardinality(A2) <= Cardinality(A) /\ Cardinality(F2) <= Cardinality(F \cup {n})
        /\ Cardinality(A2) \in Nat /\ Cardinality(F2) \in Nat /\ Cardinality(F \cup {n}) \in Nat
    BY <1>4, <2>1, FS_Subset, FS_CardinalityType
  <2> QED
    BY <1>1, <2>1, <2>2, <2>3
<1> QED
  BY <1>2, <1>3, <1>4

\* What a step may do to the counts of one kind and body.
Counts(kind, body) ==
    \/ /\ Acked(kind, body)' \subseteq Acked(kind, body) /\ Fresh(kind, body)' \subseteq Fresh(kind, body)
       /\ Carried(kind, body) \subseteq Carried(kind, body)'
    \/ \E r, n : /\ Acked(kind, body)' \subseteq Acked(kind, body) \cup {r}
                 /\ n \in Fresh(kind, body) /\ Fresh(kind, body)' \subseteq Fresh(kind, body) \ {n}
                 /\ Carried(kind, body) \subseteq Carried(kind, body)'
    \/ \E r, n : /\ Acked(kind, body)' \subseteq Acked(kind, body)
                 /\ Fresh(kind, body)' \subseteq Fresh(kind, body) \cup {n}
                 /\ r \notin Carried(kind, body) /\ Carried(kind, body) \cup {r} \subseteq Carried(kind, body)'

\* Steps that count in one of these ways keep AckInv.
LEMMA AckKept ==
    ASSUME SessionInv, OutboxInv', SessionInv', AckInv,
           \A kind \in {"message", "instructions"}, body \in Bodies : Counts(kind, body)
    PROVE  AckInv'
<1> SUFFICES ASSUME NEW kind \in {"message", "instructions"}, NEW body \in Bodies
             PROVE  Cardinality(Acked(kind, body)') + Cardinality(Fresh(kind, body)')
                       <= Cardinality(Carried(kind, body)')
  BY DEF AckInv
<1>1. Len(requests) \in Nat /\ Len(requests') \in Nat /\ events \in Nat /\ DOMAIN requests = 1..Len(requests)
  BY DEF SessionInv
<1>2. IsFiniteSet(1..Len(requests)) /\ IsFiniteSet(1..events) /\ IsFiniteSet(1..Len(requests'))
  BY <1>1, FS_Interval
<1>3. IsFiniteSet(Acked(kind, body)) /\ IsFiniteSet(Fresh(kind, body)) /\ IsFiniteSet(Carried(kind, body)')
  <2>1. Acked(kind, body) \subseteq 1..Len(requests) /\ Fresh(kind, body) \subseteq 1..events
    BY <1>1 DEF Acked, Fresh
  <2>2. Carried(kind, body)' \subseteq 1..Len(requests')
    BY DEF Carried, OutboxInv
  <2> QED
    BY <1>2, <2>1, <2>2, FS_Subset
<1>4. Cardinality(Acked(kind, body)) + Cardinality(Fresh(kind, body)) <= Cardinality(Carried(kind, body))
  BY DEF AckInv
<1>5. Counts(kind, body)
  OBVIOUS
<1> QED
  BY <1>3, <1>4, <1>5, Counting DEF Counts

\* No request counts as accepted that did not before.
NoNewAck ==
    \A r \in DOMAIN requests' :
       requests'[r].end = "acked" => r \in DOMAIN requests /\ requests[r].end = "acked"

\* A step without a new acknowledgement or answer.
LEMMA AckQuiet ==
    ASSUME SessionInv, OutboxInv, SessionInv', OutboxInv', AckInv, Grows, NoNewAck,
           applied \subseteq applied',
           \A kind \in {"message", "instructions"}, body \in Bodies :
              Fresh(kind, body)' \subseteq Fresh(kind, body)
    PROVE  AckInv'
<1> SUFFICES ASSUME NEW kind \in {"message", "instructions"}, NEW body \in Bodies
             PROVE  Counts(kind, body)
  BY AckKept
<1>1. DOMAIN requests = 1..Len(requests) /\ DOMAIN requests' = 1..Len(requests')
      /\ \A r \in 1..Len(requests) : requests'[r].kind = requests[r].kind /\ requests'[r].body = requests[r].body
  BY DEF SessionInv, Grows
<1>2. Acked(kind, body)' \subseteq Acked(kind, body)
  BY <1>1 DEF Acked, NoNewAck
<1>3. Carried(kind, body) \subseteq Carried(kind, body)'
  BY <1>1 DEF Carried, OutboxInv
<1> QED
  BY <1>2, <1>3 DEF Counts

\* A step that leaves the inbox alone.
LEMMA InboxStays ==
    ASSUME SessionInv, InboxInv, Grows, provider' = provider, inbox' = inbox, events' = events,
           seen' = seen, repeated' = repeated,
           \A e : GoodEvent(e) /\ Spent(e, adapter) => Spent(e, adapter')
    PROVE  /\ InboxInv'
           /\ \A kind \in {"message", "instructions"}, body \in Bodies :
                 Fresh(kind, body)' \subseteq Fresh(kind, body)
<1>1. \A e, a : Spent(e, a)' = Spent(e, a)
  BY DEF Spent
<1>2. ASSUME NEW k \in 1..Len(inbox)
      PROVE  /\ GoodEvent(inbox[k])' /\ inbox'[k].n \in 1..events'
             /\ inbox'[k].n \in seen' =>
                   /\ k = 1 /\ Spent(inbox'[k], adapter')
                   /\ inbox'[k].type \in Nameless' => repeated'
  <2>1. GoodEvent(inbox[k]) /\ inbox[k].n \in 1..events
        /\ (inbox[k].n \in seen => k = 1 /\ Spent(inbox[k], adapter)
               /\ (inbox[k].type \in Nameless => repeated))
    BY DEF InboxInv
  <2> DEFINE e == inbox[k]
  <2>2. PICK c : c = e
    OBVIOUS
  <2>3. GoodEvent(c) /\ GoodEvent(c)' /\ Nameless' = Nameless
    BY <2>1, <2>2, GrowsKeeps
  <2>4. GoodEvent(inbox[k])'
    BY <2>2, <2>3
  <2> QED
    BY <2>1, <2>2, <2>3, <2>4
<1>3. InboxInv'
  <2>1. \A k \in 1..Len(inbox) : Spent(inbox'[k], adapter') <=> Spent(inbox[k], adapter)'
    BY DEF Spent
  <2> QED
    BY <1>2, <2>1 DEF InboxInv
<1>4. \A kind \in {"message", "instructions"}, body \in Bodies : Fresh(kind, body)' \subseteq Fresh(kind, body)
  BY DEF Fresh, AnswerTo
<1> QED
  BY <1>3, <1>4

-----------------------------------------------------------------------------
(* One lemma per action. *)

\* A request is noted by the adapter before it is sent.
LEMMA InjectInv ==
    ASSUME IInv, NEW kind \in Kinds, NEW body \in Bodies, Inject(kind, body)
    PROVE  IInv'
<1> DEFINE r == Len(requests) + 1
           new == [kind |-> kind, body |-> body, end |-> "open"]
<1>0. Core /\ OnceInv /\ AckInv /\ SessionInv /\ OutboxInv /\ InboxInv /\ GoodAdapter(adapter)
      /\ ClosedTable(table)
  BY DEF IInv, Core
<1>1. /\ Active /\ holder = 0 /\ Len(requests) < MaxRequests
      /\ requests' = Append(requests, new) /\ holder' = r /\ written' = FALSE
      /\ adapter' = Kept(r, kind)
      /\ provider' = provider /\ failure' = failure /\ ready' = ready /\ completed' = completed
      /\ seen' = seen /\ reported' = reported /\ table' = table /\ outbox' = outbox /\ inbox' = inbox
      /\ events' = events /\ repeated' = repeated /\ applied' = applied /\ generation' = generation
  BY DEF Inject, wire
<1>2. new \in Injected /\ new.kind = kind /\ new.end = "open"
  BY DEF Injected
<1>3. requests \in Seq(Injected) /\ Len(requests) \in Nat /\ DOMAIN requests = 1..Len(requests)
  BY <1>0 DEF SessionInv
<1> HIDE DEF new
<1>4. requests' \in Seq(Injected) /\ Len(requests') = r /\ DOMAIN requests' = 1..r
      /\ requests'[r] = new /\ \A k \in 1..Len(requests) : requests'[k] = requests[k]
  BY <1>1, <1>2, <1>3
<1>5. Grows
  BY <1>1, <1>3, <1>4, BoundAssumption DEF Grows
<1>6. SessionInv'
  <2>1. Len(requests') <= MaxRequests /\ holder' \in 0..Len(requests')
    BY <1>1, <1>3, <1>4, BoundAssumption
  <2> QED
    BY <1>0, <1>1, <1>4, <2>1 DEF SessionInv, Active
<1>7. /\ adapter.pending \subseteq 1..Len(requests) /\ adapter' \in [pending : SUBSET (1..r),
           update : 0..r, response : 0..r, seenItems : SUBSET Items, seenEvents : SUBSET Nat]
      /\ adapter'.pending = adapter.pending \cup {r} /\ adapter'.seenEvents = adapter.seenEvents
      /\ adapter'.update = IF kind = "instructions" THEN r ELSE adapter.update
      /\ adapter'.response = IF kind = "response" THEN r ELSE adapter.response
      /\ adapter.update \in 0..Len(requests) /\ adapter.response \in 0..Len(requests)
  <2>1. adapter \in AdapterFields
    BY <1>0 DEF GoodAdapter
  <2>2. 1..Len(requests) \subseteq 1..r /\ r \in 1..r /\ r \in 0..r /\ 0..Len(requests) \subseteq 0..r
    BY <1>3
  <2> HIDE DEF r
  <2> QED
    BY <1>1, <2>1, <2>2 DEF AdapterFields, Kept
<1>8. GoodAdapter(adapter)'
  <2>1. adapter' \in AdapterFields'
    BY <1>4, <1>7 DEF AdapterFields
  <2>2. adapter'.update # 0 => requests'[adapter'.update].kind = "instructions"
    BY <1>0, <1>2, <1>3, <1>4, <1>7 DEF GoodAdapter
  <2>3. adapter'.response # 0 => requests'[adapter'.response].kind = "response"
    BY <1>0, <1>2, <1>3, <1>4, <1>7 DEF GoodAdapter
  <2> QED
    BY <2>1, <2>2, <2>3 DEF GoodAdapter
<1>9. OutboxInv'
  <2>1. \A k \in 1..Len(outbox) : outbox[k] \in Nat /\ outbox[k] <= Len(requests)
    BY <1>0, BoundAssumption DEF OutboxInv, Requests
  <2>2. r \notin applied /\ applied \subseteq 1..r
    BY <1>0, <1>3 DEF OutboxInv
  <2>3. \A k \in 1..Len(outbox) : outbox[k] <= r /\ outbox[k] # r
    BY <1>3, <2>1
  <2> HIDE DEF r
  <2> QED
    BY <1>0, <1>1, <1>4, <2>2, <2>3 DEF OutboxInv
<1>10. \A e : GoodEvent(e) /\ Spent(e, adapter) => Spent(e, adapter')
  <2> SUFFICES ASSUME NEW e, GoodEvent(e), Spent(e, adapter) PROVE Spent(e, adapter')
    OBVIOUS
  <2>1. e.id # r
    <3>1. r \in Requests
      BY <1>1, <1>3, BoundAssumption DEF Requests
    <3> QED
      BY <1>3, <3>1 DEF GoodEvent
  <2> QED
    BY <1>7, <2>1 DEF Spent
<1>11. InboxInv' /\ \A k \in {"message", "instructions"}, b \in Bodies : Fresh(k, b)' \subseteq Fresh(k, b)
  BY <1>0, <1>1, <1>5, <1>10, InboxStays
<1>12. NoNewAck
  BY <1>2, <1>3, <1>4 DEF NoNewAck
<1>13. AckInv'
  BY <1>0, <1>1, <1>5, <1>6, <1>9, <1>11, <1>12, AckQuiet
<1>14. OnceInv' /\ ClosedTable(table)'
  BY <1>0, <1>1 DEF OnceInv
<1>15. WaiterIsKnown'
  BY <1>1, <1>7 DEF WaiterIsKnown, IsPending
<1> QED
  BY <1>6, <1>8, <1>9, <1>11, <1>13, <1>14, <1>15 DEF IInv, Core

\* What the lemmas below use of the invariant.
LEMMA IInvParts ==
    ASSUME IInv
    PROVE  /\ Core /\ OnceInv /\ AckInv /\ SessionInv /\ OutboxInv /\ InboxInv
           /\ GoodAdapter(adapter) /\ ClosedTable(table) /\ WaiterIsKnown
           /\ requests \in Seq(Injected) /\ Len(requests) \in Nat /\ DOMAIN requests = 1..Len(requests)
           /\ holder \in 0..Len(requests) /\ outbox \in Seq(Requests) /\ Len(outbox) \in Nat
           /\ inbox \in Seq(EventFields) /\ Len(inbox) \in Nat /\ events \in Nat
<1>1. /\ Core /\ OnceInv /\ AckInv /\ SessionInv /\ OutboxInv /\ InboxInv
      /\ GoodAdapter(adapter) /\ ClosedTable(table) /\ WaiterIsKnown
  BY Zenon DEF IInv, Core
<1>2. requests \in Seq(Injected) /\ holder \in 0..Len(requests) /\ events \in Nat
  BY <1>1, Zenon DEF SessionInv
<1>3. outbox \in Seq(Requests) /\ inbox \in Seq(EventFields)
  BY <1>1, Zenon DEF OutboxInv, InboxInv
<1>4. Len(requests) \in Nat /\ DOMAIN requests = 1..Len(requests)
  BY <1>2
<1>5. Len(outbox) \in Nat /\ Len(inbox) \in Nat
  BY <1>3
<1> QED
  BY <1>1, <1>2, <1>3, <1>4, <1>5

\* The request is written once; a wait already over ends with the write.
LEMMA SendInv ==
    ASSUME IInv, Send
    PROVE  IInv'
<1>1. /\ Active /\ holder # 0 /\ ~written /\ outbox' = Append(outbox, holder) /\ requests' = requests
      /\ provider' = provider /\ failure' = failure /\ ready' = ready /\ completed' = completed
      /\ seen' = seen /\ reported' = reported /\ table' = table /\ adapter' = adapter /\ inbox' = inbox
      /\ events' = events /\ repeated' = repeated /\ applied' = applied /\ generation' = generation
      /\ \/ holder' = 0 /\ written' = FALSE
         \/ holder' = holder /\ written' = TRUE
  BY DEF Send, Return, Release
<1>2. Grows
  BY <1>1, IInvParts, SameGrows
<1>3. SessionInv'
  <2>1. written' \in BOOLEAN
    BY <1>1
  <2>2. holder' \in 0..Len(requests') /\ (~Active' => holder' = 0)
    BY <1>1, IInvParts DEF Active
  <2> QED
    BY <1>1, <2>1, <2>2, IInvParts DEF SessionInv
<1>4. GoodAdapter(adapter)' /\ ClosedTable(table)' /\ OnceInv'
  BY <1>1, IInvParts DEF OnceInv, GoodAdapter, AdapterFields
<1>5. OutboxInv'
  <2>1. holder \in Requests /\ holder <= Len(requests) /\ holder \notin applied
        /\ \A k \in 1..Len(outbox) : outbox[k] # holder
    BY <1>1, IInvParts, BoundAssumption DEF OutboxInv, SessionInv, Requests
  <2>2. outbox' \in Seq(Requests) /\ Len(outbox') = Len(outbox) + 1 /\ outbox'[Len(outbox) + 1] = holder
        /\ \A k \in 1..Len(outbox) : outbox'[k] = outbox[k]
    BY <1>1, <2>1, IInvParts
  <2>3. \A k \in 1..Len(outbox') : k \in 1..Len(outbox) \/ k = Len(outbox) + 1
    BY <2>2, IInvParts
  <2>4. \A k \in 1..Len(outbox') : outbox'[k] <= Len(requests') /\ outbox'[k] \notin applied'
    BY <1>1, <2>1, <2>2, <2>3, IInvParts DEF OutboxInv
  <2>5. \A j, k \in 1..Len(outbox') : outbox'[j] = outbox'[k] => j = k
    BY <2>1, <2>2, <2>3, IInvParts DEF OutboxInv
  <2> QED
    BY <1>1, <2>2, <2>4, <2>5, IInvParts DEF OutboxInv
<1>6. InboxInv' /\ \A k \in {"message", "instructions"}, b \in Bodies : Fresh(k, b)' \subseteq Fresh(k, b)
  BY <1>1, <1>2, IInvParts, InboxStays
<1>7. AckInv'
  BY <1>1, <1>2, <1>3, <1>5, <1>6, IInvParts, AckQuiet DEF NoNewAck
<1>8. WaiterIsKnown'
  BY <1>1, IInvParts DEF WaiterIsKnown, IsPending, Active
<1> QED
  BY <1>3, <1>4, <1>5, <1>6, <1>7, <1>8 DEF IInv, Core

\* The session forgets the request of a cancelled caller, the adapter does not.
LEMMA CallerCancelledInv ==
    ASSUME IInv, CallerCancelled
    PROVE  IInv'
<1>1. /\ holder # 0 /\ requests[holder].end = "open" /\ holder' = 0 /\ written' = FALSE
      /\ requests' = [requests EXCEPT ![holder].end = "cancelled"]
      /\ provider' = provider /\ failure' = failure /\ ready' = ready /\ completed' = completed
      /\ seen' = seen /\ reported' = reported /\ table' = table /\ adapter' = adapter /\ inbox' = inbox
      /\ events' = events /\ repeated' = repeated /\ applied' = applied /\ generation' = generation
      /\ outbox' = outbox
  BY DEF CallerCancelled, Release, wire
<1>2. Grows /\ Len(requests') = Len(requests) /\ requests'[holder].end = "cancelled"
      /\ \A k \in 1..Len(requests) : k # holder => requests'[k] = requests[k]
  <2>1. holder \in 1..Len(requests)
    BY <1>1, IInvParts
  <2> QED
    BY <1>1, <2>1, IInvParts, EndSet
<1>3. SessionInv'
  <2>1. written' \in BOOLEAN
    BY <1>1
  <2>2. holder' \in 0..Len(requests') /\ (~Active' => holder' = 0)
    BY <1>1, <1>2, IInvParts DEF Active
  <2> QED
    BY <1>1, <1>2, <2>1, <2>2, IInvParts DEF SessionInv, Grows
<1>4. ClosedTable(table)' /\ OnceInv'
  BY <1>1, IInvParts DEF OnceInv
<1>5. GoodAdapter(adapter)'
  <2>1. PICK a : a = adapter
    OBVIOUS
  <2>2. GoodAdapter(a)'
    BY <1>1, <1>2, <2>1, IInvParts, GrowsKeeps
  <2> QED
    BY <1>1, <2>1, <2>2
<1>6. OutboxInv'
  BY <1>1, <1>2, IInvParts DEF OutboxInv
<1>7. InboxInv' /\ \A k \in {"message", "instructions"}, b \in Bodies : Fresh(k, b)' \subseteq Fresh(k, b)
  BY <1>1, <1>2, IInvParts, InboxStays
<1>8. AckInv'
  <2>1. DOMAIN requests' = 1..Len(requests)
    BY <1>2 DEF Grows
  <2>2. NoNewAck
    BY <1>2, <2>1, IInvParts DEF NoNewAck
  <2> QED
    BY <1>1, <1>2, <1>3, <1>6, <1>7, <2>2, IInvParts, AckQuiet
<1>9. WaiterIsKnown'
  BY <1>1 DEF WaiterIsKnown
<1> QED
  BY <1>3, <1>4, <1>5, <1>6, <1>7, <1>8, <1>9 DEF IInv, Core

\* _fail leaves no request waiting, nothing on the wire and a new adapter.
LEMMA FailInv ==
    ASSUME IInv, NEW code \in Codes, Fail(code), provider' = provider, completed' = completed,
           reported' = reported, events' \in Nat, repeated' \in BOOLEAN, applied' = applied,
           generation' = generation, ClosedTable(table')
    PROVE  IInv'
<1>1. /\ failure' = code /\ ready' = FALSE /\ holder' = 0 /\ written' = FALSE
      /\ adapter' = NewAdapter /\ seen' = {} /\ outbox' = <<>> /\ inbox' = <<>>
  BY DEF Fail, Release
<1>2. Grows /\ Len(requests') = Len(requests) /\ NoNewAck
  <2>1. CASE holder # 0 /\ requests[holder].end = "open"
    <3>1. requests' = [requests EXCEPT ![holder].end = "failed"] /\ holder \in 1..Len(requests)
      BY <2>1, IInvParts DEF Fail
    <3>2. Grows /\ Len(requests') = Len(requests) /\ requests'[holder].end = "failed"
          /\ \A k \in 1..Len(requests) : k # holder => requests'[k] = requests[k]
      BY <3>1, IInvParts, EndSet
    <3>3. DOMAIN requests' = 1..Len(requests)
      BY <3>2 DEF Grows
    <3> QED
      BY <3>2, <3>3, IInvParts DEF NoNewAck
  <2>2. CASE ~(holder # 0 /\ requests[holder].end = "open")
    <3>1. requests' = requests
      BY <2>2 DEF Fail
    <3> QED
      BY <3>1, IInvParts, SameGrows DEF NoNewAck
  <2> QED
    BY <2>1, <2>2
<1>3. SessionInv'
  <2>1. written' \in BOOLEAN /\ ready' \in BOOLEAN
    BY <1>1
  <2>2. holder' \in 0..Len(requests') /\ (~Active' => holder' = 0) /\ failure' \in Codes \cup {"none"}
        /\ seen' \subseteq 1..events'
    BY <1>1, <1>2, IInvParts
  <2> QED
    BY <1>2, <2>1, <2>2, IInvParts DEF SessionInv, Grows
<1>4. GoodAdapter(adapter)'
  <2>1. Len(requests') \in Nat /\ 0 \in 0..Len(requests')
    BY <1>2, IInvParts
  <2>2. NewAdapter \in AdapterFields' /\ NewAdapter.update = 0 /\ NewAdapter.response = 0
    BY <2>1 DEF NewAdapter, AdapterFields
  <2> QED
    BY <1>1, <2>2 DEF GoodAdapter
<1>5. OutboxInv'
  <2>1. outbox' \in Seq(Requests) /\ Len(outbox') = 0 /\ applied' \subseteq 1..Len(requests')
    BY <1>1, <1>2, IInvParts DEF OutboxInv
  <2> QED
    BY <1>1, <2>1 DEF OutboxInv
<1>6. InboxInv'
  <2>1. inbox' \in Seq(EventFields) /\ Len(inbox') = 0
    BY <1>1
  <2>2. \A k \in 1..Len(inbox') : FALSE
    BY <2>1
  <2> QED
    BY <2>1, <2>2 DEF InboxInv
<1>7. \A k \in {"message", "instructions"}, b \in Bodies : Fresh(k, b)' \subseteq Fresh(k, b)
  <2>1. Len(inbox') = 0
    BY <1>1
  <2> QED
    BY <2>1 DEF Fresh
<1>8. AckInv'
  BY <1>2, <1>3, <1>5, <1>7, IInvParts, AckQuiet
<1>9. OnceInv' /\ ClosedTable(table)' /\ WaiterIsKnown'
  BY <1>1, IInvParts DEF OnceInv, WaiterIsKnown
<1> QED
  BY <1>3, <1>4, <1>5, <1>6, <1>8, <1>9 DEF IInv, Core

\* A timeout, a failed write, a lost connection.
LEMMA SessionEndsInv ==
    ASSUME IInv, NEW code \in {"TIMEOUT", "UNAVAILABLE"}, SessionEnds(code)
    PROVE  IInv'
<1>1. /\ Fail(code) /\ provider' = provider /\ completed' = completed /\ reported' = reported
      /\ table' = table /\ events' = events /\ repeated' = repeated /\ applied' = applied
      /\ generation' = generation
  BY DEF SessionEnds
<1>2. code \in Codes
  BY DEF Codes
<1>3. events' \in Nat /\ repeated' \in BOOLEAN /\ ClosedTable(table')
  BY <1>1, IInvParts DEF SessionInv
<1> QED
  BY <1>1, <1>2, <1>3, FailInv

\* A new generation keeps the confirmed user items.
LEMMA ReopenInv ==
    ASSUME IInv, Reopen
    PROVE  IInv'
<1>1. /\ ~Active /\ generation' = generation + 1 /\ failure' = "none" /\ table' = BeginGeneration(table)
      /\ provider' = provider /\ ready' = ready /\ completed' = completed /\ requests' = requests
      /\ holder' = holder /\ written' = written /\ seen' = seen /\ reported' = reported
      /\ adapter' = adapter /\ outbox' = outbox /\ inbox' = inbox /\ events' = events
      /\ repeated' = repeated /\ applied' = applied
  BY DEF Reopen, wire
<1>2. Grows /\ NoNewAck
  BY <1>1, IInvParts, SameGrows DEF NoNewAck
<1>3. SessionInv'
  BY <1>1, IInvParts DEF SessionInv
<1>4. ClosedTable(table)' /\ OnceInv'
  BY <1>1, IInvParts, BeginGenerationKeeps DEF OnceInv
<1>5. GoodAdapter(adapter)' /\ OutboxInv'
  BY <1>1, IInvParts DEF OutboxInv, GoodAdapter, AdapterFields
<1>6. InboxInv' /\ \A k \in {"message", "instructions"}, b \in Bodies : Fresh(k, b)' \subseteq Fresh(k, b)
  BY <1>1, <1>2, IInvParts, InboxStays
<1>7. AckInv'
  BY <1>1, <1>2, <1>3, <1>5, <1>6, IInvParts, AckQuiet
<1>8. WaiterIsKnown'
  BY <1>1, IInvParts DEF WaiterIsKnown, SessionInv
<1> QED
  BY <1>3, <1>4, <1>5, <1>6, <1>7, <1>8 DEF IInv, Core

-----------------------------------------------------------------------------
(* The provider. *)

Numbered(e, n) == [e EXCEPT !.n = n]

\* The number of an event is all that numbering changes.
LEMMA NumberedEvent ==
    ASSUME NEW e, GoodEvent(e), NEW n \in Nat
    PROVE  /\ GoodEvent(Numbered(e, n)) /\ Numbered(e, n).n = n /\ Numbered(e, n).type = e.type
           /\ \A kind, body : AnswerTo(Numbered(e, n), kind, body) <=> AnswerTo(e, kind, body)
<1> DEFINE x == Numbered(e, n)
<1>1. /\ x \in EventFields /\ x.n = n /\ x.type = e.type /\ x.id = e.id /\ x.body = e.body
      /\ x.audio = e.audio
  BY DEF GoodEvent, EventFields, Numbered
<1> HIDE DEF x
<1>2. GoodEvent(x) /\ \A kind, body : AnswerTo(x, kind, body) <=> AnswerTo(e, kind, body)
  BY <1>1 DEF GoodEvent, AnswerTo
<1> QED
  BY <1>1, <1>2 DEF x

\* An event joins the end of the inbox under a new number.
LEMMA EmitsKeeps ==
    ASSUME IInv, NEW e, GoodEvent(e), Emits(e), provider' = provider, requests' = requests,
           seen' = seen, adapter' = adapter, repeated' = repeated
    PROVE  /\ InboxInv' /\ events' = events + 1
           /\ \A kind \in {"message", "instructions"}, body \in Bodies :
                 /\ Fresh(kind, body)' \subseteq Fresh(kind, body) \cup {events + 1}
                 /\ ~AnswerTo(e, kind, body) => Fresh(kind, body)' \subseteq Fresh(kind, body)
<1> DEFINE x == Numbered(e, events + 1)
<1>1. inbox' = Append(inbox, x) /\ events' = events + 1 /\ events + 1 \in Nat
  BY IInvParts DEF Emits, Numbered
<1>2. GoodEvent(x) /\ x.n = events + 1
      /\ \A kind, body : AnswerTo(x, kind, body) <=> AnswerTo(e, kind, body)
  BY <1>1, NumberedEvent
<1> HIDE DEF x
<1>3. x \in EventFields
  BY <1>2 DEF GoodEvent
<1>4. inbox' \in Seq(EventFields) /\ Len(inbox') = Len(inbox) + 1 /\ inbox'[Len(inbox) + 1] = x
      /\ \A k \in 1..Len(inbox) : inbox'[k] = inbox[k]
  BY <1>1, <1>3, IInvParts
<1>5. \A k \in 1..Len(inbox') : k \in 1..Len(inbox) \/ k = Len(inbox) + 1
  BY <1>4, IInvParts
<1>6. \A c : GoodEvent(c)' <=> GoodEvent(c)
  BY DEF GoodEvent
<1>7. \A c, a : Spent(c, a)' <=> Spent(c, a)
  BY DEF Spent
<1>8. Nameless' = Nameless /\ seen \subseteq 1..events /\ events + 1 \notin seen
  BY IInvParts DEF Nameless, SessionInv
<1>9. InboxInv'
  <2>1. ASSUME NEW k \in 1..Len(inbox')
        PROVE  /\ GoodEvent(inbox'[k]) /\ inbox'[k].n \in 1..events'
               /\ inbox'[k].n \in seen' =>
                    /\ k = 1 /\ Spent(inbox'[k], adapter')
                    /\ inbox'[k].type \in Nameless' => repeated'
    <3>1. CASE k \in 1..Len(inbox)
      <4>1. 1..events \subseteq 1..events'
        BY <1>1, IInvParts
      <4> QED
        BY <1>4, <1>8, <3>1, <4>1, IInvParts DEF InboxInv
    <3>2. CASE k = Len(inbox) + 1
      <4>1. events + 1 \in 1..events'
        BY <1>1, IInvParts
      <4> QED
        BY <1>2, <1>4, <1>8, <3>2, <4>1
    <3> QED
      BY <1>5, <3>1, <3>2
  <2>2. \A k \in 1..Len(inbox') : (GoodEvent(inbox[k]))' /\ (Spent(inbox'[k], adapter') <=> (Spent(inbox[k], adapter))')
    BY <2>1 DEF GoodEvent, Spent
  <2>3. \A j, k \in 1..Len(inbox') : j < k => inbox'[j].n < inbox'[k].n
    <3> SUFFICES ASSUME NEW j \in 1..Len(inbox'), NEW k \in 1..Len(inbox'), j < k
                 PROVE  inbox'[j].n < inbox'[k].n
      OBVIOUS
    <3>1. j \in 1..Len(inbox)
      BY <1>4, IInvParts
    <3>2. inbox[j].n \in 1..events /\ inbox'[j] = inbox[j]
      BY <1>4, <3>1, IInvParts DEF InboxInv
    <3>3. CASE k \in 1..Len(inbox)
      BY <1>4, <3>1, <3>3, IInvParts DEF InboxInv
    <3>4. CASE k = Len(inbox) + 1
      BY <1>2, <1>4, <3>2, <3>4, IInvParts
    <3> QED
      BY <1>5, <3>3, <3>4
  <2> QED
    BY <1>4, <2>1, <2>2, <2>3 DEF InboxInv
<1>10. ASSUME NEW kind \in {"message", "instructions"}, NEW body \in Bodies, NEW n \in Fresh(kind, body)'
       PROVE  n \in Fresh(kind, body) \/ (n = events + 1 /\ AnswerTo(e, kind, body))
  <2>1. PICK k \in 1..Len(inbox') : inbox'[k].n = n /\ AnswerTo(inbox'[k], kind, body)
    BY DEF Fresh, AnswerTo
  <2>2. n \notin seen
    BY DEF Fresh
  <2>3. CASE k \in 1..Len(inbox)
    <3>1. inbox[k].n = n /\ AnswerTo(inbox[k], kind, body) /\ n \in 1..events
      BY <1>4, <2>1, <2>3, IInvParts DEF InboxInv
    <3> QED
      BY <2>2, <2>3, <3>1 DEF Fresh
  <2>4. CASE k = Len(inbox) + 1
    BY <1>2, <1>4, <2>1, <2>4
  <2> QED
    BY <1>5, <2>3, <2>4
<1> QED
  BY <1>1, <1>9, <1>10

\* The request that leaves the outbox has not been carried out, and no other of it is there.
LEMMA OutboxHead ==
    ASSUME IInv, outbox # <<>>, outbox' = Tail(outbox), requests' = requests, holder' = holder,
           written' = written, applied' = applied \/ applied' = applied \cup {Head(outbox)}
    PROVE  /\ Head(outbox) \in 1..Len(requests) /\ Head(outbox) \notin applied /\ Head(outbox) = outbox[1]
           /\ OutboxInv'
<1>1. Len(outbox) > 0 /\ Head(outbox) = outbox[1] /\ 1 \in 1..Len(outbox)
  BY IInvParts
<1>2. outbox[1] \in Requests /\ outbox[1] <= Len(requests) /\ outbox[1] \notin applied
  BY <1>1, IInvParts DEF OutboxInv
<1>3. outbox[1] \in 1..Len(requests)
  BY <1>2, BoundAssumption, IInvParts DEF Requests
<1>4. outbox' \in Seq(Requests) /\ Len(outbox') = Len(outbox) - 1
      /\ \A k \in 1..Len(outbox') : outbox'[k] = outbox[k + 1] /\ k + 1 \in 1..Len(outbox)
  BY <1>1, IInvParts
<1>5. applied' \subseteq 1..Len(requests)
  BY <1>1, <1>3, IInvParts DEF OutboxInv
<1>6. \A k \in 1..Len(outbox') : outbox'[k] # outbox[1]
  <2> SUFFICES ASSUME NEW k \in 1..Len(outbox') PROVE outbox'[k] # outbox[1]
    OBVIOUS
  <2>1. k + 1 # 1 /\ k + 1 \in 1..Len(outbox) /\ outbox'[k] = outbox[k + 1]
    BY <1>1, <1>4, IInvParts
  <2> QED
    BY <1>1, <2>1, IInvParts DEF OutboxInv
<1>7. \A k \in 1..Len(outbox') : outbox'[k] <= Len(requests) /\ outbox'[k] \notin applied'
  BY <1>1, <1>4, <1>6, IInvParts DEF OutboxInv
<1>8. \A j, k \in 1..Len(outbox') : outbox'[j] = outbox'[k] => j = k
  <2> SUFFICES ASSUME NEW j \in 1..Len(outbox'), NEW k \in 1..Len(outbox'), outbox'[j] = outbox'[k]
               PROVE  j = k
    OBVIOUS
  <2>1. j + 1 = k + 1
    BY <1>4, IInvParts DEF OutboxInv
  <2> QED
    BY <2>1
<1>9. holder # 0 /\ ~written => holder \notin applied' /\ \A k \in 1..Len(outbox') : outbox'[k] # holder
  BY <1>1, <1>4, IInvParts DEF OutboxInv
<1>10. OutboxInv'
  BY <1>4, <1>5, <1>7, <1>8, <1>9 DEF OutboxInv
<1> QED
  BY <1>1, <1>2, <1>3, <1>10

\* What the provider does to the parts of the invariant that are the session's.
LEMMA ProviderKeeps ==
    ASSUME IInv, UNCHANGED <<provider, session, adapter, table, repeated, generation>>,
           events' = events + 1
    PROVE  /\ SessionInv' /\ GoodAdapter(adapter)' /\ ClosedTable(table)' /\ OnceInv' /\ WaiterIsKnown'
           /\ Grows /\ NoNewAck /\ requests' = requests /\ seen' = seen /\ holder' = holder
           /\ written' = written
<1>1. /\ provider' = provider /\ failure' = failure /\ ready' = ready /\ completed' = completed
      /\ requests' = requests /\ holder' = holder /\ written' = written /\ seen' = seen
      /\ reported' = reported /\ adapter' = adapter /\ table' = table /\ repeated' = repeated
      /\ generation' = generation
  BY DEF session
<1>2. events' \in Nat /\ 1..events \subseteq 1..events'
  BY IInvParts
<1>3. SessionInv'
  BY <1>1, <1>2, IInvParts DEF SessionInv, Active
<1>4. GoodAdapter(adapter)' /\ ClosedTable(table)' /\ OnceInv' /\ WaiterIsKnown'
  BY <1>1, IInvParts DEF GoodAdapter, AdapterFields, OnceInv, WaiterIsKnown, Active, IsPending
<1> QED
  BY <1>1, <1>3, <1>4, IInvParts, SameGrows DEF NoNewAck

\* The answer to a request that is carried out.
LEMMA AnswerForm ==
    ASSUME IInv, NEW r \in 1..Len(requests), NEW e \in Answers(r)
    PROVE  /\ GoodEvent(e)
           /\ \A kind \in {"message", "instructions"}, body \in Bodies :
                 AnswerTo(e, kind, body) => requests[r].kind = kind /\ requests[r].body = body
<1>1. requests[r].kind \in Kinds /\ requests[r].body \in Bodies
  <2>1. requests[r] \in Injected
    BY IInvParts
  <2> QED
    BY <2>1 DEF Injected
<1>2. Bodies \subseteq Roles /\ Bodies \subseteq Roles \cup {"none", "initial"}
  BY DEF Bodies, Roles
<1>3. r \in Items /\ ServerId(r) \in Items /\ ServerId(r) \notin Requests /\ 0 \notin Requests
  BY IInvParts, BoundAssumption, SMTT(30) DEF SessionInv, Items, ServerId, Requests
<1>4. CASE requests[r].kind = "message"
  <2>1. PICK id \in {r, ServerId(r)} : e = Event("item.created", id, requests[r].body)
    BY <1>4 DEF Answers
  <2>2. e \in EventFields /\ e.type = "item.created" /\ e.id = id /\ e.body = requests[r].body /\ e.audio = FALSE
    BY <1>1, <1>2, <1>3, <2>1 DEF ProviderTypes, Event, EventFields
  <2>3. GoodEvent(e)
    BY <1>1, <1>2, <1>3, <2>2 DEF GoodEvent
  <2> QED
    BY <1>4, <2>2, <2>3 DEF AnswerTo
<1>5. CASE requests[r].kind = "instructions"
  <2>1. e = Event("session.updated", 0, requests[r].body)
    BY <1>5 DEF Answers
  <2>2. e \in EventFields /\ e.type = "session.updated" /\ e.id = 0 /\ e.body = requests[r].body /\ e.audio = FALSE
    BY <1>1, <1>2, <2>1 DEF ProviderTypes, Event, EventFields
  <2>3. GoodEvent(e)
    BY <1>3, <2>2 DEF GoodEvent
  <2> QED
    BY <1>5, <2>2, <2>3 DEF AnswerTo
<1>6. CASE requests[r].kind = "response"
  <2>1. e = Event("response.created", 0, "none")
    BY <1>6 DEF Answers
  <2>2. e \in EventFields /\ e.type = "response.created" /\ e.id = 0 /\ e.audio = FALSE
    BY <2>1 DEF ProviderTypes, Event, EventFields
  <2>3. GoodEvent(e)
    BY <1>3, <2>2 DEF GoodEvent
  <2> QED
    BY <2>2, <2>3 DEF AnswerTo
<1> QED
  BY <1>1, <1>4, <1>5, <1>6 DEF Kinds

\* A request is carried out, which its answer shows.
LEMMA CarryInv ==
    ASSUME IInv, Carry
    PROVE  IInv'
<1>1. PICK e \in Answers(Head(outbox)) : Emits(e)
  BY DEF Carry
<1>2. /\ outbox # <<>> /\ outbox' = Tail(outbox) /\ applied' = applied \cup {Head(outbox)}
      /\ UNCHANGED <<provider, session, adapter, table, repeated, generation>>
      /\ provider' = provider /\ adapter' = adapter /\ repeated' = repeated
  BY DEF Carry
<1>3. events' = events + 1
  BY <1>1 DEF Emits
<1>4. /\ SessionInv' /\ GoodAdapter(adapter)' /\ ClosedTable(table)' /\ OnceInv' /\ WaiterIsKnown'
      /\ Grows /\ NoNewAck /\ requests' = requests /\ seen' = seen /\ holder' = holder
      /\ written' = written
  BY <1>2, <1>3, ProviderKeeps
<1> DEFINE r == Head(outbox)
<1>5. r \in 1..Len(requests) /\ r \notin applied /\ OutboxInv'
  BY <1>2, <1>4, OutboxHead
<1>6. GoodEvent(e) /\ \A kind \in {"message", "instructions"}, body \in Bodies :
                         AnswerTo(e, kind, body) => requests[r].kind = kind /\ requests[r].body = body
  BY <1>5, AnswerForm
<1>7. /\ InboxInv'
      /\ \A kind \in {"message", "instructions"}, body \in Bodies :
            /\ Fresh(kind, body)' \subseteq Fresh(kind, body) \cup {events + 1}
            /\ ~AnswerTo(e, kind, body) => Fresh(kind, body)' \subseteq Fresh(kind, body)
  BY <1>1, <1>2, <1>4, <1>6, EmitsKeeps
<1> HIDE DEF r
<1>8. ASSUME NEW kind \in {"message", "instructions"}, NEW body \in Bodies
      PROVE  Counts(kind, body)
  <2>1. Acked(kind, body)' \subseteq Acked(kind, body)
    BY <1>4 DEF Acked
  <2>2. Carried(kind, body) \subseteq Carried(kind, body)' /\ r \notin Carried(kind, body)
    BY <1>2, <1>4, <1>5 DEF Carried
  <2>3. CASE AnswerTo(e, kind, body)
    <3>1. r \in Carried(kind, body)'
      BY <1>2, <1>4, <1>6, <2>3 DEF Carried, r
    <3> QED
      BY <1>7, <2>1, <2>2, <3>1 DEF Counts
  <2>4. CASE ~AnswerTo(e, kind, body)
    BY <1>7, <2>1, <2>2, <2>4 DEF Counts
  <2> QED
    BY <2>3, <2>4
<1>9. AckInv'
  BY <1>4, <1>5, <1>8, IInvParts, AckKept
<1> QED
  BY <1>4, <1>5, <1>7, <1>9 DEF IInv, Core

\* A request is refused, by name or not.
LEMMA RefuseInv ==
    ASSUME IInv, NEW named \in BOOLEAN, Refuse(named)
    PROVE  IInv'
<1> DEFINE b == Event("error", IF named THEN Head(outbox) ELSE 0, "none")
           e == [b EXCEPT !.code = "invalid"]
<1>1. /\ outbox # <<>> /\ outbox' = Tail(outbox) /\ applied' = applied /\ Emits(e)
      /\ UNCHANGED <<provider, session, adapter, table, repeated, generation>>
      /\ provider' = provider /\ adapter' = adapter /\ repeated' = repeated
  BY DEF Refuse
<1>2. events' = events + 1
  BY <1>1 DEF Emits
<1>3. /\ SessionInv' /\ GoodAdapter(adapter)' /\ ClosedTable(table)' /\ OnceInv' /\ WaiterIsKnown'
      /\ Grows /\ NoNewAck /\ requests' = requests /\ seen' = seen /\ holder' = holder
      /\ written' = written
  BY <1>1, <1>2, ProviderKeeps
<1>4. Head(outbox) \in 1..Len(requests) /\ OutboxInv'
  BY <1>1, <1>3, OutboxHead
<1>5. Head(outbox) \in Items /\ 0 \notin Requests
  BY <1>4, IInvParts, BoundAssumption, SMTT(30) DEF SessionInv, Items, Requests
<1>6. b \in EventFields /\ b.type = "error" /\ b.id \in {Head(outbox), 0} /\ b.audio = FALSE /\ b.body = "none"
  BY <1>5 DEF ProviderTypes, Event, EventFields
<1> HIDE DEF b
<1>7. e \in EventFields /\ e.type = "error" /\ e.id \in {Head(outbox), 0} /\ e.audio = FALSE /\ e.body = "none"
  BY <1>6 DEF EventFields
<1> HIDE DEF e
<1>8. GoodEvent(e)
  BY <1>4, <1>5, <1>7, IInvParts DEF GoodEvent
<1>9. \A kind \in {"message", "instructions"}, body \in Bodies : ~AnswerTo(e, kind, body)
  BY <1>7 DEF AnswerTo
<1>10. /\ InboxInv'
       /\ \A kind \in {"message", "instructions"}, body \in Bodies :
             Fresh(kind, body)' \subseteq Fresh(kind, body)
  BY <1>1, <1>3, <1>8, <1>9, EmitsKeeps
<1>11. AckInv'
  BY <1>1, <1>3, <1>4, <1>10, IInvParts, AckQuiet
<1> QED
  BY <1>3, <1>4, <1>10, <1>11 DEF IInv, Core

-----------------------------------------------------------------------------
(* _receive_loop and _apply. *)

\* What applying an event may do to the requests, of which it answers or rejects at most
\* one: only the one that waits ends.
Settled(request, rejected) ==
    /\ Grows /\ Len(requests') = Len(requests)
    /\ holder' \in {0, holder} /\ written' \in BOOLEAN /\ (holder' # 0 /\ ~written' => ~written)
    /\ \A k \in 1..Len(requests) :
          /\ requests'[k].end = "acked" => requests[k].end = "acked" \/ (k = holder /\ k = request)
          /\ requests'[k].end = "open" => requests[k].end = "open"
    /\ holder # 0 /\ holder \in {request, rejected} => requests'[holder].end # "open"

\* Nothing happens to the requests.
LEMMA NoneSettled ==
    ASSUME IInv, requests' = requests, holder' = holder, written' = written, NEW request, NEW rejected,
           holder # 0 => holder \notin {request, rejected}
    PROVE  Settled(request, rejected)
<1>1. Grows /\ written \in BOOLEAN
  BY IInvParts, SameGrows DEF SessionInv
<1> QED
  BY <1>1 DEF Settled

\* The request that waits ends.
LEMMA OneSettled ==
    ASSUME IInv, holder # 0, NEW end \in {"acked", "rejected"}, Resolve(holder, end),
           NEW request, NEW rejected, end = "acked" => request = holder
    PROVE  Settled(request, rejected)
<1>1. holder \in 1..Len(requests) /\ written \in BOOLEAN
  BY IInvParts DEF SessionInv
<1>2. /\ Grows /\ Len(requests') = Len(requests) /\ requests'[holder].end # "open"
      /\ \A k \in 1..Len(requests) : k # holder => requests'[k] = requests[k]
      /\ requests'[holder].end = "acked" => requests[holder].end = "acked" \/ end = "acked"
  <2>1. CASE requests[holder].end = "open"
    <3>1. requests' = [requests EXCEPT ![holder].end = end]
      BY <2>1 DEF Resolve
    <3>2. Grows /\ Len(requests') = Len(requests) /\ requests'[holder].end = end
          /\ \A k \in 1..Len(requests) : k # holder => requests'[k] = requests[k]
      BY <1>1, <3>1, EndSet, IInvParts
    <3> QED
      BY <3>2
  <2>2. CASE requests[holder].end # "open"
    <3>1. requests' = requests
      BY <2>2 DEF Resolve
    <3> QED
      BY <2>2, <3>1, SameGrows, IInvParts
  <2> QED
    BY <2>1, <2>2
<1>3. holder' \in {0, holder} /\ (holder' # 0 /\ ~written' => ~written)
      /\ ((holder' = 0 /\ written' = FALSE) \/ (holder' = holder /\ written' = written))
  BY <1>2 DEF Resolve, Return, Release
<1>4. written' \in BOOLEAN
  BY <1>1, <1>3
<1> QED
  BY <1>2, <1>3, <1>4 DEF Settled

\* _apply: the request that waits is answered, rejected or left alone.
LEMMA ApplySettles ==
    ASSUME IInv, NEW t, NEW d \in Outs, d.request = 0 \/ d.rejected = 0, Apply(t, d)
    PROVE  /\ Settled(d.request, d.rejected) /\ ready' \in BOOLEAN
           /\ UNCHANGED <<completed, reported>> \/ Publish(t, d)
<1>1. CASE Waits(d.rejected)
  <2>1. Resolve(d.rejected, "rejected") /\ UNCHANGED <<ready, completed, reported>> /\ d.rejected = holder /\ holder # 0
    BY <1>1 DEF Apply, Waits
  <2>2. Resolve(holder, "rejected")
    BY <2>1
  <2>3. Settled(d.request, d.rejected)
    BY <2>1, <2>2, OneSettled
  <2>4. ready' \in BOOLEAN
    BY <2>1, IInvParts DEF SessionInv
  <2> QED
    BY <2>1, <2>3, <2>4
<1>2. CASE ~Waits(d.rejected)
  <2>1. ready' = (ready \/ d.ready) /\ Publish(t, d)
        /\ IF Waits(d.request) THEN Resolve(d.request, "acked") ELSE UNCHANGED <<requests, holder, written>>
    BY <1>2 DEF Apply
  <2>2. ready' \in BOOLEAN
    BY <2>1
  <2>3. CASE Waits(d.request)
    <3>1. Resolve(holder, "acked") /\ d.request = holder /\ holder # 0
      BY <2>1, <2>3 DEF Waits
    <3>2. Settled(d.request, d.rejected)
      BY <3>1, OneSettled
    <3> QED
      BY <2>1, <2>2, <3>2
  <2>4. CASE ~Waits(d.request)
    <3>1. holder # 0 => holder \notin {d.request, d.rejected}
      BY <1>2, <2>4 DEF Waits
    <3>2. Settled(d.request, d.rejected)
      BY <2>1, <2>4, <3>1, NoneSettled
    <3> QED
      BY <2>1, <2>2, <3>2
  <2> QED
    BY <2>3, <2>4
<1> QED
  BY <1>1, <1>2

\* A transcription is published and noted in one step, and only when it was not noted.
LEMMA PublishOnce ==
    ASSUME IInv, NEW t, NEW d \in Outs, d.turn # 0 => d.by # "none",
           provider = "qwen" /\ d.turn # 0 /\ d.by = "asr" => Counted(t, d.turn),
           provider' = provider, UNCHANGED <<completed, reported>> \/ Publish(t, d)
    PROVE  completed' \subseteq Items /\ reported' \in [Items -> [{"asr", "side"} -> Nat]] /\ OnceInv'
<1>1. completed \subseteq Items /\ reported \in [Items -> [{"asr", "side"} -> Nat]] /\ OnceInv
  BY IInvParts DEF SessionInv
<1>2. CASE UNCHANGED <<completed, reported>>
  BY <1>1, <1>2 DEF OnceInv
<1>3. CASE Publish(t, d) /\ ~UNCHANGED <<completed, reported>>
  <2> DEFINE i == d.turn
             by == d.by
             row == [reported[i] EXCEPT ![by] = @ + 1]
  <2>1. d.turn # 0 /\ ~(Counted(t, d.turn) /\ d.turn \in completed)
        /\ completed' = (IF Counted(t, d.turn) THEN completed \cup {d.turn} ELSE completed)
        /\ reported' = [reported EXCEPT ![d.turn][d.by] = @ + 1]
    BY <1>3 DEF Publish
  <2>2. i \in Items /\ by \in {"asr", "side"}
    BY <2>1 DEF Outs
  <2>3. reported[i] \in [{"asr", "side"} -> Nat] /\ reported[i]["asr"] \in Nat
    BY <1>1, <2>2
  <2>4. row \in [{"asr", "side"} -> Nat]
        /\ row["asr"] = IF by = "asr" THEN reported[i]["asr"] + 1 ELSE reported[i]["asr"]
    BY <2>2, <2>3
  <2>5. reported' = [reported EXCEPT ![i] = row]
    BY <2>1
  <2> HIDE DEF row
  <2>6. reported' \in [Items -> [{"asr", "side"} -> Nat]] /\ reported'[i] = row
        /\ \A j \in Items : j # i => reported'[j] = reported[j]
    BY <1>1, <2>2, <2>4, <2>5
  <2>7. completed' \subseteq Items
    BY <1>1, <2>1, <2>2
  <2>8. OnceInv'
    <3> SUFFICES ASSUME provider = "qwen", NEW j \in Items
                 PROVE  reported'[j]["asr"] <= 1 /\ (reported'[j]["asr"] = 1 => j \in completed')
      BY DEF OnceInv
    <3>1. completed \subseteq completed' /\ reported[j]["asr"] <= 1 /\ (reported[j]["asr"] = 1 => j \in completed)
      BY <1>1, <2>1 DEF OnceInv
    <3>2. CASE j # i \/ by # "asr"
      BY <2>4, <2>6, <3>1, <3>2
    <3>3. CASE j = i /\ by = "asr"
      <4>1. Counted(t, i) /\ i \notin completed /\ i \in completed'
        BY <2>1, <3>3
      <4>2. reported[i]["asr"] = 0
        BY <2>3, <3>1, <3>3, <4>1
      <4> QED
        BY <2>4, <2>6, <3>3, <4>1, <4>2
    <3> QED
      BY <3>2, <3>3
  <2> QED
    BY <2>6, <2>7, <2>8
<1> QED
  BY <1>2, <1>3

\* The code a session fails with.
LEMMA FailingCode ==
    ASSUME IInv, NEW d \in Outs
    PROVE  Failing(d) \in Codes \cup {"none"} /\ (Failing(d) = "none" => d.raises = "none")
<1>1. d.raises \in Codes \cup {"none"} /\ d.failed \in Codes \cup {"none"} /\ "PROTOCOL_ERROR" \in Codes
  BY DEF Outs, Codes
<1> QED
  BY <1>1 DEF Failing

\* What the session knows of the event it reads and of those behind it.
Arrives(e, rest) ==
    /\ GoodEvent(e) /\ rest \in Seq(EventFields)
    /\ e.n \in seen => Spent(e, adapter) /\ (e.type \in Nameless => repeated)
    /\ \A k \in 1..Len(rest) : /\ GoodEvent(rest[k]) /\ rest[k].n \in 1..events
                               /\ rest[k].n \notin seen /\ e.n < rest[k].n
    /\ \A j, k \in 1..Len(rest) : j < k => rest[j].n < rest[k].n
    /\ \A kind \in {"message", "instructions"}, body \in Bodies :
          /\ \A k \in 1..Len(rest) : AnswerTo(rest[k], kind, body) => rest[k].n \in Fresh(kind, body)
          /\ AnswerTo(e, kind, body) /\ e.n \notin seen => e.n \in Fresh(kind, body)

\* The provider may send the event again, in front of the others.
LEMMA AgainInFront ==
    ASSUME NEW e \in EventFields, NEW rest \in Seq(EventFields)
    PROVE  LET s == <<e>> \o rest
           IN  /\ s \in Seq(EventFields) /\ Len(s) = Len(rest) + 1 /\ s[1] = e
               /\ \A k \in 2..Len(s) : k - 1 \in 1..Len(rest) /\ s[k] = rest[k - 1]
<1>1. <<e>> \in Seq(EventFields) /\ Len(<<e>>) = 1 /\ <<e>>[1] = e /\ Len(rest) \in Nat
  OBVIOUS
<1> QED
  BY <1>1

\* The event is read: from now on its number is seen, and decoding it again is harmless.
LEMMA ReadKeeps ==
    ASSUME IInv, NEW e, NEW rest, NEW again \in BOOLEAN, Arrives(e, rest), Grows, provider' = provider,
           Spent(e, adapter'), inbox' = IF again THEN <<e>> \o rest ELSE rest,
           seen' = seen \cup {e.n}, repeated' = (repeated \/ (again /\ e.type \in Nameless)),
           events' \in Nat, events <= events', e.n \in 1..events'
    PROVE  /\ InboxInv' /\ seen' \subseteq 1..events'
           /\ \A kind \in {"message", "instructions"}, body \in Bodies :
                 Fresh(kind, body)' \subseteq Fresh(kind, body) \ {e.n}
<1>1. /\ \A k \in 1..Len(rest) : /\ GoodEvent(rest[k]) /\ rest[k].n \in 1..events'
                                 /\ rest[k].n \notin seen' /\ e.n < rest[k].n
      /\ e.n \in Nat /\ e \in EventFields /\ Len(rest) \in Nat /\ rest \in Seq(EventFields)
  <2>1. 1..events \subseteq 1..events'
    BY IInvParts
  <2>2. \A k \in 1..Len(rest) : rest[k].n \in Nat /\ e.n \in Nat /\ e.n < rest[k].n
    BY IInvParts, SMTT(30) DEF Arrives
  <2>3. \A k \in 1..Len(rest) : rest[k].n # e.n
    BY <2>2
  <2> QED
    BY <2>1, <2>3 DEF Arrives, GoodEvent
<1>2. \A k \in 1..Len(inbox') :
         \/ again /\ k = 1 /\ inbox'[k] = e
         \/ /\ \E j \in 1..Len(rest) : inbox'[k] = rest[j] /\ (again => j = k - 1) /\ (~again => j = k)
            /\ inbox'[k].n \notin seen' /\ e.n < inbox'[k].n
  <2>1. CASE again
    <3>1. Len(inbox') = Len(rest) + 1 /\ inbox'[1] = e
          /\ \A k \in 2..Len(inbox') : k - 1 \in 1..Len(rest) /\ inbox'[k] = rest[k - 1]
      BY <1>1, <2>1, AgainInFront
    <3>2. \A k \in 1..Len(inbox') : k = 1 \/ k \in 2..Len(inbox')
      BY <1>1, <3>1
    <3> QED
      BY <1>1, <2>1, <3>1, <3>2
  <2>2. CASE ~again
    BY <1>1, <2>2
  <2> QED
    BY <2>1, <2>2
<1>3. inbox' \in Seq(EventFields)
  <2>1. CASE again
    BY <1>1, <2>1, AgainInFront
  <2>2. CASE ~again
    BY <1>1, <2>2
  <2> QED
    BY <2>1, <2>2
<1>4. \A k \in 1..Len(inbox') : GoodEvent(inbox'[k]) /\ inbox'[k].n \in 1..events'
  BY <1>1, <1>2 DEF Arrives
<1>5. \A c, a : (GoodEvent(c) => GoodEvent(c)') /\ (Spent(c, a) => Spent(c, a)') /\ Nameless' = Nameless
  BY IInvParts, GrowsKeeps
<1>6. InboxInv'
  <2>1. ASSUME NEW k \in 1..Len(inbox')
        PROVE  /\ GoodEvent(inbox[k])' /\ inbox'[k].n \in 1..events'
               /\ inbox'[k].n \in seen' =>
                    /\ k = 1 /\ Spent(inbox[k], adapter)'
                    /\ inbox'[k].type \in Nameless' => repeated'
    <3>1. PICK c : c = inbox'[k]
      OBVIOUS
    <3>2. GoodEvent(inbox[k])'
      <4>1. GoodEvent(c)'
        BY <1>4, <1>5, <3>1
      <4> QED
        BY <3>1, <4>1
    <3>3. ASSUME inbox'[k].n \in seen'
          PROVE  k = 1 /\ Spent(inbox[k], adapter)' /\ (inbox'[k].type \in Nameless' => repeated')
      <4>1. again /\ k = 1 /\ c = e
        BY <1>2, <3>1, <3>3
      <4>2. Spent(inbox[k], adapter)'
        <5>1. PICK a : a = adapter'
          OBVIOUS
        <5>2. Spent(e, a)'
          BY <1>5, <5>1
        <5> QED
          BY <3>1, <4>1, <5>1, <5>2
      <4> QED
        BY <1>5, <3>1, <4>1, <4>2
    <3> QED
      BY <1>4, <3>2, <3>3
  <2>2. \A j, k \in 1..Len(inbox') : j < k => inbox'[j].n < inbox'[k].n
    <3> SUFFICES ASSUME NEW j \in 1..Len(inbox'), NEW k \in 1..Len(inbox'), j < k
                 PROVE  inbox'[j].n < inbox'[k].n
      OBVIOUS
    <3>0. k # 1
      OBVIOUS
    <3>1. PICK b \in 1..Len(rest) : inbox'[k] = rest[b] /\ (again => b = k - 1) /\ (~again => b = k)
                                    /\ e.n < inbox'[k].n
      BY <1>2, <3>0
    <3>2. CASE inbox'[j] = e
      BY <3>1, <3>2
    <3>3. CASE inbox'[j] # e
      <4>1. PICK a \in 1..Len(rest) : inbox'[j] = rest[a] /\ (again => a = j - 1) /\ (~again => a = j)
        BY <1>2, <3>3
      <4>2. a < b
        BY <3>1, <4>1
      <4> QED
        BY <3>1, <4>1, <4>2 DEF Arrives
    <3> QED
      BY <3>2, <3>3
  <2> QED
    BY <1>3, <2>1, <2>2 DEF InboxInv
<1>7. seen' \subseteq 1..events'
  BY IInvParts DEF SessionInv
<1>8. ASSUME NEW kind \in {"message", "instructions"}, NEW body \in Bodies, NEW n \in Fresh(kind, body)'
      PROVE  n \in Fresh(kind, body) /\ n # e.n
  <2>1. n \notin seen' /\ n # e.n
    BY DEF Fresh
  <2>2. PICK k \in 1..Len(inbox') : inbox'[k].n = n /\ AnswerTo(inbox'[k], kind, body)
    BY DEF Fresh, AnswerTo
  <2>3. PICK j \in 1..Len(rest) : inbox'[k] = rest[j]
    BY <1>2, <2>1, <2>2
  <2> QED
    BY <2>1, <2>2, <2>3 DEF Arrives
<1> QED
  BY <1>6, <1>7, <1>8

\* An event decoded and read: what the adapter and the session do with it fits together.
LEMMA HeardKeeps ==
    ASSUME IInv, Active, NEW e, NEW rest, NEW again \in BOOLEAN, Arrives(e, rest),
           NEW x, GoodDecoding(e, x), x.out.raises = "none",
           NEW request, NEW rejected, Settled(request, rejected),
           \/ e.n \in seen /\ request = 0
           \/ e.n \notin seen /\ request = x.out.request /\ rejected = x.out.rejected,
           ready' \in BOOLEAN, OnceInv', completed' \subseteq Items,
           reported' \in [Items -> [{"asr", "side"} -> Nat]],
           adapter' = x.adapter, table' = x.table,
           inbox' = IF again THEN <<e>> \o rest ELSE rest,
           seen' = seen \cup {e.n}, repeated' = (repeated \/ (again /\ e.type \in Nameless)),
           UNCHANGED <<provider, failure, outbox, applied, generation>>,
           events' \in Nat, events <= events', e.n \in 1..events'
    PROVE  IInv'
<1>1. Grows /\ Len(requests') = Len(requests) /\ Spent(e, x.adapter)
  BY DEF Settled, GoodDecoding
<1>2. /\ InboxInv' /\ seen' \subseteq 1..events'
      /\ \A kind \in {"message", "instructions"}, body \in Bodies :
            Fresh(kind, body)' \subseteq Fresh(kind, body) \ {e.n}
  BY <1>1, ReadKeeps
<1>3. SessionInv'
  <2>1. repeated' \in BOOLEAN
    OBVIOUS
  <2>2. holder' \in 0..Len(requests') /\ (~Active' => holder' = 0) /\ written' \in BOOLEAN
    BY <1>1, IInvParts DEF Settled, Active
  <2> QED
    BY <1>1, <1>2, <2>1, <2>2, IInvParts DEF SessionInv, Grows
<1>4. GoodAdapter(adapter)' /\ ClosedTable(table)'
  <2>1. PICK a : a = x.adapter
    OBVIOUS
  <2>2. GoodAdapter(a)'
    BY <1>1, <2>1, IInvParts, GrowsKeeps DEF GoodDecoding
  <2> QED
    BY <2>1, <2>2 DEF GoodDecoding
<1>5. OutboxInv'
  <2>1. holder' # 0 /\ ~written' => holder' = holder /\ ~written
    BY DEF Settled
  <2> QED
    BY <1>1, <2>1, IInvParts DEF OutboxInv
<1>6. ASSUME NEW kind \in {"message", "instructions"}, NEW body \in Bodies
      PROVE  Counts(kind, body)
  <2>1. DOMAIN requests = 1..Len(requests) /\ DOMAIN requests' = 1..Len(requests)
        /\ \A r \in 1..Len(requests) : requests'[r].kind = requests[r].kind /\ requests'[r].body = requests[r].body
    BY <1>1, IInvParts DEF Grows
  <2>2. Carried(kind, body) \subseteq Carried(kind, body)'
    BY <2>1, IInvParts DEF Carried, OutboxInv
  <2>3. ASSUME NEW r \in Acked(kind, body)', r \notin Acked(kind, body)
        PROVE  r = request /\ e.n \in Fresh(kind, body)
    <3>1. r \in 1..Len(requests) /\ r = request /\ requests[r].kind = kind /\ requests[r].body = body
      BY <2>1, <2>3 DEF Acked, Settled
    <3>2. e.n \notin seen /\ request = x.out.request /\ request # 0
      BY <3>1, IInvParts
    <3>3. AnswerTo(e, kind, body)
      BY <3>1, <3>2 DEF GoodDecoding, Confirms
    <3> QED
      BY <3>1, <3>2, <3>3 DEF Arrives
  <2>4. CASE Acked(kind, body)' \subseteq Acked(kind, body)
    BY <1>2, <2>2, <2>4 DEF Counts
  <2>5. CASE ~(Acked(kind, body)' \subseteq Acked(kind, body))
    <3>1. Acked(kind, body)' \subseteq Acked(kind, body) \cup {request} /\ e.n \in Fresh(kind, body)
      BY <2>3, <2>5
    <3> QED
      BY <1>2, <2>2, <3>1 DEF Counts
  <2> QED
    BY <2>4, <2>5
<1>7. AckInv'
  BY <1>3, <1>5, <1>6, IInvParts, AckKept
<1>8. WaiterIsKnown'
  <2> SUFFICES ASSUME holder' # 0, requests'[holder'].end = "open", ~repeated'
               PROVE  holder' \in adapter'.pending
    BY DEF WaiterIsKnown, IsPending
  <2>0. ~repeated
    OBVIOUS
  <2>1. holder' = holder /\ holder \in 1..Len(requests) /\ requests[holder].end = "open" /\ ~repeated
        /\ holder # request /\ holder # rejected
    <3>1. holder' = holder /\ holder \in 1..Len(requests)
      BY IInvParts DEF Settled
    <3>2. requests[holder].end = "open"
      BY <3>1 DEF Settled
    <3>3. holder \notin {request, rejected}
      BY <3>1 DEF Settled
    <3> QED
      BY <2>0, <3>1, <3>2, <3>3
  <2>2. holder \in adapter.pending
    BY <2>1, IInvParts DEF WaiterIsKnown, IsPending
  <2>3. CASE e.n \in seen
    <3>1. Spent(e, adapter) /\ e.type \notin Nameless
      BY <2>1, <2>3 DEF Arrives
    <3> QED
      BY <2>1, <2>2, <3>1 DEF GoodDecoding
  <2>4. CASE e.n \notin seen
    <3>1. PICK r : /\ adapter'.pending = adapter.pending \ {r}
                   /\ r \in adapter.pending => r = request \/ r = rejected
      BY <2>4 DEF GoodDecoding, UsesUp
    <3> QED
      BY <2>1, <2>2, <3>1
  <2> QED
    BY <2>3, <2>4
<1> QED
  BY <1>2, <1>3, <1>4, <1>5, <1>7, <1>8 DEF IInv, Core

\* An event is decoded, and then ends the session, is dropped as seen, or is applied.
LEMMA HandleInv ==
    ASSUME IInv, Active, NEW e, NEW rest, NEW again \in BOOLEAN, Arrives(e, rest), Handle(e, rest, again),
           events' \in Nat, events <= events', e.n \in 1..events'
    PROVE  IInv' /\ Keeps(table, table') /\ generation' = generation
<1> DEFINE known == e.n \in seen /\ Decode(e).out.raises = "none"
           code == IF known THEN "none" ELSE Failing(Decode(e).out)
<1>1. GoodDecoding(e, Decode(e))
  <2>1. DecodeTypes
    BY IInvParts, ProviderAssumption DEF DecodeTypes, SessionInv
  <2>2. GoodEvent(e)
    BY DEF Arrives
  <2> QED
    BY <2>1, <2>2, DecodeWell
<1>2. PICK x : x = Decode(e)
  OBVIOUS
<1>3. GoodDecoding(e, x) /\ x.out \in Outs /\ ClosedTable(x.table) /\ Keeps(table, x.table)
  BY <1>1, <1>2 DEF GoodDecoding
<1>4. /\ repeated' = (repeated \/ (again /\ e.type \in Nameless)) /\ table' = x.table
      /\ provider' = provider /\ applied' = applied /\ generation' = generation
  BY <1>2 DEF Handle
<1>5. CASE code # "none"
  <2>1. Fail(code) /\ completed' = completed /\ reported' = reported
    BY <1>5 DEF Handle
  <2>2. code \in Codes
    BY <1>2, <1>3, <1>5, FailingCode
  <2>3. repeated' \in BOOLEAN
    BY <1>4
  <2> HIDE DEF code
  <2> QED
    BY <1>3, <1>4, <2>1, <2>2, <2>3, FailInv
<1>6. CASE code = "none"
  <2>1. /\ adapter' = x.adapter /\ inbox' = (IF again THEN <<e>> \o rest ELSE rest)
        /\ seen' = seen \cup {e.n} /\ failure' = failure /\ outbox' = outbox
        /\ IF known THEN UNCHANGED <<ready, completed, requests, holder, written, reported>>
           ELSE Apply(x.table, x.out)
    BY <1>2, <1>6 DEF Handle
  <2>2. UNCHANGED <<provider, failure, outbox, applied, generation>>
    BY <1>4, <2>1
  <2>3. x.out.raises = "none" /\ (known <=> e.n \in seen)
    BY <1>2, <1>3, <1>6, FailingCode
  <2>4. CASE e.n \in seen
    <3>1. UNCHANGED <<ready, completed, requests, holder, written, reported>>
      BY <2>1, <2>3, <2>4
    <3>2. Settled(0, 0)
      BY <3>1, NoneSettled
    <3>3. ready' \in BOOLEAN
      BY <3>1, IInvParts DEF SessionInv
    <3>4. OnceInv' /\ completed' \subseteq Items /\ reported' \in [Items -> [{"asr", "side"} -> Nat]]
      BY <1>4, <3>1, IInvParts DEF SessionInv, OnceInv
    <3> HIDE DEF known, code
    <3>5. IInv'
      BY <1>3, <1>4, <2>1, <2>2, <2>3, <2>4, <3>2, <3>3, <3>4, HeardKeeps
    <3> QED
      BY <1>3, <1>4, <3>5
  <2>5. CASE e.n \notin seen
    <3>1. Apply(x.table, x.out)
      BY <2>1, <2>3, <2>5
    <3>2. /\ x.out.request = 0 \/ x.out.rejected = 0
          /\ x.out.turn # 0 => x.out.by # "none"
          /\ provider = "qwen" /\ x.out.turn # 0 /\ x.out.by = "asr" => Counted(x.table, x.out.turn)
      BY <1>3 DEF GoodDecoding
    <3>3. /\ Settled(x.out.request, x.out.rejected) /\ ready' \in BOOLEAN
          /\ UNCHANGED <<completed, reported>> \/ Publish(x.table, x.out)
      BY <1>3, <3>1, <3>2, ApplySettles
    <3>4. OnceInv' /\ completed' \subseteq Items /\ reported' \in [Items -> [{"asr", "side"} -> Nat]]
      BY <1>3, <1>4, <3>2, <3>3, PublishOnce
    <3> HIDE DEF known, code
    <3>5. IInv'
      BY <1>3, <1>4, <2>1, <2>2, <2>3, <2>5, <3>3, <3>4, HeardKeeps
    <3> QED
      BY <1>3, <1>4, <3>5
  <2> QED
    BY <2>4, <2>5
<1> QED
  BY <1>5, <1>6

\* The first event of the inbox is read.
LEMMA ReceiveInv ==
    ASSUME IInv, NEW again \in BOOLEAN, Receive(again)
    PROVE  IInv' /\ Keeps(table, table') /\ generation' = generation
<1> DEFINE e == Head(inbox)
           rest == Tail(inbox)
<1>1. Active /\ Handle(e, rest, again) /\ inbox # <<>>
  BY DEF Receive
<1>2. events' \in Nat /\ events <= events'
  <2>1. events' = events + 1 \/ events' = events
    BY IInvParts DEF Receive
  <2> QED
    BY <2>1, IInvParts
<1>3. Len(inbox) > 0 /\ e = inbox[1] /\ 1 \in 1..Len(inbox)
  BY <1>1, IInvParts
<1>4. rest \in Seq(EventFields) /\ Len(rest) = Len(inbox) - 1
      /\ \A k \in 1..Len(rest) : rest[k] = inbox[k + 1] /\ k + 1 \in 1..Len(inbox) /\ k + 1 # 1 /\ 1 < k + 1
  BY <1>1, <1>3, IInvParts
<1>5. e.n \in 1..events'
  <2>1. e.n \in 1..events
    BY <1>3, IInvParts DEF InboxInv
  <2> QED
    BY <1>2, <2>1, IInvParts
<1> HIDE DEF e, rest
<1>6. Arrives(e, rest)
  <2>1. GoodEvent(e) /\ (e.n \in seen => Spent(e, adapter) /\ (e.type \in Nameless => repeated))
    BY <1>3, IInvParts DEF InboxInv
  <2>2. \A k \in 1..Len(rest) : /\ GoodEvent(rest[k]) /\ rest[k].n \in 1..events
                                /\ rest[k].n \notin seen /\ e.n < rest[k].n
    BY <1>3, <1>4, IInvParts DEF InboxInv
  <2>3. \A j, k \in 1..Len(rest) : j < k => rest[j].n < rest[k].n
    <3> SUFFICES ASSUME NEW j \in 1..Len(rest), NEW k \in 1..Len(rest), j < k
                 PROVE  rest[j].n < rest[k].n
      OBVIOUS
    <3>1. j + 1 < k + 1
      OBVIOUS
    <3> QED
      BY <1>4, <3>1, IInvParts DEF InboxInv
  <2>4. ASSUME NEW kind \in {"message", "instructions"}, NEW body \in Bodies
        PROVE  /\ \A k \in 1..Len(rest) : AnswerTo(rest[k], kind, body) => rest[k].n \in Fresh(kind, body)
               /\ AnswerTo(e, kind, body) /\ e.n \notin seen => e.n \in Fresh(kind, body)
    <3>1. \A k \in 1..Len(inbox) : AnswerTo(inbox[k], kind, body) /\ inbox[k].n \notin seen
                                      => inbox[k].n \in Fresh(kind, body)
      BY IInvParts DEF Fresh, InboxInv
    <3> QED
      BY <1>3, <1>4, <2>2, <3>1
  <2> QED
    BY <1>4, <2>1, <2>2, <2>3, <2>4 DEF Arrives
<1> QED
  BY <1>1, <1>2, <1>5, <1>6, HandleInv

\* The item of spoken input, complete or not.
AudioItem(i, c) == [Event("item.created", i, "user") EXCEPT !.audio = TRUE, !.completed = c]

\* Events nobody asked for are well formed and show nothing carried out.
LEMMA UnaskedForm ==
    ASSUME IInv, NEW e \in Unasked
    PROVE  /\ GoodEvent(e)
           /\ \A kind \in {"message", "instructions"}, body \in Bodies : ~AnswerTo(e, kind, body)
<1>1. \A i \in VoiceItems : i \in Items /\ i \notin Requests
  BY BoundAssumption DEF VoiceItems, Items, Requests
<1>2. \A r \in applied : ServerId(r) \in Items /\ ServerId(r) \notin Requests
  <2>1. \A r \in applied : r \in 1..MaxRequests
    BY IInvParts, BoundAssumption DEF OutboxInv, SessionInv
  <2> QED
    BY <2>1, BoundAssumption DEF ServerId, Items, Requests
<1>3. 0 \notin Requests
  BY BoundAssumption DEF Requests
<1> DEFINE Spoken == VoiceItems \cup {ServerId(r) : r \in applied}
<1>4. \A i \in Spoken : i \in Items /\ i \notin Requests
  BY <1>1, <1>2
<1> HIDE DEF Spoken
<1>5. ASSUME NEW ack \in {"ok", "config", "tools"}, NEW type \in {"session.updated", "session.created"},
             e = [Event(type, 0, "initial") EXCEPT !.ack = ack]
      PROVE  GoodEvent(e) /\ e.body = "initial"
  <2>1. e \in EventFields /\ e.type = type /\ e.id = 0 /\ e.body = "initial" /\ e.audio = FALSE
    BY <1>5 DEF Event, EventFields, ProviderTypes
  <2> QED
    BY <1>3, <2>1 DEF GoodEvent
<1>6. ASSUME NEW c \in {"unsupported", "limit"}, e = [Event("error", 0, "none") EXCEPT !.code = c]
      PROVE  GoodEvent(e) /\ e.body = "none"
  <2>1. e \in EventFields /\ e.type = "error" /\ e.id = 0 /\ e.body = "none" /\ e.audio = FALSE
    BY <1>6 DEF Event, EventFields, ProviderTypes
  <2> QED
    BY <1>3, <2>1 DEF GoodEvent
<1>7. ASSUME e = Event("response.created", 0, "none")
      PROVE  GoodEvent(e) /\ e.body = "none"
  <2>1. e \in EventFields /\ e.type = "response.created" /\ e.id = 0 /\ e.body = "none" /\ e.audio = FALSE
    BY <1>7 DEF Event, EventFields, ProviderTypes
  <2> QED
    BY <1>3, <2>1 DEF GoodEvent
<1>8. ASSUME NEW i \in Spoken, NEW type \in {"transcript", "speech_started", "committed", "user_side"},
             e = Event(type, i, "none")
      PROVE  GoodEvent(e) /\ e.body = "none"
  <2>1. e \in EventFields /\ e.type = type /\ e.id = i /\ e.body = "none" /\ e.audio = FALSE
    BY <1>4, <1>8 DEF Event, EventFields, ProviderTypes
  <2> QED
    BY <1>4, <2>1 DEF GoodEvent
<1>9. ASSUME NEW i \in Spoken, NEW c \in BOOLEAN, provider = "qwen",
             e = AudioItem(i, c)
      PROVE  GoodEvent(e) /\ e.audio /\ e.type = "item.created"
  <2>1. e \in EventFields /\ e.type = "item.created" /\ e.id = i /\ e.body = "user" /\ e.audio = TRUE
    BY <1>4, <1>9 DEF Event, EventFields, ProviderTypes, Roles, AudioItem
  <2> QED
    BY <1>4, <1>9, <2>1 DEF GoodEvent, Roles
<1>10. ASSUME NEW i \in Spoken, e = Event("item.created", i, "assistant")
       PROVE  GoodEvent(e) /\ e.body = "assistant"
  <2>1. e \in EventFields /\ e.type = "item.created" /\ e.id = i /\ e.body = "assistant" /\ e.audio = FALSE
    BY <1>4, <1>10 DEF Event, EventFields, ProviderTypes, Roles
  <2> QED
    BY <1>4, <2>1 DEF GoodEvent, Roles
<1>11. ASSUME NEW i \in Spoken, NEW role \in Roles, e = Event("output_item", i, role)
       PROVE  GoodEvent(e) /\ e.type = "output_item"
  <2>1. e \in EventFields /\ e.type = "output_item" /\ e.id = i /\ e.body = role /\ e.audio = FALSE
    BY <1>4, <1>11 DEF Event, EventFields, ProviderTypes
  <2> QED
    BY <1>4, <2>1 DEF GoodEvent
<1>12. VoiceItems \subseteq Spoken /\ (\A r \in applied : ServerId(r) \in Spoken)
  BY DEF Spoken
<1>13. CASE e \in UnaskedOfBoth
  BY <1>5, <1>6, <1>7, <1>8, <1>12, <1>13 DEF UnaskedOfBoth, AnswerTo, Bodies
<1>14. CASE e \in UnaskedOfQwen /\ provider = "qwen"
  <2>1. CASE \E type \in {"speech_started", "committed"}, i \in VoiceItems : e = Event(type, i, "none")
    BY <1>8, <1>12, <2>1 DEF AnswerTo, Bodies
  <2>2. CASE \E i \in VoiceItems, c \in BOOLEAN :
               e = AudioItem(i, c)
    BY <1>9, <1>12, <1>14, <2>2 DEF AnswerTo
  <2>3. CASE \E i \in VoiceItems : e = Event("item.created", i, "assistant")
    BY <1>10, <1>12, <2>3 DEF AnswerTo, Bodies
  <2>4. CASE \E i \in Spoken, role \in Roles : e = Event("output_item", i, role)
    BY <1>11, <2>4 DEF AnswerTo
  <2>5. CASE \E i \in Spoken : e = Event("user_side", i, "none")
    BY <1>8, <2>5 DEF AnswerTo, Bodies
  <2> DEFINE S1 == {Event(type, i, "none") : type \in {"speech_started", "committed"}, i \in VoiceItems}
             S2 == {AudioItem(i, c) :
                      i \in VoiceItems, c \in BOOLEAN}
             S3 == {Event("item.created", i, "assistant") : i \in VoiceItems}
             S4 == {Event("output_item", i, role) : i \in Spoken, role \in {"user", "assistant"}}
             S5 == {Event("output_item", ServerId(r), "system") : r \in applied}
             S6 == {Event("user_side", i, "none") : i \in Spoken}
  <2>6. UnaskedOfQwen = S1 \cup S2 \cup S3 \cup S4 \cup S5 \cup S6
    BY DEF UnaskedOfQwen, Spoken, AudioItem
  <2> HIDE DEF S1, S2, S3, S4, S5, S6
  <2>7. e \in S1 \/ e \in S2 \/ e \in S3 \/ e \in S4 \/ e \in S5 \/ e \in S6
    BY <1>14, <2>6
  <2>8. {"user", "assistant"} \subseteq Roles /\ "system" \in Roles
    BY DEF Roles
  <2>9. CASE \E i \in Spoken, role \in {"user", "assistant"} : e = Event("output_item", i, role)
    BY <2>4, <2>8, <2>9
  <2>10. CASE \E r \in applied : e = Event("output_item", ServerId(r), "system")
    BY <1>12, <2>4, <2>8, <2>10
  <2>11. CASE e \in S1
    <3>1. \E type \in {"speech_started", "committed"}, i \in VoiceItems : e = Event(type, i, "none")
      BY <2>11 DEF S1
    <3> QED
      BY <2>1, <3>1
  <2>12. CASE e \in S2
    <3>1. \E i \in VoiceItems, c \in BOOLEAN :
               e = AudioItem(i, c)
      BY <2>12 DEF S2
    <3> QED
      BY <2>2, <3>1
  <2>13. CASE e \in S3
    BY <2>3, <2>13 DEF S3
  <2>14. CASE e \in S4
    <3>1. \E i \in Spoken, role \in {"user", "assistant"} : e = Event("output_item", i, role)
      BY <2>14 DEF S4
    <3> QED
      BY <2>9, <3>1
  <2>15. CASE e \in S5
    BY <2>10, <2>15 DEF S5
  <2>16. CASE e \in S6
    BY <2>5, <2>16 DEF S6
  <2> QED
    BY <2>7, <2>11, <2>12, <2>13, <2>14, <2>15, <2>16
<1>15. CASE e \in UnaskedOfOpenAI
  BY <1>5, <1>15 DEF UnaskedOfOpenAI, AnswerTo, Bodies
<1> QED
  BY <1>13, <1>14, <1>15 DEF Unasked

\* An event nobody asked for is read at once.
LEMMA AnnounceInv ==
    ASSUME IInv, NEW again \in BOOLEAN, Announce(again)
    PROVE  IInv' /\ Keeps(table, table') /\ generation' = generation
<1>1. PICK u \in Unasked : Handle([u EXCEPT !.n = events + 1], <<>>, again)
  BY DEF Announce
<1> DEFINE e == Numbered(u, events + 1)
<1>2. Active /\ Handle(e, <<>>, again)
  BY <1>1 DEF Announce, Numbered
<1>3. events' \in Nat /\ events <= events' /\ events + 1 \in 1..events' /\ events + 1 \in Nat
  <2>1. events' = events + 2 \/ events' = events + 1
    BY IInvParts DEF Announce
  <2> QED
    BY <2>1, IInvParts
<1>4. GoodEvent(e) /\ e.n = events + 1
      /\ \A kind \in {"message", "instructions"}, body \in Bodies : ~AnswerTo(e, kind, body)
  <2>1. GoodEvent(u) /\ \A kind \in {"message", "instructions"}, body \in Bodies : ~AnswerTo(u, kind, body)
    BY UnaskedForm
  <2>2. GoodEvent(e) /\ e.n = events + 1
        /\ \A kind, body : AnswerTo(e, kind, body) <=> AnswerTo(u, kind, body)
    BY <1>3, <2>1, NumberedEvent
  <2> HIDE DEF e
  <2> QED
    BY <2>1, <2>2
<1> HIDE DEF e
<1>5. Arrives(e, <<>>)
  <2>1. events + 1 \notin seen
    BY IInvParts DEF SessionInv
  <2>2. <<>> \in Seq(EventFields) /\ \A k \in 1..Len(<<>>) : FALSE
    OBVIOUS
  <2> QED
    BY <1>4, <2>1, <2>2 DEF Arrives
<1> QED
  BY <1>2, <1>3, <1>4, <1>5, HandleInv

-----------------------------------------------------------------------------
(* The theorems. *)

\* The initial states satisfy the invariant.
LEMMA InitIInv == Init => IInv
<1> SUFFICES ASSUME Init PROVE IInv
  OBVIOUS
<1>1. /\ provider \in Providers /\ failure = "none" /\ ready = FALSE /\ adapter = NewAdapter
      /\ table = EmptyTable /\ completed = {} /\ requests = <<>> /\ holder = 0 /\ written = FALSE
      /\ outbox = <<>> /\ inbox = <<>> /\ seen = {} /\ events = 0 /\ repeated = FALSE /\ applied = {}
      /\ reported = [i \in Items |-> [by \in {"asr", "side"} |-> 0]] /\ generation = 1
  BY DEF Init
<1>2. requests \in Seq(Injected) /\ Len(requests) = 0 /\ DOMAIN requests = {} /\ MaxRequests \in Nat
      /\ outbox \in Seq(Requests) /\ Len(outbox) = 0 /\ inbox \in Seq(EventFields) /\ Len(inbox) = 0
  BY <1>1, BoundAssumption
<1>3. reported \in [Items -> [{"asr", "side"} -> Nat]]
      /\ \A i \in Items : reported[i]["asr"] = 0
  BY <1>1
<1>4. SessionInv
  <2>1. ready \in BOOLEAN /\ written \in BOOLEAN /\ repeated \in BOOLEAN
    BY <1>1
  <2>2. failure \in Codes \cup {"none"} /\ generation \in Nat /\ Len(requests) <= MaxRequests
        /\ holder \in 0..Len(requests) /\ completed \subseteq Items /\ events \in Nat /\ seen \subseteq 1..events
    BY <1>1, <1>2
  <2> QED
    BY <1>1, <1>2, <1>3, <2>1, <2>2 DEF SessionInv
<1>5. GoodAdapter(adapter)
  <2>1. NewAdapter \in AdapterFields /\ NewAdapter.update = 0 /\ NewAdapter.response = 0
    BY <1>2 DEF NewAdapter, AdapterFields
  <2> QED
    BY <1>1, <2>1 DEF GoodAdapter
<1>6. ClosedTable(table)
  <2>1. DOMAIN table = {}
    BY <1>1 DEF EmptyTable
  <2> QED
    BY <2>1 DEF ClosedTable
<1>7. OutboxInv /\ InboxInv
  <2>1. \A k \in 1..0 : FALSE
    OBVIOUS
  <2> QED
    BY <1>1, <1>2, <2>1 DEF OutboxInv, InboxInv
<1>8. OnceInv /\ WaiterIsKnown
  BY <1>1, <1>3 DEF OnceInv, WaiterIsKnown
<1>9. AckInv
  <2> SUFFICES ASSUME NEW kind \in {"message", "instructions"}, NEW body \in Bodies
               PROVE  Cardinality(Acked(kind, body)) + Cardinality(Fresh(kind, body))
                         <= Cardinality(Carried(kind, body))
    BY DEF AckInv
  <2>1. Acked(kind, body) = {} /\ Fresh(kind, body) = {} /\ Carried(kind, body) = {}
    BY <1>1, <1>2 DEF Acked, Fresh, Carried
  <2> QED
    BY <2>1, FS_EmptySet
<1> QED
  BY <1>4, <1>5, <1>6, <1>7, <1>8, <1>9 DEF IInv, Core

\* What a step does to the identity table.
TableStep ==
    IF generation' = generation THEN Keeps(table, table')
    ELSE DOMAIN table' = {id \in DOMAIN table : table[id].role = "user" /\ table[id].confirmed}

\* Every step keeps the invariant and what the table knows.
LEMMA NextIInv == IInv /\ [Next]_vars => IInv' /\ TableStep
<1> SUFFICES ASSUME IInv, [Next]_vars PROVE IInv' /\ TableStep
  OBVIOUS
<1>0. ASSUME table' = table, generation' = generation PROVE TableStep
  BY <1>0, TableStays DEF TableStep
<1>1. ASSUME NEW kind \in Kinds, NEW body \in Bodies, Inject(kind, body) PROVE IInv' /\ TableStep
  <2>1. table' = table /\ generation' = generation
    BY <1>1 DEF Inject
  <2> QED
    BY <1>0, <1>1, <2>1, InjectInv
<1>2. CASE Send
  <2>1. table' = table /\ generation' = generation
    BY <1>2 DEF Send
  <2> QED
    BY <1>0, <1>2, <2>1, SendInv
<1>3. CASE CallerCancelled
  <2>1. table' = table /\ generation' = generation
    BY <1>3 DEF CallerCancelled
  <2> QED
    BY <1>0, <1>3, <2>1, CallerCancelledInv
<1>4. CASE Reopen
  <2>1. generation' # generation /\ table' = BeginGeneration(table)
    BY <1>4, IInvParts DEF Reopen, SessionInv
  <2>2. TableStep
    BY <2>1, IInvParts, BeginGenerationKeeps DEF TableStep
  <2> QED
    BY <1>4, <2>2, ReopenInv
<1>5. ASSUME NEW code \in {"TIMEOUT", "UNAVAILABLE"}, SessionEnds(code) PROVE IInv' /\ TableStep
  <2>1. table' = table /\ generation' = generation
    BY <1>5 DEF SessionEnds
  <2> QED
    BY <1>0, <1>5, <2>1, SessionEndsInv
<1>6. ASSUME NEW again \in BOOLEAN, Receive(again) \/ Announce(again) PROVE IInv' /\ TableStep
  BY <1>6, ReceiveInv, AnnounceInv DEF TableStep
<1>7. CASE Carry
  <2>1. table' = table /\ generation' = generation
    BY <1>7 DEF Carry
  <2> QED
    BY <1>0, <1>7, <2>1, CarryInv
<1>8. ASSUME NEW named \in BOOLEAN, Refuse(named) PROVE IInv' /\ TableStep
  <2>1. table' = table /\ generation' = generation
    BY <1>8 DEF Refuse
  <2> QED
    BY <1>0, <1>8, <2>1, RefuseInv
<1>9. CASE UNCHANGED vars
  <2>1. /\ provider' = provider /\ failure' = failure /\ ready' = ready /\ completed' = completed
        /\ requests' = requests /\ holder' = holder /\ written' = written /\ seen' = seen
        /\ reported' = reported /\ adapter' = adapter /\ table' = table /\ outbox' = outbox
        /\ inbox' = inbox /\ events' = events /\ repeated' = repeated /\ applied' = applied
        /\ generation' = generation
    BY <1>9 DEF vars, session, wire
  <2>2. Grows /\ NoNewAck
    BY <2>1, IInvParts, SameGrows DEF NoNewAck
  <2>3. SessionInv' /\ GoodAdapter(adapter)' /\ ClosedTable(table)' /\ OutboxInv' /\ OnceInv' /\ WaiterIsKnown'
    BY <2>1, IInvParts DEF SessionInv, Active, GoodAdapter, AdapterFields, OutboxInv, OnceInv, WaiterIsKnown, IsPending
  <2>4. InboxInv' /\ \A k \in {"message", "instructions"}, b \in Bodies : Fresh(k, b)' \subseteq Fresh(k, b)
    BY <2>1, <2>2, IInvParts, InboxStays
  <2>5. AckInv'
    BY <2>1, <2>2, <2>3, <2>4, IInvParts, AckQuiet
  <2> QED
    BY <1>0, <2>1, <2>3, <2>4, <2>5 DEF IInv, Core
<1> QED
  BY <1>1, <1>2, <1>3, <1>4, <1>5, <1>6, <1>7, <1>8, <1>9 DEF Next

\* The invariant holds throughout, whatever the provider sends and sends again.
LEMMA AlwaysIInv == Spec => []IInv
BY InitIInv, NextIInv, PTL DEF Spec

\* The state of the session and of either adapter keeps its types, and the identity table
\* stays closed under aliases, whatever the provider sends, sends again or mixes up.
THEOREM AdapterTypes == Spec => []TypeOK
<1>1. IInv => TypeOK
  <2> SUFFICES ASSUME IInv PROVE TypeOK
    OBVIOUS
  <2>1. adapter \in AdapterFields /\ DOMAIN requests = 1..Len(requests) /\ holder \in 0..Len(requests)
    BY IInvParts DEF GoodAdapter
  <2>2. /\ adapter.pending \subseteq DOMAIN requests /\ adapter.seenItems \subseteq Items
        /\ adapter.update \in 0..Len(requests) /\ adapter.response \in 0..Len(requests)
    BY <2>1 DEF AdapterFields
  <2>3. /\ provider \in Providers /\ ready \in BOOLEAN /\ written \in BOOLEAN
        /\ failure \in Codes \cup {"none"} /\ completed \subseteq Items
    BY IInvParts DEF SessionInv
  <2>4. failure \in {"none", "TIMEOUT", "UNAVAILABLE", "PROTOCOL_ERROR", "UNSUPPORTED",
                     "INVALID_REQUEST", "RATE_LIMITED"}
    BY <2>3 DEF Codes
  <2>5. /\ DOMAIN table \subseteq Items
        /\ \A id \in DOMAIN table :
              /\ table[id] \in Identity
              /\ id \in table[id].aliases
              /\ table[id].aliases \subseteq DOMAIN table
              /\ \A a \in table[id].aliases : table[a] = table[id]
    BY IInvParts DEF ClosedTable
  <2> QED
    BY <2>1, <2>2, <2>3, <2>4, <2>5 DEF TypeOK
<1> QED
  BY <1>1, AlwaysIInv, PTL

\* No more messages, or instructions, of a role and text count as accepted than the
\* provider accepted: _context_message_created of the Qwen adapter, the item.created of
\* OpenAI's and the session.updated of both never confirm a request twice, nor from the
\* answer to one with other content.
THEOREM AdapterAcksTruly == Spec => []AckedWasApplied
<1>1. IInv => AckedWasApplied
  <2> SUFFICES ASSUME IInv, NEW kind \in {"message", "instructions"}, NEW body \in Bodies
               PROVE  Cardinality({r \in DOMAIN requests : (requests[r].kind = kind /\ requests[r].body = body)
                                                           /\ requests[r].end = "acked"})
                        <= Cardinality({r \in applied : requests[r].kind = kind /\ requests[r].body = body})
    BY DEF AckedWasApplied
  <2>1. /\ {r \in DOMAIN requests : (requests[r].kind = kind /\ requests[r].body = body)
                                    /\ requests[r].end = "acked"} = Acked(kind, body)
        /\ {r \in applied : requests[r].kind = kind /\ requests[r].body = body} = Carried(kind, body)
    BY DEF Acked, Carried
  <2>2. Cardinality(Acked(kind, body)) + Cardinality(Fresh(kind, body)) <= Cardinality(Carried(kind, body))
    BY IInvParts DEF AckInv
  <2>3. Cardinality(Acked(kind, body)) \in Nat /\ Cardinality(Fresh(kind, body)) \in Nat
        /\ Cardinality(Carried(kind, body)) \in Nat
    <3>1. IsFiniteSet(1..Len(requests)) /\ IsFiniteSet(1..events)
      BY IInvParts, FS_Interval
    <3>2. Acked(kind, body) \subseteq 1..Len(requests) /\ Fresh(kind, body) \subseteq 1..events
          /\ Carried(kind, body) \subseteq 1..Len(requests)
      BY IInvParts DEF Acked, Fresh, Carried, OutboxInv
    <3> QED
      BY <3>1, <3>2, FS_Subset, FS_CardinalityType
  <2>4. Cardinality(Acked(kind, body)) <= Cardinality(Carried(kind, body))
    BY <2>2, <2>3
  <2> QED
    BY <2>1, <2>4, Zenon
<1> QED
  BY <1>1, AlwaysIInv, PTL

\* While a caller waits for its request the adapter still has it in _context_events, so
\* that the answer can find it.
THEOREM AdapterKnowsWaiter == Spec => []WaiterIsKnown
<1>1. IInv => WaiterIsKnown
  BY IInvParts
<1> QED
  BY <1>1, AlwaysIInv, PTL

\* Over all generations of a logical session the Qwen adapter's transcription of an item
\* is published at most once (_completed_inputs).
THEOREM AdapterTranscribesOnce == Spec => []TranscriptionOnce
<1>1. IInv => TranscriptionOnce
  BY IInvParts DEF OnceInv, TranscriptionOnce
<1> QED
  BY <1>1, AlwaysIInv, PTL

\* register never changes whose an item is and never takes a confirmation back, and
\* begin_generation keeps exactly the confirmed items of the user.
THEOREM AdapterIdentityStable == Spec => IdentityStable
<1>1. TableStep =>
        IF generation' = generation
        THEN \A id \in DOMAIN table :
                /\ id \in DOMAIN table'
                /\ table'[id].role = table[id].role
                /\ table'[id].canonical = table[id].canonical
                /\ table[id].confirmed => table'[id].confirmed
        ELSE DOMAIN table' =
               {id \in DOMAIN table : table[id].role = "user" /\ table[id].confirmed}
  BY DEF TableStep, Keeps
<1> QED
  BY <1>1, NextIInv, AlwaysIInv, PTL DEF Spec, IdentityStable

===============================================================================
