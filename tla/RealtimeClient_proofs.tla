------------------------- MODULE RealtimeClient_proofs -------------------------
(***************************************************************************)
(* Proofs about RealtimeClient, for any number of opens, clients, external *)
(* ids and correlations: an open that raised holds no connection, its      *)
(* correlation is its own, at most one session of a client or of an        *)
(* external id is current, and a session that is not was overtaken.        *)
(***************************************************************************)
EXTENDS RealtimeClient, TLAPS

Connected == {"open", "created", "start", "closing", "live", "cancelled"}
Before == {"new", "mint", "minting", "minted", "connect", "open", "created"}

\* A connection is held only between connect and the end of the handlers.
ConnectionInv == \A o \in Opens : connection[o] = "open" => pc[o] \in Connected

\* A correlation in use is in the set of its client, and not that of another open.
CorrelationInv ==
    /\ \A o \in Opens : pc[o] = "new" => correlation[o] = NoCorrelation
    /\ \A o \in Opens : correlation[o] # NoCorrelation => correlation[o] \in used[client[o]]
    /\ \A o, p \in Opens :
          o # p /\ client[o] = client[p] /\ correlation[o] # NoCorrelation
             => correlation[o] # correlation[p]

\* A generation comes with the session.
StageInv == \A o \in Opens : pc[o] \in Before => generation[o] = 0

\* The counter of a client and the table of an external id are bounds of their
\* sessions' generations.
BoundInv == \A o \in Opens :
    Begun(o) => generation[o] <= counter[client[o]] /\ generation[o] <= table[external[o]]

\* Sessions that share a client or an external id have different generations.
DistinctInv == \A o, p \in Opens :
    o # p /\ Begun(o) /\ (client[o] = client[p] \/ external[o] = external[p])
      => generation[o] # generation[p]

\* Once there is a session, the bounds are reached by one.
ReachedInv == \A o \in Opens : Begun(o) =>
    /\ \E p \in Opens : client[p] = client[o] /\ generation[p] = counter[client[o]]
    /\ \E p \in Opens : external[p] = external[o] /\ generation[p] = table[external[o]]

GenerationInv == BoundInv /\ DistinctInv /\ ReachedInv

IInv == TypeOK /\ ConnectionInv /\ CorrelationInv /\ StageInv /\ GenerationInv

-----------------------------------------------------------------------------
LEMMA InitInv == Init => IInv
<1> SUFFICES ASSUME Init PROVE IInv
  OBVIOUS
<1>1. TypeOK
  BY RestoredAssumption DEF Init, TypeOK, Stages
<1>2. ConnectionInv /\ CorrelationInv /\ StageInv
  BY DEF Init, ConnectionInv, CorrelationInv, StageInv
<1>3. GenerationInv
  BY DEF Init, GenerationInv, BoundInv, DistinctInv, ReachedInv, Begun
<1> QED
  BY <1>1, <1>2, <1>3 DEF IInv

\* What leaves the generations alone keeps what is said of them.
LEMMA QuietGenerations ==
    ASSUME GenerationInv, UNCHANGED <<client, external, generation, counter, table>>
    PROVE  GenerationInv'
BY DEF GenerationInv, BoundInv, DistinctInv, ReachedInv, Begun

LEMMA QuietCorrelations ==
    ASSUME CorrelationInv, UNCHANGED <<client, correlation, used>>,
           \A o \in Opens : pc'[o] = "new" => pc[o] = "new"
    PROVE  CorrelationInv'
BY DEF CorrelationInv

\* BeginSession takes a generation above the counter and above the table.
LEMMA BeginGenerations ==
    ASSUME IInv, NEW o \in Opens, BeginSession(o)
    PROVE  GenerationInv'
<1> DEFINE g == GenerationFor(client[o], external[o])
<1>1. client[o] \in Clients /\ external[o] \in Externals /\ generation[o] = 0
  BY DEF IInv, TypeOK, StageInv, BeginSession, Before
<1>2. g \in Nat /\ g > counter[client[o]] /\ g > table[external[o]] /\ g > 0
  BY <1>1 DEF IInv, TypeOK, GenerationFor, LargerOf
<1>3. /\ generation' = [generation EXCEPT ![o] = g]
      /\ counter' = [counter EXCEPT ![client[o]] = g]
      /\ table' = [table EXCEPT ![external[o]] = g]
      /\ client' = client /\ external' = external
  BY DEF BeginSession
<1> HIDE DEF g
<1>4. BoundInv'
  BY <1>1, <1>2, <1>3 DEF BoundInv, IInv, TypeOK, GenerationInv, Begun
<1>5. DistinctInv'
  <2> SUFFICES ASSUME NEW p \in Opens, NEW q \in Opens, p # q, generation'[p] > 0,
                      client[p] = client[q] \/ external[p] = external[q]
               PROVE  generation'[p] # generation'[q]
    BY <1>3 DEF DistinctInv, Begun
  <2>1. CASE p # o /\ q # o
    BY <2>1, <1>3 DEF IInv, TypeOK, GenerationInv, DistinctInv, Begun
  <2>2. CASE p = o
    <3>1. generation[q] < g
      BY <2>2, <1>2 DEF IInv, TypeOK, GenerationInv, BoundInv, Begun
    <3> QED
      BY <3>1, <2>2, <1>2, <1>3 DEF IInv, TypeOK
  <2>3. CASE q = o
    <3>1. generation[p] < g
      BY <2>3, <1>2 DEF IInv, TypeOK, GenerationInv, BoundInv, Begun
    <3> QED
      BY <3>1, <2>3, <1>2, <1>3 DEF IInv, TypeOK
  <2> QED
    BY <2>1, <2>2, <2>3
<1>6. ReachedInv'
  <2> SUFFICES ASSUME NEW p \in Opens, generation'[p] > 0
               PROVE  /\ \E q \in Opens : client[q] = client[p]
                                          /\ generation'[q] = counter'[client[p]]
                      /\ \E q \in Opens : external[q] = external[p]
                                          /\ generation'[q] = table'[external[p]]
    BY <1>3 DEF ReachedInv, Begun
  <2>0. generation'[o] = g /\ counter'[client[o]] = g /\ table'[external[o]] = g
    BY <1>1, <1>3 DEF IInv, TypeOK
  <2>1. \E q \in Opens : client[q] = client[p] /\ generation'[q] = counter'[client[p]]
    <3>1. CASE client[p] = client[o]
      BY <2>0, <3>1
    <3>2. CASE client[p] # client[o]
      <4>1. Begun(p) /\ counter'[client[p]] = counter[client[p]]
        BY <3>2, <1>3 DEF IInv, TypeOK, Begun
      <4>2. PICK q \in Opens : client[q] = client[p] /\ generation[q] = counter[client[p]]
        BY <4>1 DEF IInv, GenerationInv, ReachedInv
      <4> QED
        BY <4>1, <4>2, <3>2, <1>3 DEF IInv, TypeOK
    <3> QED
      BY <3>1, <3>2
  <2>2. \E q \in Opens : external[q] = external[p] /\ generation'[q] = table'[external[p]]
    <3>1. CASE external[p] = external[o]
      BY <2>0, <3>1
    <3>2. CASE external[p] # external[o]
      <4>1. Begun(p) /\ table'[external[p]] = table[external[p]]
        BY <3>2, <1>3 DEF IInv, TypeOK, Begun
      <4>2. PICK q \in Opens : external[q] = external[p] /\ generation[q] = table[external[p]]
        BY <4>1 DEF IInv, GenerationInv, ReachedInv
      <4> QED
        BY <4>1, <4>2, <3>2, <1>3 DEF IInv, TypeOK
    <3> QED
      BY <3>1, <3>2
  <2> QED
    BY <2>1, <2>2
<1> QED
  BY <1>4, <1>5, <1>6 DEF GenerationInv

LEMMA BeginInv ==
    ASSUME IInv, NEW o \in Opens, BeginSession(o)
    PROVE  IInv'
<1>1. GenerationInv'
  BY BeginGenerations
<1>2. TypeOK'
  <2>1. GenerationFor(client[o], external[o]) \in Nat
    BY DEF IInv, TypeOK, GenerationFor, LargerOf
  <2> QED
    BY <2>1 DEF IInv, TypeOK, BeginSession, Goto, Stages
<1>3. ConnectionInv' /\ StageInv'
  BY DEF IInv, TypeOK, ConnectionInv, StageInv, BeginSession, Goto, Connected, Before
<1>4. CorrelationInv'
  BY QuietCorrelations DEF IInv, TypeOK, BeginSession, Goto
<1> QED
  BY <1>1, <1>2, <1>3, <1>4 DEF IInv

\* Reserving a correlation, or refusing to.
LEMMA ReserveInv ==
    ASSUME IInv, NEW o \in Opens, OpenGenerated(o) \/ OpenWithCorrelation(o)
    PROVE  IInv'
<1>1. /\ pc[o] = "new"
      /\ UNCHANGED <<client, external, connection, generation, counter, table, minting>>
  BY DEF OpenGenerated, OpenWithCorrelation
<1>2. \/ \E k \in Correlations \ used[client[o]] : Reserve(o, k) /\ Goto(o, "mint")
      \/ /\ \E error \in {"internal", "invalid_request"} : Raise(o, error)
         /\ UNCHANGED <<correlation, used>>
  BY DEF OpenGenerated, OpenWithCorrelation
<1>3. GenerationInv'
  BY <1>1, QuietGenerations DEF IInv
<1>4. CASE \E k \in Correlations \ used[client[o]] : Reserve(o, k) /\ Goto(o, "mint")
  <2>1. PICK k \in Correlations \ used[client[o]] : Reserve(o, k) /\ Goto(o, "mint")
    BY <1>4
  <2>2. TypeOK'
    BY <2>1, <1>1 DEF IInv, TypeOK, Reserve, Goto, Stages
  <2>3. ConnectionInv' /\ StageInv'
    BY <2>1, <1>1 DEF IInv, TypeOK, ConnectionInv, StageInv, Goto, Connected, Before
  <2>4. CorrelationInv'
    BY <2>1, <1>1, CorrelationAssumption DEF IInv, TypeOK, CorrelationInv, Reserve, Goto
  <2> QED
    BY <1>3, <2>2, <2>3, <2>4 DEF IInv
<1>5. CASE /\ \E error \in {"internal", "invalid_request"} : Raise(o, error)
           /\ UNCHANGED <<correlation, used>>
  <2>1. TypeOK' /\ ConnectionInv' /\ StageInv'
    BY <1>5, <1>1 DEF IInv, TypeOK, ConnectionInv, StageInv, Raise, Goto, Mark, Connected,
                      Before, Stages
  <2>2. CorrelationInv'
    BY <1>5, <1>1, QuietCorrelations DEF IInv, TypeOK, Raise, Goto
  <2> QED
    BY <1>3, <2>1, <2>2 DEF IInv
<1> QED
  BY <1>2, <1>4, <1>5

\* The steps that move a call from one stage to the next, or to an end.
Moves(o) ==
    \/ RequestMint(o) \/ MintFails(o) \/ MintReturns(o) \/ ValidateMinted(o)
    \/ ConnectFails(o) \/ Connect(o) \/ SendOpen(o) \/ ReceiveFails(o)
    \/ StartSession(o) \/ CloseFailed(o) \/ CancelOpen(o) \/ EndSession(o)

LEMMA MovesInv ==
    ASSUME IInv, NEW o \in Opens, Moves(o)
    PROVE  IInv'
<1>1. UNCHANGED <<client, external, correlation, generation, used, counter, table, minting>>
  BY DEF Moves, RequestMint, MintFails, MintReturns, ValidateMinted, ConnectFails, Connect,
         SendOpen, ReceiveFails, StartSession, CloseFailed, CancelOpen, EndSession, state
<1>2. \E s \in Stages \ {"new"} : Goto(o, s)
  BY DEF Moves, RequestMint, MintFails, MintReturns, ValidateMinted, ConnectFails, Connect,
         SendOpen, ReceiveFails, StartSession, CloseFailed, CancelOpen, EndSession, Raise,
         FailConnected, Stages
<1>3. UNCHANGED retryable \/ \E error : Mark(o, error)
  BY DEF Moves, RequestMint, MintFails, MintReturns, ValidateMinted, ConnectFails, Connect,
         SendOpen, ReceiveFails, StartSession, CloseFailed, CancelOpen, EndSession, Raise,
         FailConnected
<1>4. /\ UNCHANGED connection
         \/ \E c \in {"open", "closed"} : connection' = [connection EXCEPT ![o] = c]
      /\ (pc'[o] \in Before => pc[o] \in Before)
      /\ (connection'[o] = "open" => pc'[o] \in Connected)
  <2> USE DEF IInv, TypeOK, ConnectionInv, Before, Connected, Goto, Raise, FailConnected, Pending
  <2>1. CASE RequestMint(o)
    BY <2>1 DEF RequestMint
  <2>2. CASE MintFails(o)
    BY <2>2 DEF MintFails
  <2>3. CASE MintReturns(o)
    BY <2>3 DEF MintReturns
  <2>4. CASE ValidateMinted(o)
    BY <2>4 DEF ValidateMinted
  <2>5. CASE ConnectFails(o)
    BY <2>5 DEF ConnectFails
  <2>6. CASE Connect(o)
    BY <2>6 DEF Connect
  <2>7. CASE SendOpen(o)
    BY <2>7 DEF SendOpen
  <2>8. CASE ReceiveFails(o)
    BY <2>8 DEF ReceiveFails
  <2>9. CASE StartSession(o)
    BY <2>9 DEF StartSession
  <2>10. CASE CloseFailed(o)
    BY <2>10 DEF CloseFailed
  <2>11. CASE CancelOpen(o)
    BY <2>11 DEF CancelOpen
  <2>12. CASE EndSession(o)
    BY <2>12 DEF EndSession
  <2> QED
    BY <2>1, <2>2, <2>3, <2>4, <2>5, <2>6, <2>7, <2>8, <2>9, <2>10, <2>11, <2>12 DEF Moves
<1>5. TypeOK'
  <2>1. pc' \in [Opens -> Stages]
    BY <1>2 DEF IInv, TypeOK, Goto
  <2>2. retryable' \in [Opens -> BOOLEAN]
    <3>1. retryable \in [Opens -> BOOLEAN]
      BY DEF IInv, TypeOK
    <3>2. ASSUME NEW error, Mark(o, error)
          PROVE  retryable' \in [Opens -> BOOLEAN]
      <4> DEFINE b == error \in Retryable
      <4>1. b \in BOOLEAN
        <5>1. CASE error \in Retryable
          <6>1. b = TRUE
            BY <5>1
          <6> QED
            BY <6>1
        <5>2. CASE error \notin Retryable
          <6>1. b = FALSE
            BY <5>2
          <6> QED
            BY <6>1
        <5> QED
          BY <5>1, <5>2
      <4>2. retryable' = [retryable EXCEPT ![o] = b]
        BY <3>2 DEF Mark
      <4> HIDE DEF b
      <4> QED
        BY <3>1, <4>1, <4>2
    <3> QED
      BY <1>3, <3>1, <3>2
  <2>3. connection' \in [Opens -> {"none", "open", "closed"}]
    BY <1>4 DEF IInv, TypeOK
  <2> QED
    BY <1>1, <2>1, <2>2, <2>3 DEF IInv, TypeOK
<1>6. ConnectionInv' /\ StageInv'
  BY <1>1, <1>2, <1>4 DEF IInv, TypeOK, ConnectionInv, StageInv, Goto
<1>7. CorrelationInv'
  BY <1>1, <1>2, QuietCorrelations DEF IInv, TypeOK, Goto
<1>8. GenerationInv'
  BY <1>1, QuietGenerations DEF IInv
<1> QED
  BY <1>5, <1>6, <1>7, <1>8 DEF IInv

LEMMA StutterInv ==
    ASSUME IInv, UNCHANGED <<calls, state>>, minting' \in BOOLEAN
    PROVE  IInv'
<1>1. GenerationInv' /\ CorrelationInv'
  BY QuietGenerations, QuietCorrelations DEF IInv, calls, state
<1>2. TypeOK' /\ ConnectionInv' /\ StageInv'
  BY DEF IInv, TypeOK, ConnectionInv, StageInv, calls, state
<1> QED
  BY <1>1, <1>2 DEF IInv

LEMMA NextInv == IInv /\ [Next]_vars => IInv'
<1> SUFFICES ASSUME IInv, [Next]_vars PROVE IInv'
  OBVIOUS
<1>1. CASE \E o \in Opens : OpenGenerated(o) \/ OpenWithCorrelation(o)
  BY <1>1, ReserveInv
<1>2. CASE \E o \in Opens : BeginSession(o)
  BY <1>2, BeginInv
<1>3. CASE \E o \in Opens : Moves(o)
  BY <1>3, MovesInv
<1>4. CASE CloseMinter
  BY <1>4, StutterInv DEF CloseMinter
<1>5. CASE UNCHANGED vars
  BY <1>5, StutterInv DEF vars, IInv, TypeOK
<1> QED
  BY <1>1, <1>2, <1>3, <1>4, <1>5 DEF Next, OpenNext, Moves

LEMMA Invariant == Spec => []IInv
BY InitInv, NextInv, PTL DEF Spec

-----------------------------------------------------------------------------
LEMMA IInvImplies ==
    IInv => NoConnectionLeft /\ OneCurrent /\ OnlyOvertaken /\ CorrelationsUnique
<1> SUFFICES ASSUME IInv
             PROVE  NoConnectionLeft /\ OneCurrent /\ OnlyOvertaken /\ CorrelationsUnique
  OBVIOUS
<1>1. NoConnectionLeft
  BY DEF IInv, ConnectionInv, NoConnectionLeft, Connected
<1>2. OneCurrent
  BY DEF IInv, GenerationInv, DistinctInv, OneCurrent, IsCurrent
<1>3. OnlyOvertaken
  <2> SUFFICES ASSUME NEW o \in Opens, Begun(o), ~IsCurrent(o)
               PROVE  \E p \in Opens : /\ generation[p] > generation[o]
                                       /\ client[p] = client[o] \/ external[p] = external[o]
    BY DEF OnlyOvertaken
  <2>1. generation[o] <= counter[client[o]] /\ generation[o] <= table[external[o]]
    BY DEF IInv, GenerationInv, BoundInv
  <2>2. /\ generation[o] \in Nat /\ counter[client[o]] \in Nat /\ table[external[o]] \in Nat
    BY DEF IInv, TypeOK
  <2>3. generation[o] < counter[client[o]] \/ generation[o] < table[external[o]]
    BY <2>1, <2>2 DEF IsCurrent
  <2> QED
    BY <2>3 DEF IInv, GenerationInv, ReachedInv
<1>4. CorrelationsUnique
  BY DEF IInv, CorrelationInv, CorrelationsUnique
<1> QED
  BY <1>1, <1>2, <1>3, <1>4

\* However the opens of one client, or of one external id over several clients, overlap,
\* fail or are cancelled, at most one of their sessions passes _is_current_generation.
THEOREM OneCurrentTheorem == Spec => []OneCurrent
BY Invariant, IInvImplies, PTL

\* A session loses currency only to a later session of its client or its external id.
THEOREM OnlyOvertakenTheorem == Spec => []OnlyOvertaken
BY Invariant, IInvImplies, PTL

\* open() closes the connection before it raises.
THEOREM NoConnectionLeftTheorem == Spec => []NoConnectionLeft
BY Invariant, IInvImplies, PTL

\* No two opens of a client have the same correlation.
THEOREM CorrelationsUniqueTheorem == Spec => []CorrelationsUnique
BY Invariant, IInvImplies, PTL

=============================================================================
