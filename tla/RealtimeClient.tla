----------------------------- MODULE RealtimeClient ----------------------------
(***************************************************************************)
(* RealtimeClient.open (realtime/client.py) with the credential minter     *)
(* (connectors/tokenseller.py), the relay transport                        *)
(* (transports/websocket.py) and the checks of the relay control codec     *)
(* (relay_control.py): several opens, of several clients that may share    *)
(* one recovery state, run concurrently; each reserves a correlation,      *)
(* mints a credential, connects, exchanges open and created, takes a       *)
(* generation and starts its session.                                      *)
(*                                                                         *)
(* A document is what the checks make of it: valid, or wrong in a way      *)
(* that has a code.  What a started session does is in RealtimeSession.    *)
(***************************************************************************)
EXTENDS Integers, FiniteSets

CONSTANTS Opens,          \* calls of open()
          Clients,        \* RealtimeClient objects
          Externals,      \* external session ids
          Correlations,   \* correlations the generator can draw
          MaxRestored     \* bound on the generation of a restored snapshot

ASSUME OpensAssumption == Opens \subseteq Nat
ASSUME RestoredAssumption == MaxRestored \in Nat

NoCorrelation == "no correlation"
ASSUME CorrelationAssumption == NoCorrelation \notin Correlations

\* The codes an application may try again; the others are final.
Retryable == {"rate_limited", "timeout", "unavailable", "internal"}
Stages == {"new", "mint", "minting", "minted", "connect", "open", "created", "start", "closing",
           "failed", "cancelled", "live", "ended"}
Pending == {"mint", "minting", "minted", "connect", "open", "created", "start", "closing"}

VARIABLES
    pc,          \* where each call of open is
    client,      \* the client it was called on
    external,    \* request.external_session_id
    correlation, \* its correlation
    connection,  \* its transport connection: none, open, closed
    generation,  \* the generation of its session, 0 before it has one
    retryable,   \* the error it raises may be tried again
    used,        \* _used_correlations of each client
    counter,     \* _generation of each client
    table,       \* the generation of each identity table of the recovery state
    minting      \* the credential minter is not closed

calls == <<pc, client, external, correlation, connection, generation, retryable>>
state == <<used, counter, table>>
vars == <<calls, state, minting>>

Init ==
    /\ pc = [o \in Opens |-> "new"]
    /\ client \in [Opens -> Clients]
    /\ external \in [Opens -> Externals]
    /\ correlation = [o \in Opens |-> NoCorrelation]
    /\ connection = [o \in Opens |-> "none"]
    /\ generation = [o \in Opens |-> 0]
    /\ retryable = [o \in Opens |-> FALSE]
    /\ used = [c \in Clients |-> {}]
    /\ counter = [c \in Clients |-> 0]
    /\ table \in [Externals -> 0..MaxRestored]
    /\ minting = TRUE

Goto(o, stage) == pc' = [pc EXCEPT ![o] = stage]
Mark(o, error) == retryable' = [retryable EXCEPT ![o] = error \in Retryable]
Raise(o, error) == Goto(o, "failed") /\ Mark(o, error)

-----------------------------------------------------------------------------
(* open and _open_with_correlation: reserve the correlation. *)

\* The correlation is marked used before anything is awaited, and stays used.
Reserve(o, k) ==
    /\ correlation' = [correlation EXCEPT ![o] = k]
    /\ used' = [used EXCEPT ![client[o]] = @ \cup {k}]
    /\ UNCHANGED retryable

\* Mutant: the set of used correlations is not asked.
MutantOpenGenerated(o) ==
    /\ pc[o] = "new"
    /\ \E k \in Correlations : Reserve(o, k) /\ Goto(o, "mint")
    /\ UNCHANGED <<client, external, connection, generation, counter, table, minting>>

\* _reserve_generated_correlation: up to four draws, a used one is drawn again.
OpenGenerated(o) ==
    /\ pc[o] = "new"
    /\ \/ \E k \in Correlations \ used[client[o]] : Reserve(o, k) /\ Goto(o, "mint")
       \/ /\ used[client[o]] # {} /\ Raise(o, "internal")
          /\ UNCHANGED <<correlation, used>>
    /\ UNCHANGED <<client, external, connection, generation, counter, table, minting>>

\* _open_with_correlation: the correlation of a local channel is used once.
OpenWithCorrelation(o) ==
    /\ pc[o] = "new"
    /\ \E k \in Correlations :
          IF k \in used[client[o]]
          THEN Raise(o, "invalid_request") /\ UNCHANGED <<correlation, used>>
          ELSE Reserve(o, k) /\ Goto(o, "mint")
    /\ UNCHANGED <<client, external, connection, generation, counter, table, minting>>

-----------------------------------------------------------------------------
(* The mint and the checks around it. *)

\* What the adapter cannot do, a tool catalogue that is not valid, or a closed minter;
\* otherwise the request is posted.
RequestMint(o) ==
    /\ pc[o] = "mint"
    /\ \/ \E error \in {"invalid_request", "unsupported"} : Raise(o, error)
       \/ ~minting /\ Raise(o, "connector_closed")
       \/ minting /\ Goto(o, "minting") /\ UNCHANGED retryable
    /\ UNCHANGED <<client, external, correlation, connection, generation, state, minting>>

\* _status_code of the minter
MintCode(status) ==
    CASE status = 401 -> "unauthenticated"
      [] status = 403 -> "forbidden"
      [] status = 429 -> "rate_limited"
      [] status \in 400..499 \ {401, 403, 429} -> "invalid_request"
      [] OTHER -> "unavailable"

\* _read_bounded_response: a body that is too large or not as long as declared, and what
\* a broken or slow connection raises on the way.
BodyErrors == {"protocol_error", "timeout", "unavailable"}

\* parse_mint_response and parse_capability: the document is not the one of this profile.
DocumentErrors == {"protocol_error", "unsupported"}

\* mint raises: an HTTP status, a body or a document it refuses.
MintFails(o) ==
    /\ pc[o] = "minting"
    /\ \/ \E status \in {401, 403, 404, 429, 500} : Raise(o, MintCode(status))
       \/ \E error \in BodyErrors \cup DocumentErrors : Raise(o, error)
    /\ UNCHANGED <<client, external, correlation, connection, generation, state, minting>>

\* A response that was under way when the minter was closed may still arrive.
MintReturns(o) ==
    /\ pc[o] = "minting"
    /\ Goto(o, "minted")
    /\ UNCHANGED <<client, external, correlation, connection, generation, retryable, state,
                   minting>>

\* aclose of the minter
CloseMinter ==
    /\ minting
    /\ minting' = FALSE
    /\ UNCHANGED <<calls, state>>

\* validate_minted, called again by open for a minter that does not check.
ValidateMinted(o) ==
    /\ pc[o] = "minted"
    /\ \/ Goto(o, "connect") /\ UNCHANGED retryable
       \/ \E error \in DocumentErrors : Raise(o, error)
    /\ UNCHANGED <<client, external, correlation, connection, generation, state, minting>>

-----------------------------------------------------------------------------
(* The connection. *)

\* _connect_error
ConnectCode(status) ==
    CASE status = 401 -> "unauthenticated"
      [] status = 403 -> "forbidden"
      [] status = 429 -> "rate_limited"
      [] status \in 500..599 -> "unavailable"
      [] status \in 200..499 \ {401, 403, 429} -> "protocol_error"
      [] OTHER -> "unavailable"

\* connect raises, or wait_for cancels it at its timeout.
ConnectFails(o) ==
    /\ pc[o] = "connect"
    /\ \/ \E status \in {0, 401, 403, 404, 429, 503} : Raise(o, ConnectCode(status))
       \/ Raise(o, "timeout")
    /\ UNCHANGED <<client, external, correlation, connection, generation, state, minting>>

Connect(o) ==
    /\ pc[o] = "connect"
    /\ Goto(o, "open")
    /\ connection' = [connection EXCEPT ![o] = "open"]
    /\ UNCHANGED <<client, external, correlation, generation, retryable, state, minting>>

\* Mutant: the error is raised without closing the connection.
MutantFailConnected(o, error) == Raise(o, error) /\ UNCHANGED connection

\* The handlers of open once it is connected: remember the error, close, raise.
FailConnected(o, error) ==
    /\ Goto(o, "closing") /\ Mark(o, error)
    /\ UNCHANGED connection

\* send_text: the write is slow, or the connection is gone.
SendErrors == {"timeout", "unavailable"}

SendOpen(o) ==
    /\ pc[o] = "open"
    /\ \/ Goto(o, "created") /\ UNCHANGED <<retryable, connection>>
       \/ \E error \in SendErrors : FailConnected(o, error)
    /\ UNCHANGED <<client, external, correlation, generation, state, minting>>

\* _closed_classification of what receive_text meets; 0 is a clean close.
ClosedCode(close) ==
    CASE close \in {0, 1000, 1001} -> "unavailable"
      [] close = 1008 -> "forbidden"
      [] close \in {1006, 1011, 1012, 1013, 1014} -> "unavailable"
      [] OTHER -> "protocol_error"

\* receive_text: no answer in time, or a frame that is not text.
ReceiveErrors == {"timeout", "protocol_error"}

\* validate_session_created: not the session.created of this open, or an error of the relay.
CreatedErrors == {"protocol_error", "rate_limited", "unavailable"}

\* The answer is not the session.created of this open.
ReceiveFails(o) ==
    /\ pc[o] = "created"
    /\ \/ \E close \in {1000, 1002, 1006, 1008} : FailConnected(o, ClosedCode(close))
       \/ \E error \in ReceiveErrors \cup CreatedErrors : FailConnected(o, error)
    /\ UNCHANGED <<client, external, correlation, generation, state, minting>>

LargerOf(a, b) == IF a < b THEN b ELSE a

\* Mutant: the generation of the recovery state is not considered.
MutantGenerationFor(c, x) == counter[c] + 1

\* The counter of the client, raised past the table by begin_session.
GenerationFor(c, x) == LargerOf(table[x] + 1, counter[c] + 1)

\* Mutant: the client keeps its own count when begin_session went past it.
MutantBeginSession(o) ==
    /\ pc[o] = "created"
    /\ Goto(o, "start")
    /\ LET g == GenerationFor(client[o], external[o])
       IN /\ generation' = [generation EXCEPT ![o] = g]
          /\ counter' = [counter EXCEPT ![client[o]] = @ + 1]
          /\ table' = [table EXCEPT ![external[o]] = g]
    /\ UNCHANGED <<client, external, correlation, connection, retryable, used, minting>>

\* The answer is valid: the session is built and has its generation, without an await.
BeginSession(o) ==
    /\ pc[o] = "created"
    /\ Goto(o, "start")
    /\ LET g == GenerationFor(client[o], external[o])
       IN /\ generation' = [generation EXCEPT ![o] = g]
          /\ counter' = [counter EXCEPT ![client[o]] = g]
          /\ table' = [table EXCEPT ![external[o]] = g]
    /\ UNCHANGED <<client, external, correlation, connection, retryable, used, minting>>

\* session.start writes the session update and starts the receive loop.
StartSession(o) ==
    /\ pc[o] = "start"
    /\ \/ Goto(o, "live") /\ UNCHANGED <<retryable, connection>>
       \/ \E error \in SendErrors \cup {"invalid_request", "unsupported"} :
             FailConnected(o, error)
    /\ UNCHANGED <<client, external, correlation, generation, state, minting>>

\* Mutant: the close has no timeout and waits for the peer.
MutantCloseFailed(o) ==
    /\ pc[o] = "closing" /\ connection[o] = "closed"
    /\ Goto(o, "failed")
    /\ UNCHANGED <<client, external, correlation, connection, generation, retryable, state,
                   minting>>

\* The close in the handlers: bounded, what it raises is suppressed.
CloseFailed(o) ==
    /\ pc[o] = "closing"
    /\ Goto(o, "failed")
    /\ connection' = [connection EXCEPT ![o] = "closed"]
    /\ UNCHANGED <<client, external, correlation, generation, retryable, state, minting>>

\* The caller cancels open(): no handler catches CancelledError.
CancelOpen(o) ==
    /\ pc[o] \in Pending
    /\ Goto(o, "cancelled")
    /\ UNCHANGED <<client, external, correlation, connection, generation, retryable, state,
                   minting>>

\* The session ends and closes its connection.
EndSession(o) ==
    /\ pc[o] = "live"
    /\ Goto(o, "ended")
    /\ connection' = [connection EXCEPT ![o] = "closed"]
    /\ UNCHANGED <<client, external, correlation, generation, retryable, state, minting>>

-----------------------------------------------------------------------------

\* The steps open() takes by itself; each await in it has a timeout.
OpenNext(o) ==
    \/ RequestMint(o) \/ MintFails(o) \/ MintReturns(o) \/ ValidateMinted(o)
    \/ ConnectFails(o) \/ Connect(o) \/ SendOpen(o) \/ ReceiveFails(o) \/ BeginSession(o)
    \/ StartSession(o) \/ CloseFailed(o)

Next ==
    \/ \E o \in Opens : \/ OpenGenerated(o) \/ OpenWithCorrelation(o) \/ OpenNext(o)
                        \/ CancelOpen(o) \/ EndSession(o)
    \/ CloseMinter

Spec == Init /\ [][Next]_vars /\ \A o \in Opens : WF_vars(OpenNext(o))

-----------------------------------------------------------------------------
(* Properties. *)

Begun(o) == generation[o] > 0

\* ManagedRealtimeSession._is_current_generation
IsCurrent(o) ==
    /\ Begun(o)
    /\ counter[client[o]] = generation[o]
    /\ table[external[o]] = generation[o]

\* Type invariant.
TypeOK ==
    /\ pc \in [Opens -> Stages]
    /\ client \in [Opens -> Clients] /\ external \in [Opens -> Externals]
    /\ correlation \in [Opens -> Correlations \cup {NoCorrelation}]
    /\ connection \in [Opens -> {"none", "open", "closed"}]
    /\ generation \in [Opens -> Nat] /\ retryable \in [Opens -> BOOLEAN]
    /\ used \in [Clients -> SUBSET Correlations]
    /\ counter \in [Clients -> Nat] /\ table \in [Externals -> Nat]
    /\ minting \in BOOLEAN

\* An open() that raises has closed what it connected, at whatever stage it failed; a
\* cancelled one is the exception (its CancelledError passes both handlers).
NoConnectionLeft == \A o \in Opens : pc[o] = "failed" => connection[o] # "open"

\* "SDK allocates a monotonic generation to every open; late events of an old generation
\* cannot enter a new session": of the sessions of one client, and of the sessions of one
\* external id whatever client opened them, at most one is current.
OneCurrent == \A o, p \in Opens :
    /\ o # p /\ (client[o] = client[p] \/ external[o] = external[p])
    /\ IsCurrent(o)
    => ~IsCurrent(p)

\* A session that is alive but no longer current was overtaken: by a later session of its
\* client, whatever external id that one has, or of its external id.  A restored recovery
\* state or a failed mint never silences it, a session that failed to start does.
OnlyOvertaken == \A o \in Opens :
    Begun(o) /\ ~IsCurrent(o) =>
       \E p \in Opens : /\ generation[p] > generation[o]
                        /\ client[p] = client[o] \/ external[p] = external[o]

\* A correlation names one open of a client.
CorrelationsUnique == TypeOK /\ \A o, p \in Opens :
    o # p /\ client[o] = client[p] /\ correlation[o] # NoCorrelation
       => correlation[o] # correlation[p]

\* open() returns a session, raises, or is cancelled: every await in it is bounded.
OpenReturns == \A o \in Opens : pc[o] \in Pending ~> pc[o] \notin Pending

=============================================================================
