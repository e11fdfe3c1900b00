----------------------------- MODULE HarnessService ----------------------------
(***************************************************************************)
(* The durable commands of the harness as the service shows them           *)
(* (service.py, transports/unix.py).  The harness itself is a library: its *)
(* store is modelled from how the service reads it.  The service keeps no  *)
(* state of its own; it turns a command and its run, read one after the    *)
(* other, into the outcome a client sees.                                  *)
(*                                                                         *)
(* A run has one start command and at most one cancel command.  A request  *)
(* is "sent" while it is on the socket: it may still be served after its   *)
(* client has given it up.                                                 *)
(***************************************************************************)
EXTENDS Naturals, Sequences

CONSTANT MaxRuns    \* bound on the runs a client starts

ASSUME RunsAssumption == MaxRuns \in Nat

Runs == 1..MaxRuns
None == 0           \* no run, no command, no task

Commands == {"start", "cancel"}
CommandStates == {"none", "sent", "refused", "accepted", "applied", "rejected", "cancelled"}
RunStates == {"none", "running", "completed", "failed", "cancelled"}
EndStates == {"completed", "failed", "cancelled"}
Outcomes == {"pending", "completed", "failed", "cancelled", "protocol_error"}

VARIABLE harness    \* the store: for each run its start, its cancel and its state

Known(r, k) == harness[r][k] \notin {"none", "sent", "refused"}

ServiceInit == harness = [r \in Runs |-> [start |-> "none", cancel |-> "none", run |-> "none"]]

-----------------------------------------------------------------------------
(* Steps of the store. *)

Set(r, k, s) == harness' = [harness EXCEPT ![r][k] = s]

\* _handle and _dispatch: the command is taken, or an error frame ends the connection.
Serve(r, k) ==
    /\ harness[r][k] = "sent"
    /\ \/ Set(r, k, "accepted")
       \/ Set(r, k, "refused")

\* The harness takes up an accepted start, or rejects it.
ApplyStart(r) ==
    /\ harness[r].start = "accepted"
    /\ \/ harness' = [harness EXCEPT ![r].start = "applied", ![r].run = "running"]
       \/ Set(r, "start", "rejected")

\* The run ends by itself.
FinishRun(r) ==
    /\ harness[r].run = "running"
    /\ \E s \in {"completed", "failed"} : Set(r, "run", s)

\* A cancel stops a run, a start that was not taken up yet, or nothing any more.
ApplyCancel(r) ==
    /\ harness[r].cancel = "accepted"
    /\ harness' = [harness EXCEPT
           ![r].cancel = "applied",
           ![r].start = IF @ = "accepted" THEN "cancelled" ELSE @,
           ![r].run = IF @ = "running" THEN "cancelled" ELSE @]

HarnessNext == \E r \in Runs :
    \/ \E k \in Commands : Serve(r, k)
    \/ ApplyStart(r)
    \/ FinishRun(r)
    \/ ApplyCancel(r)

-----------------------------------------------------------------------------
(* What a get returns. *)

\* The command half of a snapshot: its state and the state of its output.
CommandOf(r, k) ==
    [kind |-> k, state |-> harness[r][k],
     output |-> IF k = "cancel" THEN "absent"
                ELSE IF harness[r].run = "completed" THEN "present"
                ELSE IF \/ harness[r].run \in {"failed", "cancelled"}
                        \/ harness[r].start \in {"rejected", "cancelled"}
                THEN "absent" ELSE "pending"]

\* _closed_outcome
ClosedOutcome(c, run) ==
    CASE c.state = "accepted" -> "pending"
      [] c.state # "accepted" /\ c.output = "unknown" -> "protocol_error"
      [] c.state # "accepted" /\ c.output = "present" ->
            IF run = "completed" THEN "completed" ELSE "protocol_error"
      [] c.state # "accepted" /\ c.output = "pending" ->
            IF run \in EndStates THEN "protocol_error" ELSE "pending"
      [] c.state # "accepted" /\ c.output = "absent" ->
            IF c.state = "applied" /\ run = "none"
            THEN IF c.kind = "cancel" THEN "cancelled" ELSE "protocol_error"
            ELSE IF run = "failed" \/ c.state = "rejected" THEN "failed"
            ELSE IF run = "cancelled" \/ c.state = "cancelled" THEN "cancelled"
            ELSE IF run = "completed" THEN "completed"
            ELSE "pending"

\* The snapshot get_command builds from a command and the run it queries after it.
SnapshotOf(c, run) ==
    [kind |-> c.kind, outcome |-> ClosedOutcome(c, run), output |-> c.output, run |-> run]

=============================================================================
