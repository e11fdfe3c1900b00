----------------------------- MODULE ChatController ----------------------------
(***************************************************************************)
(* ChatController (chat_controller.py): the one active run of a chat, its  *)
(* cancel task, and the observer that polls the snapshots of both          *)
(* commands, reconciles them and settles the run.                          *)
(*                                                                         *)
(* A run, its start command, its cancel command and the task that submits  *)
(* the cancel share the run's number.  A deadline is armed and passes at   *)
(* any later moment.  Ids, session names and the text of an event are left *)
(* out.                                                                    *)
(***************************************************************************)
EXTENDS HarnessService

VARIABLES
    run,        \* _run_id (and _start_command_id)
    cancelTask, \* _cancel_task (and _cancel_command_id)
    accepted,   \* _cancel_accepted
    reported,   \* _cancel_pending_reported
    cancelSnap, \* _cancel_snapshot
    quitAfter,  \* _quit_after_settle
    runDue,     \* _run_deadline: none, armed, passed
    cancelDue,  \* _cancel_deadline
    task,       \* the task that submits the cancel of each run
    obs,        \* the observer: none, top, read, done, failed
    until,      \* it is an observe_until, not a single observe_once
    late,       \* the deadline of that observe_until has passed
    seen,       \* the identity it observes
    got,        \* what its gets have returned so far
    events,     \* what it returns
    settled     \* history: the terminal event each run was settled with

active == <<run, cancelTask, accepted, reported, cancelSnap, quitAfter, runDue, cancelDue>>
observer == <<obs, until, late, seen, got, events>>
controller == <<active, task, observer, settled, harness>>

NoSnap == [kind |-> "none"]
Unread == "unread"
\* What a call of the client may raise: ServiceError when it is refused, lost or times
\* out; EOFError when the connection is closed within the answer, an IncompleteReadError
\* which _rpc does not catch; another exception when the answer is malformed.  What a
\* failed task has raised is chosen when it is awaited.
Errors == {"ServiceError", "EOFError", "Exception"}

Event(kind, r) == [kind |-> kind, run |-> r]
Terminals == {"Completed", "Failed", "Cancelled", "ProtocolError"}

ControllerInit ==
    /\ ServiceInit
    /\ run = None /\ cancelTask = None /\ accepted = FALSE /\ reported = FALSE
    /\ cancelSnap = NoSnap /\ quitAfter = FALSE /\ runDue = "none" /\ cancelDue = "none"
    /\ task = [r \in Runs |-> "none"]
    /\ obs = "none" /\ until = FALSE /\ late = FALSE /\ seen = None /\ got = <<>>
    /\ events = <<>> /\ settled = [r \in Runs |-> "none"]

-----------------------------------------------------------------------------
(* _submit and _cancel, up to and after the calls of the client. *)

\* _submit asks the client; the identity is stored when the client has answered.
SubmitStart(r) == Set(r, "start", "sent")

SubmitReturns(r) ==
    /\ run' = r /\ runDue' = "armed"
    /\ UNCHANGED <<cancelTask, accepted, reported, cancelSnap, quitAfter, cancelDue>>

\* The first critical section of _cancel: one task for each run.
CreateCancel ==
    IF cancelTask = None
    THEN /\ cancelTask' = run /\ cancelDue' = "armed"
         /\ task' = [task EXCEPT ![run] = "running"]
         /\ Set(run, "cancel", "sent")
    ELSE UNCHANGED <<cancelTask, cancelDue, task, harness>>

\* The waiter of t gives up: reported, if t is still the task of the run.
CancelTimesOut(t) ==
    /\ reported' = (IF cancelTask = t THEN TRUE ELSE reported)
    /\ cancelDue' = (IF cancelTask = t THEN "none" ELSE cancelDue)
    /\ UNCHANGED <<run, cancelTask, accepted, cancelSnap, quitAfter, runDue>>

\* The waiter of t resumes after the cancel was accepted.
CancelReturns(t) ==
    /\ accepted' = (IF cancelTask = t THEN TRUE ELSE accepted)
    /\ UNCHANGED <<run, cancelTask, reported, cancelSnap, quitAfter, runDue, cancelDue>>

\* Mutant: the task of an earlier run marks the cancel of this one as accepted.
MutantSuperviseCancel(t) ==
    /\ task[t] = "running"
    /\ \/ /\ Known(t, "cancel")
          /\ task' = [task EXCEPT ![t] = "ok"]
          /\ accepted' = TRUE
       \/ /\ task' = [task EXCEPT ![t] = "failed"]
          /\ UNCHANGED accepted
    /\ UNCHANGED <<run, cancelTask, reported, cancelSnap, quitAfter, runDue, cancelDue>>
    /\ UNCHANGED <<observer, settled, harness>>

\* The submitting task ends; its answer may be lost.  _supervise_cancel_task.
SuperviseCancel(t) ==
    /\ task[t] = "running"
    /\ \/ /\ Known(t, "cancel")
          /\ task' = [task EXCEPT ![t] = "ok"]
          /\ accepted' = (IF cancelTask = t THEN TRUE ELSE accepted)
       \/ /\ task' = [task EXCEPT ![t] = "failed"]
          /\ UNCHANGED accepted
    /\ UNCHANGED <<run, cancelTask, reported, cancelSnap, quitAfter, runDue, cancelDue>>
    /\ UNCHANGED <<observer, settled, harness>>

-----------------------------------------------------------------------------
(* _reconcile and _settle. *)

\* _reconcile: the terminal event of a run, or "none".
Reconcile(start, cancel) ==
    LET snapshots == {start} \cup (IF cancel = NoSnap THEN {} ELSE {cancel})
        ends == {s.run : s \in snapshots} \cap EndStates
        outcomes == {s.outcome : s \in snapshots}
    IN CASE \E s, t \in ends : s # t -> "ProtocolError"
         [] ends = {"completed"} ->
               IF start.outcome = "completed" /\ start.output = "present"
               THEN "Completed" ELSE "ProtocolError"
         [] ends = {"failed"} -> "Failed"
         [] ends = {"cancelled"} -> "Cancelled"
         [] ends = {} ->
               IF "protocol_error" \in outcomes THEN "ProtocolError"
               ELSE IF /\ cancel # NoSnap
                       /\ \A s \in snapshots : s.outcome = "cancelled" /\ s.run = "none"
               THEN "Cancelled"
               ELSE IF outcomes \cap {"completed", "failed", "cancelled"} # {}
               THEN "ProtocolError" ELSE "none"

\* Mutant: the snapshot of the cancel survives the run.
MutantSettle(verdict, cancel) ==
    /\ settled' = [settled EXCEPT ![run] = verdict]
    /\ run' = None /\ cancelTask' = None /\ accepted' = FALSE /\ reported' = FALSE
    /\ quitAfter' = FALSE /\ runDue' = "none" /\ cancelDue' = "none"
    /\ cancelSnap' = cancel

\* _settle, after the last snapshot of the cancel was stored.
Settle(verdict, cancel) ==
    /\ settled' = [settled EXCEPT ![run] = verdict]
    /\ run' = None /\ cancelTask' = None /\ accepted' = FALSE /\ reported' = FALSE
    /\ cancelSnap' = NoSnap
    /\ quitAfter' = FALSE /\ runDue' = "none" /\ cancelDue' = "none"

-----------------------------------------------------------------------------
(* observe_once and observe_until. *)

StartObserver(whole) ==
    /\ obs' = "top" /\ until' = whole /\ late' = FALSE /\ seen' = run
    /\ got' = <<>> /\ events' = <<>>

\* The observer is cancelled, or its result is dropped.
StopObserver ==
    /\ obs' = "none" /\ seen' = None /\ got' = <<>> /\ events' = <<>>
    /\ until' = FALSE /\ late' = FALSE

Observed(list) == obs' = "done" /\ events' = list /\ got' = <<>> /\ UNCHANGED <<until, late>>

\* Mutant: the deadline stays armed after its CancelPending.
MutantCancelDue ==
    /\ cancelDue = "passed" /\ ~late
    /\ Observed(<<Event("CancelPending", run)>>) /\ seen' = run
    /\ UNCHANGED active

\* The cancel was not reconciled in time: said once, its deadline is cleared.
CancelDue ==
    /\ cancelDue = "passed" /\ ~late
    /\ Observed(<<Event("CancelPending", run)>>) /\ seen' = run
    /\ cancelDue' = "none"
    /\ UNCHANGED <<run, cancelTask, accepted, reported, cancelSnap, quitAfter, runDue>>

\* The deadline of the run or of observe_until has passed.
RunDue ==
    /\ late \/ (cancelDue # "passed" /\ runDue = "passed")
    /\ Observed(<<Event("Timeout", seen)>>)
    /\ UNCHANGED <<seen, active>>

\* _read_snapshots: the cancel is asked for once it is known to be accepted.
ReadSnapshots ==
    /\ ~late /\ cancelDue # "passed" /\ runDue # "passed"
    /\ obs' = "read" /\ seen' = run
    /\ got' = [k \in IF accepted THEN Commands ELSE {"start"} |->
                  [command |-> NoSnap, run |-> Unread]]
    /\ UNCHANGED <<until, late, events, active>>

ObserveTop ==
    /\ obs = "top" /\ run # None
    /\ CancelDue \/ RunDue \/ ReadSnapshots
    /\ UNCHANGED <<task, settled, harness>>

\* HarnessAdapter.get_command: the command first, the state of its run after it.
GetCommand(k) ==
    /\ obs = "read" /\ k \in DOMAIN got /\ Known(seen, k)
    /\ \/ /\ got[k].command = NoSnap
          /\ got' = [got EXCEPT ![k].command = CommandOf(seen, k)]
       \/ /\ got[k].command # NoSnap /\ got[k].run = Unread
          /\ got' = [got EXCEPT ![k].run = harness[seen].run]
    /\ UNCHANGED <<obs, until, late, seen, events, active, task, settled, harness>>

\* _rpc raises in a get.
GetFails ==
    /\ obs = "read"
    /\ obs' = "failed" /\ got' = <<>>
    /\ UNCHANGED <<until, late, seen, events, active, task, settled, harness>>

\* The snapshots are in: reconcile, then settle or poll again.
ObserveReturns ==
    /\ obs = "read" /\ \A k \in DOMAIN got : got[k].run # Unread
    /\ LET snap == [k \in DOMAIN got |-> SnapshotOf(got[k].command, got[k].run)]
           cancel == IF "cancel" \in DOMAIN snap THEN snap["cancel"] ELSE cancelSnap
           verdict == Reconcile(snap["start"], cancel)
       IN IF verdict = "none"
          THEN /\ IF until THEN obs' = "top" /\ events' = <<>>
                  ELSE obs' = "done" /\ events' = <<Event("Pending", seen)>>
               /\ cancelSnap' = cancel
               /\ UNCHANGED <<run, cancelTask, accepted, reported, quitAfter, runDue,
                              cancelDue, settled>>
          ELSE /\ obs' = "done"
               /\ events' = <<Event(verdict, run)>> \o
                     (IF quitAfter THEN <<Event("QuitRequested", run)>> ELSE <<>>)
               /\ Settle(verdict, cancel)
    /\ got' = <<>>
    /\ UNCHANGED <<until, late, seen, task, harness>>

DeadlinePasses ==
    /\ \/ runDue = "armed" /\ runDue' = "passed" /\ UNCHANGED <<cancelDue, late>>
       \/ cancelDue = "armed" /\ cancelDue' = "passed" /\ UNCHANGED <<runDue, late>>
       \/ obs = "top" /\ until /\ ~late /\ late' = TRUE /\ UNCHANGED <<runDue, cancelDue>>
    /\ UNCHANGED <<run, cancelTask, accepted, reported, cancelSnap, quitAfter>>
    /\ UNCHANGED <<task, obs, until, seen, got, events, settled, harness>>

ObserverNext ==
    \/ ObserveTop
    \/ \E k \in Commands : GetCommand(k)
    \/ GetFails
    \/ ObserveReturns

=============================================================================
