------------------------------ MODULE TerminalChat -----------------------------
(***************************************************************************)
(* TerminalChatUI (terminal_ui.py) on a ChatController.  The interactive   *)
(* loop waits for a line of the prompt or for the result of one observer   *)
(* task; while it dispatches a line the observer goes on.  The flat loop   *)
(* reads lines and observes in turn.  An event that cannot be displayed    *)
(* ends either loop in the recovery, which observes the run to its end.    *)
(*                                                                         *)
(* What an event looks like is left out.  Ctrl-C is modelled by the        *)
(* handler the loop has for it.                                            *)
(***************************************************************************)
EXTENDS ChatController

CONSTANTS MaxLines,    \* bound on the lines, Ctrl-C and Ctrl-D a user enters
          MaxFaults    \* bound on the events that cannot be displayed

ASSUME ChatAssumption == MaxLines \in Nat /\ MaxFaults \in Nat

VARIABLES
    mode,       \* interactive or flat
    main,       \* the UI: loop, wait, observe, poll, start, cancel, emit, recover, stopped
    why,        \* what made it dispatch: a line, an interrupt, the end of input
    waiting,    \* the cancel task it waits for
    shown,      \* what it is about to display
    quit,       \* _quit
    code,       \* _exit_code
    buffered,   \* lines typed ahead in the flat loop
    phase,      \* phase of the recovery
    lines, faults,
    asked,      \* history: /quit or the end of input was dispatched
    displayed,  \* history: runs whose terminal event was displayed
    dropped     \* history: runs whose terminal event was dropped with the observer

ui == <<mode, main, why, waiting, shown, quit, code, buffered, phase, lines, faults,
        asked, displayed, dropped>>
vars == <<controller, ui>>

Init ==
    /\ ControllerInit
    /\ mode \in {"interactive", "flat"}
    /\ main = "loop" /\ why = "line" /\ waiting = None /\ shown = <<>>
    /\ quit = FALSE /\ code = 0 /\ buffered = 0 /\ phase = 0 /\ lines = 0 /\ faults = 0
    /\ asked = FALSE /\ displayed = {} /\ dropped = {}

RunsOf(list) == {list[k].run : k \in {i \in DOMAIN list : list[i].kind \in Terminals}}

UserSteps == lines < MaxLines /\ lines' = lines + 1

-----------------------------------------------------------------------------
(* dispatch. *)

\* The finally block of the interactive session stops the observer, whatever it has
\* returned; after a line the loop goes on with it.
Leave(reason) ==
    IF reason = "line"
    THEN UNCHANGED <<observer, dropped>>
    ELSE StopObserver /\ dropped' = dropped \cup RunsOf(events)

\* Emit what was dispatched; a Pending or Accepted event shows nothing.
Emitting(list, reason) == main' = "emit" /\ shown' = list /\ why' = reason

\* Mutant: a run is started while another one is active.
MutantSubmit ==
    /\ \E r \in Runs : /\ harness[r].start = "none"
                       /\ \A q \in Runs : q < r => harness[q].start # "none"
                       /\ SubmitStart(r) /\ waiting' = r
    /\ main' = "start" /\ why' = "line" /\ UNCHANGED shown
    /\ UNCHANGED <<active, task, observer, settled, asked, dropped, quit>>

\* _submit: refused while a run is active.
Submit ==
    /\ \/ run # None /\ Emitting(<<Event("Notice", run)>>, "line") /\ UNCHANGED <<harness, waiting>>
       \/ /\ run = None
          /\ \E r \in Runs : /\ harness[r].start = "none"
                             /\ \A q \in Runs : q < r => harness[q].start # "none"
                             /\ SubmitStart(r) /\ waiting' = r
          /\ main' = "start" /\ why' = "line" /\ UNCHANGED shown
    /\ UNCHANGED <<active, task, observer, settled, asked, dropped, quit>>

\* _cancel up to the wait for its task.
Cancel(reason) ==
    \/ /\ run = None
       /\ Emitting(<<Event("Notice", run)>>, reason)
       /\ UNCHANGED <<active, task, waiting, harness>>
    \/ /\ run # None
       /\ CreateCancel
       /\ IF reported
          THEN Emitting(<<Event("CancelPending", run)>>, reason) /\ UNCHANGED waiting
          ELSE /\ main' = "cancel" /\ why' = reason /\ waiting' = cancelTask'
               /\ UNCHANGED shown
       /\ UNCHANGED <<run, accepted, reported, cancelSnap, runDue>>

CancelLine(reason) ==
    /\ Cancel(reason)
    /\ UNCHANGED <<observer, settled, asked, dropped, quit, quitAfter>>

\* Mutant: the cancel is sent but the quit is not remembered.
MutantQuitLine(reason) ==
    /\ asked' = TRUE
    /\ \/ /\ run = None
          /\ Emitting(<<Event("QuitNow", run)>>, reason)
          /\ UNCHANGED <<active, task, waiting, harness>>
       \/ run # None /\ UNCHANGED quitAfter /\ Cancel(reason)
    /\ UNCHANGED <<observer, settled, dropped, quit>>

\* Quit: at once when idle, otherwise when the cancelled run is settled.
QuitLine(reason) ==
    /\ asked' = TRUE
    /\ \/ /\ run = None
          /\ Emitting(<<Event("QuitNow", run)>>, reason)
          /\ UNCHANGED <<active, task, waiting, harness>>
       \/ run # None /\ quitAfter' = TRUE /\ Cancel(reason)
    /\ UNCHANGED <<observer, settled, dropped, quit>>

\* help, status, clear, new and session: none of them touches the run.
LocalLine ==
    /\ Emitting(<<Event("Notice", run)>>, "line")
    /\ UNCHANGED <<active, task, observer, settled, harness, waiting, asked, dropped, quit>>

\* run(): what is neither an EOFError nor a ServiceError ends the loop in
\* _recover_renderer_failure, which without a run gives up at once.
ToRecovery ==
    IF run = None THEN main' = "stopped" /\ code' = 3 /\ UNCHANGED phase
    ELSE main' = "recover" /\ phase' = 1 /\ UNCHANGED code

Raise(error) ==
    IF error = "Exception" THEN ToRecovery ELSE main' = "stopped" /\ UNCHANGED <<code, phase>>

\* client.start answers, and the flat loop writes a line; or it raises and ends the UI:
\* the run stays on the server.  A malformed answer ends in the recovery, without a run.
StartAnswers ==
    /\ main = "start" /\ waiting' = None
    /\ \/ /\ Known(waiting, "start") /\ SubmitReturns(waiting) /\ UNCHANGED code
          /\ IF mode = "flat" THEN Emitting(<<Event("Accepted", waiting)>>, "line")
             ELSE main' = "loop" /\ UNCHANGED <<shown, why>>
       \/ /\ main' = "stopped" /\ code' \in {code, 3}
          /\ UNCHANGED <<active, shown, why>>
    /\ UNCHANGED <<task, observer, settled, harness, mode, quit, buffered,
                   phase, lines, faults, asked, displayed, dropped>>

\* The wait of _cancel ends: accepted, timed out, or the task has raised.  An EOFError
\* ends the UI as well: where it is taken for a Ctrl-D, the Quit waits for the same task,
\* which raises again.
CancelAnswers ==
    /\ main = "cancel" /\ waiting' = None
    /\ \/ /\ task[waiting] = "ok" /\ CancelReturns(waiting)
          /\ main' = "loop" /\ Leave(why) /\ UNCHANGED <<shown, code, phase>>
       \/ /\ task[waiting] = "failed" /\ Leave("raised")
          /\ \E e \in Errors : Raise(e)
          /\ UNCHANGED <<active, shown>>
       \/ /\ task[waiting] = "running" /\ CancelTimesOut(waiting)
          /\ Emitting(<<Event("CancelPending", waiting)>>, why)
          /\ UNCHANGED <<observer, dropped, code, phase>>
    /\ UNCHANGED <<task, settled, harness, mode, why, quit, buffered, lines, faults,
                   asked, displayed>>

-----------------------------------------------------------------------------
(* _emit_events_now and _emit_flat_events. *)

\* The code each event leaves.
CodeOf(kind) ==
    CASE kind = "Failed" -> 5
      [] kind = "ProtocolError" -> 3
      [] kind = "Timeout" -> 4
      [] kind = "QuitRequested" -> 6
      [] OTHER -> code

Ends(kind) == kind \in {"Failed", "ProtocolError", "Timeout", "QuitRequested", "QuitNow"}

Emit ==
    /\ main = "emit" /\ faults' = faults
    /\ LET last == shown[Len(shown)].kind
       IN /\ quit' = (quit \/ \E k \in DOMAIN shown : Ends(shown[k].kind))
          /\ code' = IF Ends(last) THEN CodeOf(last) ELSE code
    /\ displayed' = displayed \cup RunsOf(shown)
    /\ shown' = <<>> /\ main' = "loop" /\ Leave(why)
    /\ UNCHANGED <<active, task, settled, harness, mode, why, waiting, buffered, phase, lines,
                   asked>>

\* The display raises: both loops are left for _recover_renderer_failure.
EmitFails ==
    /\ main = "emit" /\ faults < MaxFaults /\ faults' = faults + 1
    /\ shown' = <<>> /\ StopObserver /\ dropped' = dropped \cup RunsOf(events)
    /\ ToRecovery
    /\ UNCHANGED <<active, task, settled, harness, mode, why, waiting, quit, buffered, lines,
                   asked, displayed>>

-----------------------------------------------------------------------------
(* _run_interactive_session. *)

Loop ==
    /\ main = "loop"
    /\ IF quit THEN main' = "stopped" /\ Leave("quit")
       ELSE /\ main' = (IF mode = "interactive" THEN "wait"
                        ELSE IF run = None THEN "wait" ELSE "observe")
            /\ IF mode = "interactive" /\ run # None /\ obs = "none"
               THEN StartObserver(TRUE) ELSE UNCHANGED observer
            /\ UNCHANGED dropped
    /\ UNCHANGED <<active, task, settled, harness, mode, why, waiting, shown, quit, code,
                   buffered, phase, lines, faults, asked, displayed>>

\* The observer has returned: its events come before a line.
EmitObserved ==
    /\ mode = "interactive" /\ main = "wait" /\ obs = "done"
    /\ Emitting(events, "line") /\ StopObserver
    /\ UNCHANGED <<active, task, settled, harness, mode, waiting, quit, code, buffered, phase,
                   lines, faults, asked, displayed, dropped>>

\* except EOFError: quit, after the run if one is active.
HandleEOF ==
    IF run # None THEN QuitLine("eof")
    ELSE /\ quit' = TRUE /\ asked' = TRUE /\ main' = "loop" /\ Leave("eof")
         /\ UNCHANGED <<active, task, settled, harness, why, waiting, shown>>

\* The observer has raised: an answer that was cut off is taken for a Ctrl-D.
ObserverRaises ==
    /\ mode = "interactive" /\ main = "wait" /\ obs = "failed"
    /\ \/ HandleEOF /\ UNCHANGED <<code, phase>>
       \/ /\ \E e \in Errors \ {"EOFError"} : Raise(e)
          /\ StopObserver
          /\ UNCHANGED <<active, task, settled, harness, why, waiting, shown, quit, asked, dropped>>
    /\ UNCHANGED <<mode, buffered, lines, faults, displayed>>

\* A line of the prompt, or of an idle flat loop, where lines typed ahead come first.
ReadLine ==
    /\ main = "wait" /\ obs \notin {"done", "failed"}
    /\ IF buffered > 0 THEN buffered' = buffered - 1 /\ UNCHANGED lines /\ Submit
       ELSE /\ UserSteps /\ UNCHANGED buffered
            /\ Submit \/ CancelLine("line") \/ QuitLine("line") \/ LocalLine
    /\ UNCHANGED <<mode, code, phase, faults, displayed>>

\* Ctrl-C at the prompt: cancel the run; twice in a row quits an idle chat.
Interrupt ==
    /\ mode = "interactive" /\ main = "wait" /\ obs # "failed" /\ UserSteps
    /\ IF run # None THEN CancelLine("interrupt")
       ELSE /\ quit' \in BOOLEAN /\ main' = "loop" /\ Leave("interrupt")
            /\ UNCHANGED <<active, task, settled, harness, why, waiting, shown, asked>>
    /\ UNCHANGED <<mode, code, buffered, phase, faults, displayed>>

\* Ctrl-D at the prompt: quit, after the run if one is active.
EndOfInput ==
    /\ mode = "interactive" /\ main = "wait" /\ obs # "failed" /\ UserSteps
    /\ HandleEOF
    /\ UNCHANGED <<mode, code, buffered, phase, faults, displayed>>

-----------------------------------------------------------------------------
(* _run_flat. *)

\* The input ends while the flat loop is idle.
FlatEnd ==
    /\ mode = "flat" /\ main = "wait" /\ buffered = 0
    /\ main' = "stopped" /\ asked' = TRUE
    /\ UNCHANGED <<controller, mode, why, waiting, shown, quit, code, buffered, phase, lines,
                   faults, displayed, dropped>>

\* A queued line while a run is active: commands are dispatched, text is typed ahead.
FlatQueued ==
    /\ mode = "flat" /\ main = "observe" /\ obs = "none" /\ UserSteps
    /\ \/ /\ CancelLine("line") \/ QuitLine("line") \/ LocalLine
          /\ UNCHANGED buffered
       \/ /\ buffered' = buffered + 1 /\ main' = "loop"
          /\ UNCHANGED <<controller, why, waiting, shown, quit, asked, dropped>>
    /\ UNCHANGED <<mode, code, phase, faults, displayed>>

\* No line is queued: observe_once.
FlatObserve ==
    /\ mode = "flat" /\ main = "observe" /\ obs = "none"
    /\ StartObserver(FALSE)
    /\ UNCHANGED <<active, task, settled, harness, ui>>

FlatObserved ==
    /\ mode = "flat" /\ main = "observe" /\ obs \in {"done", "failed"}
    /\ IF obs = "failed" THEN (\E e \in Errors : Raise(e)) /\ UNCHANGED <<shown, why>>
       ELSE /\ IF events[1].kind = "Pending" THEN main' = "poll" /\ UNCHANGED <<shown, why>>
               ELSE Emitting(events, "line")
            /\ UNCHANGED <<code, phase>>
    /\ StopObserver
    /\ UNCHANGED <<active, task, settled, harness, mode, waiting, quit, buffered,
                   lines, faults, asked, displayed, dropped>>

\* The delay between polls ends, or a line comes first and is dispatched whatever it is.
FlatPoll ==
    /\ mode = "flat" /\ main = "poll"
    /\ \/ /\ main' = "loop"
          /\ UNCHANGED <<controller, why, waiting, shown, quit, asked, dropped, lines>>
       \/ UserSteps /\ (Submit \/ CancelLine("line") \/ QuitLine("line") \/ LocalLine)
    /\ UNCHANGED <<mode, code, buffered, phase, faults, displayed>>

-----------------------------------------------------------------------------
(* _recover_renderer_failure. *)

RecoverObserve ==
    /\ main = "recover" /\ obs = "none"
    /\ StartObserver(TRUE)
    /\ UNCHANGED <<active, task, settled, harness, ui>>

\* The code _emit_recovery_events leaves.
RecoveryCode(kind) == IF kind = "Cancelled" THEN 6 ELSE CodeOf(kind)

\* A CancelPending leads to the second phase; after that the recovery gives up.
RecoverObserved ==
    /\ main = "recover" /\ obs \in {"done", "failed"}
    /\ IF obs = "done" /\ events[1].kind = "CancelPending"
       THEN /\ phase' = phase + 1
            /\ IF phase = 2 THEN main' = "stopped" /\ code' = 3 ELSE UNCHANGED <<main, code>>
       ELSE /\ main' = "stopped" /\ UNCHANGED phase
            /\ code' = IF obs = "done" THEN RecoveryCode(events[1].kind) ELSE code
    /\ displayed' = displayed \cup RunsOf(events)
    /\ StopObserver
    /\ UNCHANGED <<active, task, settled, harness, mode, why, waiting, shown, quit, buffered,
                   lines, faults, asked, dropped>>

-----------------------------------------------------------------------------

\* Once the UI has stopped its process is gone.
Background ==
    /\ main # "stopped"
    /\ \/ ObserverNext
       \/ \E r \in Runs : SuperviseCancel(r)
       \/ DeadlinePasses
       \/ HarnessNext /\ UNCHANGED <<active, task, observer, settled>>
    /\ UNCHANGED ui

UserNext == ReadLine \/ Interrupt \/ EndOfInput \/ FlatEnd \/ FlatQueued

MainNext ==
    \/ Loop \/ StartAnswers \/ CancelAnswers \/ Emit \/ EmitFails \/ EmitObserved
    \/ ObserverRaises \/ FlatObserve \/ FlatObserved \/ FlatPoll \/ RecoverObserve \/ RecoverObserved

Next == UserNext \/ MainNext \/ Background

\* The event loop runs every task and timer; users and the harness owe nothing.
Fairness ==
    /\ WF_vars(MainNext)
    /\ WF_vars(ObserverNext /\ UNCHANGED ui)
    /\ WF_vars(DeadlinePasses /\ UNCHANGED ui)

Spec == Init /\ [][Next]_vars /\ Fairness

-----------------------------------------------------------------------------
(* Properties. *)

Kinds == Terminals \cup {"none"}

\* Type invariant of the store, the controller and the UI.
TypeOK ==
    /\ harness \in [Runs -> [start : CommandStates, cancel : CommandStates, run : RunStates]]
    /\ run \in Runs \cup {None} /\ cancelTask \in Runs \cup {None}
    /\ accepted \in BOOLEAN /\ reported \in BOOLEAN /\ quitAfter \in BOOLEAN
    /\ runDue \in {"none", "armed", "passed"} /\ cancelDue \in {"none", "armed", "passed"}
    /\ task \in [Runs -> {"none", "running", "ok", "failed"}]
    /\ obs \in {"none", "top", "read", "done", "failed"} /\ until \in BOOLEAN /\ late \in BOOLEAN
    /\ seen \in Runs \cup {None} /\ settled \in [Runs -> Kinds]
    /\ mode \in {"interactive", "flat"} /\ waiting \in Runs \cup {None}
    /\ main \in {"loop", "wait", "observe", "poll", "start", "cancel", "emit", "recover",
                 "stopped"}
    /\ quit \in BOOLEAN /\ code \in {0, 3, 4, 5, 6} /\ buffered \in 0..MaxLines
    /\ lines \in 0..MaxLines /\ faults \in 0..MaxFaults /\ phase \in 0..3
    /\ asked \in BOOLEAN /\ displayed \subseteq Runs /\ dropped \subseteq Runs

\* _reconcile never tells a run another end than the harness recorded for that run,
\* although command and run are read one after the other, the cancel is asked for only
\* some of the time and its snapshot is kept between polls.  A Cancelled without a run
\* state stands for a start that was never taken up.
SettledTruly == TypeOK /\ \A r \in Runs :
    /\ settled[r] = "Completed" => harness[r].run = "completed"
    /\ settled[r] = "Failed" => harness[r].run = "failed"
    /\ settled[r] = "Cancelled" =>
          \/ harness[r].run = "cancelled"
          \/ harness[r].run = "none" /\ harness[r].start = "cancelled"

\* The chat follows the one run it has started: as long as the UI lives, a run the
\* harness may still work on is the active one or the one being started, and an
\* observer at work observes it (chat_controller.py _active_identity, _settle).
OneLiveRun ==
    main # "stopped" =>
       /\ \A r \in Runs :
             (harness[r].run = "running" \/ harness[r].start \in {"sent", "accepted"})
                => r = run \/ (main = "start" /\ r = waiting)
       /\ obs \in {"top", "read"} => run = seen /\ run # None

\* The marks of a cancel belong to the active run: accepted means the harness has that
\* run's cancel (so no get is refused for asking too early), and neither a mark nor a
\* deadline is left without a cancel.  Late answers come from the tasks of earlier runs.
CancelMarksCurrent ==
    /\ accepted => cancelTask # None /\ Known(cancelTask, "cancel")
    /\ reported => cancelTask # None
    /\ cancelDue # "none" => cancelTask # None
    /\ cancelTask # None => cancelTask = run

\* The comment in _recover_renderer_failure: at most one CancelPending can be emitted,
\* so two phases always reach the end of the run, its deadline or an error.
RecoveryDecides == phase < 3

\* A quit that was dispatched ends the chat, through the cancelled run, its deadline or
\* an error, unless its event was dropped with the observer at a Ctrl-C or Ctrl-D.
QuitEnds == asked ~> (main = "stopped" \/ dropped # {})

\* _wait_for_activity, "Process durable state first": the end of a run the observer has
\* settled reaches the display.
DurableFirst == dropped = {}

=============================================================================
