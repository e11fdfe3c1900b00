------------------------- MODULE TerminalChat_proofs -------------------------
(***************************************************************************)
(* Proofs about TerminalChat: what the chat tells about a run is what the  *)
(* harness recorded for it (SettledTruly), it never loses a live run       *)
(* (OneLiveRun), the marks of a cancel belong to the active run            *)
(* (CancelMarksCurrent), and two phases of the recovery are enough         *)
(* (RecoveryDecides), for any number of runs, lines and display faults.    *)
(***************************************************************************)
EXTENDS TerminalChat, TLAPS

-----------------------------------------------------------------------------
(* What was read of the harness and is still true. *)

Row == [start : CommandStates, cancel : CommandStates, run : RunStates]

\* Nothing more will happen to the run.
Ended(r) == harness[r].run \in EndStates \/ harness[r].start \in {"rejected", "cancelled"}

Outputs == {"absent", "present", "pending"}
Command == [kind : Commands, state : CommandStates, output : Outputs]
Snapshot == [kind : Commands, outcome : Outcomes, output : Outputs, run : RunStates]
Reading == [command : Command \cup {NoSnap}, run : RunStates \cup {Unread}]

\* A command read earlier: an end that it shows is still there.
TrueCommand(c, k, r) ==
    /\ c \in Command /\ c.kind = k
    /\ c.state \in {"accepted", "applied", "rejected", "cancelled"}
    /\ c.state # "accepted" => harness[r][k] = c.state
    /\ c.output = "present" => harness[r].run = "completed"
    /\ c.output = "absent" /\ k = "start" => Ended(r)
    /\ k = "cancel" => c.output = "absent" /\ c.state \in {"accepted", "applied"}

\* The two halves of a get, of which the second may be missing.
TrueRead(g, k, r) ==
    /\ g \in Reading
    /\ g.command = NoSnap => g.run = Unread
    /\ g.command # NoSnap => TrueCommand(g.command, k, r)
    /\ g.run \in EndStates => harness[r].run = g.run
    /\ k = "cancel" /\ g.run = "none" /\ g.command.state = "applied" =>
          harness[r].start \in {"rejected", "cancelled"}

\* A snapshot made of them.
TrueSnap(s, r) ==
    /\ s \in Snapshot
    /\ s.run \in EndStates => harness[r].run = s.run
    /\ s.run \notin EndStates /\ s.outcome # "pending" => Ended(r)
    /\ s.kind = "start" /\ s.outcome = "cancelled" /\ s.run \notin EndStates =>
          harness[r].start = "cancelled"

-----------------------------------------------------------------------------
(* The inductive invariant. *)

\* The store: a run exists once its start is applied, and an applied cancel leaves
\* neither a run at work nor a start to be taken up.
HarnessInv == \A r \in Runs :
    /\ harness[r].run # "none" <=> harness[r].start = "applied"
    /\ harness[r].cancel # "none" => Known(r, "start")
    /\ harness[r].cancel \in {"none", "sent", "refused", "accepted", "applied"}
    /\ harness[r].cancel = "applied" =>
          harness[r].start # "accepted" /\ harness[r].run # "running"

\* The active run was taken by the harness; its cancel is sent only with a task, and the
\* snapshot of the cancel is one of this run.
CancelInv ==
    /\ CancelMarksCurrent
    /\ \A t \in Runs : task[t] = "ok" => Known(t, "cancel")
    /\ run # None => Known(run, "start")
    /\ run # None /\ cancelTask = None => harness[run].cancel = "none"
    /\ cancelSnap # NoSnap => run # None /\ TrueSnap(cancelSnap, run)

\* The observer works on the active run, and what it has read is true of that run.
ObsInv ==
    /\ obs \in {"top", "read"} => run = seen /\ run # None
    /\ obs = "done" /\ events[1].kind = "CancelPending" => run # None
    /\ obs = "read" =>
         /\ "start" \in DOMAIN got /\ DOMAIN got \subseteq Commands
         /\ got \in [DOMAIN got -> Reading]
         /\ \A k \in DOMAIN got : TrueRead(got[k], k, seen)

EventsOK(list) == \A k \in DOMAIN list : list[k].kind \in Terminals => list[k].run \in Runs

\* The run a suspended dispatch waits for, and the events it is about to show.
UiInv ==
    /\ main = "start" => run = None /\ waiting \in Runs /\ harness[waiting].cancel = "none"
    /\ main = "cancel" => waiting \in Runs
    /\ main = "observe" /\ obs = "none" => run # None
    /\ main = "recover" /\ obs = "none" => run # None
    /\ EventsOK(shown) /\ EventsOK(events)
    /\ buffered <= lines

\* The recovery enters its second phase only after the deadline of the cancel was used up.
PhaseInv ==
    /\ main \notin {"recover", "stopped"} => phase = 0
    /\ main = "recover" => phase \in {1, 2}
    /\ main = "recover" /\ obs = "done" /\ events[1].kind = "CancelPending" =>
          phase = 1 /\ cancelDue = "none"
    /\ main = "recover" /\ phase = 2 => cancelDue = "none"
    /\ phase < 3

\* The type invariant by owner.
ControllerType ==
    /\ run \in Runs \cup {None} /\ cancelTask \in Runs \cup {None}
    /\ accepted \in BOOLEAN /\ reported \in BOOLEAN /\ quitAfter \in BOOLEAN
    /\ runDue \in {"none", "armed", "passed"} /\ cancelDue \in {"none", "armed", "passed"}
    /\ task \in [Runs -> {"none", "running", "ok", "failed"}]
    /\ obs \in {"none", "top", "read", "done", "failed"} /\ until \in BOOLEAN /\ late \in BOOLEAN
    /\ seen \in Runs \cup {None} /\ settled \in [Runs -> Kinds]

UiType ==
    /\ mode \in {"interactive", "flat"} /\ waiting \in Runs \cup {None}
    /\ main \in {"loop", "wait", "observe", "poll", "start", "cancel", "emit", "recover",
                 "stopped"}
    /\ quit \in BOOLEAN /\ code \in {0, 3, 4, 5, 6} /\ buffered \in 0..MaxLines
    /\ lines \in 0..MaxLines /\ faults \in 0..MaxFaults /\ phase \in 0..3
    /\ asked \in BOOLEAN /\ displayed \subseteq Runs /\ dropped \subseteq Runs

\* The type invariant is the types of the store, of the controller and of the UI.
LEMMA Types == TypeOK <=> harness \in [Runs -> Row] /\ ControllerType /\ UiType
BY DEF TypeOK, Row, ControllerType, UiType

\* No run has the number of None.
LEMMA NoneIsNoRun == None \notin Runs
BY RunsAssumption DEF None, Runs

-----------------------------------------------------------------------------
(* The store only moves forward. *)

\* What the store has decided stays decided.
Forward ==
    \A r \in Runs :
       /\ harness[r].run \in EndStates => harness'[r].run = harness[r].run
       /\ harness[r].start \in {"applied", "rejected", "cancelled"} =>
             harness'[r].start = harness[r].start
       /\ harness[r].cancel = "applied" => harness'[r].cancel = "applied"
       /\ Known(r, "start") => Known(r, "start")'
       /\ Known(r, "cancel") => Known(r, "cancel")'

\* How a step may change the store: a new start, the cancel of a run that has none, or a
\* step of the harness itself.
Submits(r) == harness[r].start = "none" /\ SubmitStart(r)
Asks(r) == harness[r].cancel = "none" /\ Known(r, "start") /\ Set(r, "cancel", "sent")
Stores == UNCHANGED harness \/ HarnessNext \/ \E r \in Runs : Submits(r) \/ Asks(r)

\* Every change of the store touches one row, and keeps the row's own invariant.
LEMMA StoreForward ==
    ASSUME harness \in [Runs -> Row], HarnessInv, Stores
    PROVE  harness' \in [Runs -> Row] /\ HarnessInv' /\ Forward
<1>1. CASE UNCHANGED harness
  BY <1>1 DEF HarnessInv, Forward, Known
<1>2. ASSUME NEW r \in Runs, NEW row \in Row,
             harness' = [harness EXCEPT ![r] = row],
             \* one row follows the other
             harness[r].run \in EndStates => row.run = harness[r].run,
             harness[r].start \in {"applied", "rejected", "cancelled"} => row.start = harness[r].start,
             harness[r].cancel = "applied" => row.cancel = "applied",
             harness[r].start \notin {"none", "sent", "refused"} => row.start \notin {"none", "sent", "refused"},
             harness[r].cancel \notin {"none", "sent", "refused"} => row.cancel \notin {"none", "sent", "refused"},
             \* and is a row of the invariant
             row.run # "none" <=> row.start = "applied",
             row.cancel # "none" => row.start \notin {"none", "sent", "refused"},
             row.cancel \in {"none", "sent", "refused", "accepted", "applied"},
             row.cancel = "applied" => row.start # "accepted" /\ row.run # "running"
      PROVE  harness' \in [Runs -> Row] /\ HarnessInv' /\ Forward
  <2>1. harness' \in [Runs -> Row]
    BY <1>2
  <2>2. \A q \in Runs : harness'[q] = IF q = r THEN row ELSE harness[q]
    BY <1>2
  <2> QED
    BY <1>2, <2>1, <2>2 DEF HarnessInv, Forward, Known
<1>3. ASSUME NEW r \in Runs PROVE
      /\ harness[r] \in Row
      /\ harness[r] = [start |-> harness[r].start, cancel |-> harness[r].cancel, run |-> harness[r].run]
  BY DEF Row
<1>4. ASSUME NEW r \in Runs, Submits(r)
      PROVE  harness' \in [Runs -> Row] /\ HarnessInv' /\ Forward
  <2> DEFINE row == [harness[r] EXCEPT !["start"] = "sent"]
  <2>1. row \in Row /\ row.start = "sent" /\ row.cancel = harness[r].cancel /\ row.run = harness[r].run
    BY <1>3 DEF Row, CommandStates
  <2>2. harness' = [harness EXCEPT ![r] = row]
    BY <1>4 DEF Submits, SubmitStart, Set
  <2>3. harness[r].start = "none" /\ harness[r].run = "none" /\ harness[r].cancel = "none"
    BY <1>4 DEF Submits, HarnessInv, Known
  <2> HIDE DEF row
  <2> QED
    BY <1>2, <2>1, <2>2, <2>3 DEF EndStates
<1>5. ASSUME NEW r \in Runs, Asks(r)
      PROVE  harness' \in [Runs -> Row] /\ HarnessInv' /\ Forward
  <2> DEFINE row == [harness[r] EXCEPT !["cancel"] = "sent"]
  <2>1. row \in Row /\ row.cancel = "sent" /\ row.start = harness[r].start /\ row.run = harness[r].run
    BY <1>3 DEF Row, CommandStates
  <2>2. harness' = [harness EXCEPT ![r] = row]
    BY <1>5 DEF Asks, Set
  <2>3. harness[r].cancel = "none" /\ harness[r].start \notin {"none", "sent", "refused"}
        /\ (harness[r].run # "none" <=> harness[r].start = "applied")
    BY <1>5 DEF Asks, HarnessInv, Known
  <2> HIDE DEF row
  <2> QED
    BY <1>2, <2>1, <2>2, <2>3
<1>6. ASSUME NEW r \in Runs, NEW k \in Commands, Serve(r, k)
      PROVE  harness' \in [Runs -> Row] /\ HarnessInv' /\ Forward
  <2>1. PICK s \in {"accepted", "refused"} : harness' = [harness EXCEPT ![r][k] = s]
    BY <1>6 DEF Serve, Set
  <2> DEFINE row == [harness[r] EXCEPT ![k] = s]
  <2>2. CASE k = "start"
    <3>1. row \in Row /\ row.start = s /\ row.cancel = harness[r].cancel /\ row.run = harness[r].run
      BY <1>3, <2>2 DEF Row, CommandStates
    <3>2. harness' = [harness EXCEPT ![r] = row]
      BY <2>1
    <3>3. harness[r].start = "sent" /\ harness[r].run = "none" /\ harness[r].cancel = "none"
      BY <1>6, <2>2 DEF Serve, HarnessInv, Known
    <3> HIDE DEF row
    <3> QED
      BY <1>2, <3>1, <3>2, <3>3 DEF EndStates
  <2>3. CASE k = "cancel"
    <3>1. row \in Row /\ row.cancel = s /\ row.start = harness[r].start /\ row.run = harness[r].run
      BY <1>3, <2>3 DEF Row, CommandStates
    <3>2. harness' = [harness EXCEPT ![r] = row]
      BY <2>1
    <3>3. /\ harness[r].cancel = "sent" /\ harness[r].start \notin {"none", "sent", "refused"}
          /\ harness[r].run # "none" <=> harness[r].start = "applied"
      BY <1>6, <2>3 DEF Serve, HarnessInv, Known
    <3> HIDE DEF row
    <3> QED
      BY <1>2, <3>1, <3>2, <3>3
  <2> QED
    BY <2>2, <2>3 DEF Commands
<1>7. ASSUME NEW r \in Runs, ApplyStart(r)
      PROVE  harness' \in [Runs -> Row] /\ HarnessInv' /\ Forward
  <2>1. PICK s \in {"applied", "rejected"} :
            harness' = [harness EXCEPT ![r] = [start |-> s, cancel |-> harness[r].cancel,
                                               run |-> IF s = "applied" THEN "running" ELSE harness[r].run]]
    BY <1>3, <1>7 DEF ApplyStart, Set, Row
  <2> DEFINE row == [start |-> s, cancel |-> harness[r].cancel,
                     run |-> IF s = "applied" THEN "running" ELSE harness[r].run]
  <2>2. row \in Row /\ row.start = s /\ row.cancel = harness[r].cancel
        /\ row.run = IF s = "applied" THEN "running" ELSE harness[r].run
    BY <1>3 DEF Row, CommandStates, RunStates
  <2>3. harness[r].start = "accepted" /\ harness[r].run = "none" /\ harness[r].cancel # "applied"
        /\ harness[r].cancel \in {"none", "sent", "refused", "accepted", "applied"}
    BY <1>7 DEF ApplyStart, HarnessInv
  <2> HIDE DEF row
  <2> QED
    BY <1>2, <2>1, <2>2, <2>3 DEF row, EndStates
<1>8. ASSUME NEW r \in Runs, FinishRun(r)
      PROVE  harness' \in [Runs -> Row] /\ HarnessInv' /\ Forward
  <2>1. PICK s \in {"completed", "failed"} : harness' = [harness EXCEPT ![r]["run"] = s]
    BY <1>8 DEF FinishRun, Set
  <2> DEFINE row == [harness[r] EXCEPT !["run"] = s]
  <2>2. row \in Row /\ row.run = s /\ row.start = harness[r].start /\ row.cancel = harness[r].cancel
    BY <1>3 DEF Row, RunStates
  <2>3. harness' = [harness EXCEPT ![r] = row]
    BY <2>1
  <2>4. /\ harness[r].run = "running" /\ harness[r].start = "applied" /\ harness[r].cancel # "applied"
        /\ harness[r].cancel \in {"none", "sent", "refused", "accepted", "applied"}
    BY <1>8 DEF FinishRun, HarnessInv
  <2> HIDE DEF row
  <2> QED
    BY <1>2, <2>2, <2>3, <2>4 DEF EndStates
<1>9. ASSUME NEW r \in Runs, ApplyCancel(r)
      PROVE  harness' \in [Runs -> Row] /\ HarnessInv' /\ Forward
  <2> DEFINE row == [start |-> IF harness[r].start = "accepted" THEN "cancelled" ELSE harness[r].start,
                     cancel |-> "applied",
                     run |-> IF harness[r].run = "running" THEN "cancelled" ELSE harness[r].run]
  <2>1. row \in Row
        /\ row.start = (IF harness[r].start = "accepted" THEN "cancelled" ELSE harness[r].start)
        /\ row.cancel = "applied"
        /\ row.run = (IF harness[r].run = "running" THEN "cancelled" ELSE harness[r].run)
    BY <1>3 DEF Row, CommandStates, RunStates
  <2>2. harness' = [harness EXCEPT ![r] = row]
    <3>1. harness[r] \in Row /\ harness \in [Runs -> Row]
      BY <1>3
    <3>2. harness' \in [Runs -> Row]
      BY <3>1, <1>9 DEF ApplyCancel, Row, CommandStates, RunStates
    <3>3. harness'[r] = row
      <4>1. /\ harness'[r].start = row.start
            /\ harness'[r].cancel = row.cancel
            /\ harness'[r].run = row.run
        BY <3>1, <1>9, <2>1 DEF ApplyCancel, Row
      <4>2. harness'[r] \in Row
        BY <3>2
      <4> QED
        BY <2>1, <4>1, <4>2 DEF Row
    <3>4. \A q \in Runs : q # r => harness'[q] = harness[q]
      BY <3>1, <1>9 DEF ApplyCancel
    <3> QED
      BY <3>1, <3>2, <3>3, <3>4
  <2>3. /\ harness[r].cancel = "accepted" /\ harness[r].start \notin {"none", "sent", "refused"}
        /\ harness[r].run # "none" <=> harness[r].start = "applied"
    BY <1>9 DEF ApplyCancel, HarnessInv, Known
  <2> HIDE DEF row
  <2> QED
    BY <1>2, <2>1, <2>2, <2>3 DEF EndStates
<1> QED
  BY <1>1, <1>4, <1>5, <1>6, <1>7, <1>8, <1>9 DEF Stores, HarnessNext

-----------------------------------------------------------------------------
(* What was true when it was read stays true. *)

\* As long as the store moves forward, a command, a get and a snapshot stay true.
LEMMA TruthStays ==
    ASSUME Forward, NEW r \in Runs
    PROVE  /\ Ended(r) => Ended(r)'
           /\ \A k \in Commands : \A c : TrueCommand(c, k, r) => TrueCommand(c, k, r)'
           /\ \A k \in Commands : \A g : TrueRead(g, k, r) => TrueRead(g, k, r)'
           /\ \A s : TrueSnap(s, r) => TrueSnap(s, r)'
<1>1. Ended(r) => Ended(r)'
  BY DEF Forward, Ended
<1>2. ASSUME NEW k \in Commands, NEW c, TrueCommand(c, k, r)
      PROVE  TrueCommand(c, k, r)'
  BY <1>1, <1>2 DEF Forward, TrueCommand, Commands, EndStates
<1>3. ASSUME NEW k \in Commands, NEW g, TrueRead(g, k, r)
      PROVE  TrueRead(g, k, r)'
  <2>1. g.command # NoSnap => TrueCommand(g.command, k, r)'
    BY <1>2, <1>3 DEF TrueRead
  <2> QED
    BY <1>3, <2>1 DEF Forward, TrueRead
<1>4. ASSUME NEW s, TrueSnap(s, r)
      PROVE  TrueSnap(s, r)'
  BY <1>1, <1>4 DEF Forward, TrueSnap
<1> QED
  BY <1>1, <1>2, <1>3, <1>4

\* The command half of a get is true of the store it was read from.
LEMMA CommandTrue ==
    ASSUME harness \in [Runs -> Row], HarnessInv,
           NEW r \in Runs, NEW k \in Commands, Known(r, k)
    PROVE  TrueCommand(CommandOf(r, k), k, r)
<1> DEFINE c == CommandOf(r, k)
<1>1. harness[r].start \in CommandStates /\ harness[r].cancel \in CommandStates
  BY DEF Row
<1>2. harness[r][k] \in CommandStates
  BY <1>1 DEF Commands
<1>3. /\ k = "cancel" => c.output = "absent"
      /\ k = "start" /\ harness[r].run = "completed" => c.output = "present"
      /\ k = "start" /\ harness[r].run # "completed" =>
            c.output = IF Ended(r) THEN "absent" ELSE "pending"
  BY DEF CommandOf, Ended, EndStates, Commands
<1>4. c.kind = k /\ c.state = harness[r][k] /\ c.output \in Outputs
  BY <1>3 DEF CommandOf, Outputs, Commands
<1>5. c \in Command
  BY <1>2, <1>4 DEF Command, CommandOf
<1>6. c.state \in {"accepted", "applied", "rejected", "cancelled"}
  BY <1>2, <1>4 DEF Known, CommandStates
<1>7. k = "cancel" => c.state \in {"accepted", "applied"}
  BY <1>4, <1>6 DEF HarnessInv
<1> HIDE DEF c
<1> QED
  BY <1>3, <1>4, <1>5, <1>6, <1>7 DEF TrueCommand, Commands, c

\* The state of the run, read after the command, makes a get that is true.
LEMMA ReadTrue ==
    ASSUME harness \in [Runs -> Row], HarnessInv,
           NEW r \in Runs, NEW k \in Commands, NEW g, TrueRead(g, k, r)
    PROVE  /\ g.command = NoSnap /\ Known(r, k) =>
                 TrueRead([g EXCEPT !.command = CommandOf(r, k)], k, r)
           /\ g.command # NoSnap => TrueRead([g EXCEPT !.run = harness[r].run], k, r)
<1>0. g \in Reading
  BY DEF TrueRead
<1>1. ASSUME g.command = NoSnap, Known(r, k)
      PROVE  TrueRead([g EXCEPT !.command = CommandOf(r, k)], k, r)
  <2> DEFINE c == CommandOf(r, k)
             h == [g EXCEPT !.command = c]
  <2>1. TrueCommand(c, k, r)
    BY <1>1, CommandTrue
  <2> HIDE DEF c
  <2>2. h.command = c /\ h.run = g.run /\ h \in Reading
    BY <1>0, <2>1 DEF Reading, TrueCommand
  <2>3. g.run = Unread
    BY <1>1 DEF TrueRead
  <2>4. c # NoSnap
    BY <2>1 DEF TrueCommand, NoSnap, Commands
  <2> HIDE DEF h
  <2>5. TrueRead(h, k, r)
    BY <2>1, <2>2, <2>3, <2>4 DEF TrueRead, Unread, EndStates
  <2> QED
    BY <2>5 DEF h, c
<1>2. ASSUME g.command # NoSnap
      PROVE  TrueRead([g EXCEPT !.run = harness[r].run], k, r)
  <2> DEFINE h == [g EXCEPT !.run = harness[r].run]
  <2>1. h.command = g.command /\ h.run = harness[r].run /\ h \in Reading
    BY <1>0 DEF Reading, Row
  <2>2. TrueCommand(g.command, k, r)
    BY <1>2 DEF TrueRead
  <2>3. ASSUME k = "cancel", h.run = "none", h.command.state = "applied"
        PROVE  harness[r].start \in {"rejected", "cancelled"}
    <3>1. harness[r].cancel = "applied" /\ harness[r].run = "none"
      BY <2>1, <2>2, <2>3 DEF TrueCommand
    <3>2. /\ harness[r].start \notin {"none", "sent", "refused"}
          /\ harness[r].start # "accepted" /\ harness[r].start # "applied"
      BY <3>1 DEF HarnessInv, Known
    <3> QED
      BY <3>2 DEF Row, CommandStates
  <2> HIDE DEF h
  <2>4. TrueRead(h, k, r)
    BY <1>2, <2>1, <2>2, <2>3 DEF TrueRead
  <2> QED
    BY <2>4 DEF h
<1> QED
  BY <1>1, <1>2

\* service.py get_command: command and run are read one after the other, and still the
\* snapshot made of them is true of the store.
LEMMA SnapTrue ==
    ASSUME NEW r \in Runs, NEW k \in Commands, NEW g, TrueRead(g, k, r),
           g.command # NoSnap, g.run # Unread
    PROVE  /\ TrueSnap(SnapshotOf(g.command, g.run), r)
           /\ SnapshotOf(g.command, g.run).kind = k
<1> DEFINE c == g.command
           s == SnapshotOf(g.command, g.run)
           o == ClosedOutcome(g.command, g.run)
<1>1. TrueCommand(c, k, r) /\ g.run \in RunStates
  BY DEF TrueRead, Reading
<1>2. /\ c \in Command /\ c.kind = k /\ c.output \in Outputs
      /\ c.state \in {"accepted", "applied", "rejected", "cancelled"}
  BY <1>1 DEF TrueCommand, Command
<1>3. o \in Outcomes
  BY <1>2 DEF ClosedOutcome, Outcomes, Outputs
<1>4. s \in Snapshot /\ s.kind = k /\ s.outcome = o /\ s.output = c.output /\ s.run = g.run
  BY <1>1, <1>2, <1>3 DEF SnapshotOf, Snapshot
<1>5. ASSUME g.run \notin EndStates, o # "pending"
      PROVE  Ended(r)
  <2>1. c.state # "accepted" /\ c.output # "pending" /\ harness[r][k] = c.state
    BY <1>1, <1>2, <1>5 DEF ClosedOutcome, TrueCommand
  <2>2. CASE c.output = "present"
    BY <1>1, <2>2 DEF TrueCommand, Ended, EndStates
  <2>3. CASE c.output = "absent" /\ k = "start"
    BY <1>1, <2>3 DEF TrueCommand
  <2>4. CASE c.output = "absent" /\ k = "cancel"
    <3>1. c.state = "applied"
      BY <1>1, <2>1, <2>4 DEF TrueCommand
    <3>2. g.run = "none"
      BY <1>1, <1>2, <1>5, <2>4, <3>1 DEF ClosedOutcome, RunStates, EndStates
    <3> QED
      BY <2>4, <3>1, <3>2 DEF TrueRead, Ended
  <2> QED
    BY <1>2, <2>1, <2>2, <2>3, <2>4 DEF Outputs, Commands
<1>6. ASSUME k = "start", o = "cancelled", g.run \notin EndStates
      PROVE  harness[r].start = "cancelled"
  <2>1. c.state # "accepted" /\ c.output = "absent"
    BY <1>2, <1>6 DEF ClosedOutcome, Outputs
  <2>2. c.state = "cancelled"
    BY <1>2, <1>6, <2>1 DEF ClosedOutcome, EndStates
  <2> QED
    BY <1>1, <1>6, <2>2 DEF TrueCommand
<1>7. g.run \in EndStates => harness[r].run = g.run
  BY DEF TrueRead
<1> HIDE DEF s, o, c
<1>8. TrueSnap(s, r)
  BY <1>4, <1>5, <1>6, <1>7 DEF TrueSnap
<1> QED
  BY <1>4, <1>8 DEF s

\* chat_controller.py _reconcile: the verdict it takes from two true snapshots is the end
\* the store has for the run.
Verdict(v, r) ==
    /\ v \in Kinds
    /\ v # "none" => Ended(r)
    /\ v = "Completed" => harness[r].run = "completed"
    /\ v = "Failed" => harness[r].run = "failed"
    /\ v = "Cancelled" =>
          \/ harness[r].run = "cancelled"
          \/ harness[r].run = "none" /\ harness[r].start = "cancelled"
LEMMA VerdictTrue ==
    ASSUME HarnessInv, NEW r \in Runs, NEW s, TrueSnap(s, r), s.kind = "start",
           NEW c, c # NoSnap => TrueSnap(c, r)
    PROVE  Verdict(Reconcile(s, c), r)
<1> DEFINE snapshots == {s} \cup (IF c = NoSnap THEN {} ELSE {c})
           ends == {t.run : t \in snapshots} \cap EndStates
           outcomes == {t.outcome : t \in snapshots}
           v == Reconcile(s, c)
<1>1. \A t \in snapshots : TrueSnap(t, r) /\ t.outcome \in Outcomes
  BY DEF TrueSnap, Snapshot
<1>2. \A e \in ends : e = harness[r].run /\ e \in EndStates
  BY <1>1 DEF TrueSnap
<1>3. \A t \in snapshots : t.run \in EndStates => t.run \in ends
  OBVIOUS
<1>4. ~ \E e, f \in ends : e # f
  BY <1>2
<1>5. v = IF ends = {"completed"} THEN
             IF s.outcome = "completed" /\ s.output = "present" THEN "Completed" ELSE "ProtocolError"
          ELSE IF ends = {"failed"} THEN "Failed"
          ELSE IF ends = {"cancelled"} THEN "Cancelled"
          ELSE IF "protocol_error" \in outcomes THEN "ProtocolError"
          ELSE IF c # NoSnap /\ \A t \in snapshots : t.outcome = "cancelled" /\ t.run = "none"
               THEN "Cancelled"
          ELSE IF outcomes \cap {"completed", "failed", "cancelled"} # {} THEN "ProtocolError" ELSE "none"
  <2>1. ends = {} \/ ends = {"completed"} \/ ends = {"failed"} \/ ends = {"cancelled"}
    <3> HIDE DEF ends
    <3> QED
      BY <1>2, <1>4 DEF EndStates
  <2>2. /\ {} # {"completed"} /\ {} # {"failed"} /\ {} # {"cancelled"}
        /\ {"completed"} # {"failed"} /\ {"completed"} # {"cancelled"} /\ {"failed"} # {"cancelled"}
    OBVIOUS
  <2>3. v = CASE \E e, f \in ends : e # f -> "ProtocolError"
              [] ends = {"completed"} ->
                    IF s.outcome = "completed" /\ s.output = "present"
                    THEN "Completed" ELSE "ProtocolError"
              [] ends = {"failed"} -> "Failed"
              [] ends = {"cancelled"} -> "Cancelled"
              [] ends = {} ->
                    IF "protocol_error" \in outcomes THEN "ProtocolError"
                    ELSE IF /\ c # NoSnap
                            /\ \A t \in snapshots : t.outcome = "cancelled" /\ t.run = "none"
                    THEN "Cancelled"
                    ELSE IF outcomes \cap {"completed", "failed", "cancelled"} # {}
                    THEN "ProtocolError" ELSE "none"
    BY Zenon DEF Reconcile
  <2> HIDE DEF ends, outcomes, snapshots, v
  <2> QED
    BY <1>4, <2>1, <2>2, <2>3
<1>6. ASSUME ends = {}
      PROVE  \A t \in snapshots : t.run \notin EndStates
  BY <1>3, <1>6
<1>7. ASSUME ends = {}, NEW o \in outcomes, o # "pending"
      PROVE  Ended(r)
  <2>1. PICK t \in snapshots : t.outcome = o
    OBVIOUS
  <2> QED
    BY <1>1, <1>6, <1>7, <2>1 DEF TrueSnap
<1>8. ends # {} => Ended(r)
  <2> HIDE DEF ends
  <2> QED
    BY <1>2 DEF Ended
<1>9. s \in snapshots
  OBVIOUS
<1>10. ends = {"completed"} => harness[r].run = "completed"
  <2> HIDE DEF ends
  <2> QED BY <1>2
<1>11. ends = {"failed"} => harness[r].run = "failed"
  <2> HIDE DEF ends
  <2> QED BY <1>2
<1>12. ends = {"cancelled"} => harness[r].run = "cancelled"
  <2> HIDE DEF ends
  <2> QED BY <1>2
<1>13. ASSUME ends = {}, s.outcome = "cancelled"
       PROVE  harness[r].run = "none" /\ harness[r].start = "cancelled"
  BY <1>6, <1>9, <1>13 DEF TrueSnap, HarnessInv
<1> HIDE DEF ends, outcomes, snapshots, v
<1>14. v \in Kinds
  BY <1>5 DEF Kinds, Terminals
<1>15. v # "none" => Ended(r)
  <2> SUFFICES ASSUME ends = {}, v # "none"
               PROVE  \E o \in outcomes : o # "pending"
    BY <1>7, <1>8
  <2>1. CASE "protocol_error" \in outcomes
    BY <2>1
  <2>2. CASE c # NoSnap /\ \A t \in snapshots : t.outcome = "cancelled" /\ t.run = "none"
    BY <1>9, <2>2 DEF outcomes
  <2>3. CASE outcomes \cap {"completed", "failed", "cancelled"} # {}
    BY <2>3
  <2> QED
    BY <1>5, <2>1, <2>2, <2>3
<1>16. v = "Completed" => harness[r].run = "completed"
  BY <1>5, <1>10
<1>17. v = "Failed" => harness[r].run = "failed"
  BY <1>5, <1>11
<1>18. v = "Cancelled" => ends = {"cancelled"} \/ (ends = {} /\ s.outcome = "cancelled")
  <2>1. ends = {} \/ ends = {"completed"} \/ ends = {"failed"} \/ ends = {"cancelled"}
    BY <1>2, <1>4 DEF EndStates
  <2> QED
    BY <1>5, <1>9, <2>1
<1> QED
  BY <1>12, <1>13, <1>14, <1>15, <1>16, <1>17, <1>18 DEF Verdict, v

-----------------------------------------------------------------------------
(* The shape of a step of the UI: what it does to the controller. *)

\* The observer is left alone, stopped, or started on the active run.
Watches ==
    \/ UNCHANGED observer
    \/ StopObserver
    \/ run # None /\ \E whole \in BOOLEAN : StartObserver(whole)

Turns ==
    /\ main' # "start" /\ (main = "start" => main' = "stopped")
    /\ UNCHANGED <<active, task, settled, harness>> /\ Watches

Submitting(r) ==
    /\ main # "start" /\ main' = "start" /\ waiting' = r
    /\ run = None /\ Submits(r)
    /\ UNCHANGED <<active, task, observer, settled>>

Starting ==
    /\ main = "start" /\ main' \in {"loop", "emit"} /\ Known(waiting, "start") /\ SubmitReturns(waiting)
    /\ UNCHANGED <<task, observer, settled, harness>>

Cancelling ==
    /\ main # "start" /\ main' # "start"
    /\ run # None /\ CreateCancel /\ quitAfter' \in BOOLEAN
    /\ UNCHANGED <<run, accepted, reported, cancelSnap, runDue, observer, settled>>

Answering ==
    /\ main = "cancel" /\ main' # "start"
    /\ (task[waiting] = "ok" /\ CancelReturns(waiting)) \/ CancelTimesOut(waiting)
    /\ UNCHANGED <<task, settled, harness>> /\ Watches

Moves == Turns \/ (\E r \in Runs : Submitting(r)) \/ Starting \/ Cancelling \/ Answering

\* Lists of events that hold no terminal event without its run.
LEMMA EventLists ==
    /\ EventsOK(<<>>)
    /\ \A kind, r : kind \notin Terminals => EventsOK(<<Event(kind, r)>>)
    /\ \A kind, r : r \in Runs => EventsOK(<<Event(kind, r)>>)
    /\ \A kind, r, other, q : r \in Runs /\ q \in Runs => EventsOK(<<Event(kind, r), Event(other, q)>>)
    /\ \A list : EventsOK(list) => RunsOf(list) \subseteq Runs
<1>1. EventsOK(<<>>)
  BY DEF EventsOK
<1>2. ASSUME NEW kind, NEW r, kind \notin Terminals \/ r \in Runs
      PROVE  EventsOK(<<Event(kind, r)>>)
  BY <1>2 DEF EventsOK, Event
<1>3. ASSUME NEW kind, NEW r \in Runs, NEW other, NEW q \in Runs
      PROVE  EventsOK(<<Event(kind, r), Event(other, q)>>)
  BY <1>3 DEF EventsOK, Event
<1>4. \A list : EventsOK(list) => RunsOf(list) \subseteq Runs
  BY DEF EventsOK, RunsOf
<1> QED
  BY <1>1, <1>2, <1>3, <1>4

\* What dispatch does with a line, for every command it knows.
Dispatches(reason) == Submit \/ CancelLine(reason) \/ QuitLine(reason) \/ LocalLine

\* The state the UI is left in by a dispatch.
Dispatched ==
    /\ quit' \in BOOLEAN /\ asked' \in BOOLEAN /\ waiting' \in Runs \cup {None}
    /\ dropped' = dropped /\ main' \in {"emit", "start", "cancel"}
    /\ EventsOK(shown') /\ EventsOK(events')
    /\ main' = "start" => run' = None /\ waiting' \in Runs /\ harness'[waiting'].cancel = "none"
    /\ main' = "cancel" => waiting' \in Runs

\* dispatch leaves the controller one of the moves above and the UI ready to emit or to wait.
LEMMA DispatchMoves ==
    ASSUME TypeOK, HarnessInv, CancelInv, UiInv, NEW reason, Dispatches(reason), main # "start"
    PROVE  Moves /\ Dispatched
<1>1. /\ quit \in BOOLEAN /\ asked \in BOOLEAN /\ waiting \in Runs \cup {None}
      /\ run \in Runs \cup {None} /\ cancelTask \in Runs \cup {None} /\ quitAfter \in BOOLEAN
      /\ harness \in [Runs -> Row]
  BY Types DEF UiType, ControllerType
<1>2. EventsOK(shown) /\ EventsOK(events)
  BY DEF UiInv
<1>3. \A kind : kind \notin Terminals => \A r : EventsOK(<<Event(kind, r)>>)
  BY EventLists
<1>4. /\ "Notice" \notin Terminals /\ "CancelPending" \notin Terminals /\ "QuitNow" \notin Terminals
  BY DEF Terminals
<1>5. CASE Submit
  <2>1. ASSUME NEW r \in Runs, run = None, harness[r].start = "none", SubmitStart(r), waiting' = r,
               main' = "start", UNCHANGED <<shown, active, task, observer, settled, asked, dropped, quit>>
        PROVE  Moves /\ Dispatched
    <3>1. Submitting(r)
      BY <2>1 DEF Submitting, Submits
    <3>2. harness[r].cancel = "none"
      BY <2>1 DEF HarnessInv, Known
    <3>3. harness'[r].cancel = "none"
      BY <1>1, <2>1, <3>2 DEF SubmitStart, Set, Row
    <3> QED
      BY <1>1, <1>2, <2>1, <3>1, <3>3 DEF Moves, Dispatched, active, observer
  <2>2. ASSUME Emitting(<<Event("Notice", run)>>, "line"),
               UNCHANGED <<harness, waiting, active, task, observer, settled, asked, dropped, quit>>
        PROVE  Moves /\ Dispatched
    <3>1. Turns
      BY <2>2 DEF Turns, Watches, Emitting
    <3> QED
      BY <1>1, <1>2, <1>3, <1>4, <2>2, <3>1 DEF Moves, Dispatched, Emitting, active, observer
  <2> QED
    BY <1>5, <2>1, <2>2 DEF Submit
<1>6. CASE LocalLine
  <2>1. Turns
    BY <1>6 DEF LocalLine, Turns, Watches, Emitting
  <2> QED
    BY <1>1, <1>2, <1>3, <1>4, <1>6, <2>1 DEF LocalLine, Moves, Dispatched, Emitting, active, observer
<1>7. ASSUME Cancel(reason), quitAfter' \in BOOLEAN, run # None, asked' \in BOOLEAN,
             UNCHANGED <<observer, settled, dropped, quit>>
      PROVE  Moves /\ Dispatched
  <2>1. CreateCancel /\ UNCHANGED <<run, accepted, reported, cancelSnap, runDue>>
    BY <1>7 DEF Cancel
  <2>2. \/ Emitting(<<Event("CancelPending", run)>>, reason) /\ UNCHANGED waiting
        \/ main' = "cancel" /\ waiting' = cancelTask' /\ UNCHANGED shown
    BY <1>7 DEF Cancel
  <2>3. cancelTask' = run
    BY <2>1 DEF CreateCancel, CancelInv, CancelMarksCurrent
  <2>4. main' \in {"emit", "cancel"} /\ EventsOK(shown') /\ waiting' \in Runs \cup {None}
        /\ (main' = "cancel" => waiting' \in Runs)
    BY <1>1, <1>2, <1>3, <1>4, <1>7, <2>2, <2>3, NoneIsNoRun DEF Emitting
  <2>5. Cancelling
    BY <1>7, <2>1, <2>4 DEF Cancelling
  <2> QED
    BY <1>1, <1>2, <1>7, <2>4, <2>5 DEF Moves, Dispatched, observer
<1>8. ASSUME NEW kind, kind \notin Terminals, Emitting(<<Event(kind, run)>>, reason), asked' \in BOOLEAN,
             UNCHANGED <<active, task, waiting, harness, observer, settled, dropped, quit>>
      PROVE  Moves /\ Dispatched
  <2>1. Turns
    BY <1>8 DEF Turns, Watches, Emitting
  <2> QED
    BY <1>1, <1>2, <1>3, <1>8, <2>1 DEF Moves, Dispatched, Emitting, active, observer
<1>9. CASE CancelLine(reason)
  <2>1. CASE run # None
    BY <1>1, <1>7, <1>9, <2>1 DEF CancelLine
  <2>2. CASE run = None
    BY <1>1, <1>4, <1>8, <1>9, <2>2 DEF CancelLine, Cancel
  <2> QED
    BY <2>1, <2>2
<1>10. CASE QuitLine(reason)
  <2>1. CASE run # None
    BY <1>1, <1>7, <1>10, <2>1 DEF QuitLine
  <2>2. CASE run = None
    BY <1>1, <1>4, <1>8, <1>10, <2>2 DEF QuitLine
  <2> QED
    BY <2>1, <2>2
<1> QED
  BY <1>5, <1>6, <1>9, <1>10 DEF Dispatches

\* What the finally block of the session does with the observer.
LEMMA LeaveWatches ==
    ASSUME TypeOK, UiInv, NEW reason, Leave(reason)
    PROVE  Watches /\ dropped' \subseteq Runs /\ EventsOK(events') /\ (UNCHANGED obs \/ obs' = "none")
<1>1. RunsOf(events) \subseteq Runs /\ dropped \subseteq Runs /\ EventsOK(<<>>) /\ EventsOK(events)
  BY EventLists, Types DEF UiInv, UiType
<1> QED
  BY <1>1 DEF Leave, Watches, StopObserver, observer

\* A dispatch from the prompt or from the flat loop keeps the UI well-formed.
LEMMA DispatchKeeps ==
    ASSUME TypeOK, HarnessInv, CancelInv, UiInv, PhaseInv, NEW reason, Dispatches(reason),
           main \in {"wait", "observe", "poll"},
           buffered' \in 0..MaxLines, lines' \in 0..MaxLines, buffered' <= lines',
           UNCHANGED <<mode, code, phase, faults, displayed>>
    PROVE  Moves /\ UiType' /\ UiInv' /\ PhaseInv'
<1>1. Moves /\ Dispatched
  BY DispatchMoves
<1>2. UiType'
  BY <1>1, Types DEF UiType, Dispatched
<1>3. UiInv'
  BY <1>1 DEF UiInv, Dispatched
<1>4. PhaseInv'
  BY <1>1 DEF PhaseInv, Dispatched
<1> QED
  BY <1>1, <1>2, <1>3, <1>4

\* A Ctrl-C or the end of the input in an idle chat.
LEMMA IdleKeeps ==
    ASSUME TypeOK, UiInv, PhaseInv, main = "wait",
           buffered' \in 0..MaxLines, lines' \in 0..MaxLines, buffered' <= lines',
           NEW reason, quit' \in BOOLEAN, asked' \in BOOLEAN, main' = "loop", Leave(reason),
           UNCHANGED <<active, task, settled, harness, why, waiting, shown>>,
           UNCHANGED <<mode, code, phase, faults, displayed>>
    PROVE  Moves /\ UiType' /\ UiInv' /\ PhaseInv'
<1>0. UiType
  BY Types
<1>1. Watches /\ dropped' \subseteq Runs /\ EventsOK(events')
  BY LeaveWatches
<1>2. Turns
  BY <1>1 DEF Turns
<1>3. UiType'
  BY <1>0, <1>1 DEF UiType
<1>4. UiInv'
  BY <1>1 DEF UiInv
<1>5. PhaseInv'
  BY DEF PhaseInv
<1> QED
  BY <1>2, <1>3, <1>4, <1>5 DEF Moves

\* The end of the input, typed or taken from an answer that was cut off.
LEMMA EOFKeeps ==
    ASSUME TypeOK, HarnessInv, CancelInv, UiInv, PhaseInv, main = "wait", HandleEOF,
           buffered' \in 0..MaxLines, lines' \in 0..MaxLines, buffered' <= lines',
           UNCHANGED <<mode, code, phase, faults, displayed>>
    PROVE  Moves /\ UiType' /\ UiInv' /\ PhaseInv'
<1>1. CASE run # None
  BY <1>1, DispatchKeeps DEF HandleEOF, Dispatches
<1>2. CASE run = None
  BY <1>2, IdleKeeps DEF HandleEOF
<1> QED
  BY <1>1, <1>2

\* Every step of a user is a move of the controller and keeps the UI well-formed.
LEMMA UserMoves ==
    ASSUME TypeOK, HarnessInv, CancelInv, UiInv, PhaseInv, UserNext
    PROVE  Moves /\ UiType' /\ UiInv' /\ PhaseInv'
<1> USE ChatAssumption
<1>0. UiType /\ ControllerType
  BY Types
<1>1. UserSteps /\ buffered' = buffered =>
         buffered' \in 0..MaxLines /\ lines' \in 0..MaxLines /\ buffered' <= lines'
  BY <1>0 DEF UserSteps, UiType, UiInv
<1>2. CASE ReadLine
  <2>1. CASE buffered > 0
    <3>1. buffered' \in 0..MaxLines /\ lines' \in 0..MaxLines /\ buffered' <= lines'
      BY <1>0, <1>2, <2>1 DEF ReadLine, UiType, UiInv
    <3>2. Dispatches("line")
      BY <1>2, <2>1 DEF ReadLine, Dispatches
    <3> QED
      BY <1>2, <3>1, <3>2, DispatchKeeps DEF ReadLine
  <2>2. CASE ~ (buffered > 0)
    <3>1. Dispatches("line") /\ UserSteps /\ buffered' = buffered
      BY <1>2, <2>2 DEF ReadLine, Dispatches
    <3> QED
      BY <1>1, <1>2, <3>1, DispatchKeeps DEF ReadLine
  <2> QED
    BY <2>1, <2>2
<1>4. CASE Interrupt
  <2>1. CASE run # None
    BY <1>1, <1>4, <2>1, DispatchKeeps DEF Interrupt, Dispatches
  <2>2. CASE run = None
    BY <1>0, <1>1, <1>4, <2>2, IdleKeeps DEF Interrupt, UiType
  <2> QED
    BY <2>1, <2>2
<1>5. CASE EndOfInput
  BY <1>1, <1>5, EOFKeeps DEF EndOfInput
<1>6. CASE FlatEnd
  <2> USE <1>6 DEF FlatEnd, controller
  <2>1. Turns
    BY DEF Turns, Watches
  <2>2. UiType'
    BY <1>0 DEF UiType
  <2>3. UiInv'
    BY DEF UiInv, observer
  <2>4. PhaseInv'
    BY DEF PhaseInv
  <2> QED
    BY <2>1, <2>2, <2>3, <2>4 DEF Moves
<1>7. CASE FlatQueued
  <2>1. CASE Dispatches("line") /\ UNCHANGED buffered
    BY <1>1, <1>7, <2>1, DispatchKeeps DEF FlatQueued
  <2>2. CASE /\ buffered' = buffered + 1 /\ main' = "loop"
             /\ UNCHANGED <<controller, why, waiting, shown, quit, asked, dropped>>
    <3> USE <1>7, <2>2 DEF FlatQueued, controller
    <3>1. Turns
      BY DEF Turns, Watches
    <3>2. UiType' /\ buffered' <= lines'
      BY <1>0 DEF UiType, UiInv, UserSteps
    <3>3. UiInv'
      BY <3>2 DEF UiInv, observer
    <3>4. PhaseInv'
      BY DEF PhaseInv
    <3> QED
      BY <3>1, <3>2, <3>3, <3>4 DEF Moves
  <2> QED
    BY <1>7, <2>1, <2>2 DEF FlatQueued, Dispatches
<1> QED
  BY <1>2, <1>4, <1>5, <1>6, <1>7 DEF UserNext

\* An exit code of an event is an exit code of the UI.
LEMMA Codes == \A kind : code \in {0, 3, 4, 5, 6} =>
                  CodeOf(kind) \in {0, 3, 4, 5, 6} /\ RecoveryCode(kind) \in {0, 3, 4, 5, 6}
BY DEF CodeOf, RecoveryCode

\* An exception stops the UI or, with a run to observe, leads to the recovery.
LEMMA Raises ==
    ASSUME UiType, NEW error, Raise(error) \/ ToRecovery
    PROVE  /\ \/ main' = "stopped" /\ phase' = phase
              \/ main' = "recover" /\ phase' = 1 /\ run # None
           /\ code' \in {0, 3, 4, 5, 6} /\ phase' \in 0..3
BY DEF Raise, ToRecovery, UiType

\* Every step the UI takes by itself is a move of the controller and keeps the UI well-formed.
LEMMA MainMoves ==
    ASSUME TypeOK, HarnessInv, CancelInv, ObsInv, UiInv, PhaseInv, MainNext
    PROVE  Moves /\ UiType' /\ UiInv' /\ PhaseInv'
<1> USE ChatAssumption
<1>0. UiType /\ ControllerType
  BY Types
<1>00. EventsOK(<<>>) /\ EventsOK(shown) /\ EventsOK(events)
       /\ RunsOf(shown) \subseteq Runs /\ RunsOf(events) \subseteq Runs
  BY EventLists DEF UiInv
<1>1. CASE Loop
  <2> USE <1>1 DEF Loop
  <2>1. CASE quit
    <3>1. Watches /\ dropped' \subseteq Runs /\ EventsOK(events')
      BY <2>1, LeaveWatches
    <3>2. Turns
      BY <2>1, <3>1 DEF Turns
    <3>3. UiType' /\ UiInv' /\ PhaseInv'
      BY <1>0, <2>1, <3>1 DEF UiType, UiInv, PhaseInv
    <3> QED
      BY <3>2, <3>3 DEF Moves
  <2>2. CASE ~ quit
    <3>1. Watches /\ EventsOK(events') /\ UNCHANGED dropped
      BY <1>00, <2>2 DEF Watches, StartObserver, observer
    <3>2. main' \in {"wait", "observe"} /\ (main' = "observe" => run # None)
      BY <2>2
    <3>3. Turns
      BY <3>1, <3>2 DEF Turns
    <3>4. UiType' /\ UiInv' /\ PhaseInv'
      BY <1>0, <3>1, <3>2 DEF UiType, UiInv, PhaseInv, active
    <3> QED
      BY <3>3, <3>4 DEF Moves
  <2> QED
    BY <2>1, <2>2
<1>2. CASE StartAnswers
  <2> USE <1>2 DEF StartAnswers
  <2>1. main' \in {"loop", "stopped", "emit"} /\ UNCHANGED observer /\ EventsOK(shown')
    <3>1. EventsOK(<<Event("Accepted", waiting)>>)
      BY EventLists DEF Terminals
    <3> QED
      BY <1>00, <3>1 DEF Emitting
  <2>2. Starting \/ Turns
    BY <2>1 DEF Starting, Turns, Watches, Emitting
  <2>3. code' \in {0, 3, 4, 5, 6}
    BY <1>0 DEF UiType
  <2>4. UiType' /\ UiInv' /\ PhaseInv'
    BY <1>0, <1>00, <2>1, <2>3 DEF UiType, UiInv, PhaseInv, observer
  <2> QED
    BY <2>2, <2>4 DEF Moves
<1>3. CASE CancelAnswers
  <2> USE <1>3 DEF CancelAnswers
  <2>1. CASE task[waiting] = "failed" /\ Leave("raised") /\ (\E e \in Errors : Raise(e))
             /\ UNCHANGED <<active, shown>>
    <3>1. /\ \/ main' = "stopped" /\ phase' = phase
             \/ main' = "recover" /\ phase' = 1 /\ run # None
          /\ code' \in {0, 3, 4, 5, 6} /\ phase' \in 0..3
      BY <1>0, <2>1, Raises
    <3>2. StopObserver /\ dropped' \subseteq Runs
      BY <1>0, <1>00, <2>1 DEF Leave, UiType
    <3>3. Turns
      BY <2>1, <3>1, <3>2 DEF Turns, Watches
    <3>4. UiType'
      BY <1>0, <2>1, <3>1, <3>2 DEF UiType
    <3>5. UiInv' /\ PhaseInv'
      BY <1>00, <2>1, <3>1, <3>2 DEF UiInv, PhaseInv, StopObserver, active
    <3> QED
      BY <3>3, <3>4, <3>5 DEF Moves
  <2>2. CASE ~(task[waiting] = "failed" /\ Leave("raised") /\ (\E e \in Errors : Raise(e))
               /\ UNCHANGED <<active, shown>>)
    <3>1. /\ Watches /\ dropped' \subseteq Runs /\ EventsOK(events') /\ EventsOK(shown')
          /\ main' \in {"loop", "emit"} /\ UNCHANGED <<code, phase>>
      <4>1. CASE UNCHANGED <<shown, code, phase>> /\ main' = "loop" /\ Leave(why)
        BY <1>00, <4>1, LeaveWatches
      <4>2. CASE Emitting(<<Event("CancelPending", waiting)>>, why)
                 /\ UNCHANGED <<observer, dropped, code, phase>>
        <5>1. EventsOK(<<Event("CancelPending", waiting)>>)
          BY EventLists DEF Terminals
        <5> QED
          BY <1>0, <1>00, <4>2, <5>1 DEF Watches, Emitting, observer, UiType
      <4> QED
        BY <2>2, <4>1, <4>2
    <3>2. Answering
      BY <2>2, <3>1 DEF Answering
    <3>3. UiType' /\ UiInv' /\ PhaseInv'
      BY <1>0, <3>1 DEF UiType, UiInv, PhaseInv
    <3> QED
      BY <3>2, <3>3 DEF Moves
  <2> QED
    BY <2>1, <2>2
<1>4. CASE Emit
  <2> USE <1>4 DEF Emit
  <2>1. Watches /\ dropped' \subseteq Runs /\ EventsOK(events')
    BY LeaveWatches
  <2>2. Turns
    BY <2>1 DEF Turns
  <2>3. code' \in {0, 3, 4, 5, 6} /\ quit' \in BOOLEAN
    BY <1>0, Codes DEF UiType
  <2>4. UiType' /\ UiInv' /\ PhaseInv'
    BY <1>0, <1>00, <2>1, <2>3 DEF UiType, UiInv, PhaseInv
  <2> QED
    BY <2>2, <2>4 DEF Moves
<1>5. CASE EmitFails
  <2> USE <1>5 DEF EmitFails
  <2>0. /\ \/ main' = "stopped" /\ phase' = phase
           \/ main' = "recover" /\ phase' = 1 /\ run # None
        /\ code' \in {0, 3, 4, 5, 6} /\ phase' \in 0..3
    BY <1>0, Raises
  <2>1. Turns
    BY <2>0 DEF Turns, Watches
  <2>2. UiType'
    BY <1>0, <1>00, <2>0 DEF UiType
  <2>3. UiInv' /\ PhaseInv'
    BY <1>0, <1>00, <2>0 DEF UiInv, PhaseInv, StopObserver, active
  <2> QED
    BY <2>1, <2>2, <2>3 DEF Moves
<1>6. CASE EmitObserved
  <2> USE <1>6 DEF EmitObserved
  <2>1. Turns
    BY DEF Turns, Watches, Emitting
  <2>2. UiType'
    BY <1>0, <1>00 DEF UiType, Emitting
  <2>3. UiInv' /\ PhaseInv'
    BY <1>0, <1>00 DEF UiInv, PhaseInv, StopObserver, active, Emitting
  <2> QED
    BY <2>1, <2>2, <2>3 DEF Moves
<1>13. CASE ObserverRaises
  <2>1. CASE HandleEOF /\ UNCHANGED <<code, phase>>
    <3>1. buffered' \in 0..MaxLines /\ lines' \in 0..MaxLines /\ buffered' <= lines'
      BY <1>0, <1>13 DEF ObserverRaises, UiType, UiInv
    <3> QED
      BY <1>13, <2>1, <3>1, EOFKeeps DEF ObserverRaises
  <2>2. CASE /\ \E e \in Errors \ {"EOFError"} : Raise(e)
             /\ StopObserver
             /\ UNCHANGED <<active, task, settled, harness, why, waiting, shown, quit, asked, dropped>>
    <3> USE <1>13, <2>2 DEF ObserverRaises
    <3>1. /\ \/ main' = "stopped" /\ phase' = phase
             \/ main' = "recover" /\ phase' = 1 /\ run # None
          /\ code' \in {0, 3, 4, 5, 6} /\ phase' \in 0..3
      BY <1>0, Raises
    <3>2. Turns
      BY <3>1 DEF Turns, Watches
    <3>3. UiType'
      BY <1>0, <3>1 DEF UiType
    <3>4. UiInv' /\ PhaseInv'
      BY <1>00, <3>1 DEF UiInv, PhaseInv, StopObserver, active
    <3> QED
      BY <3>2, <3>3, <3>4 DEF Moves
  <2> QED
    BY <1>13, <2>1, <2>2 DEF ObserverRaises
<1>7. ASSUME main \in {"observe", "recover"}, obs = "none", \E whole \in BOOLEAN : StartObserver(whole),
             UNCHANGED <<active, task, settled, harness, ui>>
      PROVE  Moves /\ UiType' /\ UiInv' /\ PhaseInv'
  <2> USE <1>7 DEF ui
  <2>1. Turns
    BY DEF Turns, Watches, UiInv
  <2>2. UiType'
    BY <1>0 DEF UiType
  <2>3. obs' = "top" /\ events' = <<>>
    BY DEF StartObserver
  <2>4. UiInv' /\ PhaseInv'
    BY <1>0, <1>00, <2>3 DEF UiInv, PhaseInv, active
  <2> QED
    BY <2>1, <2>2, <2>4 DEF Moves
<1>8. CASE FlatObserve
  BY <1>7, <1>8 DEF FlatObserve
<1>9. CASE FlatObserved
  <2> USE <1>9 DEF FlatObserved
  <2>1. CASE obs = "failed"
    <3>1. /\ \/ main' = "stopped" /\ phase' = phase
             \/ main' = "recover" /\ phase' = 1 /\ run # None
          /\ code' \in {0, 3, 4, 5, 6} /\ phase' \in 0..3
      BY <1>0, <2>1, Raises
    <3>2. UNCHANGED <<shown, why>>
      BY <2>1
    <3>3. Turns
      BY <3>1 DEF Turns, Watches
    <3>4. UiType'
      BY <1>0, <3>1, <3>2 DEF UiType
    <3>5. UiInv' /\ PhaseInv'
      BY <1>00, <3>1, <3>2 DEF UiInv, PhaseInv, StopObserver, active
    <3> QED
      BY <3>3, <3>4, <3>5 DEF Moves
  <2>2. CASE obs # "failed"
    <3>1. main' \in {"poll", "emit"} /\ EventsOK(shown') /\ UNCHANGED <<code, phase>>
      BY <1>00, <2>2 DEF Emitting
    <3>2. Turns
      BY <3>1 DEF Turns, Watches
    <3>3. UiType'
      BY <1>0, <3>1 DEF UiType
    <3>4. UiInv' /\ PhaseInv'
      BY <1>0, <1>00, <3>1 DEF UiInv, PhaseInv, StopObserver, active
    <3> QED
      BY <3>2, <3>3, <3>4 DEF Moves
  <2> QED
    BY <2>1, <2>2
<1>10. CASE FlatPoll
  <2>1. CASE UserSteps /\ Dispatches("line")
    <3>1. buffered' \in 0..MaxLines /\ lines' \in 0..MaxLines /\ buffered' <= lines'
      BY <1>0, <1>10, <2>1 DEF FlatPoll, UiType, UserSteps, UiInv
    <3> QED
      BY <1>10, <2>1, <3>1, DispatchKeeps DEF FlatPoll
  <2>2. CASE /\ main' = "loop"
             /\ UNCHANGED <<controller, why, waiting, shown, quit, asked, dropped, lines>>
    <3> USE <1>10, <2>2 DEF FlatPoll, controller
    <3>1. Turns
      BY DEF Turns, Watches
    <3>2. UiType'
      BY <1>0 DEF UiType
    <3>3. UiInv' /\ PhaseInv'
      BY DEF UiInv, PhaseInv, observer
    <3> QED
      BY <3>1, <3>2, <3>3 DEF Moves
  <2> QED
    BY <1>10, <2>1, <2>2 DEF FlatPoll, Dispatches
<1>11. CASE RecoverObserve
  BY <1>7, <1>11 DEF RecoverObserve
<1>12. CASE RecoverObserved
  <2> USE <1>12 DEF RecoverObserved
  <2>1. CASE obs = "done" /\ events[1].kind = "CancelPending"
    <3>1. phase = 1 /\ cancelDue = "none" /\ run # None
      BY <2>1 DEF PhaseInv, ObsInv
    <3>2. phase' = 2 /\ UNCHANGED <<main, code>>
      BY <2>1, <3>1
    <3>3. Turns
      BY <3>2 DEF Turns, Watches
    <3>4. UiType'
      BY <1>0, <1>00, <3>2 DEF UiType
    <3>5. UiInv' /\ PhaseInv'
      BY <1>0, <1>00, <3>1, <3>2 DEF UiInv, PhaseInv, StopObserver, active
    <3> QED
      BY <3>3, <3>4, <3>5 DEF Moves
  <2>2. CASE ~ (obs = "done" /\ events[1].kind = "CancelPending")
    <3>1. main' = "stopped" /\ UNCHANGED phase
          /\ code' = IF obs = "done" THEN RecoveryCode(events[1].kind) ELSE code
      BY <2>2
    <3>2. code' \in {0, 3, 4, 5, 6}
      BY <1>0, <3>1, Codes DEF UiType
    <3>3. Turns
      BY <3>1 DEF Turns, Watches
    <3>4. UiType'
      BY <1>0, <1>00, <3>1, <3>2 DEF UiType
    <3>5. UiInv' /\ PhaseInv'
      BY <1>0, <1>00, <3>1 DEF UiInv, PhaseInv, StopObserver, active
    <3> QED
      BY <3>3, <3>4, <3>5 DEF Moves
  <2> QED
    BY <2>1, <2>2
<1> QED
  BY <1>1, <1>2, <1>3, <1>4, <1>5, <1>6, <1>8, <1>9, <1>10, <1>11, <1>12, <1>13 DEF MainNext

-----------------------------------------------------------------------------
(* The controller keeps its invariants at every move of the UI. *)

\* The harness may still work on the run.
Live(r) == harness[r].run = "running" \/ harness[r].start \in {"sent", "accepted"}

\* The truth of what the chat has told, apart from the types.
ToldTruly == \A r \in Runs : settled[r] # "none" => Verdict(settled[r], r)

ControllerInv == /\ harness \in [Runs -> Row] /\ ControllerType
                 /\ HarnessInv /\ CancelInv /\ ObsInv /\ ToldTruly /\ OneLiveRun

\* A verdict once true stays true.
LEMMA VerdictStays ==
    ASSUME Forward, HarnessInv', NEW r \in Runs, NEW v, v # "none", Verdict(v, r)
    PROVE  Verdict(v, r)'
BY TruthStays DEF Forward, HarnessInv, Verdict, EndStates

\* A run that has ended is not live, and a verdict other than none says that it has ended.
LEMMA EndedNotLive ==
    ASSUME HarnessInv, NEW r \in Runs, Ended(r)
    PROVE  ~ Live(r)
BY DEF HarnessInv, Ended, Live, EndStates

\* A step of the harness makes no run live and sends no cancel.
LEMMA HarnessQuiet ==
    ASSUME harness \in [Runs -> Row], UNCHANGED harness \/ HarnessNext, NEW q \in Runs
    PROVE  /\ Live(q)' => Live(q)
           /\ harness[q].cancel = "none" => harness'[q].cancel = "none"
<1>1. CASE UNCHANGED harness
  BY <1>1 DEF Live
<1>2. CASE HarnessNext
  <2>1. PICK r \in Runs : \/ \E k \in Commands : Serve(r, k)
                          \/ ApplyStart(r)
                          \/ FinishRun(r)
                          \/ ApplyCancel(r)
    BY <1>2 DEF HarnessNext
  <2>2. harness[r] \in Row
    OBVIOUS
  <2>3. CASE \E k \in Commands : Serve(r, k)
    BY <2>2, <2>3 DEF Serve, Set, Live, Commands, Row
  <2>4. CASE ApplyStart(r)
    BY <2>2, <2>4 DEF ApplyStart, Set, Live, Row
  <2>5. CASE FinishRun(r)
    BY <2>2, <2>5 DEF FinishRun, Set, Live, Row
  <2>6. CASE ApplyCancel(r)
    BY <2>2, <2>6 DEF ApplyCancel, Live, Row
  <2> QED
    BY <2>1, <2>3, <2>4, <2>5, <2>6
<1> QED
  BY <1>1, <1>2

\* A move of the UI changes the store by a new start or by the one cancel of the active run.
LEMMA MovesStore ==
    ASSUME CancelInv, ControllerType, Moves
    PROVE  Stores
<1>1. CASE Turns
  BY <1>1 DEF Turns, Stores
<1>2. CASE \E r \in Runs : Submitting(r)
  BY <1>2 DEF Submitting, Stores
<1>3. CASE Starting
  BY <1>3 DEF Starting, Stores
<1>4. CASE Cancelling
  <2>1. run \in Runs /\ Known(run, "start")
    BY <1>4 DEF Cancelling, CancelInv, ControllerType
  <2>2. UNCHANGED harness \/ Asks(run)
    BY <1>4, <2>1 DEF Cancelling, CreateCancel, CancelInv, Asks
  <2> QED
    BY <2>1, <2>2 DEF Stores
<1>5. CASE Answering
  BY <1>5 DEF Answering, Stores
<1> QED
  BY <1>1, <1>2, <1>3, <1>4, <1>5 DEF Moves


\* What a step that moves the store forward leaves alone stays true: the results of the
\* tasks, the snapshot of the cancel, what was read so far and what was told.
LEMMA KeptByForward ==
    ASSUME ControllerInv, Forward, HarnessInv'
    PROVE  /\ UNCHANGED task => \A t \in Runs : task'[t] = "ok" => Known(t, "cancel")'
           /\ UNCHANGED <<run, cancelSnap>> =>
                 (cancelSnap' # NoSnap => run' # None /\ TrueSnap(cancelSnap, run)')
           /\ UNCHANGED <<obs, got, seen>> =>
                 (obs' = "read" =>
                    /\ "start" \in DOMAIN got' /\ DOMAIN got' \subseteq Commands
                    /\ got' \in [DOMAIN got' -> Reading]
                    /\ \A k \in DOMAIN got' : TrueRead(got[k], k, seen)')
           /\ UNCHANGED settled => ToldTruly'
<1>0. ControllerType /\ CancelInv /\ ObsInv /\ ToldTruly
  BY DEF ControllerInv
<1>1. ASSUME UNCHANGED task, NEW t \in Runs, task'[t] = "ok"
      PROVE  Known(t, "cancel")'
  BY <1>0, <1>1 DEF CancelInv, Forward
<1>2. ASSUME UNCHANGED <<run, cancelSnap>>, cancelSnap' # NoSnap
      PROVE  run' # None /\ TrueSnap(cancelSnap, run)'
  <2>1. run \in Runs /\ TrueSnap(cancelSnap, run) /\ run # None
    BY <1>0, <1>2 DEF CancelInv, ControllerType
  <2>2. PICK r \in Runs : r = run
    BY <2>1
  <2>3. PICK s : s = cancelSnap
    OBVIOUS
  <2>4. TrueSnap(s, r)'
    BY <2>1, <2>2, <2>3, TruthStays
  <2> QED
    BY <1>2, <2>1, <2>2, <2>3, <2>4
<1>3. ASSUME UNCHANGED <<obs, got, seen>>, obs' = "read"
      PROVE  /\ "start" \in DOMAIN got' /\ DOMAIN got' \subseteq Commands
             /\ got' \in [DOMAIN got' -> Reading]
             /\ \A k \in DOMAIN got' : TrueRead(got[k], k, seen)'
  <2>1. /\ "start" \in DOMAIN got /\ DOMAIN got \subseteq Commands
        /\ got \in [DOMAIN got -> Reading]
        /\ \A k \in DOMAIN got : TrueRead(got[k], k, seen)
    BY <1>0, <1>3 DEF ObsInv
  <2>2. seen \in Runs
    BY <1>0, <1>3 DEF ObsInv, ControllerType
  <2>3. ASSUME NEW k \in DOMAIN got
        PROVE  TrueRead(got[k], k, seen)'
    <3>1. PICK r \in Runs : r = seen
      BY <2>2
    <3>2. PICK g : g = got[k]
      OBVIOUS
    <3>3. TrueRead(g, k, r)'
      BY <2>1, <3>1, <3>2, TruthStays
    <3> QED
      BY <1>3, <3>1, <3>2, <3>3
  <2> QED
    BY <1>3, <2>1, <2>3
<1>4. ASSUME UNCHANGED settled, NEW r \in Runs, settled'[r] # "none"
      PROVE  Verdict(settled[r], r)'
  <2>1. PICK v : v = settled[r]
    OBVIOUS
  <2>2. Verdict(v, r)'
    BY <1>0, <1>4, <2>1, VerdictStays DEF ToldTruly
  <2> QED
    BY <1>4, <2>1, <2>2
<1> QED
  BY <1>1, <1>2, <1>3, <1>4 DEF ToldTruly

\* A started observer is at the top, a stopped one has nothing, and an untouched one goes on.
LEMMA WatchedObs ==
    ASSUME ControllerInv, Forward, HarnessInv', Watches, UNCHANGED run
    PROVE  /\ ObsInv'
           /\ obs' \in {"none", "top", "read", "done", "failed"} /\ until' \in BOOLEAN /\ late' \in BOOLEAN
           /\ seen' \in Runs \cup {None}
<1>0. ControllerType /\ ObsInv
  BY DEF ControllerInv
<1>1. CASE UNCHANGED observer
  <2>1. obs' = "read" =>
           /\ "start" \in DOMAIN got' /\ DOMAIN got' \subseteq Commands
           /\ got' \in [DOMAIN got' -> Reading]
           /\ \A k \in DOMAIN got' : TrueRead(got[k], k, seen)'
    BY <1>1, KeptByForward DEF observer
  <2> QED
    BY <1>0, <1>1, <2>1 DEF ObsInv, ControllerType, observer
<1>2. CASE StopObserver
  BY <1>0, <1>2 DEF StopObserver, ObsInv, ControllerType
<1>3. CASE run # None /\ \E whole \in BOOLEAN : StartObserver(whole)
  BY <1>0, <1>3 DEF StartObserver, ObsInv, ControllerType
<1> QED
  BY <1>1, <1>2, <1>3 DEF Watches

\* Every move of the UI keeps the invariants of the controller.
LEMMA MovesKeep ==
    ASSUME ControllerInv, UiInv, UiType, main # "stopped", Moves
    PROVE  ControllerInv'
<1>0. /\ harness \in [Runs -> Row] /\ ControllerType /\ HarnessInv /\ CancelInv /\ ObsInv
      /\ ToldTruly /\ OneLiveRun
  BY DEF ControllerInv
<1>1. harness' \in [Runs -> Row] /\ HarnessInv' /\ Forward
  BY <1>0, MovesStore, StoreForward
<1>2. ASSUME UNCHANGED settled PROVE ToldTruly'
  BY <1>1, <1>2, KeptByForward
<1>3. ASSUME UNCHANGED task PROVE \A t \in Runs : task'[t] = "ok" => Known(t, "cancel")'
  BY <1>1, <1>3, KeptByForward
<1>4. ASSUME UNCHANGED <<run, cancelSnap>>
      PROVE  cancelSnap' # NoSnap => run' # None /\ TrueSnap(cancelSnap, run)'
  BY <1>1, <1>4, KeptByForward
<1>5. ASSUME Watches, UNCHANGED run
      PROVE  /\ ObsInv'
             /\ obs' \in {"none", "top", "read", "done", "failed"} /\ until' \in BOOLEAN /\ late' \in BOOLEAN
             /\ seen' \in Runs \cup {None}
  BY <1>1, <1>5, WatchedObs
<1>6. \A r \in Runs : Live(r) => r = run \/ (main = "start" /\ r = waiting)
  BY <1>0 DEF OneLiveRun, Live
<1>7. ASSUME main' # "stopped" => \A r \in Runs : Live(r)' => r = run' \/ (main' = "start" /\ r = waiting'),
             ObsInv'
      PROVE  OneLiveRun'
  BY <1>7 DEF OneLiveRun, Live, ObsInv
<1>8. CASE Turns
  <2> USE <1>8 DEF Turns
  <2>1. UNCHANGED run /\ Watches /\ UNCHANGED <<task, settled, harness>> /\ UNCHANGED <<run, cancelSnap>>
    BY DEF active
  <2>2. CancelInv'
    BY <1>0, <1>3, <1>4, <2>1 DEF CancelInv, CancelMarksCurrent, active, Known
  <2>3. ControllerType'
    BY <1>0, <1>5, <2>1 DEF ControllerType, active
  <2>4. OneLiveRun'
    BY <1>5, <1>6, <1>7, <2>1 DEF Live
  <2> QED
    BY <1>1, <1>2, <1>5, <2>1, <2>2, <2>3, <2>4 DEF ControllerInv
<1>9. ASSUME NEW r \in Runs, Submitting(r) PROVE ControllerInv'
  <2> USE <1>9 DEF Submitting
  <2>1. UNCHANGED run /\ Watches /\ UNCHANGED <<task, settled>> /\ UNCHANGED <<run, cancelSnap>>
    BY DEF active, Watches
  <2>2. CancelInv'
    BY <1>0, <1>3, <1>4, <2>1 DEF CancelInv, CancelMarksCurrent, active
  <2>3. ControllerType'
    BY <1>0, <1>5, <2>1 DEF ControllerType, active
  <2>4. \A q \in Runs : q # r => harness'[q] = harness[q]
    BY <1>0 DEF Submits, SubmitStart, Set
  <2>5. OneLiveRun'
    BY <1>5, <1>6, <1>7, <2>1, <2>4, NoneIsNoRun DEF Live
  <2> QED
    BY <1>1, <1>2, <1>5, <2>1, <2>2, <2>3, <2>5 DEF ControllerInv
<1>10. CASE Starting
  <2> USE <1>10 DEF Starting, SubmitReturns
  <2>1. run = None /\ waiting \in Runs /\ harness[waiting].cancel = "none" /\ run' = waiting
    BY DEF UiInv
  <2>2. cancelTask = None /\ cancelSnap = NoSnap /\ obs \notin {"top", "read"}
    BY <1>0, <2>1 DEF CancelInv, CancelMarksCurrent, ObsInv
  <2>3. CancelInv'
    BY <1>0, <1>3, <2>1, <2>2 DEF CancelInv, CancelMarksCurrent, Known
  <2>4. ControllerType'
    BY <1>0, <2>1 DEF ControllerType, observer
  <2>5. ObsInv'
    BY <1>0, <2>1, <2>2, NoneIsNoRun DEF ObsInv, observer
  <2>6. OneLiveRun'
    BY <1>6, <1>7, <2>1, <2>5, NoneIsNoRun DEF Live
  <2> QED
    BY <1>1, <1>2, <2>3, <2>4, <2>5, <2>6 DEF ControllerInv
<1>11. CASE Cancelling
  <2> USE <1>11 DEF Cancelling
  <2>1. UNCHANGED run /\ Watches /\ UNCHANGED settled /\ UNCHANGED <<run, cancelSnap>> /\ run \in Runs
    BY <1>0 DEF Watches, ControllerType
  <2>2. /\ cancelTask' = run /\ cancelDue' \in {"none", "armed", "passed"}
        /\ task' \in [Runs -> {"none", "running", "ok", "failed"}]
        /\ \A t \in Runs : task'[t] = "ok" => task[t] = "ok"
        /\ \A q \in Runs : harness'[q].start = harness[q].start /\ harness'[q].run = harness[q].run
    <3>1. CASE cancelTask = None
      <4>1. /\ cancelTask' = run /\ cancelDue' = "armed"
            /\ task' = [task EXCEPT ![run] = "running"]
            /\ harness' = [harness EXCEPT ![run]["cancel"] = "sent"]
        BY <3>1 DEF CreateCancel, Set
      <4>2. \A q \in Runs : harness'[q].start = harness[q].start /\ harness'[q].run = harness[q].run
        BY <1>0, <4>1 DEF Row
      <4> QED
        BY <1>0, <2>1, <4>1, <4>2 DEF ControllerType
    <3>2. CASE cancelTask # None
      BY <1>0, <2>1, <3>2 DEF CreateCancel, CancelInv, CancelMarksCurrent, ControllerType
    <3> QED
      BY <3>1, <3>2
  <2>3. CancelMarksCurrent'
    <3>1. accepted => cancelTask = run /\ Known(run, "cancel")
      BY <1>0 DEF CancelInv, CancelMarksCurrent
    <3>2. accepted => harness'[run].cancel \notin {"none", "sent", "refused"}
      BY <1>1, <2>1, <3>1 DEF Forward, Known
    <3> QED
      BY <2>1, <2>2, <3>2 DEF CancelMarksCurrent, Known
  <2>4. CancelInv'
    <3>1. \A t \in Runs : task'[t] = "ok" => Known(t, "cancel")'
      BY <1>0, <1>1, <2>2 DEF CancelInv, Forward
    <3>2. run' # None => Known(run, "start")'
      BY <1>0, <2>1, <2>2 DEF CancelInv, Known
    <3> QED
      BY <1>4, <2>1, <2>2, <2>3, <3>1, <3>2 DEF CancelInv
  <2>5. ControllerType'
    BY <1>0, <1>5, <2>1, <2>2 DEF ControllerType
  <2>6. OneLiveRun'
    BY <1>5, <1>6, <1>7, <2>1, <2>2 DEF Live
  <2> QED
    BY <1>1, <1>2, <1>5, <2>1, <2>4, <2>5, <2>6 DEF ControllerInv
<1>12. CASE Answering
  <2> USE <1>12 DEF Answering
  <2>1. waiting \in Runs
    BY DEF UiInv
  <2>2. /\ UNCHANGED <<run, cancelTask, cancelSnap, quitAfter, runDue>>
        /\ accepted' \in BOOLEAN /\ reported' \in BOOLEAN /\ cancelDue' \in {cancelDue, "none"}
        /\ accepted' => accepted \/ (cancelTask = waiting /\ task[waiting] = "ok")
        /\ reported' => reported \/ cancelTask = waiting
    <3>1. accepted \in BOOLEAN /\ reported \in BOOLEAN
      BY <1>0 DEF ControllerType
    <3>2. CASE task[waiting] = "ok" /\ CancelReturns(waiting)
      <4>1. CASE cancelTask = waiting
        BY <3>1, <3>2, <4>1 DEF CancelReturns
      <4>2. CASE cancelTask # waiting
        BY <3>1, <3>2, <4>2 DEF CancelReturns
      <4> QED
        BY <4>1, <4>2
    <3>3. CASE CancelTimesOut(waiting)
      <4>1. CASE cancelTask = waiting
        BY <3>1, <3>3, <4>1 DEF CancelTimesOut
      <4>2. CASE cancelTask # waiting
        BY <3>1, <3>3, <4>2 DEF CancelTimesOut
      <4> QED
        BY <4>1, <4>2
    <3> QED
      BY <3>2, <3>3
  <2>3. CancelMarksCurrent'
    <3>1. accepted' => cancelTask # None /\ Known(cancelTask, "cancel")
      BY <1>0, <2>1, <2>2, NoneIsNoRun DEF CancelInv, CancelMarksCurrent
    <3> QED
      BY <1>0, <2>1, <2>2, <3>1, NoneIsNoRun DEF CancelInv, CancelMarksCurrent, Known
  <2>4. CancelInv'
    BY <1>0, <1>3, <1>4, <2>2, <2>3 DEF CancelInv, Known
  <2>5. ControllerType'
    BY <1>0, <1>5, <2>2 DEF ControllerType
  <2>6. OneLiveRun'
    BY <1>5, <1>6, <1>7, <2>2 DEF Live
  <2> QED
    BY <1>1, <1>2, <1>5, <2>2, <2>4, <2>5, <2>6 DEF ControllerInv
<1> QED
  BY <1>8, <1>9, <1>10, <1>11, <1>12 DEF Moves

-----------------------------------------------------------------------------
(* The tasks that run beside the UI. *)

\* What a step beside the UI leaves of the state the UI depends on.
Quietly ==
    /\ UNCHANGED ui /\ EventsOK(events')
    /\ obs' = "none" => obs = "none" /\ UNCHANGED run
    /\ run' \in {run, None}
    /\ \A q \in Runs : harness[q].cancel = "none" => harness'[q].cancel = "none"
    /\ cancelDue = "none" => cancelDue' = "none"
    /\ obs' = "done" /\ events'[1].kind = "CancelPending" =>
          \/ obs = "done" /\ UNCHANGED events
          \/ cancelDue = "passed" /\ cancelDue' = "none"

\* Such a step keeps the UI well-formed.
LEMMA QuietKeepsUi ==
    ASSUME UiType, UiInv, PhaseInv, Quietly
    PROVE  UiType' /\ UiInv' /\ PhaseInv'
<1> USE DEF Quietly, ui
<1>1. UiType'
  BY DEF UiType
<1>2. UiInv'
  BY DEF UiInv
<1>3. PhaseInv'
  BY DEF PhaseInv
<1> QED
  BY <1>1, <1>2, <1>3

\* The steps of the store, of the cancel tasks and of the clock.
LEMMA OthersKeep ==
    ASSUME ControllerInv, UiInv, main # "stopped", UNCHANGED ui,
           \/ \E t \in Runs : SuperviseCancel(t)
           \/ DeadlinePasses
           \/ HarnessNext /\ UNCHANGED <<active, task, observer, settled>>
    PROVE  ControllerInv' /\ Quietly
<1>0. /\ harness \in [Runs -> Row] /\ ControllerType /\ HarnessInv /\ CancelInv /\ ObsInv
      /\ ToldTruly /\ OneLiveRun /\ EventsOK(events)
  BY DEF ControllerInv, UiInv
<1>1. UNCHANGED <<run, cancelTask, reported, cancelSnap, quitAfter, settled, obs, until, seen, got, events>>
  BY DEF SuperviseCancel, DeadlinePasses, active, observer
<1>2. UNCHANGED harness \/ HarnessNext
  BY DEF SuperviseCancel, DeadlinePasses
<1>3. harness' \in [Runs -> Row] /\ HarnessInv' /\ Forward
  BY <1>0, <1>2, StoreForward DEF Stores
<1>4. \A q \in Runs : (Live(q)' => Live(q)) /\ (harness[q].cancel = "none" => harness'[q].cancel = "none")
  BY <1>0, <1>2, HarnessQuiet
<1>5. /\ task' \in [Runs -> {"none", "running", "ok", "failed"}]
      /\ runDue' \in {"none", "armed", "passed"} /\ cancelDue' \in {"none", "armed", "passed"}
      /\ late' \in BOOLEAN /\ (cancelDue = "none" <=> cancelDue' = "none")
      /\ \A t \in Runs : task'[t] = "ok" => task[t] = "ok" \/ Known(t, "cancel")
  <2>1. CASE \E t \in Runs : SuperviseCancel(t)
    BY <1>0, <2>1 DEF SuperviseCancel, ControllerType, observer
  <2>2. CASE DeadlinePasses
    BY <1>0, <2>2 DEF DeadlinePasses, ControllerType
  <2>3. CASE UNCHANGED <<active, task, observer, settled>>
    BY <1>0, <2>3 DEF ControllerType, active, observer
  <2> QED
    BY <2>1, <2>2, <2>3
<1>6. accepted' \in BOOLEAN /\ (accepted' => accepted \/ (cancelTask \in Runs /\ Known(cancelTask, "cancel")))
  <2>1. accepted \in BOOLEAN
    BY <1>0 DEF ControllerType
  <2>2. ASSUME NEW t \in Runs, SuperviseCancel(t)
        PROVE  accepted' \in BOOLEAN /\ (accepted' => accepted \/ (cancelTask \in Runs /\ Known(cancelTask, "cancel")))
    <3>1. CASE accepted' = accepted
      BY <2>1, <3>1
    <3>2. CASE accepted' # accepted
      <4>1. Known(t, "cancel") /\ cancelTask = t /\ accepted' = TRUE
        BY <2>2, <3>2 DEF SuperviseCancel
      <4> QED
        BY <4>1
    <3> QED
      BY <3>1, <3>2
  <2>3. CASE UNCHANGED accepted
    BY <2>1, <2>3
  <2> QED
    BY <2>2, <2>3 DEF DeadlinePasses, active
<1>7. CancelMarksCurrent'
  <2>1. accepted' => cancelTask \in Runs /\ Known(cancelTask, "cancel")
    BY <1>0, <1>6 DEF CancelInv, CancelMarksCurrent, ControllerType
  <2>2. accepted' => cancelTask \in Runs /\ harness'[cancelTask].cancel \notin {"none", "sent", "refused"}
    BY <1>3, <2>1 DEF Forward, Known
  <2> QED
    BY <1>0, <1>1, <1>5, <2>2, NoneIsNoRun DEF CancelInv, CancelMarksCurrent, Known
<1>8. CancelInv'
  <2>1. \A t \in Runs : task'[t] = "ok" => Known(t, "cancel")'
    BY <1>0, <1>3, <1>5 DEF CancelInv, Forward
  <2>2. cancelSnap' # NoSnap => run' # None /\ TrueSnap(cancelSnap, run)'
    BY <1>1, <1>3, KeptByForward
  <2>3. run # None => run \in Runs
    BY <1>0 DEF ControllerType
  <2>4. run' # None => Known(run, "start")'
    BY <1>0, <1>1, <1>3, <2>3 DEF CancelInv, Forward, Known
  <2> QED
    BY <1>0, <1>1, <1>4, <1>7, <2>1, <2>2, <2>3, <2>4 DEF CancelInv
<1>9. ObsInv'
  <2>1. obs' = "read" =>
           /\ "start" \in DOMAIN got' /\ DOMAIN got' \subseteq Commands
           /\ got' \in [DOMAIN got' -> Reading]
           /\ \A k \in DOMAIN got' : TrueRead(got[k], k, seen)'
    BY <1>1, <1>3, KeptByForward
  <2> QED
    BY <1>0, <1>1, <2>1 DEF ObsInv
<1>10. ToldTruly'
  BY <1>1, <1>3, KeptByForward
<1>11. ControllerType'
  BY <1>0, <1>1, <1>5, <1>6 DEF ControllerType
<1>12. OneLiveRun'
  BY <1>0, <1>1, <1>4, <1>9 DEF OneLiveRun, Live, ObsInv, ui
<1>13. Quietly
  BY <1>0, <1>1, <1>4, <1>5 DEF Quietly
<1> QED
  BY <1>3, <1>8, <1>9, <1>10, <1>11, <1>12, <1>13 DEF ControllerInv

\* The steps of the observer that settle nothing.
LEMMA WatchingKeeps ==
    ASSUME ControllerInv, UiInv, main # "stopped", UNCHANGED ui,
           ObserveTop \/ (\E k \in Commands : GetCommand(k)) \/ GetFails
    PROVE  ControllerInv' /\ Quietly
<1>0. /\ harness \in [Runs -> Row] /\ ControllerType /\ HarnessInv /\ CancelInv /\ ObsInv
      /\ ToldTruly /\ OneLiveRun /\ EventsOK(events)
  BY DEF ControllerInv, UiInv
<1>1. UNCHANGED <<task, settled, harness, run, cancelTask, accepted, reported, cancelSnap, quitAfter, runDue>>
  BY DEF ObserveTop, CancelDue, RunDue, ReadSnapshots, GetCommand, GetFails, active
<1>2. harness' \in [Runs -> Row] /\ HarnessInv' /\ Forward
  BY <1>0, <1>1, StoreForward DEF Stores
<1>3. ToldTruly'
  BY <1>1, <1>2, KeptByForward
<1>4. cancelSnap' # NoSnap => run' # None /\ TrueSnap(cancelSnap, run)'
  BY <1>1, <1>2, KeptByForward
<1>5. obs \in {"top", "read"} /\ run # None /\ run \in Runs /\ seen = run
  BY <1>0 DEF ObserveTop, GetCommand, GetFails, ObsInv, ControllerType
<1>6. ASSUME ControllerType', ObsInv', cancelDue' \in {cancelDue, "none"}, obs' # "none", EventsOK(events'),
             obs' = "done" /\ events'[1].kind = "CancelPending" => cancelDue = "passed" /\ cancelDue' = "none"
      PROVE  ControllerInv' /\ Quietly
  <2>1. CancelInv'
    BY <1>0, <1>1, <1>4, <1>6 DEF CancelInv, CancelMarksCurrent, Known
  <2>2. OneLiveRun'
    BY <1>0, <1>1, <1>6 DEF OneLiveRun, ObsInv, ui
  <2>3. Quietly
    BY <1>1, <1>6 DEF Quietly
  <2> QED
    BY <1>2, <1>3, <1>6, <2>1, <2>2, <2>3 DEF ControllerInv
<1>7. ASSUME NEW kind, kind \in {"CancelPending", "Timeout"}
      PROVE  /\ \A r : EventsOK(<<Event(kind, r)>>) /\ <<Event(kind, r)>>[1].kind = kind
  BY <1>7, EventLists DEF Terminals, Event
<1>8. CASE obs = "top" /\ CancelDue
  <2> USE <1>8 DEF CancelDue, Observed
  <2>1. obs' = "done" /\ EventsOK(events') /\ seen' = run /\ cancelDue' = "none"
    BY <1>7
  <2>2. ControllerType'
    BY <1>0, <1>1, <1>5, <2>1 DEF ControllerType
  <2>3. ObsInv'
    BY <1>1, <1>5, <2>1 DEF ObsInv
  <2> QED
    BY <1>6, <2>1, <2>2, <2>3
<1>9. CASE obs = "top" /\ RunDue
  <2> USE <1>9 DEF RunDue, Observed
  <2>1. obs' = "done" /\ EventsOK(events') /\ seen' = seen /\ cancelDue' = cancelDue
        /\ events'[1].kind # "CancelPending"
    BY <1>7 DEF active
  <2>2. ControllerType'
    BY <1>0, <1>1, <2>1 DEF ControllerType
  <2>3. ObsInv'
    BY <2>1 DEF ObsInv
  <2> QED
    BY <1>6, <2>1, <2>2, <2>3
<1>10. CASE obs = "top" /\ ReadSnapshots
  <2> USE <1>10 DEF ReadSnapshots
  <2> DEFINE fresh == [command |-> NoSnap, run |-> Unread]
             keys == IF accepted THEN Commands ELSE {"start"}
  <2>1. /\ obs' = "read" /\ seen' = run /\ got' = [k \in keys |-> fresh]
        /\ UNCHANGED <<until, late, events, cancelDue>>
    BY DEF active
  <2>2. "start" \in keys /\ keys \subseteq Commands
    BY DEF Commands
  <2>3. fresh \in Reading /\ fresh.command = NoSnap /\ fresh.run = Unread
    BY DEF Reading
  <2> HIDE DEF keys, fresh
  <2>4. DOMAIN got' = keys /\ got' \in [keys -> Reading] /\ \A k \in keys : got'[k] = fresh
    BY <2>1, <2>3
  <2>5. ASSUME NEW k \in keys
        PROVE  TrueRead(got[k], k, seen)'
    <3>1. fresh.run # "none"
      BY <2>3 DEF Unread
    <3>2. fresh.run \notin EndStates
      BY <2>3 DEF Unread, EndStates
    <3> QED
      BY <2>3, <2>4, <3>1, <3>2 DEF TrueRead, Unread
  <2>6. ObsInv'
    BY <1>1, <1>5, <2>1, <2>2, <2>4, <2>5 DEF ObsInv
  <2>7. ControllerType'
    BY <1>0, <1>1, <1>5, <2>1 DEF ControllerType
  <2> QED
    BY <1>0, <1>6, <2>1, <2>6, <2>7
<1>11. ASSUME NEW k \in Commands, GetCommand(k)
       PROVE  ControllerInv' /\ Quietly
  <2> USE <1>11 DEF GetCommand
  <2>1. UNCHANGED <<obs, until, late, seen, events, cancelDue>> /\ obs = "read" /\ k \in DOMAIN got
    BY DEF active
  <2>2. /\ "start" \in DOMAIN got /\ DOMAIN got \subseteq Commands
        /\ got \in [DOMAIN got -> Reading]
        /\ \A q \in DOMAIN got : TrueRead(got[q], q, seen)
    BY <1>0, <2>1 DEF ObsInv
  <2>3. PICK g : g = got[k]
    OBVIOUS
  <2>4. TrueRead(g, k, run) /\ g \in Reading
    BY <1>5, <2>1, <2>2, <2>3
  <2>5. PICK h : got' = [got EXCEPT ![k] = h] /\ TrueRead(h, k, run)
    <3>1. CASE g.command = NoSnap
      <4>1. got' = [got EXCEPT ![k].command = CommandOf(seen, k)]
        BY <2>3, <3>1
      <4>2. got' = [got EXCEPT ![k] = [g EXCEPT !.command = CommandOf(run, k)]]
        BY <1>5, <2>3, <4>1
      <4>3. TrueRead([g EXCEPT !.command = CommandOf(run, k)], k, run)
        BY <1>0, <1>5, <2>4, <3>1, ReadTrue
      <4> QED
        BY <4>2, <4>3
    <3>2. CASE g.command # NoSnap
      <4>1. got' = [got EXCEPT ![k].run = harness[seen].run]
        BY <2>3, <3>2
      <4>2. got' = [got EXCEPT ![k] = [g EXCEPT !.run = harness[run].run]]
        BY <1>5, <2>3, <4>1
      <4>3. TrueRead([g EXCEPT !.run = harness[run].run], k, run)
        BY <1>0, <1>5, <2>4, <3>2, ReadTrue
      <4> QED
        BY <4>2, <4>3
    <3> QED
      BY <3>1, <3>2
  <2>6. h \in Reading
    BY <2>5 DEF TrueRead
  <2>7. /\ DOMAIN got' = DOMAIN got /\ got' \in [DOMAIN got' -> Reading]
        /\ \A q \in DOMAIN got : got'[q] = IF q = k THEN h ELSE got[q]
    BY <2>1, <2>2, <2>5, <2>6
  <2>8. ASSUME NEW q \in DOMAIN got
        PROVE  TrueRead(got[q], q, seen)'
    <3>1. TrueRead(got'[q], q, run)
      BY <1>5, <2>2, <2>5, <2>7
    <3>2. PICK x : x = got'[q]
      OBVIOUS
    <3>3. PICK r \in Runs : r = run
      BY <1>5
    <3>4. TrueRead(x, q, r)'
      BY <1>2, <2>2, <3>1, <3>2, <3>3, TruthStays
    <3> QED
      BY <1>1, <1>5, <2>1, <3>2, <3>3, <3>4
  <2>9. ObsInv'
    BY <1>1, <1>5, <2>1, <2>2, <2>7, <2>8 DEF ObsInv
  <2>10. ControllerType'
    BY <1>0, <1>1, <2>1 DEF ControllerType
  <2> QED
    BY <1>0, <1>6, <2>1, <2>9, <2>10
<1>12. CASE GetFails
  <2> USE <1>12 DEF GetFails
  <2>1. obs' = "failed" /\ UNCHANGED <<until, late, seen, events, cancelDue>>
    BY DEF active
  <2>2. ControllerType' /\ ObsInv'
    BY <1>0, <1>1, <2>1 DEF ControllerType, ObsInv
  <2> QED
    BY <1>0, <1>6, <2>1, <2>2
<1> QED
  BY <1>8, <1>9, <1>10, <1>11, <1>12 DEF ObserveTop

\* observe_once with all its snapshots: what it settles the run with is true of the run.
LEMMA ReturningKeeps ==
    ASSUME ControllerInv, UiInv, main # "stopped", UNCHANGED ui, ObserveReturns
    PROVE  ControllerInv' /\ Quietly
<1>0. /\ harness \in [Runs -> Row] /\ ControllerType /\ HarnessInv /\ CancelInv /\ ObsInv
      /\ ToldTruly /\ OneLiveRun /\ EventsOK(events)
  BY DEF ControllerInv, UiInv
<1>1. obs = "read" /\ run # None /\ run \in Runs /\ seen = run
  BY <1>0 DEF ObserveReturns, ObsInv, ControllerType
<1>2. UNCHANGED <<until, late, seen, task, harness>>
  BY DEF ObserveReturns
<1>3. harness' \in [Runs -> Row] /\ HarnessInv' /\ Forward
  BY <1>0, <1>2, StoreForward DEF Stores
<1> DEFINE snap == [k \in DOMAIN got |-> SnapshotOf(got[k].command, got[k].run)]
           cancel == IF "cancel" \in DOMAIN snap THEN snap["cancel"] ELSE cancelSnap
           verdict == Reconcile(snap["start"], cancel)
<1>4. ASSUME NEW k \in DOMAIN got
      PROVE  TrueSnap(snap[k], run) /\ snap[k].kind = k
  <2>1. k \in Commands /\ TrueRead(got[k], k, run) /\ got[k].run # Unread
    BY <1>0, <1>1 DEF ObsInv, ObserveReturns
  <2>2. got[k].command # NoSnap
    BY <2>1 DEF TrueRead
  <2> QED
    BY <1>1, <2>1, <2>2, SnapTrue
<1>5. TrueSnap(snap["start"], run) /\ snap["start"].kind = "start"
  BY <1>0, <1>1, <1>4 DEF ObsInv
<1>6. cancel # NoSnap => TrueSnap(cancel, run)
  BY <1>0, <1>4 DEF CancelInv
<1>7. /\ verdict = "none" =>
            /\ \/ obs' = "top" /\ events' = <<>>
               \/ obs' = "done" /\ events' = <<Event("Pending", seen)>>
            /\ cancelSnap' = cancel
            /\ UNCHANGED <<run, cancelTask, accepted, reported, quitAfter, runDue, cancelDue, settled>>
      /\ verdict # "none" =>
            /\ obs' = "done"
            /\ \/ events' = <<Event(verdict, run)>> \o <<Event("QuitRequested", run)>>
               \/ events' = <<Event(verdict, run)>> \o <<>>
            /\ Settle(verdict, cancel)
  BY DEF ObserveReturns
<1> HIDE DEF verdict, cancel, snap
<1>8. Verdict(verdict, run)
  BY <1>0, <1>1, <1>5, <1>6, VerdictTrue DEF verdict
<1>9. CASE verdict = "none"
  <2>1. /\ \/ obs' = "top" /\ events' = <<>>
           \/ obs' = "done" /\ events' = <<Event("Pending", seen)>>
        /\ cancelSnap' = cancel
        /\ UNCHANGED <<run, cancelTask, accepted, reported, quitAfter, runDue, cancelDue, settled>>
    BY <1>7, <1>9
  <2>2. EventsOK(events') /\ (obs' = "done" => events'[1].kind # "CancelPending")
    BY <2>1, EventLists DEF Terminals, Event
  <2>3. TrueSnap(cancel, run) <=> TrueSnap(cancelSnap, run)'
    BY <1>2, <2>1 DEF TrueSnap, Ended
  <2>4. CancelInv'
    BY <1>0, <1>1, <1>2, <1>6, <2>1, <2>3 DEF CancelInv, CancelMarksCurrent, Known
  <2>5. ControllerType'
    BY <1>0, <1>2, <2>1 DEF ControllerType
  <2>6. ObsInv'
    BY <1>1, <1>2, <2>1, <2>2 DEF ObsInv
  <2>7. ToldTruly'
    BY <1>3, <2>1, KeptByForward
  <2>8. OneLiveRun'
    BY <1>0, <1>1, <1>2, <2>1 DEF OneLiveRun, ui
  <2>9. Quietly
    BY <1>2, <2>1, <2>2 DEF Quietly
  <2> QED
    BY <1>3, <2>4, <2>5, <2>6, <2>7, <2>8, <2>9 DEF ControllerInv
<1>10. CASE verdict # "none"
  <2>0. verdict \in Terminals
    BY <1>8, <1>10 DEF Verdict, Kinds
  <2>1. /\ obs' = "done" /\ Settle(verdict, cancel)
        /\ \/ events' = <<Event(verdict, run)>> \o <<Event("QuitRequested", run)>>
           \/ events' = <<Event(verdict, run)>> \o <<>>
    BY <1>7, <1>10
  <2>2. \A a, b : /\ DOMAIN (<<a>> \o <<b>>) = 1..2 /\ (<<a>> \o <<b>>)[1] = a /\ (<<a>> \o <<b>>)[2] = b
                 /\ DOMAIN (<<a>> \o <<>>) = 1..1 /\ (<<a>> \o <<>>)[1] = a
    <3> SUFFICES ASSUME NEW a, NEW b
                 PROVE  /\ DOMAIN (<<a>> \o <<b>>) = 1..2 /\ (<<a>> \o <<b>>)[1] = a
                        /\ (<<a>> \o <<b>>)[2] = b
                        /\ DOMAIN (<<a>> \o <<>>) = 1..1 /\ (<<a>> \o <<>>)[1] = a
      OBVIOUS
    <3>1. /\ <<a>> \in Seq({a, b}) /\ <<b>> \in Seq({a, b})
          /\ Len(<<a>>) = 1 /\ Len(<<b>>) = 1 /\ <<a>>[1] = a /\ <<b>>[1] = b
      OBVIOUS
    <3>2. <<a>> \o <<>> = <<a>>
      OBVIOUS
    <3> QED
      BY <3>1, <3>2
  <2>3. EventsOK(events') /\ events'[1].kind # "CancelPending"
    <3> DEFINE end == Event(verdict, run)
               last == Event("QuitRequested", run)
    <3>1. end.run \in Runs /\ last.run \in Runs /\ end.kind = verdict
      BY <1>1 DEF Event
    <3> HIDE DEF end, last
    <3>2. events'[1] = end /\ \A k \in DOMAIN events' : events'[k] \in {end, last}
      <4>1. CASE events' = <<end>> \o <<last>>
        <5>1. DOMAIN events' = 1..2 /\ events'[1] = end /\ events'[2] = last
          BY <2>2, <4>1
        <5> QED
          BY <5>1
      <4>2. CASE events' = <<end>> \o <<>>
        <5>1. DOMAIN events' = 1..1 /\ events'[1] = end
          BY <2>2, <4>2
        <5> QED
          BY <5>1
      <4> QED
        BY <2>1, <4>1, <4>2 DEF end, last
    <3> QED
      BY <2>0, <3>1, <3>2 DEF EventsOK, Terminals
  <2>4. /\ settled' = [settled EXCEPT ![run] = verdict]
        /\ run' = None /\ cancelTask' = None /\ accepted' = FALSE /\ reported' = FALSE
        /\ cancelSnap' = NoSnap /\ quitAfter' = FALSE /\ runDue' = "none" /\ cancelDue' = "none"
    BY <2>1 DEF Settle
  <2>5. CancelInv'
    BY <1>0, <1>2, <2>4 DEF CancelInv, CancelMarksCurrent, Known
  <2>6. ControllerType'
    BY <1>0, <1>1, <1>2, <1>8, <2>1, <2>4 DEF ControllerType, Verdict
  <2>7. ObsInv'
    BY <2>1, <2>3 DEF ObsInv
  <2>8. ToldTruly'
    <3> SUFFICES ASSUME NEW r \in Runs, settled'[r] # "none"
                 PROVE  Verdict(settled[r], r)'
      BY DEF ToldTruly
    <3>1. settled'[r] = IF r = run THEN verdict ELSE settled[r]
      BY <1>0, <2>4 DEF ControllerType
    <3>2. Verdict(settled'[r], r)
      BY <1>0, <1>8, <3>1 DEF ToldTruly
    <3>3. PICK v : v = settled'[r]
      OBVIOUS
    <3>4. Verdict(v, r)'
      BY <1>3, <3>2, <3>3, VerdictStays
    <3> QED
      BY <3>3, <3>4
  <2>9. OneLiveRun'
    <3>1. ~ Live(run)
      BY <1>0, <1>1, <1>8, <1>10, EndedNotLive DEF Verdict
    <3>2. main # "start"
      BY <1>1 DEF UiInv
    <3>3. \A r \in Runs : ~ Live(r)'
      BY <1>0, <1>2, <3>1, <3>2 DEF OneLiveRun, Live
    <3> QED
      BY <2>1, <3>3 DEF OneLiveRun, Live
  <2>10. Quietly
    BY <1>2, <2>1, <2>3, <2>4 DEF Quietly
  <2> QED
    BY <1>3, <2>5, <2>6, <2>7, <2>8, <2>9, <2>10 DEF ControllerInv
<1> QED
  BY <1>9, <1>10

-----------------------------------------------------------------------------
(* The theorems. *)

IInv == UiType /\ ControllerInv /\ UiInv /\ PhaseInv

\* The invariant holds when the chat starts.
LEMMA InitIInv == Init => IInv
<1> SUFFICES ASSUME Init PROVE IInv
  OBVIOUS
<1> USE DEF Init, ControllerInit, ServiceInit
<1>0. EventsOK(<<>>)
  BY EventLists
<1>1. UiType
  <2>1. 0 \in 0..MaxLines /\ 0 \in 0..MaxFaults /\ 0 \in 0..3
    BY ChatAssumption
  <2> QED
    BY <2>1 DEF UiType
<1>2. harness \in [Runs -> Row] /\ HarnessInv
  BY DEF Row, CommandStates, RunStates, HarnessInv, Known
<1>3. ControllerType
  BY DEF ControllerType, Kinds
<1>4. CancelInv /\ ObsInv
  BY DEF CancelInv, CancelMarksCurrent, ObsInv
<1>5. ToldTruly /\ OneLiveRun
  BY DEF ToldTruly, OneLiveRun
<1>6. UiInv /\ PhaseInv
  BY <1>0 DEF UiInv, PhaseInv
<1> QED
  BY <1>1, <1>2, <1>3, <1>4, <1>5, <1>6 DEF IInv, ControllerInv

\* Every step keeps it.
LEMMA NextIInv == IInv /\ [Next]_vars => IInv'
<1> SUFFICES ASSUME IInv, [Next]_vars PROVE IInv'
  OBVIOUS
<1>0. UiType /\ ControllerInv /\ UiInv /\ PhaseInv /\ HarnessInv /\ CancelInv /\ ObsInv
  BY DEF IInv, ControllerInv
<1>1. TypeOK
  BY <1>0, Types DEF ControllerInv
<1>2. CASE UserNext
  <2>1. main # "stopped"
    BY <1>2 DEF UserNext, ReadLine, Interrupt, EndOfInput, FlatEnd, FlatQueued
  <2> QED
    BY <1>0, <1>1, <1>2, <2>1, UserMoves, MovesKeep DEF IInv
<1>3. CASE MainNext
  <2>1. main # "stopped"
    BY <1>3 DEF MainNext, Loop, StartAnswers, CancelAnswers, Emit, EmitFails, EmitObserved,
                ObserverRaises, FlatObserve, FlatObserved, FlatPoll, RecoverObserve, RecoverObserved
  <2> QED
    BY <1>0, <1>1, <1>3, <2>1, MainMoves, MovesKeep DEF IInv
<1>4. CASE Background
  <2>1. ControllerInv' /\ Quietly
    BY <1>0, <1>4, OthersKeep, WatchingKeeps, ReturningKeeps DEF Background, ObserverNext
  <2> QED
    BY <1>0, <2>1, QuietKeepsUi DEF IInv
<1>5. CASE UNCHANGED vars
  <2> USE <1>5 DEF vars, controller
  <2>1. UiType' /\ UiInv' /\ PhaseInv'
    BY <1>0 DEF UiType, UiInv, PhaseInv, ui, active, observer
  <2>2. ControllerInv'
    BY <1>0 DEF ControllerInv, ControllerType, HarnessInv, CancelInv, CancelMarksCurrent, ObsInv, ToldTruly,
                OneLiveRun, Verdict, Ended, TrueSnap, TrueRead, TrueCommand, Known, active, observer, ui
  <2> QED
    BY <2>1, <2>2 DEF IInv
<1> QED
  BY <1>2, <1>3, <1>4, <1>5 DEF Next

\* The invariant is one of the specification.
LEMMA AlwaysIInv == Spec => []IInv
BY InitIInv, NextIInv, PTL DEF Spec

\* For any number of runs: the end the chat shows for a run is the end the harness has
\* recorded for it, although _read_snapshots reads command and run one after the other,
\* asks for the cancel only some of the time and keeps its snapshot between polls.
THEOREM ChatSettlesTruly == Spec => []SettledTruly
<1>1. IInv => SettledTruly
  BY Types DEF IInv, ControllerInv, SettledTruly, ToldTruly, Verdict
<1> QED
  BY <1>1, AlwaysIInv, PTL

\* The chat never loses a run the harness may still work on, and its observer works on no
\* other.
THEOREM ChatFollowsItsRun == Spec => []OneLiveRun
<1>1. IInv => OneLiveRun
  BY DEF IInv, ControllerInv
<1> QED
  BY <1>1, AlwaysIInv, PTL

\* No late answer of an earlier cancel marks the cancel of the active run.
THEOREM ChatCancelIsCurrent == Spec => []CancelMarksCurrent
<1>1. IInv => CancelMarksCurrent
  BY DEF IInv, ControllerInv, CancelInv
<1> QED
  BY <1>1, AlwaysIInv, PTL

\* terminal_ui.py _recover_renderer_failure: two phases are enough.
THEOREM ChatRecoveryDecides == Spec => []RecoveryDecides
<1>1. IInv => RecoveryDecides
  BY DEF IInv, PhaseInv, RecoveryDecides
<1> QED
  BY <1>1, AlwaysIInv, PTL

===============================================================================
