--------------------------- MODULE ArchiveProofs ---------------------------
(***************************************************************************)
(* What ArchiveFlow promises of the history, for any messages, bounds and  *)
(* number of launches: the types; that what the panel counts as under way  *)
(* is under way; that no copy of the history holds what the user did not   *)
(* ask to be kept; that what was reported as kept is stored; and that a    *)
(* panel which closes by itself has left nothing undone.                   *)
(***************************************************************************)
EXTENDS ArchiveFlow, FiniteSetTheorems, TLAPS

------------------------------------------------------------------------------
(* Types                                                                     *)

\* What a snapshot is made of.
LEMMA SnapshotFields ==
  ASSUME NEW s \in Snapshot
  PROVE  s.rev \in 0..MaxRevision /\ s.msgs \subseteq Message /\ s.known \in BOOLEAN
<1>1. CASE s = NoSnapshot
  BY <1>1, ArchiveAssumption DEF NoSnapshot, NoRevision
<1>2. CASE s # NoSnapshot
  <2>1. PICK n \in 1..MaxRevision, p \in Published : s = [rev |-> n, msgs |-> p.msgs, known |-> p.known]
    BY <1>2 DEF Snapshot
  <2>2. p \in [msgs : SUBSET Message, known : BOOLEAN]
    BY ArchiveAssumption
  <2> QED BY <2>1, <2>2, ArchiveAssumption
<1> QED BY <1>1, <1>2

\* purge adds nothing.
LEMMA PurgedWithin ==
  ASSUME NEW rows, NEW s \in Purged(rows)
  PROVE  s \subseteq rows
  BY DEF Purged

\* The last answer is one of the answers.
LEMMA LastIsOne ==
  ASSUME NEW S, NEW s \in Seq(S), s # <<>>
  PROVE  Len(s) \in DOMAIN s /\ Last(s) = s[Len(s)] /\ Last(s) \in S
  BY DEF Last

LEMMA AppendIs ==
  ASSUME NEW S, NEW s \in Seq(S), NEW e \in S
  PROVE  /\ Append(s, e) \in Seq(S) /\ Append(s, e) # <<>>
         /\ Last(Append(s, e)) = e
         /\ DOMAIN Append(s, e) = DOMAIN s \cup {Len(s) + 1}
         /\ \A i \in DOMAIN s : Append(s, e)[i] = s[i]
         /\ Append(s, e)[Len(s) + 1] = e
  BY DEF Last

LEMMA FinishTypes ==
  ASSUME ArchiveTypeOK, NEW kind \in Job \cup {"Clear"}, NEW rows \in Rows, NEW failed \in BOOLEAN,
         Finish(kind, rows, failed)
  PROVE  worker' \in Worker /\ updates' \in Seq(Update)
<1>1. worker' \in Worker BY DEF Finish, Rested, Worker, ArchiveTypeOK, Rows
<1>2. [kind |-> kind, rows |-> rows, failed |-> failed] \in Update
  BY DEF Update
<1> QED BY <1>1, <1>2 DEF Finish, Answer, ArchiveTypeOK

LEMMA StartSaveTypes ==
  ASSUME ArchiveTypeOK, NEW kind \in Job, NEW next \in Rows, NEW back \in Rows,
         StartSave(kind, next, back)
  PROVE  worker' \in Worker
  BY DEF StartSave, Worker, ArchiveTypeOK

LEMMA PolledTypes == ArchiveTypeOK => Polled(panel) \in Panel
<1> SUFFICES ASSUME ArchiveTypeOK PROVE Polled(panel) \in Panel
  OBVIOUS
<1> USE DEF ArchiveTypeOK
<1>1. CASE worker.place = "None"
  <2>1. 0 \in 0..1 /\ TRUE \in BOOLEAN OBVIOUS
  <2>2. [panel EXCEPT !.pending = 0, !.ready = TRUE, !.failed = TRUE] \in Panel
    BY <2>1 DEF Panel
  <2> QED BY <1>1, <2>2 DEF Polled
<1>2. CASE worker.place # "None" /\ updates = <<>>
  BY <1>2 DEF Polled
<1>3. CASE worker.place # "None" /\ updates # <<>>
  <2> DEFINE last == Last(updates)
  <2>1. last \in Update BY <1>3, LastIsOne
  <2>2. last.failed \in BOOLEAN /\ last.rows \in Rows \cup {Absent} BY <2>1 DEF Update
  <2> HIDE DEF last
  <2>3. (IF last.rows = Absent THEN panel.rows ELSE last.rows) \in Rows BY <2>2 DEF Panel
  <2>4. (IF Answered THEN 0 ELSE panel.pending) \in 0..1 BY DEF Panel
  <2>5. [panel EXCEPT !.pending = IF Answered THEN 0 ELSE panel.pending, !.ready = TRUE,
                      !.failed = last.failed,
                      !.rows = IF last.rows = Absent THEN panel.rows ELSE last.rows] \in Panel
    BY <2>2, <2>3, <2>4 DEF Panel
  <2> QED BY <1>3, <2>5 DEF Polled, last
<1> QED BY <1>1, <1>2, <1>3

LEMMA HeardTypes == ArchiveTypeOK => Heard \in User
<1> SUFFICES ASSUME ArchiveTypeOK PROVE Heard \in User
  OBVIOUS
<1> USE DEF ArchiveTypeOK
<1>1. updates # <<>> => Last(updates) \in Update BY LastIsOne
<1>2. updates # <<>> /\ ~Last(updates).failed => Last(updates).rows \in Rows
  BY <1>1 DEF Update
<1>3. {} \in Rows BY DEF Rows
<1> QED BY <1>1, <1>2, <1>3 DEF Heard, User, Gone

LEMMA CapturedTypes ==
  ASSUME ArchiveTypeOK, NEW s \in Snapshot
  PROVE  Captured(s) \in Rows
  BY SnapshotFields DEF Captured, ArchiveTypeOK, Rows, Row

LEMMA ObservedTypes ==
  ASSUME ArchiveTypeOK, NEW p \in Panel, NEW s \in Snapshot, NEW h \in User, ObservedBy(p, s, h)
  PROVE  panel' \in Panel /\ queue' \in Seq(Command) /\ user' \in User
<1>1. CASE Observes(p, s)
  <2>1. [p EXCEPT !.pending = 1, !.seen = s.rev] \in Panel
    <3>1. s.rev \in 0..MaxRevision /\ 1 \in 0..1 BY SnapshotFields
    <3> QED BY <3>1 DEF Panel
  <2>2. [kind |-> "Capture", rows |-> Captured(s)] \in Command
    BY CapturedTypes DEF Command
  <2>3. [h EXCEPT !.allowed = @ \cup (IF h.on THEN Captured(s) ELSE {})] \in User
    <3> DEFINE more == IF h.on THEN Captured(s) ELSE {}
    <3>1. more \in Rows BY CapturedTypes DEF Rows
    <3> HIDE DEF more
    <3>2. h.allowed \cup more \in Rows BY <3>1 DEF User, Rows
    <3>3. [h EXCEPT !.allowed = h.allowed \cup more] \in User BY <3>2 DEF User
    <3> QED BY <3>3 DEF more
  <2>4. queue \in Seq(Command) BY DEF ArchiveTypeOK
  <2>5. Append(queue, [kind |-> "Capture", rows |-> Captured(s)]) \in Seq(Command)
    BY <2>2, <2>4, AppendIs
  <2> QED BY <1>1, <2>1, <2>3, <2>5 DEF ObservedBy
<1>2. CASE ~Observes(p, s)
  BY <1>2 DEF ObservedBy, ArchiveTypeOK
<1> QED BY <1>1, <1>2

LEMMA FrameTypes ==
  ASSUME ArchiveTypeOK, Frame \/ ExitFrame
  PROVE  ArchiveTypeOK'
<1>1. updates' = <<>> /\ UNCHANGED <<clock, disk, worker>> BY DEF Frame, ExitFrame
<1>2. <<>> \in Seq(Update) OBVIOUS
<1>3. panel' \in Panel /\ shown' \in Snapshot /\ queue' \in Seq(Command) /\ user' \in User
  <2>1. CASE Frame
    BY <2>1, PolledTypes, HeardTypes, ObservedTypes DEF Frame
  <2>2. CASE ExitFrame
    <3>1. PICK s \in Snapshot :
            LET final == IF panel.final = Absent THEN s ELSE panel.final
                polled == [Polled(panel) EXCEPT !.final = final]
            IN  /\ shown' = s
                /\ IF ~Busy(polled) /\ ~polled.finalSeen
                   THEN ObservedBy([polled EXCEPT !.finalSeen = TRUE], final, Heard)
                   ELSE panel' = polled /\ user' = Heard /\ UNCHANGED queue
      BY <2>2 DEF ExitFrame
    <3> DEFINE final == IF panel.final = Absent THEN s ELSE panel.final
               polled == [Polled(panel) EXCEPT !.final = final]
    <3>2. final \in Snapshot BY DEF ArchiveTypeOK, Panel
    <3> HIDE DEF final
    <3>3. polled \in Panel BY <3>2, PolledTypes DEF Panel
    <3> HIDE DEF polled
    <3>4. [polled EXCEPT !.finalSeen = TRUE] \in Panel BY <3>3 DEF Panel
    <3>5. ObservedBy([polled EXCEPT !.finalSeen = TRUE], final, Heard)
            \/ (panel' = polled /\ user' = Heard /\ UNCHANGED queue)
      BY <3>1 DEF final, polled
    <3>6. queue \in Seq(Command) BY DEF ArchiveTypeOK
    <3> QED BY <3>1, <3>2, <3>3, <3>4, <3>5, <3>6, HeardTypes, ObservedTypes
  <2> QED BY <2>1, <2>2
<1> QED BY <1>1, <1>2, <1>3 DEF ArchiveTypeOK

LEMMA WorkerTypes ==
  ASSUME ArchiveTypeOK, WorkerStep
  PROVE  ArchiveTypeOK'
<1> USE DEF ArchiveTypeOK
<1>f. File \in Rows BY DEF File, Disk, Rows
<1>w. worker.rows \in Rows /\ worker.next \in Rows /\ worker.back \in Rows
  BY DEF Worker
<1>p. \A rows \in Rows : \A s \in Purged(rows) : s \in Rows
  BY PurgedWithin DEF Rows
<1>q. (Head(queue) \in Command /\ Tail(queue) \in Seq(Command)) \/ queue = <<>>
  OBVIOUS
<1>1. CASE LoadFails
  <2>1. [Rested EXCEPT !.failed = TRUE] \in Worker BY <1>w DEF Rested, Worker, Rows
  <2>2. [kind |-> "Load", rows |-> Absent, failed |-> TRUE] \in Update BY DEF Update, Job
  <2> QED BY <1>1, <2>1, <2>2, AppendIs DEF LoadFails
<1>2. CASE Load
  BY <1>2, <1>f, <1>p, FinishTypes, StartSaveTypes DEF Load, Job
<1>3. CASE Save
  <2>1. worker.job \in Job BY <1>3 DEF Save, Worker
  <2> QED BY <2>1, <1>3, <1>w, FinishTypes DEF Save, Disk
<1>4. CASE SaveFails
  <2>1. worker.job \in Job BY <1>4 DEF SaveFails, Worker
  <2>2. (worker.job # "Export") \in BOOLEAN OBVIOUS
  <2> DEFINE bad == worker.job # "Export"
             rows == IF worker.job = "Load" THEN Absent ELSE worker.back
  <2>3. rows \in Rows \cup {Absent} /\ (bad \/ rows \in Rows) BY <1>w
  <2>4. bad \in BOOLEAN OBVIOUS
  <2> HIDE DEF bad, rows
  <2>5. [Rested EXCEPT !.rows = worker.back, !.failed = bad] \in Worker
    BY <1>w, <2>4 DEF Rested, Worker, Rows
  <2>6. [kind |-> worker.job, failed |-> bad, rows |-> rows] \in Update
    BY <2>1, <2>3, <2>4 DEF Update
  <2>7. /\ worker' = [Rested EXCEPT !.rows = worker.back, !.failed = bad]
        /\ updates' = Append(updates, [kind |-> worker.job, failed |-> bad, rows |-> rows])
        /\ UNCHANGED <<clock, disk, panel, shown, queue, user>>
    BY <1>4 DEF SaveFails, bad, rows
  <2> QED BY <2>5, <2>6, <2>7, AppendIs
<1>5. CASE Capture
  <2>1. PICK kept \in Purged(worker.rows) :
          LET new == {r \in Head(queue).rows : r.msg \notin Messages(kept)}
          IN  \E next \in Purged(kept \cup new) :
                IF kept = worker.rows /\ new = {} THEN Finish("Capture", kept, FALSE)
                ELSE StartSave("Capture", next, worker.rows) /\ UNCHANGED updates
    BY <1>5 DEF Capture
  <2> DEFINE new == {r \in Head(queue).rows : r.msg \notin Messages(kept)}
  <2>2. queue # <<>> /\ queue' = Tail(queue) /\ UNCHANGED <<clock, panel, shown, user, disk>>
    BY <1>5 DEF Capture, Take
  <2>3. Head(queue).rows \in Rows BY <1>q, <2>2 DEF Command
  <2>4. kept \in Rows /\ kept \cup new \in Rows BY <1>w, <1>p, <2>3 DEF Rows
  <2>5. PICK next \in Purged(kept \cup new) :
          \/ Finish("Capture", kept, FALSE)
          \/ StartSave("Capture", next, worker.rows) /\ UNCHANGED updates
    BY <2>1
  <2>6. next \in Rows BY <1>p, <2>4
  <2>7. worker' \in Worker /\ updates' \in Seq(Update)
    BY <2>4, <2>5, <2>6, <1>w, FinishTypes, StartSaveTypes DEF Job
  <2> QED BY <2>2, <2>7, <1>q
<1>6. CASE CapturePaused
  BY <1>6, <1>w, <1>q, FinishTypes DEF CapturePaused, Take, Job
<1>7. CASE Clear
  <2>1. UNCHANGED <<clock, panel, shown, user>> /\ queue' \in Seq(Command)
    BY <1>7, <1>q DEF Clear, Take
  <2>2. worker' \in Worker /\ updates' \in Seq(Update)
    <3>1. {} \in Rows BY DEF Rows
    <3> QED BY <3>1, <1>7, <1>w, FinishTypes DEF Clear
  <2>3. disk' \in Disk BY <1>7 DEF Clear, Disk
  <2> QED BY <2>1, <2>2, <2>3
<1>8. CASE Export
  <2>1. queue' \in Seq(Command) /\ UNCHANGED <<clock, panel, shown, user, disk>>
    BY <1>8, <1>q DEF Export, Take
  <2>2. worker' \in Worker /\ updates' \in Seq(Update)
    BY <1>8, <1>w, <1>p, FinishTypes, StartSaveTypes DEF Export, Job
  <2> QED BY <2>1, <2>2
<1>9. CASE Maintain
  BY <1>9, <1>w, <1>p, StartSaveTypes DEF Maintain, Job
<1> QED BY <1>1, <1>2, <1>3, <1>4, <1>5, <1>6, <1>7, <1>8, <1>9 DEF WorkerStep

LEMMA SwitchedTypes ==
  ASSUME ArchiveTypeOK, NEW choice \in BOOLEAN
  PROVE  Switched(panel, choice) \in Panel
<1> DEFINE seen == IF panel.enabled = choice THEN panel.seen ELSE NoRevision
<1>1. seen \in 0..MaxRevision BY ArchiveAssumption DEF ArchiveTypeOK, Panel, NoRevision
<1> HIDE DEF seen
<1>2. [panel EXCEPT !.enabled = choice, !.loaded = choice, !.seen = seen] \in Panel
  BY <1>1 DEF ArchiveTypeOK, Panel
<1> QED BY <1>2 DEF Switched, seen

LEMMA QueueTypes ==
  ASSUME ArchiveTypeOK, NEW p \in Panel, p.pending = 0, NEW command \in Command, Queue(p, command)
  PROVE  panel' \in Panel /\ queue' \in Seq(Command)
<1> USE DEF ArchiveTypeOK
<1>1. CASE worker.place = "None"
  <2>1. [p EXCEPT !.failed = TRUE] \in Panel BY DEF Panel
  <2> QED BY <1>1, <2>1 DEF Queue
<1>2. CASE worker.place # "None"
  <2>1. p.pending + 1 \in 0..1 OBVIOUS
  <2>2. [p EXCEPT !.pending = p.pending + 1] \in Panel BY <2>1 DEF Panel
  <2>3. Append(queue, command) \in Seq(Command) BY AppendIs
  <2> QED BY <1>2, <2>2, <2>3 DEF Queue
<1> QED BY <1>1, <1>2

LEMMA PanelTypes ==
  ASSUME ArchiveTypeOK,
         \/ Close \/ SetEnabled \/ ClearConfirmed \/ ExportConfirmed \/ SettingsSaved
         \/ Exit \/ CallOff \/ Launch \/ Crash \/ Tick
  PROVE  ArchiveTypeOK'
<1> USE DEF ArchiveTypeOK
<1>e. {} \in Rows /\ <<>> \in Seq(Command) /\ <<>> \in Seq(Update) /\ NoSnapshot \in Snapshot
  BY DEF Rows, Snapshot
<1>n. \A place \in {"Loading", "None"} : NewWorker(place) \in Worker
  BY <1>e DEF NewWorker, Worker
<1>z. 0 \in 0..1 /\ 1 \in 0..1 /\ NoRevision \in 0..MaxRevision
  BY ArchiveAssumption DEF NoRevision
<1>f. \A choice \in BOOLEAN : Fresh(choice) \in Panel
  BY <1>e, <1>z DEF Fresh, Panel
<1>1. CASE Close
  <2>1. [panel EXCEPT !.place = "Closed"] \in Panel BY DEF Panel
  <2> QED BY <1>1, <1>e, <1>n, <2>1 DEF Close
<1>2. CASE SetEnabled
  <2>1. PICK choice \in BOOLEAN, end \in SaveEnd :
          /\ SavedAs(end, choice)
          /\ panel' = IF end = "Kept" THEN Switched(panel, choice) ELSE panel
          /\ user' = [user EXCEPT !.on = choice \/ (@ /\ end # "Kept")]
    BY <1>2 DEF SetEnabled
  <2>2. disk' \in Disk BY <2>1 DEF SavedAs, Disk
  <2>3. panel' \in Panel BY <2>1, SwitchedTypes
  <2>4. (choice \/ (user.on /\ end # "Kept")) \in BOOLEAN OBVIOUS
  <2>5. user' \in User BY <2>1, <2>4 DEF User
  <2> QED BY <1>2, <2>2, <2>3, <2>5 DEF SetEnabled
<1>3. CASE ClearConfirmed
  <2>1. panel.pending = 0 BY <1>3 DEF ClearConfirmed, Confirmable, Busy
  <2>2. PICK end \in SaveEnd :
          /\ SavedAs(end, FALSE)
          /\ IF end = "Kept"
             THEN /\ Queue([Switched(panel, FALSE) EXCEPT !.seen = NoRevision],
                           [kind |-> "Clear", rows |-> {}])
                  /\ user' = [user EXCEPT !.on = FALSE, !.reported = {}, !.clearing = TRUE]
             ELSE UNCHANGED <<panel, queue, user>>
    BY <1>3 DEF ClearConfirmed, Confirmable
  <2>3. disk' \in Disk BY <2>2 DEF SavedAs, Disk
  <2>4. CASE end = "Kept"
    <3> DEFINE p == [Switched(panel, FALSE) EXCEPT !.seen = NoRevision]
               c == [kind |-> "Clear", rows |-> {}]
    <3>1. p \in Panel BY <1>z, SwitchedTypes DEF Panel
    <3>2. p.pending = 0 BY <2>1 DEF Switched, Panel
    <3>3. c \in Command BY <1>e DEF Command
    <3>4. Queue(p, c) BY <2>2, <2>4
    <3> HIDE DEF p, c
    <3>5. panel' \in Panel /\ queue' \in Seq(Command) BY <3>1, <3>2, <3>3, <3>4, QueueTypes
    <3>6. user' \in User BY <2>2, <2>4, <1>e DEF User
    <3> QED BY <1>3, <2>3, <3>5, <3>6 DEF ClearConfirmed, Confirmable
  <2>5. CASE end # "Kept"
    BY <1>3, <2>2, <2>3, <2>5 DEF ClearConfirmed, Confirmable
  <2> QED BY <2>4, <2>5
<1>4. CASE ExportConfirmed
  <2>1. [kind |-> "Export", rows |-> {}] \in Command BY <1>e DEF Command
  <2>2. panel' \in Panel /\ queue' \in Seq(Command)
    BY <1>4, <2>1, QueueTypes DEF ExportConfirmed, Confirmable, Busy
  <2> QED BY <1>4, <2>2 DEF ExportConfirmed, Confirmable
<1>5. CASE SettingsSaved
  <2>1. disk' \in Disk BY <1>5 DEF SettingsSaved, SavedAs, Disk, Panel
  <2> QED BY <1>5, <2>1 DEF SettingsSaved
<1>6. CASE Exit
  <2>1. \A handoff \in BOOLEAN : [panel EXCEPT !.exiting = TRUE, !.handoff = handoff] \in Panel
    BY DEF Panel
  <2> QED BY <1>6, <2>1 DEF Exit
<1>7. CASE CallOff
  <2>1. [panel EXCEPT !.exiting = FALSE, !.handoff = FALSE] \in Panel BY DEF Panel
  <2>2. [user EXCEPT !.calledOff = TRUE] \in User BY DEF User
  <2> QED BY <1>7, <2>1, <2>2 DEF CallOff
<1>8. CASE Launch
  <2>1. PICK choice \in {disk.optIn, FALSE}, place \in {"Loading", "None"} :
          /\ panel' = IF place = "Loading" THEN Fresh(choice)
                      ELSE [Fresh(choice) EXCEPT !.pending = 0, !.ready = TRUE, !.failed = TRUE]
          /\ worker' = NewWorker(place)
    BY <1>8 DEF Launch
  <2>2. Fresh(choice) \in Panel BY <1>f DEF Disk
  <2>3. [Fresh(choice) EXCEPT !.pending = 0, !.ready = TRUE, !.failed = TRUE] \in Panel
    BY <2>2, <1>z DEF Panel
  <2>4. user.launches + 1 \in 0..MaxLaunches
    BY <1>8, ArchiveAssumption DEF Launch, User
  <2>5. [user EXCEPT !.launches = user.launches + 1, !.calledOff = FALSE, !.clearing = FALSE] \in User
    BY <2>4 DEF User
  <2> QED BY <1>8, <1>e, <1>n, <2>1, <2>2, <2>3, <2>5 DEF Launch
<1>9. CASE Crash
  <2>1. [Fresh(FALSE) EXCEPT !.place = "Down"] \in Panel BY <1>f DEF Panel
  <2> QED BY <1>9, <1>e, <1>n, <2>1 DEF Crash
<1>10. CASE Tick
  <2>1. clock + 1 \in 0..MaxClock BY <1>10, ArchiveAssumption DEF Tick
  <2> QED BY <1>10, <2>1 DEF Tick
<1> QED BY <1>1, <1>2, <1>3, <1>4, <1>5, <1>6, <1>7, <1>8, <1>9, <1>10

\* Every variable keeps its type.
THEOREM ArchiveTypeCorrect == Spec => []ArchiveTypeOK
<1>1. Init => ArchiveTypeOK
  <2> SUFFICES ASSUME Init PROVE ArchiveTypeOK
    OBVIOUS
  <2> USE DEF Init
  <2>1. {} \in Rows /\ NoSnapshot \in Snapshot BY DEF Rows, Snapshot
  <2>2. disk \in Disk BY DEF Disk
  <2>3. 1 \in 0..1 /\ NoRevision \in 0..MaxRevision BY ArchiveAssumption DEF NoRevision
  <2>4. panel \in Panel BY <2>1, <2>3 DEF Panel, Fresh
  <2>5. worker \in Worker BY <2>1 DEF Worker, NewWorker
  <2>6. 1 \in 0..MaxLaunches /\ clock \in 0..MaxClock BY ArchiveAssumption
  <2>7. user \in User BY <2>1, <2>6 DEF User
  <2>8. <<>> \in Seq(Command) /\ <<>> \in Seq(Update) OBVIOUS
  <2> QED BY <2>1, <2>2, <2>4, <2>5, <2>6, <2>7, <2>8 DEF ArchiveTypeOK
<1>2. ArchiveTypeOK /\ [Next]_vars => ArchiveTypeOK'
  <2>1. ArchiveTypeOK /\ UNCHANGED vars => ArchiveTypeOK' BY DEF ArchiveTypeOK, vars
  <2> QED BY <2>1, WorkerTypes, FrameTypes, PanelTypes DEF Next
<1> QED BY <1>1, <1>2, PTL DEF Spec

------------------------------------------------------------------------------
(* What is under way                                                         *)

OneAnswer == \A i, j \in DOMAIN updates : Completes(updates[i]) /\ Completes(updates[j]) => i = j

\* The account of what is under way, and that it is one thing at a time.
Account ==
  /\ Busy(panel) <=> (queue # <<>> \/ Underway \/ Answered)
  /\ ~(queue # <<>> /\ (Underway \/ Answered)) /\ ~(Underway /\ Answered)
  /\ OneAnswer

\* Without its worker the panel has nothing under way; without the panel there is no worker.
Channels ==
  /\ Len(queue) <= 1
  /\ worker.place = "None" => queue = <<>> /\ updates = <<>>
  /\ Up \/ worker.place = "None"

Flow == Channels /\ (worker.place # "None" => Account)

\* One more answer, to a command that has none yet or to none.
LEMMA OneMoreAnswer ==
  ASSUME ArchiveTypeOK, OneAnswer, NEW u \in Update, updates' = Append(updates, u),
         Completes(u) => ~Answered
  PROVE  (Answered' <=> Answered \/ Completes(u)) /\ OneAnswer'
<1>1. /\ DOMAIN updates' = DOMAIN updates \cup {Len(updates) + 1}
      /\ \A i \in DOMAIN updates : updates'[i] = updates[i]
      /\ updates'[Len(updates) + 1] = u
  BY AppendIs DEF ArchiveTypeOK
<1>2. Answered' <=> Answered \/ Completes(u)
  BY <1>1 DEF Answered, Completes
<1>3. OneAnswer'
  BY <1>1 DEF Answered, OneAnswer, Completes
<1> QED BY <1>2, <1>3

LEMMA FinishIs ==
  ASSUME ArchiveTypeOK, NEW kind \in Job \cup {"Clear"}, NEW rows \in Rows, NEW failed \in BOOLEAN,
         Finish(kind, rows, failed)
  PROVE  /\ worker'.place = "Idle"
         /\ \E u \in Update : u.kind = kind /\ updates' = Append(updates, u)
<1> DEFINE u == [kind |-> kind, rows |-> rows, failed |-> failed]
<1>1. u \in Update /\ u.kind = kind BY DEF Update
<1>2. updates' = Append(updates, u) BY DEF Finish, Answer
<1>3. worker'.place = "Idle" BY DEF Finish, Rested, ArchiveTypeOK, Worker
<1> QED BY <1>1, <1>2, <1>3

LEMMA SaveStarts ==
  ASSUME ArchiveTypeOK, NEW kind \in Job, NEW next, NEW back, StartSave(kind, next, back)
  PROVE  worker'.place = "Saving" /\ worker'.job = kind /\ (Underway' <=> kind # "Maintain")
<1>1. worker'.place = "Saving" /\ worker'.job = kind
  BY DEF StartSave, ArchiveTypeOK, Worker
<1> QED BY <1>1 DEF Underway

\* With one command on its way, taking it leaves none.
LEMMA TakenLast ==
  ASSUME ArchiveTypeOK, Len(queue) <= 1, NEW kind, Take(kind)
  PROVE  queue # <<>> /\ queue' = <<>> /\ Idle /\ panel' = panel /\ user' = user
  BY DEF Take, ArchiveTypeOK

LEMMA WorkerFlow ==
  ASSUME ArchiveTypeOK, Flow, WorkerStep
  PROVE  Flow'
<1> USE DEF ArchiveTypeOK
<1>1. worker.place # "None" /\ panel' = panel
  BY DEF WorkerStep, LoadFails, Load, Save, SaveFails, Capture, CapturePaused, Clear, Export, Maintain,
         Take, Idle
<1>2. Account /\ Channels BY <1>1 DEF Flow
<1>3. ASSUME Channels', Account' PROVE Flow' BY <1>3 DEF Flow
<1>w. worker.rows \in Rows /\ worker.next \in Rows /\ worker.back \in Rows /\ {} \in Rows
  BY DEF Worker, Rows
<1>p. \A rows \in Rows : \A s \in Purged(rows) : s \in Rows
  BY PurgedWithin DEF Rows
<1>b. Up' /\ (Busy(panel)' <=> Busy(panel)) BY <1>1, <1>2 DEF Up, Busy, Channels
\* A job that began with a command, or with the start, is over and answered.
<1>4. ASSUME queue # <<>> \/ Underway, queue' = <<>>, worker'.place = "Idle",
             NEW u \in Update, u.kind # "Maintain", updates' = Append(updates, u)
      PROVE  Flow'
  <2>1. ~Answered /\ Busy(panel) /\ OneAnswer BY <1>2, <1>4 DEF Account
  <2>2. Completes(u) BY <1>4 DEF Completes
  <2>3. ~Underway' /\ Answered' /\ OneAnswer'
    BY <1>4, <2>1, <2>2, OneMoreAnswer DEF Underway
  <2>4. Account' BY <1>4, <1>b, <2>1, <2>3 DEF Account
  <2>5. Channels' BY <1>4, <1>b DEF Channels
  <2> QED BY <1>3, <2>4, <2>5
\* It goes on with a save.
<1>5. ASSUME queue # <<>> \/ Underway, queue' = <<>>, NEW kind \in Job \ {"Maintain"}, NEW next, NEW back,
             StartSave(kind, next, back), updates' = updates
      PROVE  Flow'
  <2>1. ~Answered /\ Busy(panel) /\ OneAnswer BY <1>2, <1>5 DEF Account
  <2>2. worker'.place = "Saving" /\ Underway' BY <1>5, SaveStarts
  <2>3. ~Answered' /\ OneAnswer' BY <1>5, <2>1 DEF Answered, OneAnswer, Completes
  <2>4. Account' BY <1>5, <1>b, <2>1, <2>2, <2>3 DEF Account
  <2>5. Channels' BY <1>5, <1>b, <2>2 DEF Channels
  <2> QED BY <1>3, <2>4, <2>5
\* A save is over, of a job or of the maintenance.
<1>6. ASSUME worker.place = "Saving", worker'.place = "Idle", queue' = queue,
             NEW u \in Update, u.kind = worker.job, updates' = Append(updates, u)
      PROVE  Flow'
  <2>1. CASE worker.job # "Maintain"
    <3>1. Underway /\ queue' = <<>> BY <1>2, <1>6, <2>1 DEF Underway, Account
    <3> QED BY <1>4, <1>6, <2>1, <3>1
  <2>2. CASE worker.job = "Maintain"
    <3>1. ~Underway /\ ~Underway' BY <1>6, <2>2 DEF Underway
    <3>2. ~Completes(u) BY <1>6, <2>2 DEF Completes
    <3>3. (Answered' <=> Answered) /\ OneAnswer'
      BY <1>2, <1>6, <3>2, OneMoreAnswer DEF Account
    <3>4. Account' BY <1>2, <1>6, <1>b, <3>1, <3>3 DEF Account
    <3>5. Channels' BY <1>2, <1>6, <1>b DEF Channels
    <3> QED BY <1>3, <3>4, <3>5
  <2> QED BY <2>1, <2>2
<1>7. CASE LoadFails
  <2> DEFINE u == [kind |-> "Load", rows |-> Absent, failed |-> TRUE]
  <2>1. u \in Update /\ u.kind # "Maintain" BY DEF Update, Job
  <2>2. updates' = Append(updates, u) /\ worker'.place = "Idle" /\ Underway /\ queue' = queue
    BY <1>7 DEF LoadFails, Rested, Worker, Underway
  <2>3. queue' = <<>> BY <1>2, <2>2 DEF Account
  <2> QED BY <1>4, <2>1, <2>2, <2>3
<1>8. CASE Load
  <2>1. Underway /\ queue' = queue BY <1>8 DEF Load, Underway
  <2>2. queue' = <<>> BY <1>2, <2>1 DEF Account
  <2>3. PICK live \in Purged(File) : \/ Finish("Load", live, FALSE)
                                     \/ StartSave("Load", live, live) /\ updates' = updates
    BY <1>8 DEF Load
  <2>4. File \in Rows BY DEF File, Disk, Rows
  <2>5. live \in Rows BY <1>p, <2>4
  <2>6. CASE Finish("Load", live, FALSE)
    <3>1. worker'.place = "Idle" /\ \E u \in Update : u.kind = "Load" /\ updates' = Append(updates, u)
      BY <2>5, <2>6, FinishIs DEF Job
    <3> QED BY <1>4, <2>1, <2>2, <3>1
  <2>7. CASE StartSave("Load", live, live) /\ updates' = updates
    BY <1>5, <2>1, <2>2, <2>7 DEF Job
  <2> QED BY <2>3, <2>6, <2>7
<1>9. CASE Save
  <2>1. worker.place = "Saving" /\ queue' = queue /\ worker.job \in Job BY <1>9 DEF Save, Worker
  <2>2. worker'.place = "Idle" /\ \E u \in Update : u.kind = worker.job /\ updates' = Append(updates, u)
    BY <1>9, <1>w, <2>1, FinishIs DEF Save
  <2> QED BY <1>6, <2>1, <2>2
<1>10. CASE SaveFails
  <2> DEFINE bad == worker.job # "Export"
             rows == IF worker.job = "Load" THEN Absent ELSE worker.back
             u == [kind |-> worker.job, failed |-> bad, rows |-> rows]
  <2>1. worker.place = "Saving" /\ queue' = queue /\ worker.job \in Job BY <1>10 DEF SaveFails, Worker
  <2>2. rows \in Rows \cup {Absent} /\ (bad \/ rows \in Rows) /\ bad \in BOOLEAN BY <1>w
  <2>3. /\ worker' = [Rested EXCEPT !.rows = worker.back, !.failed = bad]
        /\ updates' = Append(updates, u)
    BY <1>10 DEF SaveFails
  <2> HIDE DEF bad, rows
  <2>4. u \in Update /\ u.kind = worker.job BY <2>1, <2>2 DEF Update
  <2>5. worker'.place = "Idle" BY <2>3 DEF Rested, Worker
  <2> HIDE DEF u
  <2> QED BY <1>6, <2>1, <2>3, <2>4, <2>5
<1>11. CASE Capture
  <2>1. queue # <<>> /\ queue' = <<>> BY <1>11, <1>2, TakenLast DEF Capture, Channels
  <2>2. PICK kept \in Purged(worker.rows) :
          \/ Finish("Capture", kept, FALSE)
          \/ (\E next : StartSave("Capture", next, worker.rows)) /\ updates' = updates
    BY <1>11 DEF Capture
  <2>3. kept \in Rows BY <1>p, <1>w
  <2>4. CASE Finish("Capture", kept, FALSE)
    <3>1. worker'.place = "Idle" /\ \E u \in Update : u.kind = "Capture" /\ updates' = Append(updates, u)
      BY <2>3, <2>4, FinishIs DEF Job
    <3> QED BY <1>4, <2>1, <3>1
  <2>5. CASE (\E next : StartSave("Capture", next, worker.rows)) /\ updates' = updates
    BY <1>5, <2>1, <2>5 DEF Job
  <2> QED BY <2>2, <2>4, <2>5
<1>12. CASE CapturePaused
  <2>1. queue # <<>> /\ queue' = <<>> BY <1>12, <1>2, TakenLast DEF CapturePaused, Channels
  <2>2. worker'.place = "Idle" /\ \E u \in Update : u.kind = "Capture" /\ updates' = Append(updates, u)
    BY <1>12, <1>w, FinishIs DEF CapturePaused, Job
  <2> QED BY <1>4, <2>1, <2>2
<1>13. CASE Clear
  <2>1. queue # <<>> /\ queue' = <<>> BY <1>13, <1>2, TakenLast DEF Clear, Channels
  <2>2. worker'.place = "Idle" /\ \E u \in Update : u.kind = "Clear" /\ updates' = Append(updates, u)
    BY <1>13, <1>w, FinishIs DEF Clear
  <2> QED BY <1>4, <2>1, <2>2
<1>14. CASE Export
  <2>1. queue # <<>> /\ queue' = <<>> BY <1>14, <1>2, TakenLast DEF Export, Channels
  <2>2. PICK live \in Rows : \/ \E failed \in BOOLEAN : Finish("Export", live, failed)
                             \/ StartSave("Export", live, worker.rows) /\ updates' = updates
    BY <1>14, <1>w, <1>p DEF Export
  <2>3. CASE \E failed \in BOOLEAN : Finish("Export", live, failed)
    <3>1. worker'.place = "Idle" /\ \E u \in Update : u.kind = "Export" /\ updates' = Append(updates, u)
      BY <2>3, FinishIs DEF Job
    <3> QED BY <1>4, <2>1, <3>1
  <2>4. CASE StartSave("Export", live, worker.rows) /\ updates' = updates
    BY <1>5, <2>1, <2>4 DEF Job
  <2> QED BY <2>2, <2>3, <2>4
<1>15. CASE Maintain
  <2>1. PICK live \in Purged(worker.rows) : StartSave("Maintain", live, worker.rows)
    BY <1>15 DEF Maintain
  <2>2. worker'.place = "Saving" /\ ~Underway' BY <2>1, SaveStarts DEF Job
  <2>3. ~Underway /\ queue' = <<>> /\ queue = <<>> /\ updates' = updates
    BY <1>15 DEF Maintain, Idle, Underway
  <2>4. (Answered' <=> Answered) /\ (OneAnswer' <=> OneAnswer)
    BY <2>3 DEF Answered, OneAnswer, Completes
  <2>5. Account' BY <1>2, <1>b, <2>2, <2>3, <2>4 DEF Account
  <2>6. Channels' BY <1>2, <1>b, <2>2, <2>3 DEF Channels
  <2> QED BY <1>3, <2>5, <2>6
<1> QED BY <1>7, <1>8, <1>9, <1>10, <1>11, <1>12, <1>13, <1>14, <1>15 DEF WorkerStep

\* Once the answers are read, a busy panel has its command on its way or in the worker's hands.
LEMMA PolledFlow ==
  ASSUME ArchiveTypeOK, Flow
  PROVE  /\ Polled(panel).place = panel.place
         /\ worker.place = "None" => Polled(panel).failed
         /\ worker.place # "None" => (Busy(Polled(panel)) <=> queue # <<>> \/ Underway)
<1> USE DEF ArchiveTypeOK
<1>1. CASE worker.place = "None"
  BY <1>1 DEF Polled, Panel
<1>2. CASE worker.place # "None"
  <2>1. Account BY <1>2 DEF Flow
  <2>2. CASE updates = <<>>
    <3>1. ~Answered BY <2>2 DEF Answered
    <3> QED BY <1>2, <2>1, <2>2, <3>1 DEF Polled, Account
  <2>3. CASE updates # <<>>
    <3>1. Polled(panel).pending = (IF Answered THEN 0 ELSE panel.pending)
      BY <1>2, <2>3 DEF Polled, Panel
    <3>2. Polled(panel).place = panel.place
      BY <1>2, <2>3 DEF Polled, Panel
    <3> QED BY <1>2, <2>1, <3>1, <3>2 DEF Busy, Account
  <2> QED BY <2>2, <2>3
<1> QED BY <1>1, <1>2

LEMMA ObservedFlow ==
  ASSUME ArchiveTypeOK, Flow, NEW p \in Panel, p.place = "Up",
         worker.place = "None" => p.failed,
         worker.place # "None" => (Busy(p) <=> queue # <<>> \/ Underway),
         NEW s, NEW h,
         ObservedBy(p, s, h) \/ (panel' = p /\ queue' = queue), updates' = <<>>, worker' = worker
  PROVE  Flow'
<1> USE DEF ArchiveTypeOK
<1>1. ~Answered' /\ OneAnswer' BY DEF Answered, OneAnswer, Completes
<1>2. Underway' <=> Underway BY DEF Underway
<1>3. CASE Observes(p, s) /\ ObservedBy(p, s, h)
  <2>1. worker.place # "None" /\ queue = <<>> /\ ~Underway
    BY <1>3 DEF Observes
  <2>2. panel'.place = "Up" /\ panel'.pending = 1
    BY <1>3 DEF ObservedBy, Panel
  <2>3. Len(queue') = 1 /\ queue' # <<>>
    <3>1. queue' = Append(queue, [kind |-> "Capture", rows |-> Captured(s)])
      BY <1>3 DEF ObservedBy
    <3> HIDE DEF Captured
    <3>2. \A c : Len(Append(<<>>, c)) = 1 /\ Append(<<>>, c) # <<>>
      OBVIOUS
    <3> QED BY <2>1, <3>1, <3>2
  <2>4. Account' BY <1>1, <1>2, <2>1, <2>2, <2>3 DEF Account, Busy
  <2>5. Channels' BY <2>1, <2>2, <2>3 DEF Channels, Up
  <2> QED BY <2>4, <2>5 DEF Flow
<1>4. CASE panel' = p /\ queue' = queue
  <2>1. worker.place # "None" => Account'
    <3> SUFFICES ASSUME worker.place # "None" PROVE Account'
      OBVIOUS
    <3>1. Account BY DEF Flow
    <3> QED BY <1>1, <1>2, <1>4, <3>1 DEF Account, Busy
  <2>2. Channels' BY <1>4 DEF Channels, Up, Flow
  <2> QED BY <2>1, <2>2 DEF Flow
<1> QED BY <1>3, <1>4 DEF ObservedBy

LEMMA FrameFlow ==
  ASSUME ArchiveTypeOK, Flow, Frame \/ ExitFrame
  PROVE  Flow'
<1>1. Up /\ updates' = <<>> /\ worker' = worker BY DEF Frame, ExitFrame
<1>2. Polled(panel) \in Panel BY PolledTypes
<1>3. CASE Frame
  <2>1. \E s : ObservedBy(Polled(panel), s, Heard) BY <1>3 DEF Frame
  <2> QED BY <1>1, <1>2, <2>1, PolledFlow, ObservedFlow DEF Up
<1>4. CASE ExitFrame
  <2>1. PICK s \in Snapshot :
          LET final == IF panel.final = Absent THEN s ELSE panel.final
              polled == [Polled(panel) EXCEPT !.final = final]
          IN  IF ~Busy(polled) /\ ~polled.finalSeen
              THEN ObservedBy([polled EXCEPT !.finalSeen = TRUE], final, Heard)
              ELSE panel' = polled /\ user' = Heard /\ UNCHANGED queue
    BY <1>4 DEF ExitFrame
  <2> DEFINE final == IF panel.final = Absent THEN s ELSE panel.final
             polled == [Polled(panel) EXCEPT !.final = final]
             marked == [polled EXCEPT !.finalSeen = TRUE]
  <2>2. ObservedBy(marked, final, Heard) \/ (panel' = polled /\ queue' = queue)
    BY <2>1
  <2>3. final \in Snapshot \cup {Absent} BY DEF ArchiveTypeOK, Panel
  <2> HIDE DEF final
  <2>4. polled \in Panel /\ polled.place = Polled(panel).place /\ polled.failed = Polled(panel).failed
          /\ polled.pending = Polled(panel).pending
    BY <1>2, <2>3 DEF Panel
  <2> HIDE DEF polled
  <2>5. marked \in Panel /\ marked.place = polled.place /\ marked.failed = polled.failed
          /\ marked.pending = polled.pending
    BY <2>4 DEF Panel
  <2> HIDE DEF marked
  <2>6. CASE ObservedBy(marked, final, Heard)
    BY <1>1, <2>4, <2>5, <2>6, PolledFlow, ObservedFlow DEF Up, Busy
  <2>7. CASE panel' = polled /\ queue' = queue
    BY <1>1, <2>4, <2>7, PolledFlow, ObservedFlow DEF Up, Busy
  <2> QED BY <2>2, <2>6, <2>7
<1> QED BY <1>3, <1>4

\* A step that touches neither the account nor what it is about.
LEMMA ElsewhereFlow ==
  ASSUME Flow, panel'.pending = panel.pending, panel'.place = panel.place,
         UNCHANGED <<queue, updates, worker>>
  PROVE  Flow'
<1>1. (Account' <=> Account) /\ (Channels' <=> Channels)
  BY DEF Account, Channels, OneAnswer, Underway, Answered, Completes, Busy, Up
<1> QED BY <1>1 DEF Flow

LEMMA QueueFlow ==
  ASSUME ArchiveTypeOK, Flow, Up, ~Busy(panel), NEW p \in Panel, p.place = "Up", p.pending = 0,
         NEW command \in Command, Queue(p, command), UNCHANGED <<updates, worker>>
  PROVE  Flow'
<1>1. CASE worker.place = "None"
  <2>1. panel'.place = "Up" /\ queue' = queue BY <1>1 DEF Queue, Panel
  <2> QED BY <1>1, <2>1 DEF Flow, Channels, Up
<1>2. CASE worker.place # "None"
  <2>1. Account BY <1>2 DEF Flow
  <2>2. queue = <<>> /\ ~Underway /\ ~Answered /\ OneAnswer BY <2>1 DEF Account
  <2>3. panel'.place = "Up" /\ panel'.pending = 1 BY <1>2 DEF Queue, Panel
  <2>4. Len(queue') = 1 /\ queue' # <<>> BY <1>2, <2>2 DEF Queue
  <2>5. ~Underway' /\ ~Answered' /\ OneAnswer' BY <2>2 DEF Underway, Answered, OneAnswer, Completes
  <2>6. Account' BY <2>3, <2>4, <2>5 DEF Account, Busy
  <2>7. Channels' BY <1>2, <2>3, <2>4 DEF Channels, Up
  <2> QED BY <2>6, <2>7 DEF Flow
<1> QED BY <1>1, <1>2

LEMMA PanelFlow ==
  ASSUME ArchiveTypeOK, Flow,
         \/ Close \/ SetEnabled \/ ClearConfirmed \/ ExportConfirmed \/ SettingsSaved
         \/ Exit \/ CallOff \/ Launch \/ Crash \/ Tick
  PROVE  Flow'
<1> USE DEF ArchiveTypeOK
<1>s. \A choice \in BOOLEAN : /\ Switched(panel, choice).pending = panel.pending
                              /\ Switched(panel, choice).place = panel.place
  BY DEF Switched, Panel
<1>1. CASE Close
  <2>1. worker.place # "None" => Account BY DEF Flow
  <2>2. queue = <<>> BY <1>1, <2>1 DEF Close, Account, Flow, Channels
  <2>3. worker'.place = "None" /\ queue' = <<>> /\ updates' = <<>>
    BY <1>1, <2>2 DEF Close, NewWorker
  <2> QED BY <2>3 DEF Flow, Channels
<1>2. CASE SetEnabled
  <2>1. panel'.pending = panel.pending /\ panel'.place = panel.place
    BY <1>2, <1>s DEF SetEnabled
  <2> QED BY <1>2, <2>1, ElsewhereFlow DEF SetEnabled
<1>3. CASE ClearConfirmed
  <2> DEFINE p == [Switched(panel, FALSE) EXCEPT !.seen = NoRevision]
             c == [kind |-> "Clear", rows |-> {}]
  <2>1. NoRevision \in 0..MaxRevision BY ArchiveAssumption DEF NoRevision
  <2>2. p \in Panel BY <2>1, SwitchedTypes DEF Panel
  <2>3. p.pending = panel.pending /\ p.place = panel.place BY DEF Switched, Panel
  <2>4. c \in Command BY DEF Command, Rows
  <2>5. Up /\ ~Busy(panel) /\ UNCHANGED <<updates, worker>>
          /\ (Queue(p, c) \/ UNCHANGED <<panel, queue>>)
    BY <1>3 DEF ClearConfirmed, Confirmable, Clickable
  <2> HIDE DEF p, c
  <2>6. CASE Queue(p, c)
    <3>1. p.place = "Up" /\ p.pending = 0 BY <2>3, <2>5 DEF Up, Busy
    <3> QED BY <2>2, <2>4, <2>5, <2>6, <3>1, QueueFlow
  <2>7. CASE UNCHANGED <<panel, queue>>
    BY <2>5, <2>7, ElsewhereFlow
  <2> QED BY <2>5, <2>6, <2>7
<1>4. CASE ExportConfirmed
  <2>1. [kind |-> "Export", rows |-> {}] \in Command BY DEF Command, Rows
  <2> QED BY <1>4, <2>1, QueueFlow DEF ExportConfirmed, Confirmable, Clickable, Up, Busy
<1>5. CASE SettingsSaved
  BY <1>5, ElsewhereFlow DEF SettingsSaved
<1>6. CASE Exit
  <2>1. panel'.pending = panel.pending /\ panel'.place = panel.place
    BY <1>6 DEF Exit, Panel
  <2> QED BY <1>6, <2>1, ElsewhereFlow DEF Exit
<1>7. CASE CallOff
  <2>1. panel'.pending = panel.pending /\ panel'.place = panel.place
    BY <1>7 DEF CallOff, Panel
  <2> QED BY <1>7, <2>1, ElsewhereFlow DEF CallOff
<1>8. CASE Launch
  <2>1. queue' = <<>> /\ updates' = <<>> BY <1>8 DEF Launch
  <2>2. PICK choice \in {disk.optIn, FALSE}, place \in {"Loading", "None"} :
          /\ panel' = IF place = "Loading" THEN Fresh(choice)
                      ELSE [Fresh(choice) EXCEPT !.pending = 0, !.ready = TRUE, !.failed = TRUE]
          /\ worker' = NewWorker(place)
    BY <1>8 DEF Launch
  <2>3. worker'.place = place BY <2>2 DEF NewWorker
  <2>4. panel'.place = "Up" /\ (place = "Loading" => panel'.pending = 1)
    BY <2>2 DEF Fresh
  <2>5. ~Answered' /\ OneAnswer' BY <2>1 DEF Answered, OneAnswer
  <2>6. place = "Loading" => Account'
    BY <2>1, <2>3, <2>4, <2>5 DEF Account, Underway, Busy
  <2> QED BY <2>1, <2>2, <2>3, <2>4, <2>6 DEF Flow, Channels, Up
<1>9. CASE Crash
  BY <1>9 DEF Crash, NewWorker, Flow, Channels
<1>10. CASE Tick
  BY <1>10, ElsewhereFlow DEF Tick
<1> QED BY <1>1, <1>2, <1>3, <1>4, <1>5, <1>6, <1>7, <1>8, <1>9, <1>10

LEMMA FlowInvariant == Spec => []Flow
<1>1. Init => Flow
  BY DEF Init, Flow, Channels, Account, OneAnswer, Answered, Underway, Busy, Fresh, NewWorker, Up
<1>2. ArchiveTypeOK /\ Flow /\ [Next]_vars => Flow'
  <2>1. Flow /\ UNCHANGED vars => Flow' BY ElsewhereFlow DEF vars
  <2> QED BY <2>1, WorkerFlow, FrameFlow, PanelFlow DEF Next
<1> QED BY <1>1, <1>2, ArchiveTypeCorrect, PTL DEF Spec

\* What the panel counts as under way is under way, once, whatever the worker fails to
\* load or save and wherever the panel was stopped before (app.rs, sms_archive.rs).
THEOREM PendingCorrect == Spec => []PendingIsUnderway
<1>1. Flow => PendingIsUnderway
  BY DEF Flow, Account, OneAnswer, PendingIsUnderway
<1> QED BY <1>1, FlowInvariant, PTL

------------------------------------------------------------------------------
(* What is kept                                                              *)

\* Saving is on only where the user turned it on.
Choice == disk.optIn \/ panel.loaded \/ panel.enabled => user.on

\* Every copy of rows, those in the answers included, is of rows that may be kept.
Held ==
  /\ File \subseteq user.allowed
  /\ worker.rows \subseteq user.allowed
  /\ worker.next \subseteq user.allowed /\ worker.back \subseteq user.allowed
  /\ panel.rows \subseteq user.allowed
  /\ \A i \in DOMAIN queue : queue[i].rows \subseteq user.allowed
  /\ \A i \in DOMAIN updates : updates[i].rows = Absent \/ updates[i].rows \subseteq user.allowed

\* A clearing that was answered, and not yet read, has left nothing behind the panel.
Cleared ==
  Gone => /\ queue = <<>> /\ Idle
          /\ worker.rows = {} /\ worker.next = {} /\ worker.back = {}
          /\ File = {} /\ Last(updates).rows = {}

Allowed == Choice /\ Held /\ Cleared

LEMMA FinishRows ==
  ASSUME ArchiveTypeOK, NEW kind \in Job \cup {"Clear"}, NEW rows \in Rows, NEW failed \in BOOLEAN,
         Finish(kind, rows, failed)
  PROVE  /\ worker'.place = "Idle" /\ worker'.rows = rows /\ worker'.next = {} /\ worker'.back = {}
         /\ \E u \in Update : /\ u.kind = kind /\ u.rows = rows /\ (failed => u.failed)
                              /\ updates' = Append(updates, u)
<1> DEFINE u == [kind |-> kind, rows |-> rows, failed |-> failed]
<1>1. u \in Update /\ u.kind = kind /\ u.rows = rows /\ (failed => u.failed) BY DEF Update
<1>2. updates' = Append(updates, u) BY DEF Finish, Answer
<1>3. worker'.place = "Idle" /\ worker'.rows = rows /\ worker'.next = {} /\ worker'.back = {}
  BY DEF Finish, Rested, ArchiveTypeOK, Worker
<1> QED BY <1>1, <1>2, <1>3

LEMMA SaveRows ==
  ASSUME ArchiveTypeOK, NEW kind, NEW next, NEW back, StartSave(kind, next, back)
  PROVE  worker'.rows = worker.rows /\ worker'.next = next /\ worker'.back = back
  BY DEF StartSave, ArchiveTypeOK, Worker

\* A history that was cleared leaves the worker nothing to do.
LEMMA NothingAfterClearing ==
  ASSUME ArchiveTypeOK, Cleared, WorkerStep
  PROVE  ~Gone
<1> SUFFICES ASSUME Gone PROVE FALSE
  OBVIOUS
<1>1. queue = <<>> /\ worker.place = "Idle" /\ worker.rows = {} BY DEF Cleared, Idle
<1>2. \A live \in Purged(worker.rows) : live = worker.rows BY <1>1, PurgedWithin
<1> QED BY <1>1, <1>2 DEF WorkerStep, LoadFails, Load, Save, SaveFails, Capture, CapturePaused, Clear,
                          Export, Maintain, Take

LEMMA WorkerAllowed ==
  ASSUME ArchiveTypeOK, Flow, Allowed, WorkerStep
  PROVE  Allowed'
<1> USE DEF ArchiveTypeOK
<1>1. panel' = panel /\ user' = user
  BY DEF WorkerStep, LoadFails, Load, Save, SaveFails, Capture, CapturePaused, Clear, Export, Maintain, Take
<1>2. Choice /\ Held /\ ~Gone BY NothingAfterClearing DEF Allowed
<1>w. worker.rows \in Rows /\ worker.next \in Rows /\ worker.back \in Rows /\ {} \in Rows
  BY DEF Worker, Rows
<1>p. \A rows : \A s \in Purged(rows) : s \subseteq rows BY PurgedWithin
<1>k. FALSE \in BOOLEAN /\ TRUE \in BOOLEAN /\ "Clear" \in Job \cup {"Clear"} OBVIOUS
<1>q. queue # <<>> => Tail(queue) = <<>> /\ Head(queue).rows \subseteq user.allowed
  <2> SUFFICES ASSUME queue # <<>> PROVE Tail(queue) = <<>> /\ Head(queue).rows \subseteq user.allowed
    OBVIOUS
  <2>1. Tail(queue) = <<>> BY DEF Flow, Channels
  <2>2. Head(queue) = queue[1] /\ 1 \in DOMAIN queue OBVIOUS
  <2> QED BY <1>2, <2>1, <2>2 DEF Held
<1>d. ASSUME disk' = disk \/ \E rows : disk' = [disk EXCEPT !.archive = rows]
      PROVE  Choice'
  BY <1>1, <1>2, <1>d DEF Choice, Disk
\* An answer, and what is in the file and in the worker's hands then.
<1>3. ASSUME NEW u \in Update, updates' = Append(updates, u), u.rows = Absent \/ u.rows \subseteq user.allowed,
             worker'.rows \subseteq user.allowed, worker'.next = {}, worker'.back = {},
             File' \subseteq user.allowed, queue' = queue \/ queue' = <<>>
      PROVE  Held' /\ (Gone' <=> u.kind = "Clear" /\ ~u.failed)
  <2>1. /\ DOMAIN updates' = DOMAIN updates \cup {Len(updates) + 1}
        /\ \A i \in DOMAIN updates : updates'[i] = updates[i]
        /\ updates'[Len(updates) + 1] = u
    BY <1>3, AppendIs
  <2>2. Gone' <=> u.kind = "Clear" /\ ~u.failed BY <1>2, <2>1 DEF Gone
  <2>3. \A i \in DOMAIN updates' : updates'[i].rows = Absent \/ updates'[i].rows \subseteq user.allowed
    BY <1>2, <1>3, <2>1 DEF Held
  <2>4. \A i \in DOMAIN queue' : queue'[i].rows \subseteq user.allowed
    BY <1>2, <1>3 DEF Held
  <2> QED BY <1>1, <1>2, <1>3, <2>2, <2>3, <2>4 DEF Held
\* A save begins.
<1>4. ASSUME NEW kind, NEW next, NEW back, StartSave(kind, next, back),
             next \subseteq user.allowed, back \subseteq user.allowed,
             updates' = updates, disk' = disk, queue' = queue \/ queue' = <<>>
      PROVE  Allowed'
  <2>1. ~Gone' BY <1>2, <1>4 DEF Gone
  <2>2. worker'.rows \subseteq user.allowed /\ worker'.next \subseteq user.allowed
          /\ worker'.back \subseteq user.allowed
    BY <1>2, <1>4, SaveRows DEF Held
  <2>3. Held' BY <1>1, <1>2, <1>4, <2>2 DEF Held, File
  <2> QED BY <1>4, <1>d, <2>1, <2>3 DEF Allowed, Cleared
<1>5. CASE LoadFails
  <2> DEFINE u == [kind |-> "Load", rows |-> Absent, failed |-> TRUE]
  <2>1. u \in Update /\ u.kind = "Load" /\ u.rows = Absent BY DEF Update, Job
  <2>2. updates' = Append(updates, u) /\ disk' = disk /\ queue' = queue BY <1>5 DEF LoadFails
  <2>3. worker'.rows = worker.rows /\ worker'.next = {} /\ worker'.back = {}
    BY <1>5 DEF LoadFails, Rested, Worker
  <2> HIDE DEF u
  <2>4. File' = File BY <2>2 DEF File
  <2> QED BY <1>2, <1>3, <1>d, <2>1, <2>2, <2>3, <2>4 DEF Allowed, Held, Cleared
<1>6. ASSUME NEW kind \in Job, NEW rows \in Rows, NEW failed \in BOOLEAN, Finish(kind, rows, failed),
             rows \subseteq user.allowed, disk' = disk, queue' = queue \/ queue' = <<>>
      PROVE  Allowed'
  <2>1. PICK u \in Update : u.kind = kind /\ u.rows = rows /\ updates' = Append(updates, u)
    BY <1>6, FinishRows
  <2>2. worker'.rows = rows /\ worker'.next = {} /\ worker'.back = {} BY <1>6, FinishRows
  <2>3. File' = File /\ kind # "Clear" BY <1>6 DEF File, Job
  <2> QED BY <1>2, <1>3, <1>6, <1>d, <2>1, <2>2, <2>3 DEF Allowed, Held, Cleared
<1>7. CASE Load
  <2>1. PICK live \in Purged(File) : \/ Finish("Load", live, FALSE)
                                     \/ StartSave("Load", live, live) /\ updates' = updates
    BY <1>7 DEF Load
  <2>2. live \subseteq user.allowed /\ live \in Rows /\ disk' = disk /\ queue' = queue
    BY <1>2, <1>7, <1>p DEF Held, Load, File, Disk, Rows
  <2> QED BY <1>4, <1>6, <2>1, <2>2 DEF Job
<1>8. CASE Save
  <2>1. worker.job \in Job /\ queue' = queue /\ Finish(worker.job, worker.next, FALSE)
          /\ disk' = [disk EXCEPT !.archive = worker.next]
    BY <1>8 DEF Save, Worker
  <2> DEFINE u == [kind |-> worker.job, rows |-> worker.next, failed |-> FALSE]
  <2>2. u \in Update /\ u.kind = worker.job /\ u.rows = worker.next /\ updates' = Append(updates, u)
    <3>1. u \in Update BY <1>k, <1>w, <2>1 DEF Update
    <3> QED BY <2>1, <3>1 DEF Finish, Answer
  <2> HIDE DEF u
  <2>3. worker'.rows = worker.next /\ worker'.next = {} /\ worker'.back = {}
    BY <1>k, <1>w, <2>1, FinishRows
  <2>4. File' \subseteq user.allowed BY <1>2, <2>1 DEF Held, File, Disk
  <2>5. Held' /\ ~Gone' BY <1>2, <1>3, <2>1, <2>2, <2>3, <2>4 DEF Held, Job
  <2> QED BY <1>d, <2>1, <2>5 DEF Allowed, Cleared
<1>9. CASE SaveFails
  <2> DEFINE bad == worker.job # "Export"
             rows == IF worker.job = "Load" THEN Absent ELSE worker.back
             u == [kind |-> worker.job, failed |-> bad, rows |-> rows]
  <2>1. queue' = queue /\ worker.job \in Job /\ disk' = disk BY <1>9 DEF SaveFails, Worker
  <2>2. rows \in Rows \cup {Absent} /\ (bad \/ rows \in Rows) /\ bad \in BOOLEAN
          /\ (rows = Absent \/ rows = worker.back)
    BY <1>w
  <2>3. /\ worker' = [Rested EXCEPT !.rows = worker.back, !.failed = bad]
        /\ updates' = Append(updates, u)
    BY <1>9 DEF SaveFails
  <2> HIDE DEF bad, rows
  <2>4. u \in Update /\ u.kind = worker.job /\ u.rows = rows BY <2>1, <2>2 DEF Update
  <2>5. worker'.rows = worker.back /\ worker'.next = {} /\ worker'.back = {} BY <2>3 DEF Rested, Worker
  <2> HIDE DEF u
  <2>6. File' = File /\ worker.job # "Clear" BY <2>1 DEF File, Job
  <2>7. Held' /\ ~Gone' BY <1>2, <1>3, <2>1, <2>2, <2>3, <2>4, <2>5, <2>6 DEF Held
  <2> QED BY <1>d, <2>1, <2>7 DEF Allowed, Cleared
<1>10. CASE Capture
  <2>1. PICK kept \in Purged(worker.rows) :
          LET new == {r \in Head(queue).rows : r.msg \notin Messages(kept)}
          IN  \E next \in Purged(kept \cup new) :
                IF kept = worker.rows /\ new = {} THEN Finish("Capture", kept, FALSE)
                ELSE StartSave("Capture", next, worker.rows) /\ UNCHANGED updates
    BY <1>10 DEF Capture
  <2> DEFINE new == {r \in Head(queue).rows : r.msg \notin Messages(kept)}
  <2>2. queue # <<>> /\ queue' = <<>> /\ disk' = disk
    BY <1>10, <1>q DEF Capture, Take
  <2>3. new \subseteq user.allowed BY <1>q, <2>2
  <2>4. kept \subseteq user.allowed /\ kept \in Rows BY <1>2, <1>p, <1>w DEF Held, Rows
  <2>5. PICK next \in Purged(kept \cup new) :
          \/ Finish("Capture", kept, FALSE)
          \/ StartSave("Capture", next, worker.rows) /\ UNCHANGED updates
    BY <2>1
  <2>6. next \subseteq user.allowed BY <1>p, <2>3, <2>4
  <2> HIDE DEF new
  <2> QED BY <1>2, <1>4, <1>6, <2>2, <2>4, <2>5, <2>6 DEF Held, Job
<1>11. CASE CapturePaused
  BY <1>2, <1>6, <1>11, <1>q, <1>w DEF CapturePaused, Take, Held, Job
<1>12. CASE Clear
  <2>1. queue' = <<>> BY <1>12, <1>q DEF Clear, Take
  <2>2. CASE Finish("Clear", {}, FALSE) /\ disk' = [disk EXCEPT !.archive = Absent]
    <3> DEFINE u == [kind |-> "Clear", rows |-> {}, failed |-> FALSE]
    <3>1. u \in Update /\ u.rows = {} /\ updates' = Append(updates, u)
      <4>1. u \in Update BY <1>k, <1>w DEF Update
      <4> QED BY <2>2, <4>1 DEF Finish, Answer
    <3> HIDE DEF u
    <3>2. worker'.place = "Idle" /\ worker'.rows = {} /\ worker'.next = {} /\ worker'.back = {}
      BY <1>k, <1>w, <2>2, FinishRows
    <3>3. File' = {} BY <2>2 DEF File, Disk
    <3>4. Held' BY <1>3, <2>1, <3>1, <3>2, <3>3
    <3>5. Last(updates').rows = {} BY <3>1, AppendIs
    <3> QED BY <1>d, <2>1, <2>2, <3>2, <3>3, <3>4, <3>5 DEF Allowed, Cleared, Idle
  <2>3. CASE Finish("Clear", worker.rows, TRUE) /\ disk' = disk
    <3>1. PICK u \in Update : /\ u.kind = "Clear" /\ u.rows = worker.rows /\ u.failed
                             /\ updates' = Append(updates, u)
      BY <1>k, <1>w, <2>3, FinishRows
    <3>2. worker'.rows = worker.rows /\ worker'.next = {} /\ worker'.back = {}
      BY <1>k, <1>w, <2>3, FinishRows
    <3>3. File' = File BY <2>3 DEF File
    <3>4. Held' /\ ~Gone' BY <1>2, <1>3, <2>1, <3>1, <3>2, <3>3 DEF Held
    <3> QED BY <1>d, <2>3, <3>4 DEF Allowed, Cleared
  <2> QED BY <1>12, <2>2, <2>3 DEF Clear
<1>13. CASE Export
  <2>1. queue' = <<>> /\ disk' = disk BY <1>13, <1>q DEF Export, Take
  <2>2. PICK live \in Rows : /\ live \subseteq worker.rows
                             /\ \/ \E failed \in BOOLEAN : Finish("Export", live, failed)
                                \/ StartSave("Export", live, worker.rows) /\ updates' = updates
    BY <1>13, <1>w, <1>p DEF Export, Rows
  <2> QED BY <1>2, <1>4, <1>6, <2>1, <2>2 DEF Held, Job
<1>14. CASE Maintain
  <2>1. PICK live \in Purged(worker.rows) : StartSave("Maintain", live, worker.rows)
    BY <1>14 DEF Maintain
  <2>2. live \subseteq user.allowed BY <1>2, <1>p DEF Held
  <2> QED BY <1>2, <1>4, <1>14, <2>1, <2>2 DEF Maintain, Held
<1> QED BY <1>5, <1>7, <1>8, <1>9, <1>10, <1>11, <1>12, <1>13, <1>14 DEF WorkerStep

\* What the panel shows once the answers are read may be kept, after a clearing too.
LEMMA HeardAllowed ==
  ASSUME ArchiveTypeOK, Flow, Allowed
  PROVE  /\ Polled(panel).enabled = panel.enabled /\ Polled(panel).loaded = panel.loaded
         /\ Heard.on = user.on
         /\ Polled(panel).rows \subseteq Heard.allowed
         /\ File \cup worker.rows \cup worker.next \cup worker.back \subseteq Heard.allowed
         /\ \A i \in DOMAIN queue : queue[i].rows \subseteq Heard.allowed
<1> USE DEF ArchiveTypeOK
<1>1. Held /\ Cleared BY DEF Allowed
<1>2. Polled(panel).enabled = panel.enabled /\ Polled(panel).loaded = panel.loaded
  BY DEF Polled, Panel
<1>3. Heard.on = user.on /\ Heard.allowed = IF Gone THEN {} ELSE user.allowed
  <2> HIDE DEF Gone
  <2> QED BY DEF Heard, User
<1>4. CASE Gone
  <2>1. updates # <<>> BY <1>4 DEF Gone
  <2>2. worker.place # "None" BY <2>1 DEF Flow, Channels
  <2>3. Last(updates).rows = {} /\ {} # Absent
    BY <1>1, <1>4, ArchiveAssumption DEF Cleared
  <2>4. Polled(panel).rows = {}
    BY <2>1, <2>2, <2>3 DEF Polled, Panel
  <2> QED BY <1>1, <1>2, <1>3, <1>4, <2>4 DEF Cleared
<1>5. CASE ~Gone
  <2>1. Polled(panel).rows \subseteq user.allowed
    <3>1. CASE worker.place = "None" \/ updates = <<>>
      BY <1>1, <3>1 DEF Polled, Panel, Held
    <3>2. CASE worker.place # "None" /\ updates # <<>>
      <4>1. Last(updates) = updates[Len(updates)] /\ Len(updates) \in DOMAIN updates
        BY <3>2, LastIsOne
      <4>2. Last(updates).rows = Absent \/ Last(updates).rows \subseteq user.allowed
        BY <1>1, <4>1 DEF Held
      <4>3. Polled(panel).rows = IF Last(updates).rows = Absent THEN panel.rows ELSE Last(updates).rows
        BY <3>2 DEF Polled, Panel
      <4> QED BY <1>1, <4>2, <4>3 DEF Held
    <3> QED BY <3>1, <3>2
  <2> QED BY <1>1, <1>2, <1>3, <1>5, <2>1 DEF Held
<1> QED BY <1>4, <1>5

LEMMA ObservedAllowed ==
  ASSUME ArchiveTypeOK, NEW p \in Panel, NEW s \in Snapshot, NEW h \in User,
         disk.optIn \/ p.loaded \/ p.enabled => h.on,
         p.rows \subseteq h.allowed,
         File \cup worker.rows \cup worker.next \cup worker.back \subseteq h.allowed,
         \A i \in DOMAIN queue : queue[i].rows \subseteq h.allowed,
         ObservedBy(p, s, h) \/ (panel' = p /\ user' = h /\ queue' = queue),
         updates' = <<>>, UNCHANGED <<disk, worker>>
  PROVE  Allowed'
<1> USE DEF ArchiveTypeOK
<1>1. ~Gone' BY DEF Gone
<1>2. File' = File BY DEF File
<1>3. CASE Observes(p, s) /\ ObservedBy(p, s, h)
  <2> DEFINE c == [kind |-> "Capture", rows |-> Captured(s)]
  <2>1. h.on BY <1>3 DEF Observes
  <2>2. panel'.rows = p.rows /\ panel'.loaded = p.loaded /\ panel'.enabled = p.enabled
          /\ queue' = Append(queue, c)
    BY <1>3 DEF ObservedBy, Panel
  <2>3. user' = [h EXCEPT !.allowed = h.allowed \cup Captured(s)]
    BY <1>3, <2>1 DEF ObservedBy
  <2>4. user'.allowed = h.allowed \cup Captured(s) /\ user'.on = h.on
    BY <2>3 DEF User
  <2>5. c \in Command /\ c.rows = Captured(s) BY CapturedTypes DEF Command
  <2> HIDE DEF c
  <2>6. /\ DOMAIN queue' = DOMAIN queue \cup {Len(queue) + 1}
        /\ \A i \in DOMAIN queue : queue'[i] = queue[i]
        /\ queue'[Len(queue) + 1] = c
    BY <2>2, <2>5, AppendIs
  <2>7. \A i \in DOMAIN queue' : queue'[i].rows \subseteq user'.allowed
    BY <2>4, <2>5, <2>6
  <2>8. Held' BY <1>2, <2>2, <2>4, <2>7 DEF Held
  <2>9. Choice' BY <2>1, <2>4 DEF Choice
  <2> QED BY <1>1, <2>8, <2>9 DEF Allowed, Cleared
<1>4. CASE panel' = p /\ user' = h /\ queue' = queue
  <2>1. Held' /\ Choice' BY <1>2, <1>4 DEF Held, Choice
  <2> QED BY <1>1, <2>1 DEF Allowed, Cleared
<1> QED BY <1>3, <1>4 DEF ObservedBy

LEMMA FrameAllowed ==
  ASSUME ArchiveTypeOK, Flow, Allowed, Frame \/ ExitFrame
  PROVE  Allowed'
<1>1. updates' = <<>> /\ UNCHANGED <<disk, worker>> BY DEF Frame, ExitFrame
<1>2. Polled(panel) \in Panel /\ Heard \in User BY PolledTypes, HeardTypes
<1>3. disk.optIn \/ Polled(panel).loaded \/ Polled(panel).enabled => Heard.on
  BY HeardAllowed DEF Allowed, Choice
<1>4. CASE Frame
  <2>1. \E s \in Snapshot : ObservedBy(Polled(panel), s, Heard) BY <1>4 DEF Frame
  <2> QED BY <1>1, <1>2, <1>3, <2>1, HeardAllowed, ObservedAllowed
<1>5. CASE ExitFrame
  <2>1. PICK s \in Snapshot :
          LET final == IF panel.final = Absent THEN s ELSE panel.final
              polled == [Polled(panel) EXCEPT !.final = final]
          IN  IF ~Busy(polled) /\ ~polled.finalSeen
              THEN ObservedBy([polled EXCEPT !.finalSeen = TRUE], final, Heard)
              ELSE panel' = polled /\ user' = Heard /\ UNCHANGED queue
    BY <1>5 DEF ExitFrame
  <2> DEFINE final == IF panel.final = Absent THEN s ELSE panel.final
             polled == [Polled(panel) EXCEPT !.final = final]
             marked == [polled EXCEPT !.finalSeen = TRUE]
  <2>2. ObservedBy(marked, final, Heard) \/ (panel' = polled /\ user' = Heard /\ queue' = queue)
    BY <2>1
  <2>3. final \in Snapshot BY DEF ArchiveTypeOK, Panel
  <2> HIDE DEF final
  <2>4. polled \in Panel /\ polled.rows = Polled(panel).rows /\ polled.loaded = Polled(panel).loaded
          /\ polled.enabled = Polled(panel).enabled
    BY <1>2, <2>3 DEF Panel
  <2> HIDE DEF polled
  <2>5. marked \in Panel /\ marked.rows = polled.rows /\ marked.loaded = polled.loaded
          /\ marked.enabled = polled.enabled
    BY <2>4 DEF Panel
  <2> HIDE DEF marked
  <2>6. CASE ObservedBy(marked, final, Heard)
    BY <1>1, <1>2, <1>3, <2>3, <2>4, <2>5, <2>6, HeardAllowed, ObservedAllowed
  <2>7. CASE panel' = polled /\ user' = Heard /\ queue' = queue
    BY <1>1, <1>2, <1>3, <2>3, <2>4, <2>7, HeardAllowed, ObservedAllowed
  <2> QED BY <2>2, <2>6, <2>7
<1> QED BY <1>4, <1>5

\* A step that makes no copy of any row.
LEMMA ElsewhereAllowed ==
  ASSUME Allowed, Choice', disk'.archive = disk.archive, panel'.rows = panel.rows,
         user'.allowed = user.allowed, UNCHANGED <<queue, updates, worker>>
  PROVE  Allowed'
<1>1. File' = File /\ (Gone' <=> Gone) BY DEF File, Gone
<1>2. Held' BY <1>1 DEF Allowed, Held
<1>3. Cleared' BY <1>1 DEF Allowed, Cleared, Idle
<1> QED BY <1>2, <1>3 DEF Allowed

\* A clearing or an export carries no rows.
LEMMA QueueAllowed ==
  ASSUME ArchiveTypeOK, Flow, Allowed, Up, ~Busy(panel), NEW p \in Panel, p.rows = panel.rows,
         NEW command \in Command, command.rows = {}, Queue(p, command), Choice',
         disk'.archive = disk.archive, user'.allowed = user.allowed, UNCHANGED <<updates, worker>>
  PROVE  Allowed'
<1> USE DEF ArchiveTypeOK
<1>1. CASE worker.place = "None"
  <2>1. panel'.rows = panel.rows /\ queue' = queue BY <1>1 DEF Queue, Panel
  <2> QED BY <2>1, ElsewhereAllowed
<1>2. CASE worker.place # "None"
  <2>1. ~Answered BY <1>2 DEF Flow, Account
  <2>2. ~Gone /\ ~Gone' BY <2>1 DEF Gone, Answered, Completes
  <2>3. queue' = Append(queue, command) /\ panel'.rows = panel.rows BY <1>2 DEF Queue, Panel
  <2>4. /\ DOMAIN queue' = DOMAIN queue \cup {Len(queue) + 1}
        /\ \A i \in DOMAIN queue : queue'[i] = queue[i]
        /\ queue'[Len(queue) + 1] = command
    BY <2>3, AppendIs
  <2>5. \A i \in DOMAIN queue' : queue'[i].rows \subseteq user'.allowed
    BY <2>4 DEF Allowed, Held
  <2>6. Held' BY <2>3, <2>5 DEF Allowed, Held, File
  <2> QED BY <2>2, <2>6 DEF Allowed, Cleared
<1> QED BY <1>1, <1>2

LEMMA PanelAllowed ==
  ASSUME ArchiveTypeOK, Flow, Allowed,
         \/ Close \/ SetEnabled \/ ClearConfirmed \/ ExportConfirmed \/ SettingsSaved
         \/ Exit \/ CallOff \/ Launch \/ Crash \/ Tick
  PROVE  Allowed'
<1> USE DEF ArchiveTypeOK
<1>1. Choice /\ Held BY DEF Allowed
<1>s. \A choice \in BOOLEAN : /\ Switched(panel, choice).rows = panel.rows
                              /\ Switched(panel, choice).loaded = choice
                              /\ Switched(panel, choice).enabled = choice
  BY DEF Switched, Panel
\* The worker and what it was told are gone.
<1>2. ASSUME worker'.rows = {}, worker'.next = {}, worker'.back = {}, queue' = <<>> \/ queue' = queue,
             updates' = <<>>, panel'.rows = panel.rows \/ panel'.rows = {}, Choice',
             disk' = disk, user'.allowed = user.allowed
      PROVE  Allowed'
  <2>1. ~Gone' BY <1>2 DEF Gone
  <2>2. Held' BY <1>1, <1>2 DEF Held, File
  <2> QED BY <1>2, <2>1, <2>2 DEF Allowed, Cleared
<1>3. CASE Close
  <2>1. panel'.rows = panel.rows /\ panel'.loaded = panel.loaded /\ panel'.enabled = panel.enabled
    BY <1>3 DEF Close, Panel
  <2> QED BY <1>1, <1>2, <1>3, <2>1 DEF Close, NewWorker, Choice
<1>4. CASE SetEnabled
  <2>1. PICK choice \in BOOLEAN, end \in SaveEnd :
          /\ SavedAs(end, choice)
          /\ choice # panel.enabled
          /\ panel' = IF end = "Kept" THEN Switched(panel, choice) ELSE panel
          /\ user' = [user EXCEPT !.on = choice \/ (@ /\ end # "Kept")]
    BY <1>4 DEF SetEnabled
  <2>2. user'.on = (choice \/ (user.on /\ end # "Kept")) /\ user'.allowed = user.allowed
    BY <2>1 DEF User
  <2>3. disk'.archive = disk.archive /\ disk'.optIn = IF end = "Refused" THEN disk.optIn ELSE choice
    BY <2>1 DEF SavedAs, Disk
  <2>4. panel'.rows = panel.rows BY <1>s, <2>1
  <2>5. Choice'
    <3>1. CASE end = "Kept" BY <1>1, <1>s, <2>1, <2>2, <2>3, <3>1 DEF Choice
    <3>2. CASE end # "Kept" BY <1>1, <2>1, <2>2, <2>3, <3>2 DEF Choice
    <3> QED BY <3>1, <3>2
  <2> QED BY <1>4, <2>2, <2>3, <2>4, <2>5, ElsewhereAllowed DEF SetEnabled
<1>5. CASE ClearConfirmed
  <2> DEFINE p == [Switched(panel, FALSE) EXCEPT !.seen = NoRevision]
             c == [kind |-> "Clear", rows |-> {}]
  <2>1. PICK end \in SaveEnd :
          /\ SavedAs(end, FALSE)
          /\ IF end = "Kept"
             THEN /\ Queue(p, c)
                  /\ user' = [user EXCEPT !.on = FALSE, !.reported = {}, !.clearing = TRUE]
             ELSE UNCHANGED <<panel, queue, user>>
    BY <1>5 DEF ClearConfirmed, Confirmable
  <2>2. NoRevision \in 0..MaxRevision BY ArchiveAssumption DEF NoRevision
  <2>3. p \in Panel BY <2>2, SwitchedTypes DEF Panel
  <2>4. p.rows = panel.rows /\ ~p.loaded /\ ~p.enabled BY <1>s DEF Switched, Panel
  <2>5. c \in Command /\ c.rows = {} BY DEF Command, Rows
  <2>6. Up /\ ~Busy(panel) /\ UNCHANGED <<updates, worker>> BY <1>5 DEF ClearConfirmed, Confirmable, Clickable
  <2>7. disk'.archive = disk.archive /\ disk'.optIn = IF end = "Refused" THEN disk.optIn ELSE FALSE
    BY <2>1 DEF SavedAs, Disk
  <2> HIDE DEF p, c
  <2>8. CASE end = "Kept"
    <3>1. Queue(p, c) /\ user'.allowed = user.allowed BY <2>1, <2>8 DEF User
    <3>2. ~panel'.loaded /\ ~panel'.enabled BY <2>3, <2>4, <3>1 DEF Queue, Panel
    <3>3. Choice' BY <2>7, <2>8, <3>2 DEF Choice
    <3> QED BY <2>3, <2>4, <2>5, <2>6, <2>7, <3>1, <3>3, QueueAllowed
  <2>9. CASE end # "Kept"
    <3>1. UNCHANGED <<panel, queue, user>> BY <2>1, <2>9
    <3>2. Choice' BY <1>1, <2>7, <3>1 DEF Choice
    <3> QED BY <2>6, <2>7, <3>1, <3>2, ElsewhereAllowed
  <2> QED BY <2>8, <2>9
<1>6. CASE ExportConfirmed
  <2> DEFINE c == [kind |-> "Export", rows |-> {}]
  <2>1. c \in Command /\ c.rows = {} BY DEF Command, Rows
  <2>2. Up /\ ~Busy(panel) /\ Queue(panel, c) /\ UNCHANGED <<disk, user, updates, worker>>
    BY <1>6 DEF ExportConfirmed, Confirmable, Clickable
  <2> HIDE DEF c
  <2>3. panel'.loaded = panel.loaded /\ panel'.enabled = panel.enabled BY <2>2 DEF Queue, Panel
  <2>4. Choice' BY <1>1, <2>2, <2>3 DEF Choice
  <2> QED BY <2>1, <2>2, <2>4, QueueAllowed
<1>7. CASE SettingsSaved
  <2>1. disk'.archive = disk.archive /\ disk'.optIn = panel.loaded
    BY <1>7 DEF SettingsSaved, SavedAs, Disk
  <2>2. Choice' BY <1>1, <1>7, <2>1 DEF Choice, SettingsSaved
  <2> QED BY <1>7, <2>1, <2>2, ElsewhereAllowed DEF SettingsSaved
<1>8. CASE Exit
  <2>1. panel'.rows = panel.rows /\ panel'.loaded = panel.loaded /\ panel'.enabled = panel.enabled
    BY <1>8 DEF Exit, Panel
  <2>2. Choice' BY <1>1, <1>8, <2>1 DEF Choice, Exit
  <2> QED BY <1>8, <2>1, <2>2, ElsewhereAllowed DEF Exit
<1>9. CASE CallOff
  <2>1. panel'.rows = panel.rows /\ panel'.loaded = panel.loaded /\ panel'.enabled = panel.enabled
          /\ user'.allowed = user.allowed /\ user'.on = user.on
    BY <1>9 DEF CallOff, Panel, User
  <2>2. Choice' BY <1>1, <1>9, <2>1 DEF Choice, CallOff
  <2> QED BY <1>9, <2>1, <2>2, ElsewhereAllowed DEF CallOff
<1>10. CASE Launch
  <2>1. PICK choice \in {disk.optIn, FALSE}, place \in {"Loading", "None"} :
          /\ panel' = IF place = "Loading" THEN Fresh(choice)
                      ELSE [Fresh(choice) EXCEPT !.pending = 0, !.ready = TRUE, !.failed = TRUE]
          /\ worker' = NewWorker(place)
    BY <1>10 DEF Launch
  <2>2. panel'.rows = {} /\ panel'.loaded = choice /\ panel'.enabled = choice
    BY <2>1 DEF Fresh
  <2>3. user'.allowed = user.allowed /\ user'.on = user.on /\ disk' = disk
          /\ queue' = <<>> /\ updates' = <<>>
    BY <1>10 DEF Launch, User
  <2>4. Choice' BY <1>1, <2>2, <2>3 DEF Choice
  <2> QED BY <1>2, <2>1, <2>2, <2>3, <2>4 DEF NewWorker
<1>11. CASE Crash
  <2>1. panel'.rows = {} /\ ~panel'.loaded /\ ~panel'.enabled
    BY <1>11 DEF Crash, Fresh
  <2>2. Choice' BY <1>1, <1>11, <2>1 DEF Choice, Crash
  <2> QED BY <1>2, <1>11, <2>1, <2>2 DEF Crash, NewWorker
<1>12. CASE Tick
  <2>1. Choice' BY <1>1, <1>12 DEF Choice, Tick
  <2> QED BY <1>12, <2>1, ElsewhereAllowed DEF Tick
<1> QED BY <1>3, <1>4, <1>5, <1>6, <1>7, <1>8, <1>9, <1>10, <1>11, <1>12

LEMMA AllowedInvariant == Spec => []Allowed
<1>1. Init => Allowed
  BY DEF Init, Allowed, Choice, Held, Cleared, Gone, File, Fresh, NewWorker
<1>2. ArchiveTypeOK /\ Flow /\ Allowed /\ [Next]_vars => Allowed'
  <2>1. Allowed /\ UNCHANGED vars => Allowed'
    BY ElsewhereAllowed DEF vars, Allowed, Choice
  <2> QED BY <2>1, WorkerAllowed, FrameAllowed, PanelAllowed DEF Next
<1> QED BY <1>1, <1>2, ArchiveTypeCorrect, FlowInvariant, PTL DEF Spec

\* No copy of the history, in the file, the worker, its queue or the panel, holds a row
\* that was read while saving was off, or one from before a clearing that was reported as
\* done, whatever fails, wherever the panel is stopped and however it is started again.
THEOREM KeepsOnlyAllowed == Spec => []OnlyWhatWasAllowed
<1>1. Allowed => OnlyWhatWasAllowed
  BY DEF Allowed, Held, OnlyWhatWasAllowed
<1> QED BY <1>1, AllowedInvariant, PTL

------------------------------------------------------------------------------
(* What is stored                                                            *)

Newer(r, rows) == {x \in rows : x.at >= r.at}

\* Every row of old is a row of new, or may be gone from it.
Covers(old, new) ==
  \A r \in old : r \in new \/ Expired(r) \/ Cardinality(Newer(r, new)) >= Cap

\* Any rows are finitely many.
LEMMA FiniteRows == \A rows \in Rows : IsFiniteSet(rows)
<1> DEFINE made == [p \in Message \X (0..MaxClock) |-> [msg |-> p[1], at |-> p[2]]]
<1>1. IsFiniteSet(0..MaxClock) BY ArchiveAssumption, FS_Interval
<1>2. IsFiniteSet(Message \X (0..MaxClock)) BY <1>1, ArchiveAssumption, FS_Product
<1>3. made \in Surjection(Message \X (0..MaxClock), Row)
  <2>1. made \in [Message \X (0..MaxClock) -> Row] BY DEF Row
  <2>2. ASSUME NEW r \in Row
        PROVE  \E p \in Message \X (0..MaxClock) : made[p] = r
    <3>1. <<r.msg, r.at>> \in Message \X (0..MaxClock) BY DEF Row
    <3>2. made[<<r.msg, r.at>>] = [msg |-> r.msg, at |-> r.at] BY <3>1
    <3> QED BY <3>1, <3>2 DEF Row
  <2> QED BY <2>1, <2>2 DEF Surjection
<1> HIDE DEF made
<1>4. IsFiniteSet(Row) BY <1>2, <1>3, FS_Surjection
<1> QED BY <1>4, FS_Subset DEF Rows

LEMMA CountRows ==
  ASSUME NEW rows \in Rows, NEW some \in SUBSET rows
  PROVE  /\ some \in Rows
         /\ Cardinality(some) \in Nat /\ Cardinality(some) <= Cardinality(rows)
         /\ Cardinality(some) = Cardinality(rows) => some = rows
<1>1. some \in Rows /\ IsFiniteSet(rows) BY FiniteRows DEF Rows
<1>2. IsFiniteSet(some) BY <1>1, FS_Subset
<1> QED BY <1>1, <1>2, FS_Subset, FS_CardinalityType

\* What covers what covers the old covers the old.
LEMMA CoversOn ==
  ASSUME ArchiveTypeOK, NEW old \in Rows, NEW mid \in Rows, NEW new \in Rows,
         Covers(old, mid), Covers(mid, new)
  PROVE  Covers(old, new)
<1> SUFFICES ASSUME NEW r \in old, ~Expired(r), r \notin new
             PROVE  Cardinality(Newer(r, new)) >= Cap
  BY DEF Covers
<1>1. Newer(r, mid) \in Rows /\ Newer(r, new) \in Rows BY DEF Newer, Rows
<1>2. Cap \in Nat /\ Retention \in Nat /\ clock \in Nat BY ArchiveAssumption DEF ArchiveTypeOK
<1>3. \A x \in old \cup mid \cup new : x.at \in Nat BY DEF Rows, Row
<1>4. ASSUME NEW x \in Row, Newer(x, new) \subseteq Newer(r, new), Cardinality(Newer(x, new)) >= Cap
      PROVE  Cardinality(Newer(r, new)) >= Cap
  <2>1. Cardinality(Newer(x, new)) \in Nat /\ Cardinality(Newer(x, new)) <= Cardinality(Newer(r, new))
    BY <1>1, <1>4, CountRows
  <2>2. Cardinality(Newer(r, new)) \in Nat BY <1>1, CountRows
  <2> QED BY <1>2, <1>4, <2>1, <2>2
<1>5. CASE r \in mid
  BY <1>5 DEF Covers
<1>6. CASE r \notin mid
  <2>1. Cardinality(Newer(r, mid)) >= Cap BY <1>6 DEF Covers
  <2>2. CASE Newer(r, mid) \subseteq new
    <3>1. Newer(r, mid) \subseteq Newer(r, new) BY <2>2 DEF Newer
    <3>2. Cardinality(Newer(r, mid)) \in Nat /\ Cardinality(Newer(r, new)) \in Nat
            /\ Cardinality(Newer(r, mid)) <= Cardinality(Newer(r, new))
      BY <1>1, <3>1, CountRows
    <3> QED BY <1>2, <2>1, <3>2
  <2>3. CASE ~(Newer(r, mid) \subseteq new)
    <3>1. PICK x \in mid : x \notin new /\ x.at >= r.at BY <2>3 DEF Newer
    <3>2. x.at \in Nat /\ r.at \in Nat /\ x \in Row BY <1>3 DEF Rows
    <3>3. ~Expired(x) BY <1>2, <3>1, <3>2 DEF Expired
    <3>4. Cardinality(Newer(x, new)) >= Cap BY <3>1, <3>3 DEF Covers
    <3>5. Newer(x, new) \subseteq Newer(r, new) BY <1>3, <3>1, <3>2 DEF Newer
    <3> QED BY <1>4, <3>2, <3>4, <3>5
  <2> QED BY <2>2, <2>3
<1> QED BY <1>5, <1>6

\* More rows cover, and so do the same rows.
LEMMA CoversMore ==
  ASSUME NEW old, NEW new, old \subseteq new
  PROVE  Covers(old, new)
  BY DEF Covers

\* What covers some rows covers each of them.
LEMMA CoversEach ==
  ASSUME NEW old, NEW new, Covers(old, new), NEW some \in SUBSET old
  PROVE  Covers(some, new)
  BY DEF Covers

\* purge drops nothing but what is too old or overtaken.
LEMMA PurgedCovers ==
  ASSUME ArchiveTypeOK, NEW rows \in Rows, NEW kept \in Purged(rows)
  PROVE  kept \in Rows /\ Covers(rows, kept)
<1> DEFINE live == {r \in rows : ~Expired(r)}
<1>1. /\ kept \in SUBSET live
      /\ Cardinality(kept) = IF Cardinality(live) <= Cap THEN Cardinality(live) ELSE Cap
      /\ \A r \in kept, old \in live \ kept : old.at <= r.at
  BY DEF Purged
<1>2. live \in Rows BY DEF Rows
<1>3. kept \in Rows BY <1>1, <1>2 DEF Rows
<1>4. ASSUME NEW r \in rows, ~Expired(r), r \notin kept
      PROVE  Cardinality(Newer(r, kept)) >= Cap
  <2>1. r \in live \ kept BY <1>4
  <2>2. \A x \in kept : x.at \in Nat /\ r.at \in Nat BY <1>3 DEF Rows, Row
  <2>3. Newer(r, kept) = kept BY <1>1, <2>1, <2>2 DEF Newer
  <2>4. Cardinality(kept) # Cardinality(live) BY <1>1, <1>2, <2>1, CountRows
  <2>5. Cap \in Nat BY ArchiveAssumption
  <2> QED BY <1>1, <2>3, <2>4, <2>5
<1> QED BY <1>3, <1>4 DEF Covers

\* What is too old stays too old.
LEMMA ExpiredLater ==
  ASSUME ArchiveTypeOK, Tick
  PROVE  \A r \in Row : Expired(r) => Expired(r)'
<1>1. clock' = clock + 1 /\ clock \in Nat /\ Retention \in Nat
  BY ArchiveAssumption DEF Tick, ArchiveTypeOK
<1> QED BY <1>1 DEF Expired, Row

\* While nothing failed the worker holds the file; what it is about to save covers it.
Worked ==
  /\ Idle /\ ~worker.failed => worker.rows = File
  /\ worker.place \in {"Loading", "Saving"} => ~worker.failed
  /\ worker.place = "Saving" => /\ Covers(File, worker.next)
                                /\ worker.job = "Export" => worker.back = File

\* A clearing is known to the user until it is answered.
ClearsAsked ==
  /\ \A i \in DOMAIN queue : queue[i].kind = "Clear" => user.clearing
  /\ \A i \in DOMAIN updates : updates[i].kind = "Clear" => user.clearing

\* What was told, and what is still to be heard, is stored.
Told ==
  /\ Covers(user.reported, File)
  /\ user.clearing => user.reported = {}
  /\ ~user.clearing /\ updates # <<>> /\ ~Last(updates).failed => Covers(Last(updates).rows, File)

Stored == Worked /\ ClearsAsked /\ Told

\* One answer more, the last one.
Adds(u) ==
  /\ updates' # <<>> /\ Last(updates') = u
  /\ DOMAIN updates' = DOMAIN updates \cup {Len(updates) + 1}
  /\ \A i \in DOMAIN updates : updates'[i] = updates[i]
  /\ updates'[Len(updates) + 1] = u

\* A job that is over leaves the worker idle, and its answer is the last one.
LEMMA JobEnds ==
  ASSUME ArchiveTypeOK, NEW kind \in Job \cup {"Clear"}, NEW rows \in {Absent} \cup Rows,
         NEW back \in Rows, NEW failed \in BOOLEAN, failed \/ rows \in Rows,
         worker' = [Rested EXCEPT !.rows = back, !.failed = failed],
         NEW u, u = [kind |-> kind, rows |-> rows, failed |-> failed], updates' = Append(updates, u)
  PROVE  /\ worker'.place = "Idle" /\ worker'.rows = back /\ worker'.failed = failed
         /\ u \in Update
         /\ Adds(u)
<1>1. worker'.place = "Idle" /\ worker'.rows = back /\ worker'.failed = failed
  BY DEF Rested, ArchiveTypeOK, Worker
<1>2. u \in Update BY DEF Update
<1>3. updates \in Seq(Update) BY DEF ArchiveTypeOK
<1> QED BY <1>1, <1>2, <1>3, AppendIs DEF Adds

LEMMA FinishEnds ==
  ASSUME ArchiveTypeOK, NEW kind \in Job \cup {"Clear"}, NEW rows \in Rows, NEW failed \in BOOLEAN,
         Finish(kind, rows, failed)
  PROVE  \E u \in Update :
           /\ u.kind = kind /\ u.rows = rows /\ u.failed = failed
           /\ worker'.place = "Idle" /\ worker'.rows = rows /\ worker'.failed = failed
           /\ Adds(u)
<1> DEFINE u == [kind |-> kind, rows |-> rows, failed |-> failed]
<1>1. worker' = [Rested EXCEPT !.rows = rows, !.failed = failed] /\ updates' = Append(updates, u)
  BY DEF Finish, Answer
<1>2. u.kind = kind /\ u.rows = rows /\ u.failed = failed OBVIOUS
<1> HIDE DEF u
<1>3. u = [kind |-> kind, rows |-> rows, failed |-> failed] BY DEF u
<1> QED BY <1>1, <1>2, <1>3, JobEnds

\* The same of a save.
LEMMA SavedEnds ==
  ASSUME ArchiveTypeOK, Save
  PROVE  \E u \in Update :
           /\ u.kind = worker.job /\ u.rows = worker.next /\ u.failed = FALSE
           /\ worker'.place = "Idle" /\ worker'.rows = worker.next /\ worker'.failed = FALSE
           /\ Adds(u)
<1>1. worker.job \in Job /\ worker.next \in Rows /\ FALSE \in BOOLEAN
  BY DEF Save, ArchiveTypeOK, Worker
<1>2. Finish(worker.job, worker.next, FALSE) BY DEF Save
<1> QED BY <1>1, <1>2, FinishEnds

\* And of a save that failed.
LEMMA FailedEnds ==
  ASSUME ArchiveTypeOK, SaveFails
  PROVE  \E u \in Update :
           /\ u.kind = worker.job /\ (u.failed <=> worker.job # "Export")
           /\ u.rows = IF worker.job = "Load" THEN Absent ELSE worker.back
           /\ worker'.place = "Idle" /\ worker'.rows = worker.back /\ (worker'.failed <=> u.failed)
           /\ Adds(u)
<1> DEFINE bad == worker.job # "Export"
           rows == IF worker.job = "Load" THEN Absent ELSE worker.back
           u == [kind |-> worker.job, rows |-> rows, failed |-> bad]
<1>1. worker.job \in Job /\ worker.back \in Rows BY DEF SaveFails, ArchiveTypeOK, Worker
<1>2. rows \in {Absent} \cup Rows /\ bad \in BOOLEAN /\ (bad \/ rows \in Rows) BY <1>1
<1>3. /\ worker' = [Rested EXCEPT !.rows = worker.back, !.failed = bad]
      /\ updates' = Append(updates, u)
  BY DEF SaveFails
<1>4. bad <=> worker.job # "Export" OBVIOUS
<1>5. rows = IF worker.job = "Load" THEN Absent ELSE worker.back OBVIOUS
<1> HIDE DEF bad, rows
<1>6. u.kind = worker.job /\ u.rows = rows /\ u.failed = bad
        /\ u = [kind |-> worker.job, rows |-> rows, failed |-> bad]
  OBVIOUS
<1> HIDE DEF u
<1>7. /\ u \in Update
      /\ worker'.place = "Idle" /\ worker'.rows = worker.back /\ worker'.failed = bad
      /\ Adds(u)
  BY <1>1, <1>2, <1>3, <1>6, JobEnds
<1> QED BY <1>4, <1>5, <1>6, <1>7

\* And of a load that failed at once.
LEMMA LoadFailedEnds ==
  ASSUME ArchiveTypeOK, LoadFails
  PROVE  \E u \in Update :
           /\ u.kind = "Load" /\ u.failed /\ u.rows = Absent
           /\ worker'.place = "Idle" /\ worker'.failed
           /\ Adds(u)
<1> DEFINE u == [kind |-> "Load", rows |-> Absent, failed |-> TRUE]
<1>1. worker' = [Rested EXCEPT !.failed = TRUE] /\ updates' = Append(updates, u) BY DEF LoadFails
<1>2. [Rested EXCEPT !.failed = TRUE] = [Rested EXCEPT !.rows = worker.rows, !.failed = TRUE]
  BY DEF Rested, ArchiveTypeOK, Worker
<1>3. worker.rows \in Rows /\ "Load" \in Job /\ TRUE \in BOOLEAN BY DEF ArchiveTypeOK, Worker, Job
<1>4. u.kind = "Load" /\ u.failed /\ u.rows = Absent /\ u = [kind |-> "Load", rows |-> Absent, failed |-> TRUE]
  OBVIOUS
<1> HIDE DEF u
<1>5. /\ u \in Update
      /\ worker'.place = "Idle" /\ worker'.failed = TRUE
      /\ Adds(u)
  BY <1>1, <1>2, <1>3, <1>4, JobEnds
<1> QED BY <1>4, <1>5

LEMMA SaveBegins ==
  ASSUME ArchiveTypeOK, NEW kind, NEW next, NEW back, StartSave(kind, next, back)
  PROVE  /\ worker'.place = "Saving" /\ worker'.job = kind
         /\ worker'.next = next /\ worker'.back = back
         /\ worker'.rows = worker.rows /\ worker'.failed = worker.failed
  BY DEF StartSave, ArchiveTypeOK, Worker

LEMMA WorkerStored ==
  ASSUME ArchiveTypeOK, Flow, Stored, WorkerStep
  PROVE  Stored'
<1> USE DEF ArchiveTypeOK
<1>1. user' = user /\ Worked /\ ClearsAsked /\ Told
  BY DEF Stored, WorkerStep, LoadFails, Load, Save, SaveFails, Capture, CapturePaused, Clear, Export,
         Maintain, Take
<1>w. /\ worker.rows \in Rows /\ worker.next \in Rows /\ worker.back \in Rows /\ {} \in Rows
      /\ File \in Rows /\ user.reported \in Rows
  BY DEF Worker, Rows, File, Disk, User
<1>k. TRUE \in BOOLEAN /\ FALSE \in BOOLEAN OBVIOUS
<1>t. worker.place # "None" /\ Len(queue) <= 1
  BY DEF WorkerStep, LoadFails, Load, Save, SaveFails, Capture, CapturePaused, Clear, Export,
         Maintain, Take, Idle, Flow, Channels
<1>c. \A rows : Covers(rows, rows) BY CoversMore
\* A job is over: the file is the old one or covers it, and what was told is in it.
<1>2. ASSUME NEW u \in Update, Adds(u), u.kind = "Clear" => user.clearing,
             queue' = queue \/ queue' = <<>>, worker'.place = "Idle", worker'.failed = u.failed,
             ~u.failed => u.rows = File' /\ worker'.rows = File',
             File' \in Rows, user.clearing \/ Covers(File, File')
      PROVE  Stored'
  <2>1. Worked' BY <1>2 DEF Worked, Idle
  <2>2. ClearsAsked' BY <1>1, <1>2 DEF ClearsAsked, Adds
  <2>3. Covers(user.reported, File')
    <3>1. CASE user.clearing
      BY <1>1, <3>1 DEF Told, Covers
    <3>2. CASE ~user.clearing
      BY <1>1, <1>2, <1>w, <3>2, CoversOn DEF Told
    <3> QED BY <3>1, <3>2
  <2>4. clock' = clock
    BY DEF WorkerStep, LoadFails, Load, Save, SaveFails, Capture, CapturePaused, Clear, Export,
           Maintain, Take
  <2>5. Covers(user.reported, File)'
    BY <1>1, <2>3, <2>4 DEF Covers, Expired, Newer
  <2>6. ~u.failed => Covers(u.rows, File)' BY <1>2, <2>4 DEF Covers
  <2>7. Told' BY <1>1, <1>2, <2>5, <2>6 DEF Told, Adds
  <2> QED BY <2>1, <2>2, <2>7 DEF Stored
\* A save begins.
<1>3. ASSUME NEW kind, NEW next \in Rows, NEW back, StartSave(kind, next, back), ~worker.failed,
             Covers(File, next), kind = "Export" => back = File,
             updates' = updates, disk' = disk, clock' = clock, queue' = queue \/ queue' = <<>>
      PROVE  Stored'
  <2>1. File' = File BY <1>3 DEF File
  <2>2. worker'.place = "Saving" /\ worker'.job = kind /\ worker'.next = next /\ worker'.back = back
          /\ worker'.failed = worker.failed
    BY <1>3, SaveBegins
  <2>3. Covers(File, worker.next)' BY <1>3, <2>1, <2>2 DEF Covers, Expired, Newer
  <2>4. Worked' BY <1>3, <2>1, <2>2, <2>3 DEF Worked, Idle
  <2>5. ClearsAsked' BY <1>1, <1>3 DEF ClearsAsked
  <2>6. Told' BY <1>1, <1>3, <2>1 DEF Told, Covers, Expired, Newer
  <2> QED BY <2>4, <2>5, <2>6 DEF Stored
\* The same of an answer that leaves the file alone.
<1>4. ASSUME NEW kind \in Job \cup {"Clear"}, NEW rows \in Rows, NEW failed \in BOOLEAN,
             Finish(kind, rows, failed), kind = "Clear" => user.clearing, failed \/ rows = File,
             disk' = disk, queue' = queue \/ queue' = <<>>
      PROVE  Stored'
  <2>1. PICK u \in Update : /\ u.kind = kind /\ u.rows = rows /\ u.failed = failed
                            /\ worker'.place = "Idle" /\ worker'.rows = rows /\ worker'.failed = failed
                            /\ Adds(u)
    BY <1>4, FinishEnds
  <2>2. File' = File BY <1>4 DEF File
  <2> QED BY <1>2, <1>4, <1>c, <1>w, <2>1, <2>2
<1>q. \A kind : Take(kind) => /\ queue' = <<>> /\ Idle /\ clock' = clock
                              /\ kind = "Clear" => user.clearing
  <2> SUFFICES ASSUME NEW kind, Take(kind)
               PROVE  /\ queue' = <<>> /\ Idle /\ clock' = clock
                      /\ kind = "Clear" => user.clearing
    OBVIOUS
  <2>1. queue' = <<>> /\ Idle /\ queue # <<>> BY <1>t, TakenLast
  <2>2. 1 \in DOMAIN queue /\ Head(queue) = queue[1] BY <2>1
  <2> QED BY <1>1, <2>1, <2>2 DEF Take, ClearsAsked
<1>5. CASE LoadFails
  <2>1. PICK u \in Update : /\ u.kind = "Load" /\ u.failed /\ u.rows = Absent
                            /\ worker'.place = "Idle" /\ worker'.failed /\ Adds(u)
    BY <1>5, LoadFailedEnds
  <2>2. File' = File /\ queue' = queue BY <1>5 DEF LoadFails, File
  <2>3. ASSUME worker'.failed # u.failed PROVE FALSE
    <3>1. u.failed \in BOOLEAN BY DEF Update
    <3>2. worker' \in Worker
      BY <1>5, ArchiveTypeOK, WorkerTypes DEF WorkerStep
    <3>3. worker'.failed \in BOOLEAN BY <3>2 DEF Worker
    <3> QED BY <2>1, <2>3, <3>1, <3>3
  <2> QED BY <1>2, <1>c, <1>w, <2>1, <2>2, <2>3
<1>6. CASE Load
  <2>1. PICK live \in Purged(File) : IF live = File THEN Finish("Load", live, FALSE)
                                     ELSE StartSave("Load", live, live) /\ UNCHANGED updates
    BY <1>6 DEF Load
  <2>2. live \in Rows /\ Covers(File, live) BY <1>w, PurgedCovers
  <2>3. ~worker.failed /\ disk' = disk /\ queue' = queue /\ clock' = clock
    BY <1>1, <1>6 DEF Load, Worked
  <2> QED BY <1>3, <1>4, <1>k, <2>1, <2>2, <2>3 DEF Job
<1>7. CASE Save
  <2>1. worker.job \in Job /\ Finish(worker.job, worker.next, FALSE) /\ queue' = queue
          /\ disk' = [disk EXCEPT !.archive = worker.next] /\ worker.place = "Saving"
    BY <1>7 DEF Save, Worker
  <2>2. PICK u \in Update : /\ u.kind = worker.job /\ u.rows = worker.next /\ u.failed = FALSE
                            /\ worker'.place = "Idle" /\ worker'.rows = worker.next
                            /\ worker'.failed = FALSE /\ Adds(u)
    BY <1>7, SavedEnds
  <2>3. File' = worker.next
    <3>1. disk'.archive = worker.next BY <2>1 DEF Disk
    <3>2. worker.next # Absent BY <1>w, ArchiveAssumption DEF Rows
    <3> QED BY <3>1, <3>2 DEF File
  <2>4. Covers(File, worker.next) BY <1>1, <2>1 DEF Worked
  <2>5. u.kind # "Clear" BY <2>1, <2>2 DEF Job
  <2> QED BY <1>2, <1>w, <2>1, <2>2, <2>3, <2>4, <2>5
<1>8. CASE SaveFails
  <2>1. PICK u \in Update :
          /\ u.kind = worker.job /\ (u.failed <=> worker.job # "Export")
          /\ u.rows = IF worker.job = "Load" THEN Absent ELSE worker.back
          /\ worker'.place = "Idle" /\ worker'.rows = worker.back /\ (worker'.failed <=> u.failed)
          /\ Adds(u)
    BY <1>8, FailedEnds
  <2>2. File' = File /\ queue' = queue /\ worker.place = "Saving" /\ worker.job \in Job
    BY <1>8 DEF SaveFails, File, Worker
  <2>3. worker.job = "Export" => worker.back = File BY <1>1, <2>2 DEF Worked
  <2>4. ~u.failed => u.rows = File' /\ worker'.rows = File' BY <2>1, <2>2, <2>3
  <2>5. worker'.failed = u.failed
    <3>1. u.failed \in BOOLEAN BY DEF Update
    <3>2. worker' \in Worker
      BY <1>8, ArchiveTypeOK, WorkerTypes DEF WorkerStep
    <3>3. worker'.failed \in BOOLEAN BY <3>2 DEF Worker
    <3> QED BY <2>1, <3>1, <3>3
  <2>6. u.kind # "Clear" BY <2>1, <2>2 DEF Job
  <2> QED BY <1>2, <1>c, <1>w, <2>1, <2>2, <2>4, <2>5, <2>6
<1>9. CASE Capture
  <2>1. PICK kept \in Purged(worker.rows) :
          LET new == {r \in Head(queue).rows : r.msg \notin Messages(kept)}
          IN  \E next \in Purged(kept \cup new) :
                IF kept = worker.rows /\ new = {} THEN Finish("Capture", kept, FALSE)
                ELSE StartSave("Capture", next, worker.rows) /\ UNCHANGED updates
    BY <1>9 DEF Capture
  <2> DEFINE new == {r \in Head(queue).rows : r.msg \notin Messages(kept)}
  <2>2. queue' = <<>> /\ Idle /\ clock' = clock /\ disk' = disk /\ ~worker.failed /\ queue # <<>>
    BY <1>9, <1>q DEF Capture, Take
  <2>3. worker.rows = File BY <1>1, <2>2 DEF Worked
  <2>4. kept \in Rows /\ Covers(File, kept) BY <1>w, <2>3, PurgedCovers
  <2>5. Head(queue) \in Command BY <2>2
  <2>6. kept \cup new \in Rows BY <2>4, <2>5 DEF Command, Rows
  <2>7. PICK next \in Purged(kept \cup new) :
          \/ kept = worker.rows /\ Finish("Capture", kept, FALSE)
          \/ StartSave("Capture", next, worker.rows) /\ UNCHANGED updates
    BY <2>1
  <2> HIDE DEF new
  <2>8. next \in Rows /\ Covers(kept \cup new, next) BY <2>6, PurgedCovers
  <2>9. Covers(kept, kept \cup new) BY CoversMore
  <2>10. Covers(File, next)
    <3>1. Covers(File, kept \cup new) BY <1>w, <2>4, <2>6, <2>9, CoversOn
    <3> QED BY <1>w, <2>6, <2>8, <3>1, CoversOn
  <2>11. CASE kept = worker.rows /\ Finish("Capture", kept, FALSE)
    BY <1>4, <1>k, <2>2, <2>3, <2>4, <2>11 DEF Job
  <2>12. CASE StartSave("Capture", next, worker.rows) /\ UNCHANGED updates
    BY <1>3, <2>2, <2>8, <2>10, <2>12
  <2> QED BY <2>7, <2>11, <2>12
<1>10. CASE CapturePaused
  <2>1. queue' = <<>> /\ Finish("Capture", worker.rows, TRUE) /\ disk' = disk
    BY <1>10, <1>q DEF CapturePaused
  <2> QED BY <1>4, <1>k, <1>w, <2>1 DEF Job
<1>11. CASE Clear
  <2>1. queue' = <<>> /\ user.clearing BY <1>11, <1>q DEF Clear
  <2>2. CASE Finish("Clear", {}, FALSE) /\ disk' = [disk EXCEPT !.archive = Absent]
    <3>1. PICK u \in Update : /\ u.kind = "Clear" /\ u.rows = {} /\ u.failed = FALSE
                              /\ worker'.place = "Idle" /\ worker'.rows = {} /\ worker'.failed = FALSE
                              /\ Adds(u)
      BY <1>k, <1>w, <2>2, FinishEnds
    <3>2. File' = {} BY <2>2 DEF File, Disk
    <3> QED BY <1>2, <1>w, <2>1, <3>1, <3>2
  <2>3. CASE Finish("Clear", worker.rows, TRUE) /\ disk' = disk
    BY <1>4, <1>k, <1>w, <2>1, <2>3
  <2> QED BY <1>11, <2>2, <2>3 DEF Clear
<1>12. CASE Export
  <2>1. queue' = <<>> /\ Idle /\ clock' = clock /\ disk' = disk BY <1>12, <1>q DEF Export
  <2>2. CASE worker.failed
    BY <1>4, <1>12, <1>k, <1>w, <2>1, <2>2 DEF Export, Job
  <2>3. CASE ~worker.failed
    <3>1. worker.rows = File BY <1>1, <2>1, <2>3 DEF Worked
    <3>2. PICK live \in Purged(worker.rows) :
            IF live = worker.rows THEN Finish("Export", live, FALSE)
            ELSE StartSave("Export", live, worker.rows) /\ UNCHANGED updates
      BY <1>12, <2>3 DEF Export
    <3>3. live \in Rows /\ Covers(File, live) BY <1>w, <3>1, PurgedCovers
    <3> QED BY <1>3, <1>4, <1>k, <2>1, <2>3, <3>1, <3>2, <3>3 DEF Job
  <2> QED BY <2>2, <2>3
<1>13. CASE Maintain
  <2>1. PICK live \in Purged(worker.rows) : StartSave("Maintain", live, worker.rows)
    BY <1>13 DEF Maintain
  <2>2. Idle /\ ~worker.failed /\ disk' = disk /\ clock' = clock /\ updates' = updates /\ queue' = queue
    BY <1>13 DEF Maintain
  <2>3. worker.rows = File BY <1>1, <2>2 DEF Worked
  <2>4. live \in Rows /\ Covers(File, live) BY <1>w, <2>3, PurgedCovers
  <2> QED BY <1>3, <2>1, <2>2, <2>4
<1> QED BY <1>5, <1>6, <1>7, <1>8, <1>9, <1>10, <1>11, <1>12, <1>13 DEF WorkerStep

\* What poll changes.
LEMMA PolledIs ==
  ASSUME ArchiveTypeOK
  PROVE  /\ Polled(panel) \in Panel
         /\ Polled(panel).place = panel.place /\ Polled(panel).enabled = panel.enabled
         /\ Polled(panel).seen = panel.seen /\ Polled(panel).exiting = panel.exiting
         /\ Polled(panel).final = panel.final /\ Polled(panel).finalSeen = panel.finalSeen
         /\ worker.place = "None" => /\ ~Busy(Polled(panel))
                                     /\ Polled(panel).ready /\ Polled(panel).failed
         /\ worker.place # "None" /\ updates = <<>> => Polled(panel) = panel
         /\ worker.place # "None" /\ updates # <<>> =>
              /\ Busy(Polled(panel)) <=> Busy(panel) /\ ~Answered
              /\ Polled(panel).ready /\ Polled(panel).failed = Last(updates).failed
<1>1. Polled(panel) \in Panel BY PolledTypes
<1>2. panel \in Panel BY DEF ArchiveTypeOK
<1>3. CASE worker.place = "None"
  BY <1>1, <1>2, <1>3 DEF Polled, Panel, Busy
<1>4. CASE worker.place # "None" /\ updates = <<>>
  BY <1>1, <1>4 DEF Polled
<1>5. CASE worker.place # "None" /\ updates # <<>>
  BY <1>1, <1>2, <1>5 DEF Polled, Panel, Busy
<1> QED BY <1>3, <1>4, <1>5

\* What is under observation in a frame: the snapshot received, or the one of the exit.
Watched(s) == IF panel.exiting /\ panel.final # Absent THEN panel.final ELSE s

\* A frame, that of an exit too: the answers are read, then a snapshot may be observed.
LEMMA FrameForm ==
  ASSUME ArchiveTypeOK, Frame \/ ExitFrame
  PROVE  /\ Up /\ updates' = <<>> /\ UNCHANGED <<clock, disk, worker>>
         /\ \E s \in Snapshot, p \in Panel :
              /\ Received(s) /\ shown' = s /\ Watched(s) \in Snapshot
              /\ p.place = "Up" /\ p.pending = Polled(panel).pending /\ p.ready = Polled(panel).ready
              /\ p.failed = Polled(panel).failed /\ p.enabled = panel.enabled /\ p.seen = panel.seen
              /\ p.exiting = panel.exiting
              /\ p.final = IF panel.exiting THEN Watched(s) ELSE panel.final
              /\ p.finalSeen <=> panel.finalSeen \/ (panel.exiting /\ ~Busy(p))
              /\ \/ /\ Observes(p, Watched(s))
                    /\ panel' = [p EXCEPT !.pending = 1, !.seen = Watched(s).rev]
                    /\ queue' = Append(queue, [kind |-> "Capture", rows |-> Captured(Watched(s))])
                    /\ user'.reported = Heard.reported /\ user'.clearing = Heard.clearing
                    /\ user'.calledOff = user.calledOff /\ Heard.allowed \subseteq user'.allowed
                 \/ /\ ~Observes(p, Watched(s)) \/ (panel.exiting /\ panel.finalSeen)
                    /\ panel' = p /\ queue' = queue /\ user' = Heard
                    /\ user'.calledOff = user.calledOff
<1>1. Up /\ updates' = <<>> /\ UNCHANGED <<clock, disk, worker>> BY DEF Frame, ExitFrame
<1>2. Heard \in User /\ Heard.calledOff = user.calledOff BY HeardTypes DEF Heard, ArchiveTypeOK, User
<1>3. panel.final \in Snapshot \cup {Absent} BY DEF ArchiveTypeOK, Panel
\* What an observation does to the panel and the user.
<1>4. ASSUME NEW p \in Panel, NEW t \in Snapshot, ObservedBy(p, t, Heard)
      PROVE  \/ /\ Observes(p, t)
                /\ panel' = [p EXCEPT !.pending = 1, !.seen = t.rev]
                /\ queue' = Append(queue, [kind |-> "Capture", rows |-> Captured(t)])
                /\ user'.reported = Heard.reported /\ user'.clearing = Heard.clearing
                /\ user'.calledOff = user.calledOff /\ Heard.allowed \subseteq user'.allowed
             \/ /\ ~Observes(p, t)
                /\ panel' = p /\ queue' = queue /\ user' = Heard /\ user'.calledOff = user.calledOff
  <2>1. CASE Observes(p, t)
    <3> DEFINE more == IF Heard.on THEN Captured(t) ELSE {}
    <3>1. user' = [Heard EXCEPT !.allowed = Heard.allowed \cup more]
      BY <1>4, <2>1 DEF ObservedBy
    <3> HIDE DEF more
    <3>2. user'.reported = Heard.reported /\ user'.clearing = Heard.clearing
            /\ user'.calledOff = Heard.calledOff /\ user'.allowed = Heard.allowed \cup more
      BY <1>2, <3>1 DEF User
    <3>3. panel' = [p EXCEPT !.pending = 1, !.seen = t.rev]
            /\ queue' = Append(queue, [kind |-> "Capture", rows |-> Captured(t)])
      BY <1>4, <2>1 DEF ObservedBy
    <3> QED BY <1>2, <2>1, <3>2, <3>3
  <2>2. CASE ~Observes(p, t)
    BY <1>2, <1>4, <2>2 DEF ObservedBy
  <2> QED BY <2>1, <2>2
<1>5. CASE Frame
  <2>1. PICK s \in Snapshot : Received(s) /\ shown' = s /\ ObservedBy(Polled(panel), s, Heard)
    BY <1>5 DEF Frame
  <2> DEFINE p == Polled(panel)
  <2>2. ~panel.exiting /\ Watched(s) = s BY <1>5 DEF Frame, Watched
  <2>3. /\ p \in Panel /\ p.place = "Up" /\ p.enabled = panel.enabled /\ p.seen = panel.seen
        /\ p.exiting = panel.exiting /\ p.final = panel.final /\ p.finalSeen = panel.finalSeen
    BY <1>1, PolledIs DEF Up
  <2>4. p.pending = Polled(panel).pending /\ p.ready = Polled(panel).ready
          /\ p.failed = Polled(panel).failed /\ ObservedBy(p, s, Heard)
    BY <2>1
  <2> HIDE DEF p
  <2>5. p.finalSeen <=> panel.finalSeen \/ (panel.exiting /\ ~Busy(p))
    BY <2>2, <2>3
  <2>6. p.final = IF panel.exiting THEN Watched(s) ELSE panel.final BY <2>2, <2>3
  <2>7. ObservedBy(p, Watched(s), Heard) /\ Watched(s) \in Snapshot BY <2>2, <2>4
  <2> QED BY <1>1, <1>4, <2>1, <2>3, <2>4, <2>5, <2>6, <2>7
<1>6. CASE ExitFrame
  <2>1. PICK s \in Snapshot :
          LET final == IF panel.final = Absent THEN s ELSE panel.final
              polled == [Polled(panel) EXCEPT !.final = final]
          IN  /\ Received(s) /\ shown' = s
              /\ IF ~Busy(polled) /\ ~polled.finalSeen
                 THEN ObservedBy([polled EXCEPT !.finalSeen = TRUE], final, Heard)
                 ELSE panel' = polled /\ user' = Heard /\ UNCHANGED queue
    BY <1>6 DEF ExitFrame
  <2> DEFINE final == IF panel.final = Absent THEN s ELSE panel.final
             polled == [Polled(panel) EXCEPT !.final = final]
             marked == [polled EXCEPT !.finalSeen = TRUE]
  <2>2. panel.exiting /\ final = Watched(s) BY <1>6 DEF ExitFrame, Watched
  <2>3. final \in Snapshot BY <1>3
  <2>4. IF ~Busy(polled) /\ ~polled.finalSeen
        THEN ObservedBy(marked, final, Heard)
        ELSE panel' = polled /\ user' = Heard /\ queue' = queue
    BY <2>1
  <2> HIDE DEF final
  <2>5. /\ polled \in Panel /\ polled.place = "Up" /\ polled.enabled = panel.enabled
        /\ polled.seen = panel.seen /\ polled.exiting = panel.exiting /\ polled.final = final
        /\ polled.finalSeen = panel.finalSeen /\ polled.pending = Polled(panel).pending
        /\ polled.ready = Polled(panel).ready /\ polled.failed = Polled(panel).failed
    BY <1>1, <2>3, PolledIs DEF Up, Panel
  <2>6. marked = [polled EXCEPT !.finalSeen = TRUE] OBVIOUS
  <2> HIDE DEF polled, marked
  <2>7. /\ marked \in Panel /\ marked.place = "Up" /\ marked.enabled = panel.enabled
        /\ marked.seen = panel.seen /\ marked.exiting = panel.exiting /\ marked.final = final
        /\ marked.finalSeen = TRUE /\ marked.pending = Polled(panel).pending
        /\ marked.ready = Polled(panel).ready /\ marked.failed = Polled(panel).failed
    BY <2>5, <2>6 DEF Panel
  <2>8. panel.finalSeen \in BOOLEAN BY DEF ArchiveTypeOK, Panel
  <2>9. CASE ~Busy(polled) /\ ~polled.finalSeen
    <3>1. marked.finalSeen <=> panel.finalSeen \/ (panel.exiting /\ ~Busy(marked))
      BY <2>2, <2>5, <2>7, <2>9 DEF Busy
    <3>2. marked.final = IF panel.exiting THEN Watched(s) ELSE panel.final BY <2>2, <2>7
    <3>3. ObservedBy(marked, Watched(s), Heard) /\ Watched(s) \in Snapshot BY <2>2, <2>3, <2>4, <2>9
    <3> QED BY <1>1, <1>4, <2>1, <2>7, <3>1, <3>2, <3>3
  <2>10. CASE ~(~Busy(polled) /\ ~polled.finalSeen)
    <3>1. polled.finalSeen <=> panel.finalSeen \/ (panel.exiting /\ ~Busy(polled))
      BY <2>5, <2>8, <2>10
    <3>2. polled.final = IF panel.exiting THEN Watched(s) ELSE panel.final BY <2>2, <2>5
    <3>3. ~Observes(polled, Watched(s)) \/ (panel.exiting /\ panel.finalSeen)
      BY <2>2, <2>5, <2>8, <2>10 DEF Observes
    <3>4. panel' = polled /\ user' = Heard /\ queue' = queue /\ Watched(s) \in Snapshot
      BY <2>2, <2>3, <2>4, <2>10
    <3> QED BY <1>1, <1>2, <2>1, <2>5, <3>1, <3>2, <3>3, <3>4
  <2> QED BY <2>9, <2>10
<1> QED BY <1>5, <1>6

LEMMA FrameStored ==
  ASSUME ArchiveTypeOK, Flow, Stored, Frame \/ ExitFrame
  PROVE  Stored'
<1>1. Worked /\ ClearsAsked /\ Told BY DEF Stored
<1>2. updates' = <<>> /\ UNCHANGED <<clock, disk, worker>> BY FrameForm
<1>3. /\ user'.reported = Heard.reported /\ user'.clearing = Heard.clearing
      /\ \/ \E t : queue' = Append(queue, [kind |-> "Capture", rows |-> Captured(t)])
         \/ queue' = queue
  BY FrameForm
<1>4. /\ Heard.clearing <=> user.clearing /\ ~Answered
      /\ Heard.reported = IF user.clearing THEN {}
                          ELSE IF updates = <<>> \/ Last(updates).failed THEN user.reported
                          ELSE Last(updates).rows
  BY DEF Heard, ArchiveTypeOK, User
<1>5. Worked' BY <1>1, <1>2 DEF Worked, Idle, File, Covers, Expired, Newer
<1>6. ASSUME NEW i \in DOMAIN queue', queue'[i].kind = "Clear" PROVE user'.clearing
  <2>1. queue \in Seq(Command) BY DEF ArchiveTypeOK
  <2>2. i \in DOMAIN queue /\ queue[i].kind = "Clear"
    <3>1. CASE queue' = queue
      BY <1>6, <3>1
    <3>2. CASE \E t : queue' = Append(queue, [kind |-> "Capture", rows |-> Captured(t)])
      <4>1. PICK t : queue' = Append(queue, [kind |-> "Capture", rows |-> Captured(t)])
        BY <3>2
      <4> DEFINE c == [kind |-> "Capture", rows |-> Captured(t)]
      <4>2. queue' = Append(queue, c) /\ c.kind = "Capture" BY <4>1
      <4> HIDE DEF c
      <4> QED BY <1>6, <2>1, <4>2
    <3> QED BY <1>3, <3>1, <3>2
  <2>3. user.clearing BY <1>1, <2>2 DEF ClearsAsked
  <2>4. queue # <<>> BY <2>1, <2>2
  <2>5. ~Answered BY <2>4 DEF Flow, Channels, Account
  <2> QED BY <1>3, <1>4, <2>3, <2>5
<1>7. ClearsAsked' BY <1>2, <1>6 DEF ClearsAsked
<1>8. Covers(user'.reported, File)
  BY <1>1, <1>3, <1>4 DEF Told, Covers
<1>9. Covers(user.reported, File)' BY <1>2, <1>8 DEF Covers, File, Expired, Newer
<1>10. Told' BY <1>1, <1>2, <1>3, <1>4, <1>9 DEF Told
<1> QED BY <1>5, <1>7, <1>10 DEF Stored

\* A step that touches neither the rows, the answers nor what was reported.
LEMMA ElsewhereStored ==
  ASSUME Stored, disk'.archive = disk.archive, user'.reported = user.reported,
         user'.clearing = user.clearing, UNCHANGED <<clock, queue, updates, worker>>
  PROVE  Stored'
<1>1. File' = File BY DEF File
<1> QED BY <1>1 DEF Stored, Worked, ClearsAsked, Told, Idle, Covers, Expired, Newer

\* The same where the worker and its channels are gone or new.
LEMMA RestartStored ==
  ASSUME Stored, disk' = disk, clock' = clock, user'.reported = user.reported,
         user'.clearing => user.clearing, \E place \in {"None", "Loading"} : worker' = NewWorker(place),
         queue' = <<>>, updates' = <<>>
  PROVE  Stored'
<1>1. File' = File BY DEF File
<1>2. worker'.place \in {"None", "Loading"} /\ ~worker'.failed BY DEF NewWorker
<1>3. Worked' BY <1>2 DEF Worked, Idle
<1>4. ClearsAsked' BY DEF ClearsAsked
<1>5. Told' BY <1>1 DEF Stored, Told, Covers, Expired, Newer
<1> QED BY <1>3, <1>4, <1>5 DEF Stored

LEMMA PanelStored ==
  ASSUME ArchiveTypeOK, Flow, Stored,
         \/ Close \/ SetEnabled \/ ClearConfirmed \/ ExportConfirmed \/ SettingsSaved
         \/ Exit \/ CallOff \/ Launch \/ Crash \/ Tick
  PROVE  Stored'
<1>u. user \in User /\ queue \in Seq(Command) /\ disk \in Disk BY DEF ArchiveTypeOK
<1>d. \A end, choice : SavedAs(end, choice) => disk'.archive = disk.archive
  BY <1>u DEF SavedAs, Disk
<1>1. CASE Close
  <2>1. queue' = <<>>
    BY <1>1 DEF Close, Flow, Channels, Account
  <2> QED BY <1>1, <2>1, RestartStored DEF Close
<1>2. CASE SetEnabled
  <2>1. user'.reported = user.reported /\ user'.clearing = user.clearing
          /\ disk'.archive = disk.archive
    BY <1>2, <1>d, <1>u DEF SetEnabled, User
  <2> QED BY <1>2, <2>1, ElsewhereStored DEF SetEnabled
<1>3. CASE ClearConfirmed
  <2>1. PICK end \in SaveEnd :
          /\ SavedAs(end, FALSE)
          /\ IF end = "Kept"
             THEN /\ Queue([Switched(panel, FALSE) EXCEPT !.seen = NoRevision],
                           [kind |-> "Clear", rows |-> {}])
                  /\ user' = [user EXCEPT !.on = FALSE, !.reported = {}, !.clearing = TRUE]
             ELSE UNCHANGED <<panel, queue, user>>
    BY <1>3 DEF ClearConfirmed, Confirmable
  <2>2. disk'.archive = disk.archive /\ UNCHANGED <<clock, updates, worker>>
    BY <1>3, <1>d, <2>1 DEF ClearConfirmed, Confirmable
  <2>3. CASE end # "Kept"
    BY <2>1, <2>2, <2>3, ElsewhereStored
  <2>4. CASE end = "Kept"
    <3>1. user'.reported = {} /\ user'.clearing BY <1>u, <2>1, <2>4 DEF User
    <3>2. File' = File BY <2>2 DEF File
    <3>3. Worked' BY <2>2, <3>2 DEF Stored, Worked, Idle, Covers, Expired, Newer
    <3>4. ClearsAsked' BY <3>1 DEF ClearsAsked
    <3>5. Told' BY <3>1 DEF Told, Covers
    <3> QED BY <3>3, <3>4, <3>5 DEF Stored
  <2> QED BY <2>3, <2>4
<1>4. CASE ExportConfirmed
  <2> DEFINE c == [kind |-> "Export", rows |-> {}]
  <2>1. UNCHANGED <<clock, disk, updates, worker, user>> /\ (queue' = Append(queue, c) \/ queue' = queue)
    BY <1>4 DEF ExportConfirmed, Confirmable, Queue
  <2>2. c.kind # "Clear" OBVIOUS
  <2> HIDE DEF c
  <2>3. ClearsAsked' BY <1>u, <2>1, <2>2 DEF Stored, ClearsAsked
  <2>4. File' = File BY <2>1 DEF File
  <2>5. Worked' /\ Told' BY <2>1, <2>4 DEF Stored, Worked, Told, Idle, Covers, Expired, Newer
  <2> QED BY <2>3, <2>5 DEF Stored
<1>5. CASE SettingsSaved
  BY <1>5, <1>d, ElsewhereStored DEF SettingsSaved
<1>6. CASE Exit
  BY <1>6, ElsewhereStored DEF Exit
<1>7. CASE CallOff
  <2>1. user'.reported = user.reported /\ user'.clearing = user.clearing BY <1>7, <1>u DEF CallOff, User
  <2> QED BY <1>7, <2>1, ElsewhereStored DEF CallOff
<1>8. CASE Launch
  <2>1. user'.reported = user.reported /\ ~user'.clearing BY <1>8, <1>u DEF Launch, User
  <2> QED BY <1>8, <2>1, RestartStored DEF Launch
<1>9. CASE Crash
  BY <1>9, RestartStored DEF Crash
<1>10. CASE Tick
  <2>1. File \subseteq Row /\ user.reported \subseteq Row BY <1>u DEF File, Disk, Rows, User
  <2>2. UNCHANGED <<disk, queue, updates, worker, user>> BY <1>10 DEF Tick
  <2>3. \A r \in Row : Expired(r) => Expired(r)' BY <1>10, ExpiredLater
  <2>4. File' = File BY <2>2 DEF File
  <2>5. Worked' BY <2>1, <2>2, <2>3, <2>4 DEF Stored, Worked, Idle, Covers, Newer
  <2>6. ClearsAsked' BY <2>2 DEF Stored, ClearsAsked
  <2>7. ~user.clearing /\ updates # <<>> /\ ~Last(updates).failed => Last(updates).rows \subseteq Row
    <3>1. updates # <<>> => Last(updates) \in Update BY LastIsOne DEF ArchiveTypeOK
    <3> QED BY <3>1 DEF Update, Rows
  <2>8. Told' BY <2>1, <2>2, <2>3, <2>4, <2>7 DEF Stored, Told, Covers, Newer
  <2> QED BY <2>5, <2>6, <2>8 DEF Stored
<1> QED BY <1>1, <1>2, <1>3, <1>4, <1>5, <1>6, <1>7, <1>8, <1>9, <1>10

LEMMA StoredInvariant == Spec => []Stored
<1>1. Init => Stored
  <2> SUFFICES ASSUME Init PROVE Stored
    OBVIOUS
  <2>1. worker.place = "Loading" /\ ~worker.failed BY DEF Init, NewWorker
  <2>2. Worked BY <2>1 DEF Worked, Idle
  <2>3. ClearsAsked BY DEF Init, ClearsAsked
  <2>4. Told BY DEF Init, Told, Covers
  <2> QED BY <2>2, <2>3, <2>4 DEF Stored
<1>2. ArchiveTypeOK /\ Flow /\ Stored /\ [Next]_vars => Stored'
  <2>1. Stored /\ UNCHANGED vars => Stored' BY ElsewhereStored DEF vars
  <2> QED BY <2>1, WorkerStored, FrameStored, PanelStored DEF Next
<1> QED BY <1>1, <1>2, ArchiveTypeCorrect, FlowInvariant, PTL DEF Spec

\* What was reported to the user as kept is in the file, or too old, overtaken or cleared,
\* whatever saves fail and wherever the process ends (sms_archive.rs: the answer goes out
\* after the file was replaced, and a failed save gives the old rows back).
THEOREM ReportedStaysStored == Spec => []ReportedIsStored
<1>1. Stored => ReportedIsStored
  BY DEF Stored, Told, Covers, Newer, ReportedIsStored, MayBeGone
<1> QED BY <1>1, StoredInvariant, PTL

------------------------------------------------------------------------------
(* What a panel that closes has left                                         *)

\* The worker's health is what the panel knows or will read next; while a clearing is
\* under way no publication counts as seen.
Health ==
  Up => /\ worker.place = "None" => panel.failed /\ panel.seen = NoRevision
        /\ worker.place # "None" => worker.failed = IF updates = <<>> THEN panel.failed
                                                    ELSE Last(updates).failed
        /\ ~Busy(panel) => panel.ready
        /\ user.clearing => panel.seen = NoRevision /\ (worker.place # "None" => Busy(panel))

\* The publication that was observed last is the one shown or an earlier one, and so is
\* the one of the exit.
Publications ==
  /\ panel.seen <= shown.rev
  /\ panel.final # Absent => /\ panel.final.rev <= shown.rev
                             /\ panel.final.rev = shown.rev => panel.final = shown

\* A message is on its way to the file, there, or its capture has failed.
KeptIn(m, rows) == \E r \in user.allowed : r.msg = m /\ Covers({r}, rows)
Taken(m) ==
  \/ KeptIn(m, File)
  \/ \E i \in DOMAIN queue : /\ queue[i].kind = "Capture"
                             /\ \E r \in queue[i].rows : r.msg = m
  \/ worker.place = "Saving" /\ worker.job = "Capture" /\ KeptIn(m, worker.next)
  \/ worker.failed /\ (Answered \/ panel.failed)

\* What was observed is taken.
Captures(s) == s.known /\ panel.seen = s.rev => \A m \in s.msgs : Taken(m)
Observed == Captures(shown) /\ (panel.final # Absent => Captures(panel.final))

\* The snapshot of the exit is observed, or the history has failed.
Exiting ==
  panel.finalSeen /\ ~user.calledOff =>
    /\ panel.exiting /\ panel.final # Absent
    /\ panel.enabled /\ panel.final.known =>
         \/ panel.seen = panel.final.rev
         \/ panel.failed /\ worker.failed /\ ~user.clearing
         \/ worker.place = "None"

Work == Health /\ Publications /\ (Up => Observed /\ Exiting) /\ ExitKeepsWork

\* A snapshot that knows its card was published.
LEMMA KnownIsPublished ==
  ASSUME NEW s \in Snapshot, s.known
  PROVE  s.rev # NoRevision
<1>1. s # NoSnapshot BY DEF NoSnapshot
<1>2. PICK n \in 1..MaxRevision, p \in Published : s = [rev |-> n, msgs |-> p.msgs, known |-> p.known]
  BY <1>1 DEF Snapshot
<1> QED BY <1>2, ArchiveAssumption DEF NoRevision

\* The worker's steps leave its health where the panel will read it.
LEMMA WorkerHealth ==
  ASSUME ArchiveTypeOK, Stored, WorkerStep
  PROVE  /\ \/ \E u : Adds(u) /\ worker'.failed = u.failed
            \/ updates' = updates /\ worker'.failed = worker.failed
         /\ worker'.place # "None" /\ worker.place # "None"
         /\ worker.failed => worker'.failed \/ Take("Clear")
         /\ Answered => Answered'
<1> USE DEF ArchiveTypeOK
<1>w. /\ worker.rows \in Rows /\ worker.next \in Rows /\ worker.back \in Rows /\ {} \in Rows
      /\ File \in Rows /\ Worked
  BY DEF Worker, Rows, File, Disk, Stored
<1>k. TRUE \in BOOLEAN /\ FALSE \in BOOLEAN OBVIOUS
<1>p. \A rows \in Rows : \A s \in Purged(rows) : s \in Rows BY PurgedWithin DEF Rows
<1>t. worker'.failed \in BOOLEAN /\ updates \in Seq(Update)
  <2>1. worker' \in Worker BY WorkerTypes
  <2> QED BY <2>1 DEF Worker
<1>1. ASSUME NEW u \in Update, Adds(u), worker'.failed <=> u.failed, worker'.place = "Idle",
             worker.place # "None", worker.failed => worker'.failed \/ Take("Clear")
      PROVE  /\ \/ \E v : Adds(v) /\ worker'.failed = v.failed
                \/ updates' = updates /\ worker'.failed = worker.failed
             /\ worker'.place # "None" /\ worker.place # "None"
             /\ worker.failed => worker'.failed \/ Take("Clear")
             /\ Answered => Answered'
  <2>1. worker'.failed = u.failed BY <1>1, <1>t DEF Update
  <2>2. Answered => Answered' BY <1>1 DEF Answered, Adds
  <2> QED BY <1>1, <2>1, <2>2
<1>2. ASSUME NEW kind, NEW next, NEW back, StartSave(kind, next, back), updates' = updates,
             worker.place # "None"
      PROVE  /\ updates' = updates /\ worker'.failed = worker.failed
             /\ worker'.place # "None" /\ worker.place # "None"
             /\ worker.failed => worker'.failed \/ Take("Clear")
             /\ Answered => Answered'
  <2>1. worker'.failed = worker.failed /\ worker'.place = "Saving" BY <1>2, SaveBegins
  <2>2. Answered' <=> Answered BY <1>2 DEF Answered
  <2> QED BY <1>2, <2>1, <2>2
<1>3. ASSUME NEW kind \in Job \cup {"Clear"}, NEW rows \in Rows, NEW failed \in BOOLEAN,
             Finish(kind, rows, failed), worker.place # "None",
             worker.failed => failed \/ Take("Clear")
      PROVE  /\ \/ \E v : Adds(v) /\ worker'.failed = v.failed
                \/ updates' = updates /\ worker'.failed = worker.failed
             /\ worker'.place # "None" /\ worker.place # "None"
             /\ worker.failed => worker'.failed \/ Take("Clear")
             /\ Answered => Answered'
  <2>1. PICK u \in Update : /\ u.failed = failed /\ worker'.place = "Idle"
                            /\ worker'.failed = failed /\ Adds(u)
    BY <1>3, FinishEnds
  <2> QED BY <1>1, <1>3, <2>1
<1>4. CASE LoadFails
  BY <1>1, <1>4, LoadFailedEnds DEF LoadFails
<1>5. CASE Load
  <2>1. PICK live \in Purged(File) : \/ Finish("Load", live, FALSE)
                                     \/ StartSave("Load", live, live) /\ updates' = updates
    BY <1>5 DEF Load
  <2>2. live \in Rows /\ ~worker.failed /\ worker.place # "None" BY <1>5, <1>p, <1>w DEF Load, Worked
  <2> QED BY <1>2, <1>3, <1>k, <2>1, <2>2 DEF Job
<1>6. CASE Save
  <2>1. ~worker.failed /\ worker.place # "None" BY <1>6, <1>w DEF Save, Worked
  <2>2. PICK u \in Update : u.failed = FALSE /\ worker'.place = "Idle" /\ worker'.failed = FALSE /\ Adds(u)
    BY <1>6, SavedEnds
  <2> QED BY <1>1, <2>1, <2>2
<1>7. CASE SaveFails
  <2>1. ~worker.failed /\ worker.place # "None" BY <1>7, <1>w DEF SaveFails, Worked
  <2>2. PICK u \in Update : worker'.place = "Idle" /\ (worker'.failed <=> u.failed) /\ Adds(u)
    BY <1>7, FailedEnds
  <2> QED BY <1>1, <2>1, <2>2
<1>8. CASE Capture
  <2>1. PICK kept \in Purged(worker.rows) :
          \/ Finish("Capture", kept, FALSE)
          \/ (\E next : StartSave("Capture", next, worker.rows)) /\ updates' = updates
    BY <1>8 DEF Capture
  <2>2. kept \in Rows /\ ~worker.failed /\ worker.place # "None" BY <1>8, <1>p, <1>w DEF Capture, Take, Idle
  <2> QED BY <1>2, <1>3, <1>k, <2>1, <2>2 DEF Job
<1>9. CASE CapturePaused
  BY <1>3, <1>9, <1>k, <1>w DEF CapturePaused, Take, Idle, Job
<1>10. CASE Clear
  <2>1. Finish("Clear", {}, FALSE) \/ Finish("Clear", worker.rows, TRUE) BY <1>10 DEF Clear
  <2>2. Take("Clear") /\ worker.place # "None" BY <1>10 DEF Clear, Take, Idle
  <2> QED BY <1>3, <1>k, <1>w, <2>1, <2>2
<1>11. CASE Export
  <2>1. worker.place # "None" BY <1>11 DEF Export, Take, Idle
  <2>2. CASE worker.failed
    BY <1>3, <1>11, <1>k, <1>w, <2>1, <2>2 DEF Export, Job
  <2>3. CASE ~worker.failed
    <3>1. PICK live \in Purged(worker.rows) : \/ Finish("Export", live, FALSE)
                                              \/ StartSave("Export", live, worker.rows) /\ updates' = updates
      BY <1>11, <2>3 DEF Export
    <3>2. live \in Rows BY <1>p, <1>w
    <3> QED BY <1>2, <1>3, <1>k, <2>1, <2>3, <3>1, <3>2 DEF Job
  <2> QED BY <2>2, <2>3
<1>12. CASE Maintain
  BY <1>2, <1>12 DEF Maintain, Idle
<1> QED BY <1>4, <1>5, <1>6, <1>7, <1>8, <1>9, <1>10, <1>11, <1>12 DEF WorkerStep

\* What is taken stays taken, unless the user clears the history.
LEMMA WorkerTakes ==
  ASSUME ArchiveTypeOK, Flow, Stored, Allowed, WorkerStep, ~Take("Clear"), NEW m, Taken(m)
  PROVE  Taken(m)'
<1>1. user' = user /\ panel' = panel /\ clock' = clock
  BY DEF WorkerStep, LoadFails, Load, Save, SaveFails, Capture, CapturePaused, Clear, Export, Maintain, Take
<1>2. Worked /\ Held /\ Channels BY DEF Stored, Allowed, Flow
<1>w. /\ worker.rows \in Rows /\ worker.next \in Rows /\ worker.back \in Rows
      /\ File \in Rows /\ user.allowed \in Rows /\ queue \in Seq(Command)
  BY DEF ArchiveTypeOK, Worker, Rows, File, Disk, User
\* A row of the user's that the file covers.
<1>3. ASSUME NEW r \in user.allowed, r.msg = m, Covers({r}, File')
      PROVE  Taken(m)'
  <2>1. Covers({r}, File)' BY <1>1, <1>3 DEF Covers, Expired, Newer
  <2>2. KeptIn(m, File)' BY <1>1, <1>3, <2>1 DEF KeptIn
  <2> QED BY <2>2 DEF Taken
<1>4. \A r \in user.allowed : {r} \in Rows BY <1>w DEF Rows
<1>f. \/ Save /\ File' = worker.next
      \/ File' = File
  <2>1. CASE Save
    <3>1. disk'.archive = worker.next BY <2>1 DEF Save, ArchiveTypeOK, Disk
    <3>2. worker.next # Absent BY <1>w, ArchiveAssumption DEF Rows
    <3> QED BY <2>1, <3>1, <3>2 DEF File
  <2>2. CASE ~Save
    <3>1. disk' = disk
      BY <2>2 DEF WorkerStep, LoadFails, Load, SaveFails, Capture, CapturePaused, Clear, Export, Maintain
    <3> QED BY <3>1 DEF File
  <2> QED BY <2>1, <2>2
<1>5. CASE KeptIn(m, File)
  <2>1. PICK r \in user.allowed : r.msg = m /\ Covers({r}, File) BY <1>5 DEF KeptIn
  <2>2. CASE Save /\ File' = worker.next
    <3>1. Covers(File, worker.next) BY <1>2, <2>2 DEF Worked, Save
    <3>2. Covers({r}, worker.next) BY <1>4, <1>w, <2>1, <3>1, CoversOn
    <3> QED BY <1>3, <2>1, <2>2, <3>2
  <2>3. CASE File' = File
    BY <1>3, <2>1, <2>3
  <2> QED BY <1>f, <2>2, <2>3
<1>6. CASE \E i \in DOMAIN queue : queue[i].kind = "Capture" /\ \E r \in queue[i].rows : r.msg = m
  <2>1. PICK i \in DOMAIN queue : queue[i].kind = "Capture" /\ \E r \in queue[i].rows : r.msg = m
    BY <1>6
  <2>2. queue # <<>> /\ Len(queue) <= 1 BY <1>2, <1>w DEF Channels
  <2>3. i = 1 /\ Head(queue) = queue[1] BY <1>w, <2>1, <2>2
  <2>4. PICK r \in Head(queue).rows : r.msg = m BY <2>1, <2>3
  <2>5. r \in user.allowed /\ Head(queue).kind = "Capture" /\ Head(queue) \in Command
    BY <1>2, <1>w, <2>1, <2>2, <2>3, <2>4 DEF Held
  <2>6. CASE Capture
    <3>1. PICK kept \in Purged(worker.rows) :
            LET new == {x \in Head(queue).rows : x.msg \notin Messages(kept)}
            IN  \E next \in Purged(kept \cup new) :
                  IF kept = worker.rows /\ new = {} THEN Finish("Capture", kept, FALSE)
                  ELSE StartSave("Capture", next, worker.rows) /\ UNCHANGED updates
      BY <2>6 DEF Capture
    <3> DEFINE new == {x \in Head(queue).rows : x.msg \notin Messages(kept)}
    <3>2. Idle /\ ~worker.failed /\ disk' = disk BY <2>6 DEF Capture, Take
    <3>3. worker.rows = File /\ File' = File BY <1>2, <3>2 DEF Worked, File
    <3>4. kept \subseteq worker.rows /\ kept \in Rows BY <1>w, PurgedWithin DEF Rows
    <3>5. PICK x \in kept \cup new : x.msg = m /\ x \in user.allowed
      <4>1. CASE r \in new
        BY <2>4, <2>5, <4>1
      <4>2. CASE r \notin new
        <5>1. m \in Messages(kept) BY <2>4, <4>2
        <5>2. PICK x \in kept : x.msg = m BY <5>1 DEF Messages
        <5>3. x \in user.allowed BY <1>2, <3>4, <5>2 DEF Held
        <5> QED BY <5>2, <5>3
      <4> QED BY <4>1, <4>2
    <3>6. kept \cup new \in Rows BY <2>5, <3>4 DEF Command, Rows
    <3>7. PICK next \in Purged(kept \cup new) :
            \/ kept = worker.rows /\ new = {}
            \/ StartSave("Capture", next, worker.rows)
      BY <3>1
    <3> HIDE DEF new
    <3>8. CASE kept = worker.rows /\ new = {}
      <4>1. x \in File' BY <3>3, <3>5, <3>8
      <4>2. Covers({x}, File') BY <4>1, CoversMore
      <4> QED BY <1>3, <3>5, <4>2
    <3>9. CASE StartSave("Capture", next, worker.rows)
      <4>1. worker'.place = "Saving" /\ worker'.job = "Capture" /\ worker'.next = next
        BY <3>9, SaveBegins
      <4>2. Covers(kept \cup new, next) BY <3>6, PurgedCovers
      <4>3. Covers({x}, next) BY <3>5, <4>2, CoversEach
      <4>4. Covers({x}, worker.next)' BY <1>1, <4>1, <4>3 DEF Covers, Expired, Newer
      <4>5. KeptIn(m, worker.next)' BY <1>1, <3>5, <4>4 DEF KeptIn
      <4> QED BY <4>1, <4>5 DEF Taken
    <3> QED BY <3>7, <3>8, <3>9
  <2>7. CASE CapturePaused
    <3>1. "Capture" \in Job \cup {"Clear"} /\ TRUE \in BOOLEAN BY DEF Job
    <3>2. Finish("Capture", worker.rows, TRUE) BY <2>7 DEF CapturePaused
    <3>3. PICK u \in Update : u.kind = "Capture" /\ worker'.failed = TRUE /\ Adds(u)
      BY <1>w, <3>1, <3>2, FinishEnds
    <3>4. Answered' BY <3>3 DEF Answered, Completes, Adds
    <3> QED BY <3>3, <3>4 DEF Taken
  <2>8. CASE ~Capture /\ ~CapturePaused
    <3>1. queue' = queue
      BY <2>2, <2>5, <2>8 DEF WorkerStep, LoadFails, Load, Save, SaveFails, Clear, Export, Maintain, Take
    <3> QED BY <1>6, <3>1 DEF Taken
  <2> QED BY <2>6, <2>7, <2>8
<1>7. CASE worker.place = "Saving" /\ worker.job = "Capture" /\ KeptIn(m, worker.next)
  <2>1. PICK r \in user.allowed : r.msg = m /\ Covers({r}, worker.next) BY <1>7 DEF KeptIn
  <2>2. CASE Save
    <3>1. Covers({r}, File') \/ File' = File BY <1>f, <2>1
    <3>2. disk'.archive = worker.next BY <2>2 DEF Save, ArchiveTypeOK, Disk
    <3>3. worker.next # Absent BY <1>w, ArchiveAssumption DEF Rows
    <3>4. File' = worker.next BY <3>2, <3>3 DEF File
    <3> QED BY <1>3, <2>1, <3>4
  <2>3. CASE SaveFails
    <3>1. PICK u \in Update : /\ u.kind = worker.job /\ (u.failed <=> worker.job # "Export")
                              /\ (worker'.failed <=> u.failed) /\ Adds(u)
      BY <2>3, FailedEnds
    <3>2. Answered' BY <1>7, <3>1 DEF Answered, Completes, Adds
    <3> QED BY <1>7, <3>1, <3>2 DEF Taken
  <2> QED BY <1>7, <2>2, <2>3
       DEF WorkerStep, LoadFails, Load, Capture, CapturePaused, Clear, Export, Maintain, Take, Idle
<1>8. CASE worker.failed /\ (Answered \/ panel.failed)
  <2>1. worker'.failed /\ (Answered' \/ panel'.failed) BY <1>1, <1>8, WorkerHealth
  <2> QED BY <2>1 DEF Taken
<1> QED BY <1>5, <1>6, <1>7, <1>8 DEF Taken

LEMMA WorkerWork ==
  ASSUME ArchiveTypeOK, Flow, Stored, Allowed, Work, WorkerStep
  PROVE  Work'
<1>1. user' = user /\ panel' = panel /\ clock' = clock /\ shown' = shown
  BY DEF WorkerStep, LoadFails, Load, Save, SaveFails, Capture, CapturePaused, Clear, Export, Maintain, Take
<1>2. Up /\ Up' /\ worker.place # "None" /\ worker'.place # "None"
  BY <1>1, WorkerHealth DEF Flow, Channels, Up
<1>3. Health /\ Publications /\ Observed /\ Exiting BY <1>2 DEF Work
<1>4. Health'
  <2>1. worker'.failed = IF updates' = <<>> THEN panel'.failed ELSE Last(updates').failed
    <3>1. CASE \E u : Adds(u) /\ worker'.failed = u.failed
      BY <3>1 DEF Adds
    <3>2. CASE updates' = updates /\ worker'.failed = worker.failed
      BY <1>1, <1>2, <1>3, <3>2 DEF Health
    <3> QED BY <3>1, <3>2, WorkerHealth
  <2> QED BY <1>1, <1>2, <1>3, <2>1 DEF Health, Busy
<1>5. Publications' BY <1>1, <1>3 DEF Publications
<1>6. Take("Clear") => panel.seen = NoRevision
  <2> SUFFICES ASSUME Take("Clear") PROVE panel.seen = NoRevision
    OBVIOUS
  <2>1. queue # <<>> /\ queue \in Seq(Command) /\ Head(queue).kind = "Clear"
    BY DEF Take, ArchiveTypeOK
  <2>2. 1 \in DOMAIN queue /\ Head(queue) = queue[1] BY <2>1
  <2>3. user.clearing BY <2>1, <2>2 DEF Stored, ClearsAsked
  <2> QED BY <1>2, <1>3, <2>3 DEF Health
<1>7. ASSUME NEW s \in Snapshot, Captures(s) PROVE Captures(s)'
  <2>1. CASE Take("Clear")
    BY <1>1, <1>6, <2>1, KnownIsPublished DEF Captures
  <2>2. CASE ~Take("Clear")
    BY <1>1, <1>7, <2>2, WorkerTakes DEF Captures
  <2> QED BY <2>1, <2>2
<1>8. Observed'
  <2>1. shown \in Snapshot /\ (panel.final # Absent => panel.final \in Snapshot)
    BY DEF ArchiveTypeOK, Panel
  <2>2. \A s \in Snapshot : Captures(s) => Captures(s)' BY <1>7
  <2>3. \A s \in Snapshot : Captures(s)' <=> (s.known /\ panel.seen = s.rev => \A m \in s.msgs : Taken(m)')
    BY <1>1 DEF Captures
  <2> QED BY <1>1, <1>3, <2>1, <2>2, <2>3 DEF Observed, Captures
<1>9. Exiting'
  <2>1. worker.failed => worker'.failed \/ Take("Clear") BY WorkerHealth
  <2>2. Take("Clear") => user.clearing
    <3> SUFFICES ASSUME Take("Clear") PROVE user.clearing
      OBVIOUS
    <3>1. queue # <<>> /\ queue \in Seq(Command) /\ Head(queue).kind = "Clear"
      BY DEF Take, ArchiveTypeOK
    <3>2. 1 \in DOMAIN queue /\ Head(queue) = queue[1] BY <3>1
    <3> QED BY <3>1, <3>2 DEF Stored, ClearsAsked
  <2> QED BY <1>1, <1>2, <1>3, <2>1, <2>2 DEF Exiting
<1>10. ExitKeepsWork' BY <1>2 DEF ExitKeepsWork, Up
<1> QED BY <1>4, <1>5, <1>8, <1>9, <1>10 DEF Work

\* Reading the answers tells the panel the worker's health.
LEMMA PolledHealth ==
  ASSUME ArchiveTypeOK, Flow, Health, Up
  PROVE  /\ worker.place = "None" => Polled(panel).failed /\ panel.seen = NoRevision
         /\ worker.place # "None" => Polled(panel).failed = worker.failed
         /\ ~Busy(Polled(panel)) => Polled(panel).ready
         /\ Heard.clearing => /\ user.clearing /\ panel.seen = NoRevision
                              /\ worker.place # "None" => Busy(Polled(panel))
<1>1. CASE worker.place = "None"
  BY <1>1, PolledIs DEF Health, Heard, ArchiveTypeOK, User
<1>2. CASE worker.place # "None" /\ updates = <<>>
  <2>1. Polled(panel) = panel BY <1>2, PolledIs
  <2>2. Heard.clearing => user.clearing BY DEF Heard, ArchiveTypeOK, User
  <2> QED BY <1>2, <2>1, <2>2 DEF Health
<1>3. CASE worker.place # "None" /\ updates # <<>>
  <2>1. /\ Busy(Polled(panel)) <=> Busy(panel) /\ ~Answered
        /\ Polled(panel).ready /\ Polled(panel).failed = Last(updates).failed
    BY <1>3, PolledIs
  <2>2. Heard.clearing => user.clearing /\ ~Answered BY DEF Heard, ArchiveTypeOK, User
  <2> QED BY <1>3, <2>1, <2>2 DEF Health
<1> QED BY <1>1, <1>2, <1>3

LEMMA FrameWork ==
  ASSUME ArchiveTypeOK, Flow, Stored, Allowed, Work, Frame \/ ExitFrame
  PROVE  Work'
<1>1. Up /\ updates' = <<>> /\ UNCHANGED <<clock, disk, worker>> BY FrameForm
<1>2. PICK s \in Snapshot, p \in Panel :
        /\ Received(s) /\ shown' = s /\ Watched(s) \in Snapshot
        /\ p.place = "Up" /\ p.pending = Polled(panel).pending /\ p.ready = Polled(panel).ready
        /\ p.failed = Polled(panel).failed /\ p.enabled = panel.enabled /\ p.seen = panel.seen
        /\ p.exiting = panel.exiting
        /\ p.final = IF panel.exiting THEN Watched(s) ELSE panel.final
        /\ p.finalSeen <=> panel.finalSeen \/ (panel.exiting /\ ~Busy(p))
        /\ \/ /\ Observes(p, Watched(s))
              /\ panel' = [p EXCEPT !.pending = 1, !.seen = Watched(s).rev]
              /\ queue' = Append(queue, [kind |-> "Capture", rows |-> Captured(Watched(s))])
              /\ user'.reported = Heard.reported /\ user'.clearing = Heard.clearing
              /\ user'.calledOff = user.calledOff /\ Heard.allowed \subseteq user'.allowed
           \/ /\ ~Observes(p, Watched(s)) \/ (panel.exiting /\ panel.finalSeen)
              /\ panel' = p /\ queue' = queue /\ user' = Heard
              /\ user'.calledOff = user.calledOff
  BY FrameForm
<1> DEFINE t == Watched(s)
           sees == Observes(p, t) /\ ~(panel' = p)
           c == [kind |-> "Capture", rows |-> Captured(t)]
<1>3. Health /\ Publications /\ Observed /\ Exiting BY <1>1 DEF Work
<1>4. /\ worker.place = "None" => p.failed /\ panel.seen = NoRevision
      /\ worker.place # "None" => p.failed = worker.failed
      /\ ~Busy(p) => p.ready
      /\ Heard.clearing => /\ user.clearing /\ panel.seen = NoRevision
                           /\ worker.place # "None" => Busy(p)
  BY <1>1, <1>2, <1>3, PolledHealth DEF Busy
<1>5. user'.clearing = Heard.clearing /\ user'.calledOff = user.calledOff BY <1>2
<1>6. t \in Snapshot /\ shown \in Snapshot /\ panel.final \in Snapshot \cup {Absent}
        /\ (\A x \in Snapshot : x # Absent /\ x.rev \in 0..MaxRevision)
  BY <1>2, SnapshotFields, ArchiveAssumption DEF ArchiveTypeOK, Panel
\* What the frame does to the panel: an observation, or nothing more.
<1>7. \/ /\ Observes(p, t)
         /\ panel' = [p EXCEPT !.pending = 1, !.seen = t.rev]
         /\ queue' = Append(queue, c)
         /\ Heard.allowed \subseteq user'.allowed
      \/ /\ ~Observes(p, t) \/ (panel.exiting /\ panel.finalSeen)
         /\ panel' = p /\ queue' = queue /\ user' = Heard
  BY <1>2
<1>8. /\ p.enabled = panel.enabled /\ p.seen = panel.seen /\ p.exiting = panel.exiting /\ p.place = "Up"
      /\ p.final = IF panel.exiting THEN t ELSE panel.final
      /\ p.finalSeen <=> panel.finalSeen \/ (panel.exiting /\ ~Busy(p))
      /\ shown' = s
  BY <1>2
<1>9. t = IF panel.exiting /\ panel.final # Absent THEN panel.final ELSE s BY DEF Watched
<1>10. s = shown \/ s.rev = shown.rev + 1 BY <1>2 DEF Received
<1>c. c.kind = "Capture" /\ c.rows = Captured(t) /\ c \in Command
  BY <1>6, CapturedTypes DEF Command
<1>q. queue \in Seq(Command) BY DEF ArchiveTypeOK
<1>p. /\ panel'.place = "Up" /\ panel'.enabled = panel.enabled /\ panel'.exiting = panel.exiting
      /\ panel'.final = p.final /\ panel'.finalSeen = p.finalSeen /\ panel'.failed = p.failed
      /\ panel'.ready = p.ready
      /\ \/ Observes(p, t) /\ panel'.seen = t.rev /\ Busy(panel')
         \/ /\ ~Observes(p, t) \/ (panel.exiting /\ panel.finalSeen)
            /\ panel'.seen = panel.seen /\ (Busy(panel') <=> Busy(p))
  <2>1. CASE panel' = p /\ (~Observes(p, t) \/ (panel.exiting /\ panel.finalSeen))
    BY <1>8, <2>1
  <2>2. CASE Observes(p, t) /\ panel' = [p EXCEPT !.pending = 1, !.seen = t.rev]
    BY <1>8, <2>2 DEF Panel, Busy
  <2> QED BY <1>7, <2>1, <2>2
<1> HIDE DEF t, c
<1>11. Health'
  BY <1>1, <1>4, <1>5, <1>p DEF Health, Up, Busy, Observes
<1>12. Publications'
  <2>1. shown.rev \in Nat /\ s.rev \in Nat /\ shown.rev <= s.rev BY <1>2, <1>6, <1>10
  <2>2. t.rev \in Nat /\ t.rev <= s.rev /\ (t.rev = s.rev => t = s)
    <3>1. CASE t = s
      BY <2>1, <3>1
    <3>2. CASE panel.final # Absent /\ t = panel.final
      <4>1. t.rev \in Nat /\ t.rev <= shown.rev /\ (t.rev = shown.rev => t = shown)
        BY <1>3, <1>6, <3>2 DEF Publications
      <4> QED BY <1>10, <2>1, <4>1
    <3> QED BY <1>9, <3>1, <3>2
  <2>3. panel.final # Absent => /\ panel.final.rev \in Nat /\ panel.final.rev <= s.rev
                                /\ panel.final.rev = s.rev => panel.final = s
    <3> SUFFICES ASSUME panel.final # Absent
                 PROVE  /\ panel.final.rev \in Nat /\ panel.final.rev <= s.rev
                        /\ panel.final.rev = s.rev => panel.final = s
      OBVIOUS
    <3>1. panel.final.rev \in Nat /\ panel.final.rev <= shown.rev
            /\ (panel.final.rev = shown.rev => panel.final = shown)
      BY <1>3, <1>6 DEF Publications
    <3> QED BY <1>10, <2>1, <3>1
  <2>4. panel.seen <= s.rev /\ panel.seen \in Nat
    <3>1. panel.seen \in Nat /\ panel.seen <= shown.rev BY <1>3 DEF Publications, ArchiveTypeOK, Panel
    <3> QED BY <2>1, <3>1
  <2> QED BY <1>8, <1>p, <2>2, <2>3, <2>4 DEF Publications
\* What was on its way stays so, and the panel knows what failed.
<1>13. ASSUME NEW m, Taken(m), ~user.clearing PROVE Taken(m)'
  <2>1. ~Gone BY <1>13 DEF Gone, Stored, ClearsAsked
  <2>2. Heard.allowed = user.allowed BY <2>1 DEF Heard, ArchiveTypeOK, User
  <2>3. user.allowed \subseteq user'.allowed BY <1>7, <2>2
  <2>4. \A r : Covers({r}, File) => Covers({r}, File)'
    BY <1>1 DEF Covers, Expired, Newer, File
  <2>5. \A r : Covers({r}, worker.next) => Covers({r}, worker.next)'
    BY <1>1 DEF Covers, Expired, Newer
  <2>6. KeptIn(m, File) => KeptIn(m, File)' BY <2>3, <2>4 DEF KeptIn
  <2>7. KeptIn(m, worker.next) => KeptIn(m, worker.next)' BY <2>3, <2>5 DEF KeptIn
  <2>8. \A i \in DOMAIN queue : i \in DOMAIN queue' /\ queue'[i] = queue[i]
    BY <1>7, <1>q, <1>c, AppendIs
  <2>9. worker.failed => panel'.failed BY <1>4, <1>p
  <2>10. CASE KeptIn(m, File)
    BY <2>6, <2>10 DEF Taken
  <2>11. CASE \E i \in DOMAIN queue : queue[i].kind = "Capture" /\ \E r \in queue[i].rows : r.msg = m
    BY <2>8, <2>11 DEF Taken
  <2>12. CASE worker.place = "Saving" /\ worker.job = "Capture" /\ KeptIn(m, worker.next)
    BY <1>1, <2>7, <2>12 DEF Taken
  <2>13. CASE worker.failed /\ (Answered \/ panel.failed)
    BY <1>1, <2>9, <2>13 DEF Taken
  <2> QED BY <1>13, <2>10, <2>11, <2>12, <2>13 DEF Taken
<1>14. ASSUME NEW x \in Snapshot, x.known, panel'.seen = x.rev, NEW m \in x.msgs,
              x = shown' \/ x = panel'.final
       PROVE  Taken(m)'
  <2>1. x.rev # NoRevision BY <1>14, KnownIsPublished
  <2>2. CASE Observes(p, t) /\ panel' = [p EXCEPT !.pending = 1, !.seen = t.rev] /\ queue' = Append(queue, c)
    <3>1. panel'.seen = t.rev BY <2>2, <1>8 DEF Panel
    <3>2. t = shown' \/ t = panel'.final BY <1>8, <1>9, <1>p
    <3>3. x = t
      <4>1. x.rev = t.rev BY <1>14, <3>1
      <4>2. panel'.final # Absent /\ panel'.final.rev = shown'.rev => panel'.final = shown'
        BY <1>12 DEF Publications
      <4> QED BY <1>6, <1>14, <3>2, <4>1, <4>2
    <3>4. Len(queue) + 1 \in DOMAIN queue' /\ queue'[Len(queue) + 1] = c
      BY <1>c, <1>q, <2>2, AppendIs
    <3>5. [msg |-> m, at |-> clock] \in c.rows BY <1>14, <1>c, <3>3 DEF Captured
    <3> QED BY <1>c, <3>4, <3>5 DEF Taken
  <2>3. CASE panel'.seen = panel.seen
    <3>1. ~user.clearing
      <4>1. user.clearing => panel.seen = NoRevision BY <1>1, <1>3 DEF Health
      <4> QED BY <1>14, <2>1, <2>3, <4>1
    <3>2. x = shown \/ (panel.final # Absent /\ x = panel.final)
      <4>1. panel.seen <= shown.rev /\ shown.rev \in Nat BY <1>3, <1>6 DEF Publications
      <4>2. ASSUME s.rev = shown.rev + 1, x = s PROVE FALSE
        <5>1. panel.seen = s.rev BY <1>14, <2>3, <4>2
        <5> DEFINE a == panel.seen
                   b == shown.rev
        <5>2. a <= b /\ b \in Nat /\ a = b + 1 BY <4>1, <4>2, <5>1
        <5> HIDE DEF a, b
        <5> QED BY <5>2
      <4>3. x = s \/ x = panel.final BY <1>8, <1>9, <1>14, <1>p
      <4> QED BY <1>6, <1>10, <4>2, <4>3
    <3>3. Captures(x) BY <1>3, <3>2 DEF Observed
    <3>4. Taken(m) BY <1>14, <2>3, <3>3 DEF Captures
    <3> QED BY <1>13, <3>1, <3>4
  <2> QED BY <1>7, <1>8, <2>2, <2>3
<1>15. Observed'
  <2>1. shown' \in Snapshot BY <1>2
  <2>2. panel'.final # Absent => panel'.final \in Snapshot BY <1>6, <1>8, <1>p
  <2> QED BY <1>14, <2>1, <2>2 DEF Observed, Captures
<1>16. Exiting'
  <2> SUFFICES ASSUME panel'.finalSeen, ~user'.calledOff
               PROVE  /\ panel'.exiting /\ panel'.final # Absent
                      /\ panel'.enabled /\ panel'.final.known =>
                           \/ panel'.seen = panel'.final.rev
                           \/ panel'.failed /\ worker'.failed /\ ~user'.clearing
                           \/ worker'.place = "None"
    BY DEF Exiting
  <2>1. CASE panel.finalSeen
    <3>1. panel.exiting /\ panel.final # Absent
            /\ (panel.enabled /\ panel.final.known =>
                  \/ panel.seen = panel.final.rev
                  \/ panel.failed /\ worker.failed /\ ~user.clearing
                  \/ worker.place = "None")
      BY <1>3, <1>5, <2>1 DEF Exiting
    <3>2. p.final = panel.final /\ t = panel.final BY <1>8, <1>9, <3>1
    <3>3. worker.place # "None" => (worker.failed => panel'.failed) BY <1>4, <1>p
    <3>4. ~user.clearing => ~user'.clearing BY <1>4, <1>5
    <3> QED BY <1>1, <1>p, <3>1, <3>2, <3>3, <3>4
  <2>2. CASE ~panel.finalSeen
    <3>1. panel.exiting /\ ~Busy(p) BY <1>8, <1>p, <2>2
    <3>2. panel'.final = t /\ t # Absent BY <1>6, <1>8, <1>p, <3>1
    <3>3. CASE panel'.seen = t.rev
      BY <1>p, <3>1, <3>2, <3>3
    <3>4. CASE ~Observes(p, t) /\ panel'.seen = panel.seen
      <4>1. p.enabled /\ t.known => p.failed \/ p.seen = t.rev
        BY <1>4, <3>1, <3>4 DEF Observes
      <4>2. worker.place # "None" => ~user'.clearing BY <1>4, <1>5, <3>1
      <4>3. worker.place # "None" => p.failed = worker.failed BY <1>4
      <4> QED BY <1>1, <1>8, <1>p, <3>1, <3>2, <3>4, <4>1, <4>2, <4>3
    <3> QED BY <1>p, <2>2, <3>3, <3>4
  <2> QED BY <2>1, <2>2
<1>17. ExitKeepsWork' BY <1>p DEF ExitKeepsWork
<1> QED BY <1>11, <1>12, <1>15, <1>16, <1>17 DEF Work

\* A step that neither loses a command nor touches what is stored.
LEMMA ElsewhereTaken ==
  ASSUME disk'.archive = disk.archive, panel.failed => panel'.failed, user'.allowed = user.allowed,
         UNCHANGED <<clock, updates, worker>>,
         \A i \in DOMAIN queue : i \in DOMAIN queue' /\ queue'[i] = queue[i],
         NEW m, Taken(m)
  PROVE  Taken(m)'
<1>1. File' = File BY DEF File
<1>2. KeptIn(m, File) => KeptIn(m, File)'
  BY <1>1 DEF KeptIn, Covers, Expired, Newer
<1>3. KeptIn(m, worker.next) => KeptIn(m, worker.next)'
  BY DEF KeptIn, Covers, Expired, Newer
<1>4. Answered' <=> Answered BY DEF Answered
<1>5. CASE KeptIn(m, File)
  BY <1>2, <1>5 DEF Taken
<1>6. CASE \E i \in DOMAIN queue : queue[i].kind = "Capture" /\ \E r \in queue[i].rows : r.msg = m
  BY <1>6 DEF Taken
<1>7. CASE worker.place = "Saving" /\ worker.job = "Capture" /\ KeptIn(m, worker.next)
  BY <1>3, <1>7 DEF Taken
<1>8. CASE worker.failed /\ (Answered \/ panel.failed)
  BY <1>4, <1>8 DEF Taken
<1> QED BY <1>5, <1>6, <1>7, <1>8 DEF Taken

LEMMA ElsewhereWork ==
  ASSUME ArchiveTypeOK, Work, Up, panel'.place = "Up",
         panel.failed => panel'.failed, panel'.failed = panel.failed \/ worker.place = "None",
         panel'.ready = panel.ready, Busy(panel) => Busy(panel'), panel'.final = panel.final,
         panel'.seen = panel.seen \/ panel'.seen = NoRevision,
         user'.clearing => panel'.seen = NoRevision /\ (worker.place # "None" => Busy(panel')),
         disk'.archive = disk.archive, user'.allowed = user.allowed,
         UNCHANGED <<clock, shown, updates, worker>>,
         \A i \in DOMAIN queue : i \in DOMAIN queue' /\ queue'[i] = queue[i],
         Exiting'
  PROVE  Work'
<1>1. Health /\ Publications /\ Observed BY DEF Work
<1>2. Up' BY DEF Up
<1>3. Health'
  <2>1. worker.place = "None" => panel'.failed /\ panel'.seen = NoRevision BY <1>1 DEF Health
  <2>2. worker.place # "None" => panel'.failed = panel.failed OBVIOUS
  <2>3. worker.place # "None" => worker.failed = IF updates = <<>> THEN panel'.failed
                                                 ELSE Last(updates).failed
    BY <1>1, <2>2 DEF Health
  <2>4. ~Busy(panel') => panel'.ready BY <1>1 DEF Health
  <2> QED BY <2>1, <2>3, <2>4 DEF Health, Busy
<1>4. shown \in Snapshot /\ (panel.final # Absent => panel.final \in Snapshot)
  BY DEF ArchiveTypeOK, Panel
<1>5. Publications'
  <2>1. shown.rev \in Nat BY <1>4, SnapshotFields
  <2> QED BY <1>1, <2>1 DEF Publications, NoRevision
<1>6. ASSUME NEW s \in Snapshot, Captures(s), s.known, panel'.seen = s.rev, NEW m \in s.msgs
      PROVE  Taken(m)'
  <2>1. panel.seen = s.rev BY <1>6, KnownIsPublished
  <2>2. Taken(m) BY <1>6, <2>1 DEF Captures
  <2> QED BY <2>2, ElsewhereTaken
<1>7. Observed' BY <1>1, <1>4, <1>6 DEF Observed, Captures
<1>8. ExitKeepsWork' BY DEF ExitKeepsWork
<1> QED BY <1>3, <1>5, <1>7, <1>8 DEF Work

\* The panel is started.
LEMMA LaunchWork ==
  ASSUME ArchiveTypeOK, Launch
  PROVE  Work'
<1>1. PICK choice \in {disk.optIn, FALSE}, place \in {"Loading", "None"} :
        /\ panel' = IF place = "Loading" THEN Fresh(choice)
                    ELSE [Fresh(choice) EXCEPT !.pending = 0, !.ready = TRUE, !.failed = TRUE]
        /\ worker' = NewWorker(place)
  BY DEF Launch
<1>2. /\ panel'.place = "Up" /\ panel'.seen = NoRevision /\ panel'.final = Absent /\ ~panel'.finalSeen
      /\ place = "None" => panel'.failed /\ panel'.ready
      /\ place = "Loading" => panel'.failed = FALSE /\ panel'.pending = 1
  BY <1>1 DEF Fresh
<1>3. worker'.place = place /\ worker'.failed = FALSE BY <1>1 DEF NewWorker
<1>4. shown' = NoSnapshot /\ updates' = <<>> BY DEF Launch
<1>5. user'.clearing = FALSE BY DEF Launch, ArchiveTypeOK, User
<1>6. Health'
  <2>1. CASE place = "Loading"
    <3>1. Busy(panel') /\ worker'.place # "None" BY <1>2, <1>3, <2>1 DEF Busy
    <3>2. worker'.failed = IF updates' = <<>> THEN panel'.failed ELSE Last(updates').failed
      BY <1>2, <1>3, <1>4, <2>1
    <3> QED BY <1>5, <3>1, <3>2 DEF Health, Busy
  <2>2. CASE place = "None"
    BY <1>2, <1>3, <1>5, <2>2 DEF Health
  <2> QED BY <2>1, <2>2
<1>7. Publications' BY <1>2, <1>4 DEF Publications, NoSnapshot, NoRevision
<1>8. Observed' BY <1>2, <1>4 DEF Observed, Captures, NoSnapshot
<1>9. Exiting' BY <1>2 DEF Exiting
<1>10. ExitKeepsWork' BY <1>2 DEF ExitKeepsWork
<1> QED BY <1>6, <1>7, <1>8, <1>9, <1>10 DEF Work

\* The window closes by itself.
LEMMA CloseWork ==
  ASSUME ArchiveTypeOK, Flow, Work, Close
  PROVE  Work'
<1>1. /\ Up /\ panel.exiting /\ panel.finalSeen /\ ~Busy(panel)
      /\ panel' = [panel EXCEPT !.place = "Closed"]
      /\ UNCHANGED <<clock, disk, shown, queue, user>>
  BY DEF Close
<1>2. /\ panel'.place = "Closed" /\ panel'.enabled = panel.enabled /\ panel'.failed = panel.failed
      /\ panel'.final = panel.final /\ panel'.seen = panel.seen
  BY <1>1 DEF ArchiveTypeOK, Panel
<1>3. Health /\ Publications /\ Observed /\ Exiting BY <1>1 DEF Work
<1>4. queue = <<>>
  BY <1>1 DEF Flow, Channels, Account
<1>5. ASSUME panel.enabled, ~panel.failed, panel.final.known, ~user.calledOff, NEW m \in panel.final.msgs
      PROVE  \E r \in user.allowed : r.msg = m /\ (r \in File \/ MayBeGone(r))
  <2>1. worker.place # "None" BY <1>1, <1>3, <1>5 DEF Health
  <2>2. ~Underway /\ ~Answered BY <1>1, <2>1 DEF Flow, Account
  <2>3. panel.final # Absent /\ panel.seen = panel.final.rev BY <1>1, <1>3, <1>5, <2>1 DEF Exiting
  <2>4. Taken(m) BY <1>3, <1>5, <2>3 DEF Observed, Captures
  <2>5. KeptIn(m, File) BY <1>4, <1>5, <2>2, <2>4 DEF Taken, Underway
  <2> QED BY <2>5 DEF KeptIn, Covers, Newer, MayBeGone
<1>6. File' = File BY <1>1 DEF File
<1>7. \A r : MayBeGone(r)' <=> MayBeGone(r) BY <1>1, <1>6 DEF MayBeGone, Expired
<1>8. ExitKeepsWork' BY <1>1, <1>2, <1>4, <1>5, <1>6, <1>7 DEF ExitKeepsWork
<1>9. Publications' BY <1>1, <1>2, <1>3 DEF Publications
<1> QED BY <1>2, <1>8, <1>9 DEF Work, Health, Up

\* Time passes.
LEMMA TickWork ==
  ASSUME ArchiveTypeOK, Work, Tick
  PROVE  Work'
<1>1. UNCHANGED <<disk, panel, shown, queue, updates, worker, user>> BY DEF Tick
<1>2. \A r \in Row : Expired(r) => Expired(r)' BY ExpiredLater
<1>3. user.allowed \subseteq Row BY DEF ArchiveTypeOK, User, Rows
<1>4. File' = File BY <1>1 DEF File
<1>5. \A m : KeptIn(m, File) => KeptIn(m, File)'
  BY <1>1, <1>2, <1>3, <1>4 DEF KeptIn, Covers, Newer
<1>6. \A m : KeptIn(m, worker.next) => KeptIn(m, worker.next)'
  BY <1>1, <1>2, <1>3 DEF KeptIn, Covers, Newer
<1>7. \A m : Taken(m) => Taken(m)' BY <1>1, <1>5, <1>6 DEF Taken, Answered
<1>8. Observed => Observed' BY <1>1, <1>7 DEF Observed, Captures
<1>9. ExitKeepsWork'
  <2>1. ExitKeepsWork BY DEF Work
  <2>2. \A r \in user.allowed : MayBeGone(r) => MayBeGone(r)'
    BY <1>2, <1>3, <1>4 DEF MayBeGone
  <2> QED BY <1>1, <1>4, <2>1, <2>2 DEF ExitKeepsWork
<1>10. (Health => Health') /\ (Publications => Publications') /\ (Exiting => Exiting') /\ (Up' <=> Up)
  BY <1>1 DEF Health, Publications, Exiting, Up, Busy
<1> QED BY <1>8, <1>9, <1>10 DEF Work

LEMMA PanelWork ==
  ASSUME ArchiveTypeOK, Flow, Work,
         \/ Close \/ SetEnabled \/ ClearConfirmed \/ ExportConfirmed \/ SettingsSaved
         \/ Exit \/ CallOff \/ Launch \/ Crash \/ Tick
  PROVE  Work'
<1>u. user \in User /\ disk \in Disk /\ panel \in Panel BY DEF ArchiveTypeOK
<1>q. queue \in Seq(Command) BY DEF ArchiveTypeOK
<1>d. \A end, choice : SavedAs(end, choice) => disk'.archive = disk.archive
  BY <1>u DEF SavedAs, Disk
<1>s. \A choice \in BOOLEAN :
        /\ Switched(panel, choice).place = panel.place /\ Switched(panel, choice).failed = panel.failed
        /\ Switched(panel, choice).ready = panel.ready /\ Switched(panel, choice).pending = panel.pending
        /\ Switched(panel, choice).final = panel.final
        /\ Switched(panel, choice).finalSeen = panel.finalSeen
        /\ Switched(panel, choice).exiting = panel.exiting
        /\ Switched(panel, choice).seen = panel.seen \/ Switched(panel, choice).seen = NoRevision
        /\ Switched(panel, choice) \in Panel
  <2> SUFFICES ASSUME NEW choice \in BOOLEAN, NEW p, p = Switched(panel, choice)
               PROVE  /\ p.place = panel.place /\ p.failed = panel.failed /\ p.ready = panel.ready
                      /\ p.pending = panel.pending /\ p.final = panel.final
                      /\ p.finalSeen = panel.finalSeen /\ p.exiting = panel.exiting
                      /\ p.seen = panel.seen \/ p.seen = NoRevision
                      /\ p \in Panel
    OBVIOUS
  <2>1. p \in Panel BY SwitchedTypes
  <2> DEFINE seen == IF panel.enabled = choice THEN panel.seen ELSE NoRevision
  <2>2. seen = panel.seen \/ seen = NoRevision OBVIOUS
  <2>3. p = [panel EXCEPT !.enabled = choice, !.loaded = choice, !.seen = seen] BY DEF Switched
  <2> HIDE DEF seen
  <2> QED BY <1>u, <2>1, <2>2, <2>3 DEF Panel
<1>c. Up => /\ Exiting
            /\ user.clearing => panel.seen = NoRevision /\ (worker.place # "None" => Busy(panel))
  BY DEF Work, Health
\* A click: the exit has not begun, and does not begin.
<1>1. ASSUME Clickable, panel'.finalSeen = panel.finalSeen, user'.calledOff = user.calledOff
      PROVE  Exiting'
  BY <1>1, <1>c DEF Clickable, Exiting
<1>2. CASE SetEnabled
  <2>1. PICK choice \in BOOLEAN, end \in SaveEnd :
          /\ SavedAs(end, choice)
          /\ panel' = IF end = "Kept" THEN Switched(panel, choice) ELSE panel
          /\ user' = [user EXCEPT !.on = choice \/ (@ /\ end # "Kept")]
    BY <1>2 DEF SetEnabled
  <2>2. user'.clearing = user.clearing /\ user'.allowed = user.allowed /\ user'.calledOff = user.calledOff
    BY <1>u, <2>1 DEF User
  <2>3. /\ panel'.place = panel.place /\ panel'.failed = panel.failed /\ panel'.ready = panel.ready
        /\ panel'.pending = panel.pending /\ panel'.final = panel.final
        /\ panel'.finalSeen = panel.finalSeen
        /\ panel'.seen = panel.seen \/ panel'.seen = NoRevision
    BY <1>s, <2>1
  <2>4. Clickable /\ UNCHANGED <<clock, shown, queue, updates, worker>> /\ disk'.archive = disk.archive
    BY <1>2, <1>d, <2>1 DEF SetEnabled
  <2>5. Exiting' BY <1>1, <2>2, <2>3, <2>4
  <2> QED BY <1>c, <2>2, <2>3, <2>4, <2>5, ElsewhereWork DEF Clickable, Up, Busy
<1>3. CASE ClearConfirmed
  <2> DEFINE p == [Switched(panel, FALSE) EXCEPT !.seen = NoRevision]
             c == [kind |-> "Clear", rows |-> {}]
  <2>1. PICK end \in SaveEnd :
          /\ SavedAs(end, FALSE)
          /\ IF end = "Kept"
             THEN /\ Queue(p, c)
                  /\ user' = [user EXCEPT !.on = FALSE, !.reported = {}, !.clearing = TRUE]
             ELSE UNCHANGED <<panel, queue, user>>
    BY <1>3 DEF ClearConfirmed, Confirmable
  <2>2. /\ p \in Panel
        /\ p.place = panel.place /\ p.failed = panel.failed /\ p.ready = panel.ready
        /\ p.pending = panel.pending /\ p.final = panel.final /\ p.finalSeen = panel.finalSeen
        /\ p.exiting = panel.exiting /\ p.seen = NoRevision
    <3>1. NoRevision \in 0..MaxRevision BY ArchiveAssumption DEF NoRevision
    <3> QED BY <1>s, <3>1 DEF Panel
  <2>3. c \in Command BY DEF Command, Rows
  <2>4. Clickable /\ ~Busy(panel) /\ UNCHANGED <<clock, shown, updates, worker>>
          /\ disk'.archive = disk.archive
    BY <1>3, <1>d, <2>1 DEF ClearConfirmed, Confirmable
  <2> HIDE DEF p, c
  <2>5. CASE end = "Kept"
    <3>1. Queue(p, c) BY <2>1, <2>5
    <3>2. user'.allowed = user.allowed /\ user'.calledOff = user.calledOff BY <1>u, <2>1, <2>5 DEF User
    <3>3. /\ panel'.place = panel.place /\ panel'.ready = panel.ready /\ panel'.final = panel.final
          /\ panel'.finalSeen = panel.finalSeen /\ panel'.exiting = panel.exiting
          /\ panel'.seen = NoRevision
          /\ worker.place # "None" => panel'.failed = panel.failed /\ panel'.pending = panel.pending + 1
          /\ worker.place = "None" => panel'.failed
      BY <2>2, <3>1 DEF Queue, Panel
    <3>4. \A i \in DOMAIN queue : i \in DOMAIN queue' /\ queue'[i] = queue[i]
      BY <1>q, <2>3, <3>1, AppendIs DEF Queue
    <3>5. worker.place # "None" => Busy(panel')
      BY <1>u, <2>4, <3>3 DEF Busy, Panel
    <3>6. Exiting' BY <1>1, <2>4, <3>2, <3>3
    <3>7. panel'.failed = panel.failed \/ worker.place = "None" BY <3>3
    <3>8. panel.failed => panel'.failed BY <3>3
    <3>9. Busy(panel) => Busy(panel') BY <2>4
    <3> QED BY <2>4, <3>2, <3>3, <3>4, <3>5, <3>6, <3>7, <3>8, <3>9, ElsewhereWork DEF Clickable, Up
  <2>6. CASE end # "Kept"
    <3>1. UNCHANGED <<panel, queue, user>> BY <2>1, <2>6
    <3>2. Exiting' BY <1>1, <2>4, <3>1
    <3> QED BY <1>c, <2>4, <3>1, <3>2, ElsewhereWork DEF Clickable, Up
  <2> QED BY <2>5, <2>6
<1>4. CASE ExportConfirmed
  <2> DEFINE c == [kind |-> "Export", rows |-> {}]
  <2>1. c \in Command BY DEF Command, Rows
  <2>2. Clickable /\ ~Busy(panel) /\ UNCHANGED <<clock, disk, shown, updates, worker, user>>
          /\ Queue(panel, c)
    BY <1>4 DEF ExportConfirmed, Confirmable
  <2> HIDE DEF c
  <2>3. /\ panel'.place = panel.place /\ panel'.ready = panel.ready /\ panel'.final = panel.final
        /\ panel'.finalSeen = panel.finalSeen /\ panel'.seen = panel.seen
        /\ worker.place # "None" => panel'.failed = panel.failed
        /\ worker.place = "None" => panel'.failed
    BY <1>u, <2>2 DEF Queue, Panel
  <2>4. \A i \in DOMAIN queue : i \in DOMAIN queue' /\ queue'[i] = queue[i]
    BY <1>q, <2>1, <2>2, AppendIs DEF Queue
  <2>5. worker.place # "None" => ~user.clearing BY <1>c, <2>2 DEF Clickable
  <2>6. Exiting' BY <1>1, <2>2, <2>3
  <2>7. user'.clearing => panel'.seen = NoRevision /\ (worker.place # "None" => Busy(panel'))
    BY <1>c, <2>2, <2>3, <2>5 DEF Clickable
  <2>8. panel'.failed = panel.failed \/ worker.place = "None" BY <2>3
  <2>9. panel.failed => panel'.failed BY <2>3
  <2> QED BY <2>2, <2>3, <2>4, <2>6, <2>7, <2>8, <2>9, ElsewhereWork DEF Clickable, Up
<1>5. CASE SettingsSaved
  <2>1. Up /\ UNCHANGED <<clock, panel, shown, queue, updates, worker, user>>
          /\ disk'.archive = disk.archive
    BY <1>5, <1>d DEF SettingsSaved
  <2>2. Exiting' BY <1>c, <2>1 DEF Exiting
  <2> QED BY <1>c, <2>1, <2>2, ElsewhereWork DEF Up
<1>6. CASE Exit
  <2>1. /\ Clickable /\ UNCHANGED <<clock, disk, shown, queue, updates, worker, user>>
        /\ \E handoff \in BOOLEAN : panel' = [panel EXCEPT !.exiting = TRUE, !.handoff = handoff]
    BY <1>6 DEF Exit
  <2>2. /\ panel'.place = panel.place /\ panel'.ready = panel.ready /\ panel'.final = panel.final
        /\ panel'.finalSeen = panel.finalSeen /\ panel'.seen = panel.seen
        /\ panel'.failed = panel.failed /\ panel'.pending = panel.pending
    BY <1>u, <2>1 DEF Panel
  <2>3. Exiting' BY <1>1, <2>1, <2>2
  <2> QED BY <1>c, <2>1, <2>2, <2>3, ElsewhereWork DEF Clickable, Up, Busy
<1>7. CASE CallOff
  <2>1. /\ Up /\ UNCHANGED <<clock, disk, shown, queue, updates, worker>>
        /\ panel' = [panel EXCEPT !.exiting = FALSE, !.handoff = FALSE]
        /\ user' = [user EXCEPT !.calledOff = TRUE]
    BY <1>7 DEF CallOff
  <2>2. /\ panel'.place = panel.place /\ panel'.ready = panel.ready /\ panel'.final = panel.final
        /\ panel'.finalSeen = panel.finalSeen /\ panel'.seen = panel.seen
        /\ panel'.failed = panel.failed /\ panel'.pending = panel.pending
    BY <1>u, <2>1 DEF Panel
  <2>3. user'.calledOff /\ user'.clearing = user.clearing /\ user'.allowed = user.allowed
    BY <1>u, <2>1 DEF User
  <2>4. Exiting' BY <2>3 DEF Exiting
  <2> QED BY <1>c, <2>1, <2>2, <2>3, <2>4, ElsewhereWork DEF Up, Busy
<1>8. CASE Crash
  <2>1. panel'.place = "Down" /\ panel'.seen = NoRevision /\ panel'.final = Absent /\ shown' = NoSnapshot
    BY <1>8 DEF Crash, Fresh
  <2> QED BY <2>1 DEF Work, Health, Up, Publications, ExitKeepsWork, NoSnapshot, NoRevision
<1> QED BY <1>2, <1>3, <1>4, <1>5, <1>6, <1>7, <1>8, CloseWork, LaunchWork, TickWork

\* A panel that closes by itself has left nothing undone: no command is unread, and with
\* saving on what it showed when it began to close is in the file, too old or overtaken,
\* whatever the worker was doing when the exit began (app.rs, finish_archive_for_exit).
THEOREM ExitLosesNothing == Spec => []ExitKeepsWork
<1>1. Init => Work
  <2> SUFFICES ASSUME Init PROVE Work
    OBVIOUS
  <2>1. /\ panel.place = "Up" /\ panel.seen = NoRevision /\ panel.final = Absent /\ ~panel.finalSeen
        /\ panel.failed = FALSE /\ panel.pending = 1
    BY DEF Init, Fresh
  <2>2. worker.place = "Loading" /\ worker.failed = FALSE BY DEF Init, NewWorker
  <2>3. shown = NoSnapshot /\ updates = <<>> /\ user.clearing = FALSE BY DEF Init
  <2>4. Health
    <3>1. Busy(panel) /\ ~user.clearing /\ worker.place # "None" BY <2>1, <2>2, <2>3 DEF Busy
    <3>2. worker.failed = IF updates = <<>> THEN panel.failed ELSE Last(updates).failed
      BY <2>1, <2>2, <2>3
    <3> QED BY <3>1, <3>2 DEF Health
  <2>5. Publications /\ Observed
    BY <2>1, <2>3 DEF Publications, Observed, Captures, NoSnapshot, NoRevision
  <2> QED BY <2>1, <2>4, <2>5 DEF Work, Exiting, ExitKeepsWork
<1>2. ArchiveTypeOK /\ Flow /\ Stored /\ Allowed /\ Work /\ [Next]_vars => Work'
  <2>1. Work /\ UNCHANGED vars => Work'
    <3> SUFFICES ASSUME Work, UNCHANGED vars PROVE Work'
      OBVIOUS
    <3> USE DEF vars
    <3>1. File' = File BY DEF File
    <3>2. \A m : Taken(m)' <=> Taken(m)
      BY <3>1 DEF Taken, KeptIn, Covers, Expired, Newer, Answered
    <3>3. Observed' <=> Observed BY <3>2 DEF Observed, Captures
    <3>4. \A r : MayBeGone(r)' <=> MayBeGone(r) BY <3>1 DEF MayBeGone, Expired
    <3>5. ExitKeepsWork' <=> ExitKeepsWork BY <3>1, <3>4 DEF ExitKeepsWork
    <3> QED BY <3>3, <3>5 DEF Work, Health, Publications, Exiting, Up, Busy
  <2> QED BY <2>1, WorkerWork, FrameWork, PanelWork DEF Next
<1>3. Work => ExitKeepsWork BY DEF Work
<1> QED BY <1>1, <1>2, <1>3, ArchiveTypeCorrect, FlowInvariant, StoredInvariant, AllowedInvariant, PTL
    DEF Spec
=============================================================================
