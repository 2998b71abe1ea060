----------------------------- MODULE ArchiveFlow -----------------------------
(***************************************************************************)
(* The local SMS history: the window's thread that observes snapshots,     *)
(* saves the preference and drains the answers before it closes            *)
(* (apps/panel/src/app.rs, sms_archive.rs), the one worker that owns the   *)
(* encrypted file, and the configuration that remembers the choice         *)
(* (config.rs), over crashes and launches.                                 *)
(*                                                                         *)
(* A row is a message with the time it was captured; who sent it, its      *)
(* text, the card it belongs to and the encryption are left out.  The file *)
(* and the configuration are replaced in one step, or not at all, since a  *)
(* temporary file is written first.                                        *)
(***************************************************************************)
EXTENDS Integers, Sequences, FiniteSets, SequencesExt

CONSTANTS
  Message,       \* received messages
  Published,     \* what a snapshot may show: messages, and whether device and card are known
  Cap,           \* MAX_ARCHIVED_MESSAGES
  Retention,     \* RETENTION_DAYS
  MaxClock,      \* bound on time
  MaxRevision,   \* bound on publications
  MaxLaunches,   \* bound on the times the panel is started
  Absent         \* no archive file, no rows told, no snapshot frozen

Row == [msg : Message, at : 0..MaxClock]
NoRevision == 0
NoSnapshot == [rev |-> NoRevision, msgs |-> {}, known |-> FALSE]
Snapshot ==
  {NoSnapshot} \cup {[rev |-> n, msgs |-> p.msgs, known |-> p.known] : n \in 1..MaxRevision, p \in Published}

ASSUME ArchiveAssumption ==
  /\ IsFiniteSet(Message)
  /\ Published \subseteq [msgs : SUBSET Message, known : BOOLEAN]
  /\ Cap \in Nat /\ Retention \in Nat
  /\ MaxClock \in Nat /\ MaxRevision \in Nat /\ MaxLaunches \in Nat \ {0}
  /\ \A rows \in SUBSET Row : rows # Absent
  /\ \A s \in Snapshot : s # Absent

VARIABLES
  clock,
  disk,      \* the archive file and the saved preference
  panel,     \* the window's thread: ArchiveService and what PanelApp keeps around it
  shown,     \* the snapshot the panel holds
  queue,     \* commands to the worker
  updates,   \* its answers
  worker,    \* the worker thread with its ArchiveStore
  user       \* history: what the user asked for and was told

vars == <<clock, disk, panel, shown, queue, updates, worker, user>>

File == IF disk.archive = Absent THEN {} ELSE disk.archive
Messages(rows) == {r.msg : r \in rows}
Expired(r) == clock - r.at >= Retention
Up == panel.place = "Up"
Busy(p) == p.pending # 0

\* What purge may leave: nothing expired, and the newest Cap rows of the rest.
Purged(rows) ==
  LET live == {r \in rows : ~Expired(r)}
  IN  {s \in SUBSET live :
         /\ Cardinality(s) = IF Cardinality(live) <= Cap THEN Cardinality(live) ELSE Cap
         /\ \A r \in s, old \in live \ s : old.at <= r.at}

Fresh(choice) ==
  [place |-> "Up", loaded |-> choice, enabled |-> choice, ready |-> FALSE, failed |-> FALSE,
   pending |-> 1, rows |-> {}, seen |-> NoRevision, exiting |-> FALSE, handoff |-> FALSE,
   final |-> Absent, finalSeen |-> FALSE]
NewWorker(place) ==
  [place |-> place, rows |-> {}, failed |-> FALSE, job |-> "None", next |-> {}, back |-> {},
   told |-> FALSE]

------------------------------------------------------------------------------
(* The worker.  Each job that changes the rows saves them; the rows are the  *)
(* old ones again when that fails.                                           *)

Idle == worker.place = "Idle"

Answer(kind, rows, failed) ==
  updates' = Append(updates, [kind |-> kind, rows |-> rows, failed |-> failed])

Rested == [worker EXCEPT !.place = "Idle", !.job = "None", !.next = {}, !.back = {}, !.told = FALSE]

\* The job is over: what the worker keeps, and what it tells the panel.
Finish(kind, rows, failed) ==
  /\ worker' = [Rested EXCEPT !.rows = rows, !.failed = failed]
  /\ Answer(kind, rows, failed)

\* next goes to the file, and back is what the rows are if it does not.
StartSave(kind, next, back) ==
  worker' = [worker EXCEPT !.place = "Saving", !.job = kind, !.next = next, !.back = back]

LoadFails ==
  /\ worker.place = "Loading" /\ disk.archive # Absent
  /\ worker' = [Rested EXCEPT !.failed = TRUE]
  /\ updates' = Append(updates, [kind |-> "Load", rows |-> Absent, failed |-> TRUE])
  /\ UNCHANGED <<clock, disk, panel, shown, queue, user>>

Load ==
  /\ worker.place = "Loading"
  /\ \E live \in Purged(File) :
       IF live = File THEN Finish("Load", live, FALSE)
       ELSE StartSave("Load", live, live) /\ UNCHANGED updates
  /\ UNCHANGED <<clock, disk, panel, shown, queue, user>>

\* Mutant: the answer goes out before the file is replaced.
Save_AnswerFirst ==
  /\ worker.place = "Saving"
  /\ \/ /\ ~worker.told
        /\ Answer(worker.job, worker.next, FALSE)
        /\ worker' = [worker EXCEPT !.told = TRUE]
        /\ UNCHANGED disk
     \/ /\ worker.told
        /\ disk' = [disk EXCEPT !.archive = worker.next]
        /\ worker' = [Rested EXCEPT !.rows = worker.next]
        /\ UNCHANGED updates
  /\ UNCHANGED <<clock, panel, shown, queue, user>>
Save ==
  /\ worker.place = "Saving"
  /\ disk' = [disk EXCEPT !.archive = worker.next]
  /\ Finish(worker.job, worker.next, FALSE)
  /\ UNCHANGED <<clock, panel, shown, queue, user>>

\* A failed load tells no rows; a failed export leaves the worker as it was.
SaveFails ==
  /\ worker.place = "Saving"
  /\ worker' = [Rested EXCEPT !.rows = worker.back, !.failed = worker.job # "Export"]
  /\ updates' = Append(updates,
       [kind |-> worker.job, failed |-> worker.job # "Export",
        rows |-> IF worker.job = "Load" THEN Absent ELSE worker.back])
  /\ UNCHANGED <<clock, disk, panel, shown, queue, user>>

Take(kind) ==
  /\ Idle /\ queue # <<>> /\ Head(queue).kind = kind
  /\ queue' = Tail(queue)
  /\ UNCHANGED <<clock, panel, shown, user>>

Capture ==
  /\ Take("Capture") /\ ~worker.failed
  /\ UNCHANGED disk
  /\ \E kept \in Purged(worker.rows) :
       LET new == {r \in Head(queue).rows : r.msg \notin Messages(kept)}
       IN  \E next \in Purged(kept \cup new) :
             IF kept = worker.rows /\ new = {} THEN Finish("Capture", kept, FALSE)
             ELSE StartSave("Capture", next, worker.rows) /\ UNCHANGED updates

CapturePaused ==
  /\ Take("Capture") /\ worker.failed
  /\ Finish("Capture", worker.rows, TRUE)
  /\ UNCHANGED disk

Clear ==
  /\ Take("Clear")
  /\ \/ /\ disk' = [disk EXCEPT !.archive = Absent]
        /\ Finish("Clear", {}, FALSE)
     \/ /\ disk.archive # Absent
        /\ Finish("Clear", worker.rows, TRUE)
        /\ UNCHANGED disk
\* An export tells how it went and leaves the worker's health alone.
Export ==
  /\ Take("Export")
  /\ UNCHANGED disk
  /\ IF worker.failed THEN Finish("Export", worker.rows, TRUE)
     ELSE \E live \in Purged(worker.rows) :
            IF live = worker.rows THEN Finish("Export", live, FALSE)
            ELSE StartSave("Export", live, worker.rows) /\ UNCHANGED updates

\* Nothing came for a minute.
Maintain ==
  /\ Idle /\ queue = <<>> /\ ~worker.failed
  /\ \E live \in Purged(worker.rows) :
       live # worker.rows /\ StartSave("Maintain", live, worker.rows)
  /\ UNCHANGED <<clock, disk, panel, shown, queue, updates, user>>

WorkerStep ==
  \/ LoadFails \/ Load \/ Save \/ SaveFails \/ Capture \/ CapturePaused
  \/ Clear \/ Export \/ Maintain

------------------------------------------------------------------------------
(* The window's thread.                                                      *)

Completes_Maintain(u) == TRUE
Completes(u) == u.kind # "Maintain"

\* Whether an answer to a command is among the answers.
Answered == \E i \in DOMAIN updates : Completes(updates[i])

\* poll: every answer there is, of which the last one counts; only the first of all, to
\* a load that failed, tells no rows.  At most one command is under way, so the answer
\* to it leaves none.  Without a worker thread there is no channel.
Polled(p) ==
  IF worker.place = "None"
  THEN [p EXCEPT !.pending = 0, !.ready = TRUE, !.failed = TRUE]
  ELSE IF updates = <<>> THEN p
  ELSE LET last == Last(updates)
       IN [p EXCEPT !.pending = IF Answered THEN 0 ELSE p.pending,
                    !.ready = TRUE,
                    !.failed = last.failed,
                    !.rows = IF last.rows = Absent THEN p.rows ELSE last.rows]

\* What the answers mean to the user: rows reported as kept, a history reported as gone.
Gone == \E i \in DOMAIN updates : updates[i].kind = "Clear" /\ ~updates[i].failed
Heard ==
  [user EXCEPT
     !.reported = IF user.clearing THEN {}
                  ELSE IF updates = <<>> \/ Last(updates).failed THEN user.reported
                  ELSE Last(updates).rows,
     !.allowed = IF Gone THEN {} ELSE user.allowed,
     !.clearing = user.clearing /\ ~Answered]

Captured(s) == {[msg |-> m, at |-> clock] : m \in s.msgs}

Observes(p, s) ==
  p.enabled /\ p.ready /\ ~p.failed /\ ~Busy(p) /\ p.seen # s.rev /\ s.known
\* observe: one capture in flight, one per publication.
ObservedBy(p, s, h) ==
  IF Observes(p, s)
  THEN /\ panel' = [p EXCEPT !.pending = 1, !.seen = s.rev]
       /\ queue' = Append(queue, [kind |-> "Capture", rows |-> Captured(s)])
       /\ user' = [h EXCEPT !.allowed = @ \cup (IF h.on THEN Captured(s) ELSE {})]
  ELSE panel' = p /\ user' = h /\ UNCHANGED queue

\* A frame receives the latest snapshot, polls and observes.
Received(s) ==
  \/ s = shown
  \/ s.rev = shown.rev + 1
Frame ==
  /\ Up /\ ~panel.exiting
  /\ \E s \in Snapshot :
       /\ Received(s) /\ shown' = s
       /\ ObservedBy(Polled(panel), s, Heard)
  /\ updates' = <<>>
  /\ UNCHANGED <<clock, disk, worker>>

\* Mutant: the snapshot of the exit counts as observed although the worker was busy.
ExitFrame_Impatient ==
  /\ Up /\ panel.exiting
  /\ \E s \in Snapshot :
       LET final == IF panel.final = Absent THEN s ELSE panel.final
           polled == [Polled(panel) EXCEPT !.final = final]
       IN  /\ Received(s) /\ shown' = s
           /\ IF ~polled.finalSeen
              THEN ObservedBy([polled EXCEPT !.finalSeen = TRUE], final, Heard)
              ELSE panel' = polled /\ user' = Heard /\ UNCHANGED queue
  /\ updates' = <<>>
  /\ UNCHANGED <<clock, disk, worker>>
\* finish_archive_for_exit: the snapshot of the exit's first frame is observed once
\* the worker has answered, and the window closes when it has answered to that.
ExitFrame ==
  /\ Up /\ panel.exiting
  /\ \E s \in Snapshot :
       LET final == IF panel.final = Absent THEN s ELSE panel.final
           polled == [Polled(panel) EXCEPT !.final = final]
       IN  /\ Received(s) /\ shown' = s
           /\ IF ~Busy(polled) /\ ~polled.finalSeen
              THEN ObservedBy([polled EXCEPT !.finalSeen = TRUE], final, Heard)
              ELSE panel' = polled /\ user' = Heard /\ UNCHANGED queue
  /\ updates' = <<>>
  /\ UNCHANGED <<clock, disk, worker>>

Close ==
  /\ Up /\ panel.exiting /\ panel.finalSeen /\ ~Busy(panel)
  /\ panel' = [panel EXCEPT !.place = "Closed"]
  /\ worker' = NewWorker("None") /\ updates' = <<>>
  /\ UNCHANGED <<clock, disk, shown, queue, user>>

\* How a save of the configuration may end: replaced and read back, not replaced, or
\* replaced and not read back, which is reported as a failure too.
SaveEnd == {"Kept", "Refused", "Unread"}
SavedAs(end, choice) ==
  disk' = [disk EXCEPT !.optIn = IF end = "Refused" THEN @ ELSE choice]

\* The service forgets the publication it saw last when the choice changes.
Switched(p, choice) ==
  [p EXCEPT !.enabled = choice, !.loaded = choice,
            !.seen = IF p.enabled = choice THEN @ ELSE NoRevision]

Clickable == Up /\ ~panel.exiting

SetEnabled ==
  /\ Clickable
  /\ \E choice \in BOOLEAN, end \in SaveEnd :
       /\ choice # panel.enabled
       /\ SavedAs(end, choice)
       /\ panel' = IF end = "Kept" THEN Switched(panel, choice) ELSE panel
       /\ user' = [user EXCEPT !.on = choice \/ (@ /\ end # "Kept")]
  /\ UNCHANGED <<clock, shown, queue, updates, worker>>

Queue(p, command) ==
  IF worker.place = "None"
  THEN panel' = [p EXCEPT !.failed = TRUE] /\ UNCHANGED queue
  ELSE panel' = [p EXCEPT !.pending = @ + 1] /\ queue' = Append(queue, command)

\* Clear and export are offered, and their confirmation taken, while no command is pending.
Confirmable == Clickable /\ ~Busy(panel)

\* Mutant: the preference is switched off for this launch only.
ClearConfirmed_NotSaved ==
  /\ Confirmable
  /\ Queue([Switched(panel, FALSE) EXCEPT !.seen = NoRevision], [kind |-> "Clear", rows |-> {}])
  /\ user' = [user EXCEPT !.on = FALSE, !.reported = {}, !.clearing = TRUE]
  /\ UNCHANGED <<clock, disk, shown, updates, worker>>

\* The preference is switched off and saved before the history is cleared.
ClearConfirmed ==
  /\ Confirmable
  /\ \E end \in SaveEnd :
       /\ SavedAs(end, FALSE)
       /\ IF end = "Kept"
          THEN /\ Queue([Switched(panel, FALSE) EXCEPT !.seen = NoRevision],
                        [kind |-> "Clear", rows |-> {}])
               /\ user' = [user EXCEPT !.on = FALSE, !.reported = {}, !.clearing = TRUE]
          ELSE UNCHANGED <<panel, queue, user>>
  /\ UNCHANGED <<clock, shown, updates, worker>>

ExportConfirmed ==
  /\ Confirmable /\ panel.rows # {}
  /\ Queue(panel, [kind |-> "Export", rows |-> {}])
  /\ UNCHANGED <<clock, disk, shown, updates, worker, user>>

\* Any other setting is saved with the choice as it was loaded or last saved.
SettingsSaved ==
  /\ Up /\ disk.optIn # panel.loaded
  /\ SavedAs("Kept", panel.loaded)
  /\ UNCHANGED <<clock, panel, shown, queue, updates, worker, user>>

\* The user leaves, or the updater took the panel over and may yet give it back.
Exit ==
  /\ Clickable
  /\ \E handoff \in BOOLEAN :
       panel' = [panel EXCEPT !.exiting = TRUE, !.handoff = handoff]
  /\ UNCHANGED <<clock, disk, shown, queue, updates, worker, user>>

\* A handoff without its updater calls the exit off.
CallOff ==
  /\ Up /\ panel.exiting /\ panel.handoff
  /\ panel' = [panel EXCEPT !.exiting = FALSE, !.handoff = FALSE]
  /\ user' = [user EXCEPT !.calledOff = TRUE]
  /\ UNCHANGED <<clock, disk, shown, queue, updates, worker>>

------------------------------------------------------------------------------
(* Process and time.                                                         *)

\* A configuration that cannot be read leaves the panel with the defaults, and a
\* worker that cannot be started with a history that failed.
Launch ==
  /\ ~Up /\ user.launches < MaxLaunches
  /\ \E choice \in {disk.optIn, FALSE}, place \in {"Loading", "None"} :
       /\ panel' = IF place = "Loading" THEN Fresh(choice)
                   ELSE [Fresh(choice) EXCEPT !.pending = 0, !.ready = TRUE, !.failed = TRUE]
       /\ worker' = NewWorker(place)
  /\ shown' = NoSnapshot
  /\ queue' = <<>> /\ updates' = <<>>
  /\ user' = [user EXCEPT !.launches = @ + 1, !.calledOff = FALSE, !.clearing = FALSE]
  /\ UNCHANGED <<clock, disk>>

\* The process ends wherever it is: killed, logged off, or by the tray's watchdog.
Crash ==
  /\ Up
  /\ panel' = [Fresh(FALSE) EXCEPT !.place = "Down"]
  /\ worker' = NewWorker("None")
  /\ shown' = NoSnapshot
  /\ queue' = <<>> /\ updates' = <<>>
  /\ UNCHANGED <<clock, disk, user>>

Tick ==
  /\ clock < MaxClock
  /\ clock' = clock + 1
  /\ UNCHANGED <<disk, panel, shown, queue, updates, worker, user>>

Init ==
  /\ clock = 0
  /\ disk = [archive |-> Absent, optIn |-> FALSE]
  /\ panel = Fresh(FALSE)
  /\ shown = NoSnapshot
  /\ queue = <<>> /\ updates = <<>>
  /\ worker = NewWorker("Loading")
  /\ user = [on |-> FALSE, allowed |-> {}, reported |-> {}, clearing |-> FALSE,
             calledOff |-> FALSE, launches |-> 1]

Next ==
  \/ WorkerStep
  \/ Frame \/ ExitFrame \/ Close
  \/ SetEnabled \/ ClearConfirmed \/ ExportConfirmed \/ SettingsSaved
  \/ Exit \/ CallOff
  \/ Launch \/ Crash \/ Tick

Spec == Init /\ [][Next]_vars

------------------------------------------------------------------------------
Rows == SUBSET Row
Job == {"Load", "Capture", "Export", "Maintain"}
Disk == [archive : {Absent} \cup Rows, optIn : BOOLEAN]
Panel ==
  [place : {"Up", "Closed", "Down"}, loaded : BOOLEAN, enabled : BOOLEAN, ready : BOOLEAN,
   failed : BOOLEAN, pending : 0..1, rows : Rows, seen : 0..MaxRevision, exiting : BOOLEAN,
   handoff : BOOLEAN, final : Snapshot \cup {Absent}, finalSeen : BOOLEAN]
Command == [kind : {"Capture", "Clear", "Export"}, rows : Rows]
Update ==
  {u \in [kind : Job \cup {"Clear"}, rows : {Absent} \cup Rows, failed : BOOLEAN] :
     u.failed \/ u.rows \in Rows}
Worker ==
  {w \in [place : {"Loading", "Idle", "Saving", "None"}, rows : Rows, failed : BOOLEAN,
          job : Job \cup {"None"}, next : Rows, back : Rows, told : BOOLEAN] :
     w.place = "Saving" => w.job \in Job}
User ==
  [on : BOOLEAN, allowed : Rows, reported : Rows, clearing : BOOLEAN, calledOff : BOOLEAN,
   launches : 0..MaxLaunches]

ArchiveTypeOK ==
  /\ clock \in 0..MaxClock /\ disk \in Disk
  /\ panel \in Panel /\ shown \in Snapshot
  /\ queue \in Seq(Command) /\ updates \in Seq(Update)
  /\ worker \in Worker /\ user \in User

\* No copy of the history holds what the user did not ask to be kept: not what was
\* read while saving was off, and nothing from before a clearing that was reported as
\* done; neither after a crash nor in the next launch.
OnlyWhatWasAllowed ==
  File \cup worker.rows \cup panel.rows \cup UNION {queue[i].rows : i \in DOMAIN queue}
    \subseteq user.allowed

\* A row may be gone because of its age, or because Cap others are not older.
MayBeGone(r) ==
  \/ Expired(r)
  \/ Cardinality({x \in File : x.at >= r.at}) >= Cap

\* What was reported as kept is in the file until it is too old, overtaken or cleared,
\* whatever saves fail and wherever the panel stops.
ReportedIsStored ==
  \A r \in user.reported : r \in File \/ MayBeGone(r)

\* What the panel counts as under way is under way, once: on its way to the worker, in its
\* hands, or answered and not read.  So a busy panel, which neither captures nor closes,
\* is always owed an answer, and an idle one never meets an answer of an earlier command.
Underway ==
  \/ worker.place = "Loading"
  \/ (worker.place = "Saving" /\ worker.job # "Maintain")
PendingIsUnderway ==
  Up /\ worker.place # "None" =>
    /\ Busy(panel) <=> (queue # <<>> \/ Underway \/ Answered)
    /\ ~(queue # <<>> /\ (Underway \/ Answered)) /\ ~(Underway /\ Answered)
    /\ \A i, j \in DOMAIN updates : Completes(updates[i]) /\ Completes(updates[j]) => i = j

\* A panel that closes by itself has left nothing undone: with saving on, what it
\* showed when it began to close is in the file, unless an exit had been called off before.
ExitKeepsWork ==
  panel.place = "Closed" =>
    /\ queue = <<>>
    /\ panel.enabled /\ ~panel.failed /\ panel.final.known /\ ~user.calledOff =>
         \A m \in panel.final.msgs :
           \E r \in user.allowed : r.msg = m /\ (r \in File \/ MayBeGone(r))
=============================================================================
