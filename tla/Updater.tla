------------------------------ MODULE Updater ------------------------------
(***************************************************************************)
(* The in-place update of the portable installation: the panel's handoff   *)
(* thread (apps/panel/src/update/worker.rs), the panel that leaves         *)
(* (apps/panel/src/app.rs, update/service.rs), the standalone updater      *)
(* (apps/updater/src) and the new panel it starts.                         *)
(*                                                                         *)
(* The processes share the installation directory, the transaction         *)
(* directory (staged files and backups) and the marker files of the        *)
(* session.  Every rename and removal is a step of its own: each can fail, *)
(* and the updater can be killed, or the machine stop, between any two.    *)
(* Meanwhile the user may leave the panel or start another one.            *)
(***************************************************************************)
EXTENDS Integers

CONSTANTS
  LastFile,    \* the payload is 1..LastFile, in the order of PAYLOAD
  Optional,    \* payload files that an installation may lack
  Helper,      \* helper processes the old panel may start
  MaxVisits    \* bound on the panels the user starts

\* PAYLOAD[0] is dji4g-panel.exe, the image every panel process runs.
PanelFile == 1
Payload == 1..LastFile

ASSUME ConstantsAssumption ==
  /\ LastFile \in Nat \ {0}
  /\ Optional \subseteq Payload \ {PanelFile}
  /\ MaxVisits \in Nat

VARIABLES
  original,   \* the payload files the installation had
  install,    \* install[f]: the version at f, or none
  staged,     \* files still in the staging directory
  backup,     \* old files in the backup directory
  markers,    \* marker files of the session
  panel,      \* the old panel process
  leaves,     \* why it leaves
  handoff,    \* worker::install, then UpdateService.updater
  helpers,    \* helper processes of the installation that run
  captured,   \* those whose handles the updater retains
  updater,    \* where the updater is
  at,         \* the payload file it is at
  toRemove,   \* its `installed`: new files in place, less those removed again
  toRestore,  \* its `moved_old`: old files moved away, less those put back
  clean,      \* no failure yet in its rollback
  child,      \* the panel the updater starts to confirm the new payload
  visitor,    \* a panel the user starts: the version of its image, or none
  visits,
  verdict     \* how the updater ended

files == <<original, install, staged, backup>>
leaving == <<panel, leaves>>
rollback == <<toRemove, toRestore, clean>>
others == <<visitor, visits>>
vars == <<files, markers, leaving, handoff, helpers, captured, updater, at,
          rollback, child, others, verdict>>

Alive == updater # "Over"

Init ==
  /\ original \in {S \in SUBSET Payload : Payload \ S \subseteq Optional}
  /\ install = [f \in Payload |-> IF f \in original THEN "old" ELSE "none"]
  /\ staged = {} /\ backup = {} /\ markers = {}
  /\ panel = "Running" /\ leaves = "No"
  /\ handoff = "Waits"
  /\ helpers = {} /\ captured = {}
  /\ updater = "Opens" /\ at = 1
  /\ toRemove = {} /\ toRestore = {} /\ clean = TRUE
  /\ child = "None"
  /\ visitor = "none" /\ visits = 0
  /\ verdict = "None"

-----------------------------------------------------------------------------
(* The panel *)

\* worker::install looks at the child first, then for the markers.
HandoffReady ==
  /\ handoff = "Waits" /\ panel # "Gone"
  /\ Alive /\ "ready" \in markers
  /\ handoff' = "Offered"
  /\ UNCHANGED <<files, markers, leaving, helpers, captured, updater, at, rollback,
                 child, others, verdict>>

\* The child has ended, or it is killed after 60 s.
HandoffFails ==
  /\ handoff = "Waits" /\ panel # "Gone"
  /\ handoff' = "Failed"
  /\ updater' = "Over"
  /\ verdict' = IF Alive THEN "Killed" ELSE verdict
  /\ UNCHANGED <<files, markers, leaving, helpers, captured, at, rollback, child, others>>

\* take_handoff: once the panel is idle, and only while the updater lives.
TakeHandoff ==
  /\ panel \in {"Running", "Leaving"} /\ handoff = "Offered"
  /\ Alive
  /\ handoff' = "Taken"
  /\ panel' = "Leaving" /\ leaves' = IF leaves = "User" THEN leaves ELSE "Update"
  /\ UNCHANGED <<files, markers, helpers, captured, updater, at, rollback, child, others,
                 verdict>>

\* Mutant: the updater is not watched once its handoff is taken.
RevokeHandoff_BeforeTaken ==
  /\ panel \in {"Running", "Leaving"} /\ handoff = "Offered"
  /\ ~Alive
  /\ handoff' = "Failed"
  /\ UNCHANGED <<files, markers, leaving, helpers, captured, updater, at, rollback, child,
                 others, verdict>>

\* A poll finds the updater ended; an exit it was taken for is called off, even if
\* the user had asked for one before.
RevokeHandoff ==
  /\ panel \in {"Running", "Leaving"} /\ handoff \in {"Offered", "Taken"}
  /\ ~Alive
  /\ handoff' = "Failed"
  /\ IF handoff = "Taken" THEN panel' = "Running" /\ leaves' = "No"
                          ELSE UNCHANGED leaving
  /\ UNCHANGED <<files, markers, helpers, captured, updater, at, rollback, child, others,
                 verdict>>

\* The user leaves on their own, whatever the update is doing.
UserExits ==
  /\ panel = "Running"
  /\ panel' = "Leaving" /\ leaves' = "User"
  /\ UNCHANGED <<files, markers, handoff, helpers, captured, updater, at, rollback, child,
                 others, verdict>>

\* A frame polls and, when the archive has drained, closes the window for good.
CloseWindow ==
  /\ panel = "Leaving"
  /\ handoff = "Taken" => Alive
  /\ panel' = "Closing"
  /\ UNCHANGED <<files, markers, leaves, handoff, helpers, captured, updater, at, rollback,
                 child, others, verdict>>

PanelGone ==
  /\ panel = "Closing"
  /\ panel' = "Gone"
  /\ UNCHANGED <<files, markers, leaves, handoff, helpers, captured, updater, at, rollback,
                 child, others, verdict>>

\* The executor's thread starts one, and may still do so while the window closes.
HelperStarts ==
  /\ panel # "Gone"
  /\ \E h \in Helper \ helpers : helpers' = helpers \cup {h}
  /\ UNCHANGED <<files, markers, leaving, handoff, captured, updater, at, rollback, child,
                 others, verdict>>

HelperEnds ==
  /\ \E h \in helpers : helpers' = helpers \ {h}
  /\ UNCHANGED <<files, markers, leaving, handoff, captured, updater, at, rollback, child,
                 others, verdict>>

\* The user starts a panel from the directory as it stands; beside a panel that is
\* up it would only bring that one to the front and end.
VisitorStarts ==
  /\ panel = "Gone" /\ child \in {"None", "Starting", "Ended"} /\ visitor = "none"
  /\ visits < MaxVisits
  /\ install[PanelFile] # "none"
  /\ visitor' = install[PanelFile] /\ visits' = visits + 1
  /\ UNCHANGED <<files, markers, leaving, handoff, helpers, captured, updater, at, rollback,
                 child, verdict>>

VisitorEnds ==
  /\ visitor # "none"
  /\ visitor' = "none"
  /\ UNCHANGED <<files, markers, leaving, handoff, helpers, captured, updater, at, rollback,
                 child, visits, verdict>>

-----------------------------------------------------------------------------
(* The updater, up to the first file it touches *)

End(how) == /\ updater' = "Over" /\ verdict' = how

\* The lock, the panel's handle (it must still run), the helpers at hand.
OpenPanel ==
  /\ updater = "Opens"
  /\ panel # "Gone"
  /\ captured' = helpers
  /\ updater' = "Stages"
  /\ UNCHANGED <<files, markers, leaving, handoff, helpers, at, rollback, child, others,
                 verdict>>

\* The verified archive is unpacked beside the installation, and only then "ready".
Stage ==
  /\ updater = "Stages"
  /\ staged' = Payload
  /\ markers' = markers \cup {"ready"}
  /\ updater' = "WaitsPanel"
  /\ UNCHANGED <<original, install, backup, leaving, handoff, helpers, captured, at,
                 rollback, child, others, verdict>>

\* Whatever fails up to here, the panel's 60 s included, drops the transaction.
PrepareFails ==
  /\ updater \in {"Opens", "Stages", "WaitsPanel"}
  /\ updater = "WaitsPanel" => panel # "Gone"
  /\ End("NotStarted")
  /\ staged' = {} /\ markers' = markers \cup {"error"}
  /\ UNCHANGED <<original, install, backup, leaving, handoff, helpers, captured, at,
                 rollback, child, others>>

\* Mutant: the helpers started during staging are not captured.
SeePanelExit_FirstHelpers ==
  /\ updater = "WaitsPanel" /\ panel = "Gone"
  /\ updater' = "WaitsHelpers"
  /\ UNCHANGED <<files, markers, leaving, handoff, helpers, captured, at, rollback, child,
                 others, verdict>>

SeePanelExit ==
  /\ updater = "WaitsPanel" /\ panel = "Gone"
  /\ captured' = captured \cup helpers
  /\ updater' = "WaitsHelpers"
  /\ UNCHANGED <<files, markers, leaving, handoff, helpers, at, rollback, child, others,
                 verdict>>

SeeHelpersExit ==
  /\ updater = "WaitsHelpers" /\ captured \cap helpers = {}
  /\ updater' = "MovesOld"
  /\ UNCHANGED <<files, markers, leaving, handoff, helpers, captured, at, rollback, child,
                 others, verdict>>

\* start_panel: a process or none, and it ends at once if another panel runs.
StartsPanel == install[PanelFile] # "none"

\* A helper outlives the deadline: nothing was touched, and the old panel comes back.
HelpersOutlast ==
  /\ updater = "WaitsHelpers"
  /\ \E started \in BOOLEAN :
       /\ started => StartsPanel
       /\ End(IF started THEN "Restarted" ELSE "RestartFailed")
  /\ staged' = {} /\ markers' = markers \cup {"error"}
  /\ UNCHANGED <<original, install, backup, leaving, handoff, helpers, captured, at,
                 rollback, child, others>>

-----------------------------------------------------------------------------
(* replace_and_confirm *)

\* Mutant: the new file overwrites the old one.
MoveOld_InPlace ==
  /\ updater = "MovesOld"
  /\ install' = [install EXCEPT ![at] = "none"]
  /\ toRestore' = IF install[at] # "none" THEN toRestore \cup {at} ELSE toRestore
  /\ updater' = "MovesNew"
  /\ UNCHANGED <<original, staged, backup, markers, leaving, handoff, helpers, captured, at,
                 toRemove, clean, child, others, verdict>>

MoveOld ==
  /\ updater = "MovesOld"
  /\ IF install[at] # "none"
     THEN /\ install' = [install EXCEPT ![at] = "none"]
          /\ backup' = backup \cup {at} /\ toRestore' = toRestore \cup {at}
     ELSE UNCHANGED <<install, backup, toRestore>>
  /\ updater' = "MovesNew"
  /\ UNCHANGED <<original, staged, markers, leaving, handoff, helpers, captured, at,
                 toRemove, clean, child, others, verdict>>

MoveNew ==
  /\ updater = "MovesNew"
  /\ install' = [install EXCEPT ![at] = "new"]
  /\ staged' = staged \ {at} /\ toRemove' = toRemove \cup {at}
  /\ IF at = LastFile
     THEN updater' = "StartsNew" /\ UNCHANGED at
     ELSE updater' = "MovesOld" /\ at' = at + 1
  /\ UNCHANGED <<original, backup, markers, leaving, handoff, helpers, captured, toRestore,
                 clean, child, others, verdict>>

\* A check or a rename fails, or the new panel cannot be started.
ReplaceFails ==
  /\ updater \in {"MovesOld", "MovesNew", "StartsNew"}
  /\ updater' = "Removes"
  /\ UNCHANGED <<files, markers, leaving, handoff, helpers, captured, at, rollback, child,
                 others, verdict>>

StartNew ==
  /\ updater = "StartsNew"
  /\ child' = "Starting"
  /\ updater' = "Confirms"
  /\ UNCHANGED <<files, markers, leaving, handoff, helpers, captured, at, rollback, others,
                 verdict>>

\* The first frame of the new panel writes the marker; beside another panel it
\* ends before it has one.
ChildAcknowledges ==
  /\ child = "Starting" /\ visitor = "none"
  /\ child' = "Up"
  /\ markers' = markers \cup {"startup-ok"}
  /\ UNCHANGED <<files, leaving, handoff, helpers, captured, updater, at, rollback, others,
                 verdict>>

ChildEnds ==
  /\ child \in {"Starting", "Up"}
  /\ child' = "Ended"
  /\ UNCHANGED <<files, markers, leaving, handoff, helpers, captured, updater, at, rollback,
                 others, verdict>>

\* confirm_startup looks at the process before it looks for the marker.
Confirm ==
  /\ updater = "Confirms" /\ child # "Ended"
  /\ "startup-ok" \in markers
  /\ updater' = "Cleans"
  /\ UNCHANGED <<files, markers, leaving, handoff, helpers, captured, at, rollback, child,
                 others, verdict>>

\* It ended, or 30 s passed and it is stopped.
Unconfirmed ==
  /\ updater = "Confirms"
  /\ child' = "Ended"
  /\ updater' = "Removes"
  /\ UNCHANGED <<files, markers, leaving, handoff, helpers, captured, at, rollback, others,
                 verdict>>

\* PROCESS_UNSTOPPED: it cannot be stopped, and the new payload stays.
Unstoppable ==
  /\ updater = "Confirms" /\ child # "Ended"
  /\ End("Unstopped")
  /\ markers' = markers \cup {"error"}
  /\ UNCHANGED <<files, leaving, handoff, helpers, captured, at, rollback, child, others>>

\* Success: the transaction directory goes, backups and all, and "done" is written.
Clean ==
  /\ updater = "Cleans"
  /\ End("Done")
  /\ backup' = {} /\ markers' = markers \cup {"done"}
  /\ UNCHANGED <<original, install, staged, leaving, handoff, helpers, captured, at,
                 rollback, child, others>>

\* Some of it cannot be deleted; the update stands, and is reported as failed.
CleanFails ==
  /\ updater = "Cleans"
  /\ End("Uncleaned")
  /\ \E rest \in SUBSET backup : backup' = rest
  /\ markers' = markers \cup {"error"}
  /\ UNCHANGED <<original, install, staged, leaving, handoff, helpers, captured, at,
                 rollback, child, others>>

-----------------------------------------------------------------------------
(* The rollback, in the reverse order of the installation *)

Latest(S) == {f \in S : \A g \in S : g <= f}

\* The image of a running process cannot be deleted.
Mapped(f) ==
  /\ f = PanelFile
  /\ child \in {"Starting", "Up"} \/ visitor = install[f]

Remove ==
  /\ updater = "Removes" /\ toRemove # {}
  /\ \E f \in Latest(toRemove) :
     /\ toRemove' = toRemove \ {f}
     /\ \/ /\ ~Mapped(f)
           /\ install' = [install EXCEPT ![f] = "none"]
           /\ UNCHANGED clean
        \/ clean' = FALSE /\ UNCHANGED install
  /\ UNCHANGED <<original, staged, backup, markers, leaving, handoff, helpers, captured,
                 updater, at, toRestore, child, others, verdict>>

RemovedAll ==
  /\ updater = "Removes" /\ toRemove = {}
  /\ updater' = "Restores"
  /\ UNCHANGED <<files, markers, leaving, handoff, helpers, captured, at, rollback, child,
                 others, verdict>>

\* Mutant: a file that cannot be put back is passed over silently.
Restore_Silently ==
  /\ updater = "Restores" /\ toRestore # {}
  /\ \E f \in Latest(toRestore) :
     /\ toRestore' = toRestore \ {f}
     /\ \/ /\ install[f] = "none"
           /\ install' = [install EXCEPT ![f] = "old"] /\ backup' = backup \ {f}
        \/ UNCHANGED <<install, backup>>
  /\ UNCHANGED <<original, staged, markers, leaving, handoff, helpers, captured, updater,
                 at, toRemove, clean, child, others, verdict>>

Restore ==
  /\ updater = "Restores" /\ toRestore # {}
  /\ \E f \in Latest(toRestore) :
     /\ toRestore' = toRestore \ {f}
     /\ \/ /\ install[f] = "none"
           /\ install' = [install EXCEPT ![f] = "old"] /\ backup' = backup \ {f}
           /\ UNCHANGED clean
        \/ clean' = FALSE /\ UNCHANGED <<install, backup>>
  /\ UNCHANGED <<original, staged, markers, leaving, handoff, helpers, captured, updater,
                 at, toRemove, child, others, verdict>>

\* ROLLED_BACK, and the old panel is started; or RECOVERY_REQUIRED, and none is.
\* The transaction directory stays either way.
RestoredAll ==
  /\ updater = "Restores" /\ toRestore = {}
  /\ \E started \in BOOLEAN :
       /\ started => clean /\ StartsPanel
       /\ End(CASE ~clean -> "RecoveryRequired"
                [] started -> "Restarted"
                [] OTHER -> "RestartFailed")
  /\ markers' = markers \cup {"error"}
  /\ UNCHANGED <<files, leaving, handoff, helpers, captured, at, rollback, child, others>>

\* The updater is killed from outside, or the machine stops.
Crash ==
  /\ Alive
  /\ End("Killed")
  /\ UNCHANGED <<files, markers, leaving, handoff, helpers, captured, at, rollback, child,
                 others>>

-----------------------------------------------------------------------------

UpdaterStep ==
  \/ OpenPanel \/ Stage \/ PrepareFails
  \/ SeePanelExit \/ SeeHelpersExit \/ HelpersOutlast
  \/ MoveOld \/ MoveNew \/ ReplaceFails
  \/ StartNew \/ Confirm \/ Unconfirmed \/ Unstoppable \/ Clean \/ CleanFails
  \/ Remove \/ RemovedAll \/ Restore \/ RestoredAll

PanelStep ==
  \/ HandoffReady \/ HandoffFails \/ RevokeHandoff \/ CloseWindow \/ PanelGone

Environment ==
  \/ TakeHandoff \/ UserExits \/ HelperStarts \/ HelperEnds \/ VisitorStarts \/ VisitorEnds
  \/ ChildAcknowledges \/ ChildEnds \/ Crash

Next == UpdaterStep \/ PanelStep \/ Environment

\* The updater runs and every wait of it has a deadline, and the panel polls and
\* closes; the user, the work the panel waits for, the helpers and the new panel owe
\* nothing.
Spec == Init /\ [][Next]_vars
FairSpec == Spec /\ WF_vars(UpdaterStep) /\ WF_vars(PanelStep)

-----------------------------------------------------------------------------
(* Properties *)

Original == [f \in Payload |-> IF f \in original THEN "old" ELSE "none"]
AllNew == \A f \in Payload : install[f] = "new"

Verdict == {"None", "NotStarted", "Killed", "Restarted", "RestartFailed", "Done",
            "Uncleaned", "Unstopped", "RecoveryRequired"}

UpdaterTypeOK ==
  /\ original \subseteq Payload /\ install \in [Payload -> {"old", "new", "none"}]
  /\ staged \subseteq Payload /\ backup \subseteq Payload
  /\ markers \subseteq {"ready", "error", "startup-ok", "done"}
  /\ panel \in {"Running", "Leaving", "Closing", "Gone"}
  /\ leaves \in {"No", "User", "Update"}
  /\ handoff \in {"Waits", "Offered", "Taken", "Failed"}
  /\ helpers \subseteq Helper /\ captured \subseteq Helper
  /\ updater \in {"Opens", "Stages", "WaitsPanel", "WaitsHelpers", "MovesOld", "MovesNew",
                  "StartsNew", "Confirms", "Cleans", "Removes", "Restores", "Over"}
  /\ at \in Payload /\ toRemove \subseteq Payload /\ toRestore \subseteq Payload
  /\ clean \in BOOLEAN
  /\ child \in {"None", "Starting", "Up", "Ended"}
  /\ visitor \in {"old", "new", "none"} /\ visits \in 0..MaxVisits
  /\ verdict \in Verdict /\ (verdict = "None" <=> Alive)

\* No file of the installation is touched while the panel or a helper it started
\* runs, whenever that helper was started.
UntouchedWhileInUse ==
  install # Original => panel = "Gone" /\ helpers = {}

\* Wherever the updater is stopped and whatever fails, every old file is in its
\* place or in the backup, until the new panel was seen to work.
OldRecoverable ==
  verdict \notin {"Done", "Uncleaned"} =>
    \A f \in original : install[f] = "old" \/ f \in backup

\* What the updater says of its end is true of the files: all new after a success
\* or when the new panel could not be stopped, all old when it says that it changed
\* nothing or rolled back; and no success without the new panel's first frame.
OutcomeIsTrue ==
  /\ verdict \in {"Done", "Uncleaned"} => AllNew /\ "startup-ok" \in markers
  /\ verdict = "Unstopped" => AllNew /\ backup = original
  /\ verdict \in {"NotStarted", "Restarted", "RestartFailed"} => install = Original
  /\ "done" \in markers => verdict = "Done"

\* A panel that left for the update and found the updater alive is not left behind:
\* the exit is called off, or the updater comes to its end.
UpdateResolved == handoff = "Taken" ~> panel = "Running" \/ (panel = "Gone" /\ ~Alive)

\* What docs/UPDATE_REVIEW_0.1.14.md says of a rollback that is blocked: the updater
\* does not go on, which would mix the versions.
BlockedRollbackStops == [][~clean => UNCHANGED install]_vars
=============================================================================
