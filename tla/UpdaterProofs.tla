--------------------------- MODULE UpdaterProofs ---------------------------
(***************************************************************************)
(* What Updater promises of the installation's files, for a payload of any *)
(* length and any number of helpers and visits.  The argument keeps        *)
(* account of the files while the updater lives: as long as no step of a   *)
(* rollback failed, what lies at each name follows from the two lists the  *)
(* updater keeps (Accounted), and the lists follow from the place it is at *)
(* (InPlace).                                                              *)
(***************************************************************************)
EXTENDS Updater, TLAPS

Before == {"Opens", "Stages", "WaitsPanel", "WaitsHelpers"}
Confirming == {"StartsNew", "Confirms", "Cleans"}
RollingBack == {"Removes", "Restores"}
Replacing == {"MovesOld", "MovesNew"} \cup Confirming \cup RollingBack

\* What lies at f, going by the lists of the updater.
Expected(f) ==
  IF f \in toRemove THEN "new" ELSE IF f \in toRestore THEN "none" ELSE Original[f]

InPlace ==
  /\ updater \in Before => toRemove = {} /\ backup = {}
  /\ updater \in Before => at = 1
  /\ updater = "MovesOld" => toRemove = 1..(at-1) /\ backup = original \cap (1..(at-1))
  /\ updater = "MovesNew" => toRemove = 1..(at-1) /\ backup = original \cap (1..at)
  /\ updater \in Confirming => toRemove = Payload /\ backup = original
  /\ updater = "Restores" => toRemove = {}
  /\ updater = "Cleans" => "startup-ok" \in markers
  /\ Alive /\ updater \notin RollingBack => clean

Accounted ==
  Alive =>
    /\ toRestore \subseteq backup /\ backup \subseteq original
    /\ toRemove \cap original \subseteq backup
    /\ clean => toRestore = backup
    /\ clean => \A f \in Payload : install[f] = Expected(f)

Alone ==
  /\ updater \in {"WaitsHelpers"} \cup Replacing => panel = "Gone"
  /\ updater = "WaitsHelpers" => helpers \subseteq captured
  /\ updater \in Replacing => helpers = {}
  /\ UntouchedWhileInUse

IInv == UpdaterTypeOK /\ InPlace /\ Accounted /\ Alone /\ OldRecoverable /\ OutcomeIsTrue
-----------------------------------------------------------------------------

\* What goes on beside the updater: it touches no file, and no list of the updater.
Aside ==
  \/ HandoffReady \/ TakeHandoff \/ RevokeHandoff \/ UserExits \/ CloseWindow \/ PanelGone
  \/ HelperStarts \/ HelperEnds \/ VisitorStarts \/ VisitorEnds
  \/ ChildAcknowledges \/ ChildEnds

\* The updater comes to its end before, or without, a success.
Ends ==
  \/ HandoffFails \/ Crash \/ PrepareFails \/ HelpersOutlast \/ Unstoppable \/ RestoredAll

\* A step of the updater that moves on and touches no file.
Advances ==
  \/ OpenPanel \/ Stage \/ SeePanelExit \/ SeeHelpersExit \/ ReplaceFails \/ StartNew
  \/ Confirm \/ Unconfirmed \/ RemovedAll

Succeeds == Clean \/ CleanFails

LEMMA NextCases ==
  Next <=> \/ Aside \/ Ends \/ Advances \/ Succeeds
           \/ MoveOld \/ MoveNew \/ Remove \/ Restore
BY DEF Next, UpdaterStep, PanelStep, Environment, Aside, Ends, Advances, Succeeds

\* What a step beside the updater leaves alone, and what it can do at most.
LEMMA AsideStep ==
  ASSUME UpdaterTypeOK, Aside
  PROVE  /\ UNCHANGED <<original, install, staged, backup, captured, updater, at>>
         /\ UNCHANGED <<toRemove, toRestore, clean, verdict>>
         /\ markers \subseteq markers' /\ markers' \subseteq markers \cup {"startup-ok"}
         /\ panel = "Gone" => panel' = "Gone" /\ helpers' \subseteq helpers
         /\ Alive' = Alive
BY DEF UpdaterTypeOK, Aside, HandoffReady, TakeHandoff, RevokeHandoff, UserExits,
       CloseWindow, PanelGone, HelperStarts, HelperEnds, VisitorStarts, VisitorEnds,
       ChildAcknowledges, ChildEnds, files, leaving, rollback, others, Alive

\* An end touches no old file.
LEMMA EndsStep ==
  ASSUME UpdaterTypeOK, Ends
  PROVE  /\ UNCHANGED <<original, install, backup, toRemove, toRestore, clean, panel, helpers>>
         /\ updater' = "Over"
         /\ markers \subseteq markers' /\ markers' \subseteq markers \cup {"error"}
BY DEF UpdaterTypeOK, Ends, HandoffFails, Crash, PrepareFails, HelpersOutlast, Unstoppable,
       RestoredAll, End, files, leaving, rollback, others, Alive

\* Every variable keeps its type.
LEMMA TypeStep ==
  ASSUME UpdaterTypeOK, [Next]_vars
  PROVE  UpdaterTypeOK'
<1> USE ConstantsAssumption DEF Payload, PanelFile, Verdict, UpdaterTypeOK, Alive, files,
                                leaving, rollback, others, End
<1>1. CASE Aside
  <2>1. CASE HandoffReady
    BY <2>1 DEF HandoffReady
  <2>2. CASE TakeHandoff
    BY <2>2 DEF TakeHandoff
  <2>3. CASE RevokeHandoff
    BY <2>3 DEF RevokeHandoff
  <2>4. CASE UserExits
    BY <2>4 DEF UserExits
  <2>5. CASE CloseWindow
    BY <2>5 DEF CloseWindow
  <2>6. CASE PanelGone
    BY <2>6 DEF PanelGone
  <2>7. CASE HelperStarts
    BY <2>7 DEF HelperStarts
  <2>8. CASE HelperEnds
    BY <2>8 DEF HelperEnds
  <2>9. CASE VisitorStarts
    BY <2>9 DEF VisitorStarts
  <2>10. CASE VisitorEnds
    BY <2>10 DEF VisitorEnds
  <2>11. CASE ChildAcknowledges
    BY <2>11 DEF ChildAcknowledges
  <2>12. CASE ChildEnds
    BY <2>12 DEF ChildEnds
  <2> QED
    BY <1>1, <2>1, <2>2, <2>3, <2>4, <2>5, <2>6, <2>7, <2>8, <2>9, <2>10, <2>11, <2>12 DEF Aside
<1>2. CASE Ends
  <2>1. CASE HandoffFails
    BY <2>1 DEF HandoffFails
  <2>2. CASE Crash
    BY <2>2 DEF Crash
  <2>3. CASE PrepareFails
    BY <2>3 DEF PrepareFails
  <2>4. CASE HelpersOutlast
    BY <2>4 DEF HelpersOutlast
  <2>5. CASE Unstoppable
    BY <2>5 DEF Unstoppable
  <2>6. CASE RestoredAll
    BY <2>6 DEF RestoredAll
  <2> QED
    BY <1>2, <2>1, <2>2, <2>3, <2>4, <2>5, <2>6 DEF Ends
<1>3. CASE Advances
  <2>1. CASE OpenPanel
    BY <2>1 DEF OpenPanel
  <2>2. CASE Stage
    BY <2>2 DEF Stage
  <2>3. CASE SeePanelExit
    BY <2>3 DEF SeePanelExit
  <2>4. CASE SeeHelpersExit
    BY <2>4 DEF SeeHelpersExit
  <2>5. CASE ReplaceFails
    BY <2>5 DEF ReplaceFails
  <2>6. CASE StartNew
    BY <2>6 DEF StartNew
  <2>7. CASE Confirm
    BY <2>7 DEF Confirm
  <2>8. CASE Unconfirmed
    BY <2>8 DEF Unconfirmed
  <2>9. CASE RemovedAll
    BY <2>9 DEF RemovedAll
  <2> QED
    BY <1>3, <2>1, <2>2, <2>3, <2>4, <2>5, <2>6, <2>7, <2>8, <2>9 DEF Advances
<1>4. CASE Clean
  BY <1>4 DEF Clean
<1>10. CASE CleanFails
  <2>1. backup' \subseteq Payload
    BY <1>10 DEF CleanFails
  <2> QED
    BY <1>10, <2>1 DEF CleanFails
<1>5. CASE MoveOld
  <2>1. install' \in [Payload -> {"old", "new", "none"}]
    BY <1>5 DEF MoveOld
  <2>2. backup' \subseteq Payload /\ toRestore' \subseteq Payload
    BY <1>5 DEF MoveOld
  <2>3. /\ updater' = "MovesNew" /\ updater = "MovesOld"
        /\ UNCHANGED <<original, staged, markers, panel, leaves, handoff, helpers, captured>>
        /\ UNCHANGED <<at, toRemove, clean, child, visitor, visits, verdict>>
    BY <1>5 DEF MoveOld
  <2> QED
    BY <2>1, <2>2, <2>3
<1>6. CASE MoveNew
  <2>1. install' \in [Payload -> {"old", "new", "none"}]
    BY <1>6 DEF MoveNew
  <2>2. /\ staged' \subseteq Payload /\ toRemove' \subseteq Payload /\ at' \in Payload
        /\ updater' \in {"StartsNew", "MovesOld"} /\ updater = "MovesNew"
    BY <1>6 DEF MoveNew
  <2>3. /\ UNCHANGED <<original, backup, markers, panel, leaves, handoff, helpers, captured>>
        /\ UNCHANGED <<toRestore, clean, child, visitor, visits, verdict>>
    BY <1>6 DEF MoveNew
  <2> QED
    BY <2>1, <2>2, <2>3
<1>7. CASE Remove
  <2>1. PICK f \in toRemove : /\ toRemove' = toRemove \ {f}
                              /\ \/ install' = [install EXCEPT ![f] = "none"] /\ UNCHANGED clean
                                 \/ clean' = FALSE /\ UNCHANGED install
    BY <1>7 DEF Remove, Latest
  <2>2. install' \in [Payload -> {"old", "new", "none"}]
    BY <2>1
  <2>3. clean' \in BOOLEAN /\ toRemove' \subseteq Payload
    BY <2>1
  <2> QED
    BY <1>7, <2>2, <2>3 DEF Remove
<1>8. CASE Restore
  <2>1. PICK f \in toRestore : /\ toRestore' = toRestore \ {f}
                               /\ \/ /\ install' = [install EXCEPT ![f] = "old"]
                                     /\ backup' = backup \ {f}
                                     /\ UNCHANGED clean
                                  \/ clean' = FALSE /\ UNCHANGED <<install, backup>>
    BY <1>8 DEF Restore, Latest
  <2>2. install' \in [Payload -> {"old", "new", "none"}]
    BY <2>1
  <2>3. clean' \in BOOLEAN /\ toRestore' \subseteq Payload /\ backup' \subseteq Payload
    BY <2>1
  <2> QED
    BY <1>8, <2>2, <2>3 DEF Restore
<1>9. CASE UNCHANGED vars
  BY <1>9 DEF vars
<1> QED
  BY <1>1, <1>2, <1>3, <1>4, <1>5, <1>6, <1>7, <1>8, <1>9, <1>10, NextCases DEF Succeeds
-----------------------------------------------------------------------------

LEMMA InitInv ==
  Init => IInv
<1> USE ConstantsAssumption DEF Init, Payload, PanelFile, Alive, Original
<1> SUFFICES ASSUME Init PROVE IInv
  OBVIOUS
<1>1. UpdaterTypeOK
  BY DEF UpdaterTypeOK, Verdict
<1>2. InPlace /\ Alone
  BY DEF InPlace, Alone, UntouchedWhileInUse, Before, Confirming, RollingBack, Replacing
<1>3. Accounted /\ OldRecoverable /\ OutcomeIsTrue
  BY DEF Accounted, Expected, OldRecoverable, OutcomeIsTrue
<1> QED
  BY <1>1, <1>2, <1>3 DEF IInv

\* What the lists say is what lies there: nothing changed yet, or everything did.
LEMMA FilesKnown ==
  ASSUME IInv, Alive, clean
  PROVE  /\ toRemove = {} /\ toRestore = {} => install = Original
         /\ toRemove = Payload => AllNew
BY DEF IInv, UpdaterTypeOK, Accounted, Expected, Original, AllNew

\* Beside the updater: the files, the lists and its place stay, and nobody starts
\* a helper once the panel is gone.
LEMMA AsideInv ==
  ASSUME IInv, Aside
  PROVE  InPlace' /\ Accounted' /\ Alone' /\ OldRecoverable' /\ OutcomeIsTrue'
<1> USE AsideStep DEF IInv, Alive
<1>1. UpdaterTypeOK
  OBVIOUS
<1>2. InPlace'
  BY <1>1 DEF InPlace, Before, Confirming, RollingBack
<1>3. Accounted'
  BY <1>1 DEF Accounted, Expected, Original
<1>4. Alone'
  BY <1>1 DEF Alone, UntouchedWhileInUse, Original, Replacing, Confirming, RollingBack,
              UpdaterTypeOK
<1>5. OldRecoverable'
  BY <1>1 DEF OldRecoverable
<1>6. OutcomeIsTrue'
  BY <1>1 DEF OutcomeIsTrue, AllNew, Original
<1> QED
  BY <1>2, <1>3, <1>4, <1>5, <1>6

\* The end of the updater: what it says is read off its place and its lists.
LEMMA EndsInv ==
  ASSUME IInv, Ends
  PROVE  InPlace' /\ Accounted' /\ Alone' /\ OldRecoverable' /\ OutcomeIsTrue'
<1>1. UpdaterTypeOK
  BY DEF IInv
<1>2. InPlace' /\ Accounted'
  BY <1>1, EndsStep DEF InPlace, Accounted, Alive, Before, Confirming, RollingBack
<1>3. Alone'
  BY <1>1, EndsStep DEF IInv, Alone, UntouchedWhileInUse, Original, Replacing, Confirming,
                        RollingBack
<1>4. OldRecoverable' /\ OutcomeIsTrue'
  <2> USE <1>1, EndsStep DEF End, Alive, files, leaving, rollback, others
  <2>1. CASE HandoffFails
    BY <2>1 DEF HandoffFails, IInv, UpdaterTypeOK, OldRecoverable, OutcomeIsTrue, AllNew,
                Original
  <2>2. CASE Crash
    BY <2>2 DEF Crash, IInv, UpdaterTypeOK, OldRecoverable, OutcomeIsTrue
  <2>3. CASE PrepareFails \/ HelpersOutlast
    <3>1. updater \in Before
      BY <2>3 DEF PrepareFails, HelpersOutlast, Before
    <3>2. install = Original
      BY <3>1, FilesKnown DEF IInv, InPlace, Accounted, Before, RollingBack
    <3> QED
      BY <2>3, <3>1, <3>2 DEF PrepareFails, HelpersOutlast, Before, IInv, UpdaterTypeOK,
           OldRecoverable, OutcomeIsTrue, Original
  <2>4. CASE Unstoppable
    <3>1. updater = "Confirms"
      BY <2>4 DEF Unstoppable
    <3>2. AllNew /\ backup = original
      BY <3>1, FilesKnown DEF IInv, InPlace, Confirming, RollingBack
    <3> QED
      BY <2>4, <3>1, <3>2 DEF Unstoppable, IInv, UpdaterTypeOK, OldRecoverable,
           OutcomeIsTrue, AllNew
  <2>5. CASE RestoredAll
    <3>1. updater = "Restores" /\ toRestore = {}
      BY <2>5 DEF RestoredAll
    <3>2. clean => install = Original
      BY <3>1, FilesKnown DEF IInv, InPlace
    <3> QED
      BY <2>5, <3>1, <3>2 DEF RestoredAll, IInv, UpdaterTypeOK, OldRecoverable,
           OutcomeIsTrue, Original
  <2> QED
    BY <2>1, <2>2, <2>3, <2>4, <2>5 DEF Ends
<1> QED
  BY <1>2, <1>3, <1>4

\* A step of the updater that touches no file changes its place only.
LEMMA AdvancesStep ==
  ASSUME UpdaterTypeOK, Advances
  PROVE  /\ UNCHANGED <<original, install, backup, at, toRemove, toRestore, clean>>
         /\ UNCHANGED <<panel, helpers, verdict>>
         /\ Alive /\ Alive'
         /\ markers' \in {markers, markers \cup {"ready"}}
BY DEF UpdaterTypeOK, Advances, OpenPanel, Stage, SeePanelExit, SeeHelpersExit,
       ReplaceFails, StartNew, Confirm, Unconfirmed, RemovedAll, files, leaving, rollback,
       others, Alive

LEMMA AdvancesInv ==
  ASSUME IInv, Advances
  PROVE  InPlace' /\ Accounted' /\ Alone' /\ OldRecoverable' /\ OutcomeIsTrue'
<1>1. UpdaterTypeOK
  BY DEF IInv
<1>2. Accounted' /\ OldRecoverable' /\ OutcomeIsTrue'
  BY <1>1, AdvancesStep DEF IInv, Accounted, Expected, Original, OldRecoverable,
                            OutcomeIsTrue, AllNew
<1>3. UntouchedWhileInUse'
  BY <1>1, AdvancesStep DEF IInv, Alone, UntouchedWhileInUse, Original
<1>4. InPlace' /\ Alone'
  <2> USE <1>1, <1>3, AdvancesStep DEF InPlace, Alone, Before, Confirming, RollingBack,
                                       Replacing, Alive
  <2>1. InPlace /\ Alone
    BY DEF IInv
  <2>2. CASE OpenPanel
    BY <2>1, <2>2 DEF OpenPanel
  <2>3. CASE Stage
    BY <2>1, <2>3 DEF Stage
  <2>4. CASE SeePanelExit
    BY <2>1, <2>4 DEF SeePanelExit
  <2>5. CASE SeeHelpersExit
    BY <2>1, <2>5 DEF SeeHelpersExit
  <2>6. CASE ReplaceFails
    BY <2>1, <2>6 DEF ReplaceFails
  <2>7. CASE StartNew
    BY <2>1, <2>7 DEF StartNew
  <2>8. CASE Confirm
    BY <2>1, <2>8 DEF Confirm
  <2>9. CASE Unconfirmed
    BY <2>1, <2>9 DEF Unconfirmed
  <2>10. CASE RemovedAll
    BY <2>1, <2>10 DEF RemovedAll
  <2> QED
    BY <2>2, <2>3, <2>4, <2>5, <2>6, <2>7, <2>8, <2>9, <2>10 DEF Advances
<1> QED
  BY <1>2, <1>4

LEMMA SucceedsInv ==
  ASSUME IInv, Succeeds
  PROVE  InPlace' /\ Accounted' /\ Alone' /\ OldRecoverable' /\ OutcomeIsTrue'
<1> USE DEF Succeeds, Clean, CleanFails, End, files, leaving, rollback, others, Alive
<1>1. updater = "Cleans" /\ updater' = "Over"
  OBVIOUS
<1>2. AllNew /\ "startup-ok" \in markers
  BY <1>1, FilesKnown DEF IInv, InPlace, Confirming, RollingBack
<1>3. InPlace' /\ Accounted' /\ OldRecoverable'
  BY <1>1 DEF InPlace, Accounted, OldRecoverable, Before, Confirming, RollingBack
<1>4. Alone'
  BY <1>1 DEF IInv, Alone, UntouchedWhileInUse, Original, Replacing, Confirming, RollingBack
<1>5. OutcomeIsTrue'
  BY <1>1, <1>2 DEF IInv, UpdaterTypeOK, OutcomeIsTrue, AllNew
<1> QED
  BY <1>3, <1>4, <1>5

\* The lists stay true as the files of the payload change places one by one.
LEMMA RenamesInv ==
  ASSUME IInv, MoveOld \/ MoveNew \/ Remove \/ Restore
  PROVE  InPlace' /\ Accounted' /\ Alone' /\ OldRecoverable' /\ OutcomeIsTrue'
<1> USE ConstantsAssumption DEF files, leaving, rollback, others, Payload, Alive
<1>1. UpdaterTypeOK
  BY DEF IInv
<1>2. Alone' /\ OutcomeIsTrue'
  BY <1>1 DEF IInv, UpdaterTypeOK, Alone, UntouchedWhileInUse, OutcomeIsTrue, Replacing,
       Confirming, RollingBack, MoveOld, MoveNew, Remove, Restore, Original, AllNew
<1>3. CASE MoveOld
  <2>1. /\ updater = "MovesOld" /\ updater' = "MovesNew" /\ clean /\ clean' /\ at \in Nat \ {0}
        /\ UNCHANGED <<original, at, toRemove, markers, verdict>>
        /\ toRemove = 1..(at-1) /\ backup = original \cap (1..(at-1)) /\ toRestore = backup
    BY <1>1, <1>3 DEF MoveOld, IInv, InPlace, Accounted, UpdaterTypeOK, RollingBack
  <2>2. install[at] = IF at \in original THEN "old" ELSE "none"
    BY <1>1, <2>1 DEF IInv, Accounted, Expected, Original, UpdaterTypeOK
  <2>3. /\ backup' = original \cap (1..at) /\ toRestore' = backup'
        /\ install' = [install EXCEPT ![at] = "none"]
    <3>1. (1..at) = (1..(at-1)) \cup {at}
      BY <2>1
    <3>2. CASE at \in original
      BY <1>3, <2>1, <2>2, <3>1, <3>2 DEF MoveOld
    <3>3. CASE at \notin original
      <4>1. UNCHANGED <<install, backup, toRestore>>
        BY <1>3, <2>2, <3>3 DEF MoveOld
      <4>2. install = [install EXCEPT ![at] = "none"]
        BY <1>1, <2>2, <3>3 DEF UpdaterTypeOK
      <4> QED
        BY <2>1, <3>1, <3>3, <4>1, <4>2
    <3> QED
      BY <3>2, <3>3
  <2>4. InPlace'
    BY <2>1, <2>3 DEF InPlace, Before, Confirming, RollingBack
  <2>5. \A f \in Payload : install'[f] = Expected(f)'
    BY <1>1, <2>1, <2>2, <2>3 DEF IInv, Accounted, Expected, Original, UpdaterTypeOK
  <2>6. Accounted' /\ OldRecoverable'
    BY <1>1, <2>1, <2>3, <2>5 DEF IInv, Accounted, OldRecoverable, UpdaterTypeOK
  <2> QED
    BY <1>2, <2>4, <2>6
<1>4. CASE MoveNew
  <2>1. /\ updater = "MovesNew" /\ clean /\ clean' /\ at \in 1..LastFile
        /\ UNCHANGED <<original, backup, toRestore, markers, verdict>>
        /\ toRemove = 1..(at-1) /\ backup = original \cap (1..at) /\ toRestore = backup
    BY <1>1, <1>4 DEF MoveNew, IInv, InPlace, Accounted, UpdaterTypeOK, RollingBack
  <2>2. /\ toRemove' = 1..at /\ install' = [install EXCEPT ![at] = "new"]
    BY <1>4, <2>1 DEF MoveNew
  <2>3. InPlace'
    <3> USE DEF InPlace, Before, Confirming, RollingBack
    <3>1. CASE at = LastFile
      <4>1. updater' = "StartsNew" /\ toRemove' = Payload /\ backup = original
        BY <1>1, <1>4, <2>1, <2>2, <3>1 DEF MoveNew, UpdaterTypeOK
      <4> QED
        BY <2>1, <4>1
    <3>2. CASE at # LastFile
      <4>1. updater' = "MovesOld" /\ at' = at + 1 /\ at' - 1 = at
        BY <1>4, <2>1, <3>2 DEF MoveNew
      <4> QED
        BY <2>1, <2>2, <4>1
    <3> QED
      BY <3>1, <3>2
  <2>4. \A f \in Payload : install'[f] = Expected(f)'
    BY <1>1, <2>1, <2>2 DEF IInv, Accounted, Expected, Original, UpdaterTypeOK
  <2>5. Accounted' /\ OldRecoverable'
    BY <1>1, <2>1, <2>2, <2>4 DEF IInv, Accounted, OldRecoverable, UpdaterTypeOK
  <2> QED
    BY <1>2, <2>3, <2>5
<1>5. CASE Remove
  <2>1. PICK f \in toRemove :
          /\ toRemove' = toRemove \ {f}
          /\ \/ install' = [install EXCEPT ![f] = "none"] /\ UNCHANGED clean
             \/ clean' = FALSE /\ UNCHANGED install
    BY <1>5 DEF Remove, Latest
  <2>2. /\ updater = "Removes" /\ updater' = "Removes"
        /\ UNCHANGED <<original, backup, toRestore, markers, verdict>>
    BY <1>5 DEF Remove
  <2>3. InPlace'
    BY <2>2 DEF InPlace, Before, Confirming, RollingBack
  <2>4. clean' => \A g \in Payload : install'[g] = Expected(g)'
    BY <1>1, <2>1, <2>2 DEF IInv, Accounted, Expected, Original, UpdaterTypeOK
  <2>5. Accounted' /\ OldRecoverable'
    BY <1>1, <2>1, <2>2, <2>4 DEF IInv, Accounted, OldRecoverable, UpdaterTypeOK
  <2> QED
    BY <1>2, <2>3, <2>5
<1>6. CASE Restore
  <2>1. PICK f \in toRestore :
          /\ toRestore' = toRestore \ {f}
          /\ \/ /\ install' = [install EXCEPT ![f] = "old"] /\ backup' = backup \ {f}
                /\ UNCHANGED clean
             \/ clean' = FALSE /\ UNCHANGED <<install, backup>>
    BY <1>6 DEF Restore, Latest
  <2>2. /\ updater = "Restores" /\ updater' = "Restores"
        /\ UNCHANGED <<original, toRemove, markers, verdict>> /\ toRemove = {}
    BY <1>6 DEF Restore, IInv, InPlace
  <2>3. InPlace'
    BY <2>2 DEF InPlace, Before, Confirming, RollingBack
  <2>4. ASSUME clean', NEW g \in Payload
        PROVE  install'[g] = Expected(g)'
    <3>1. /\ clean /\ f \in original /\ install' = [install EXCEPT ![f] = "old"]
          /\ install[g] = IF g \in toRestore THEN "none" ELSE Original[g]
      BY <1>1, <2>1, <2>2, <2>4 DEF IInv, Accounted, Expected
    <3>2. CASE g = f
      BY <1>1, <2>1, <2>2, <3>1, <3>2 DEF Expected, Original, UpdaterTypeOK
    <3>3. CASE g # f
      BY <1>1, <2>1, <2>2, <3>1, <3>3 DEF Expected, Original, UpdaterTypeOK
    <3> QED
      BY <3>2, <3>3
  <2>5. toRestore \subseteq backup /\ (clean => toRestore = backup) /\ backup \subseteq original
    BY <2>2 DEF IInv, Accounted
  <2>6. Accounted'
    BY <2>1, <2>2, <2>4, <2>5 DEF Accounted
  <2>7. OldRecoverable'
    BY <1>1, <2>1, <2>2 DEF IInv, OldRecoverable, UpdaterTypeOK
  <2> QED
    BY <1>2, <2>3, <2>6, <2>7
<1> QED
  BY <1>3, <1>4, <1>5, <1>6

LEMMA InvStep ==
  IInv /\ [Next]_vars => IInv'
<1> SUFFICES ASSUME IInv, [Next]_vars PROVE IInv'
  OBVIOUS
<1>1. UpdaterTypeOK'
  BY TypeStep DEF IInv
<1>2. CASE UNCHANGED vars
  BY <1>1, <1>2 DEF vars, files, leaving, rollback, others, IInv, InPlace, Accounted, Alone,
       Expected, Original, AllNew, OldRecoverable, OutcomeIsTrue, UntouchedWhileInUse, Alive
<1> QED
  BY <1>1, <1>2, NextCases, AsideInv, EndsInv, AdvancesInv, SucceedsInv, RenamesInv DEF IInv

LEMMA Inductive ==
  Spec => []IInv
BY InitInv, InvStep, PTL DEF Spec
-----------------------------------------------------------------------------

\* Every variable of the update keeps its type, whatever the payload's length.
THEOREM UpdaterTypeCorrect ==
  Spec => []UpdaterTypeOK
<1>1. IInv => UpdaterTypeOK
  BY DEF IInv
<1> QED
  BY <1>1, Inductive, PTL

\* No file is touched while the panel or one of its helpers runs.
THEOREM NeverTouchedInUse ==
  Spec => []UntouchedWhileInUse
<1>1. IInv => UntouchedWhileInUse
  BY DEF IInv, Alone
<1> QED
  BY <1>1, Inductive, PTL

\* However the update is cut short, every old file is in its place or in the backup.
THEOREM AlwaysRecoverable ==
  Spec => []OldRecoverable
<1>1. IInv => OldRecoverable
  BY DEF IInv
<1> QED
  BY <1>1, Inductive, PTL

\* What the updater says of its end is true of the files.
THEOREM OutcomeTrue ==
  Spec => []OutcomeIsTrue
<1>1. IInv => OutcomeIsTrue
  BY DEF IInv
<1> QED
  BY <1>1, Inductive, PTL
=============================================================================
