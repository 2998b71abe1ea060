---------------------------- MODULE ConsentFlow ----------------------------
(***************************************************************************)
(* From a click to a write: the panel's native dialog slot (apps/panel/src/ *)
(* app.rs, confirm_and_prepare and drive_native_dialogs) in front of the   *)
(* controller of PlanLifecycle.  A click sends the prepare command and     *)
(* opens the confirmation box at once; a dialog thread takes the answer,   *)
(* waits a bounded time for a plan of that action's tag to be published,   *)
(* and sends the plan's ConfirmAction or CancelAction.                     *)
(*                                                                         *)
(* UI, dialog thread and runner share a bounded command queue and a watch  *)
(* channel of snapshots.  The runner takes commands only between scans and *)
(* publishes after each step, so the UI may see the state before it.       *)
(***************************************************************************)
EXTENDS PlanLifecycle, Sequences

CONSTANTS
  TagOf,             \* ActionKindTag: what a published plan shows of its action
  PreparedPlanWait,  \* PREPARED_PLAN_WAIT, in clock units
  QueueCapacity,     \* COMMAND_QUEUE_CAPACITY
  MaxClicks          \* bound on the repair buttons pressed

ASSUME ConsentAssumption ==
  /\ DOMAIN TagOf = Action
  /\ PreparedPlanWait \in Nat
  /\ QueueCapacity \in Nat \ {0}
  /\ MaxClicks \in Nat

VARIABLES
  queue,      \* the command channel from the panel to the runner
  dirty,      \* the runner has made a step it has not published yet
  published,  \* the snapshot on the watch channel
  box,        \* the dialog slot (dialog_busy) and the thread that owns it
  unseen,     \* has_changed of the dialog thread's receiver
  dialoged,   \* dialoged_result
  clicks,
  planAction, \* history: the action of each plan
  consent,    \* history: the confirmations sent, with the action the box showed
  resultBoxes \* history: result boxes opened for each operation

ui == <<queue, dirty, published, box, unseen, dialoged, clicks, consent, resultBoxes>>
consentVars == <<vars, ui, planAction>>

Command == [kind : {"Prepare"}, action : Action]
           \cup [kind : {"Confirm", "Cancel"}, id : PlanId]
           \cup [kind : {"Dismiss"}, id : OperationId]

NoBox == [state |-> "None"]
Box == {NoBox}
       \cup [state : {"Asking"}, action : Action, previous : PlanId \cup {0}]
       \cup [state : {"Waiting"}, action : Action, previous : PlanId \cup {0},
             yes : BOOLEAN, deadline : Nat]
       \cup [state : {"Result"}, operation : OperationId]

\* try_send of a bounded channel: a full queue drops the command.
TrySend(command) ==
  queue' = IF Len(queue) < QueueCapacity THEN Append(queue, command) ELSE queue

ConsentInit ==
  /\ Init
  /\ queue = <<>> /\ dirty = FALSE
  /\ published = [prepared |-> NoPlan, operation |-> NoOperation]
  /\ box = NoBox /\ unseen = FALSE /\ dialoged = 0 /\ clicks = 0
  /\ planAction = [p \in PlanId |-> "None"]
  /\ consent = {}
  /\ resultBoxes = [o \in OperationId |-> 0]

-----------------------------------------------------------------------------
(* The panel and its dialog thread *)

\* confirm_and_prepare: claim the slot, remember the plan published so far, send
\* the prepare and open the box.  With a full queue no box is shown.  The button is
\* enabled by a snapshot that may be old, so the controller may have to refuse.
ClickAction(a) ==
  /\ box = NoBox /\ clicks < MaxClicks
  /\ Len(queue) < QueueCapacity
  /\ TrySend([kind |-> "Prepare", action |-> a])
  /\ box' = [state |-> "Asking", action |-> a, previous |-> published.prepared.id]
  /\ unseen' = FALSE
  /\ clicks' = clicks + 1
  /\ UNCHANGED <<vars, dirty, published, dialoged, planAction, consent, resultBoxes>>

\* The user answers the box; the wait for the plan starts only now.
AnswerBox(yes) ==
  /\ box.state = "Asking" /\ clock + PreparedPlanWait <= MaxClock
  /\ box' = [state |-> "Waiting", action |-> box.action, previous |-> box.previous,
             yes |-> yes, deadline |-> clock + PreparedPlanWait]
  /\ UNCHANGED <<vars, queue, dirty, published, unseen, dialoged, clicks, planAction,
                 consent, resultBoxes>>

\* Mutant: any awaiting plan is taken for the one this click prepared.
PlanAppeared_AnyTag ==
  /\ unseen
  /\ published.prepared.state = "Awaiting" /\ published.prepared.id # box.previous

\* wait_for_prepared_plan: a plan of the tag, awaiting, and not the one before.
PlanAppeared ==
  /\ unseen
  /\ published.prepared.state = "Awaiting" /\ published.prepared.id # box.previous
  /\ TagOf[published.prepared.action] = TagOf[box.action]

\* The answer becomes a command for the plan that appeared.
SendAnswer ==
  /\ box.state = "Waiting" /\ PlanAppeared
  /\ LET id == published.prepared.id
     IN  /\ TrySend([kind |-> IF box.yes THEN "Confirm" ELSE "Cancel", id |-> id])
         /\ consent' = IF box.yes THEN consent \cup {[plan |-> id, action |-> box.action]}
                       ELSE consent
  /\ box' = NoBox /\ unseen' = FALSE
  /\ UNCHANGED <<vars, dirty, published, dialoged, clicks, planAction, resultBoxes>>

\* A publication without such a plan: keep waiting.
LookAgain ==
  /\ box.state = "Waiting" /\ unseen /\ ~PlanAppeared
  /\ clock < box.deadline
  /\ unseen' = FALSE
  /\ UNCHANGED <<vars, queue, dirty, published, box, dialoged, clicks, planAction,
                 consent, resultBoxes>>

\* Mutant: the wait has no end.
GiveUp_Never == FALSE /\ UNCHANGED consentVars

\* The bounded wait expires: the answer is dropped and the slot freed.
GiveUp ==
  /\ box.state = "Waiting" /\ ~PlanAppeared
  /\ clock >= box.deadline
  /\ box' = NoBox /\ unseen' = FALSE
  /\ UNCHANGED <<vars, queue, dirty, published, dialoged, clicks, planAction, consent,
                 resultBoxes>>

\* Mutant: the operation whose box was shown is not remembered.
ShowResult_Forgets ==
  /\ box = NoBox
  /\ published.operation.state \notin {"None", "Running"}
  /\ published.operation.id # dialoged
  /\ box' = [state |-> "Result", operation |-> published.operation.id]
  /\ resultBoxes' = [resultBoxes EXCEPT ![published.operation.id] = @ + 1]
  /\ UNCHANGED <<vars, queue, dirty, published, unseen, dialoged, clicks, planAction,
                 consent>>

\* drive_native_dialogs: one result box for each finished operation.
ShowResult ==
  /\ box = NoBox
  /\ published.operation.state \notin {"None", "Running"}
  /\ published.operation.id # dialoged
  /\ dialoged' = published.operation.id
  /\ box' = [state |-> "Result", operation |-> published.operation.id]
  /\ resultBoxes' = [resultBoxes EXCEPT ![published.operation.id] = @ + 1]
  /\ UNCHANGED <<vars, queue, dirty, published, unseen, clicks, planAction, consent>>

\* drive_native_dialogs: no operation on screen, no result remembered.
ForgetResult ==
  /\ box = NoBox
  /\ published.operation = NoOperation /\ dialoged # 0
  /\ dialoged' = 0
  /\ UNCHANGED <<vars, queue, dirty, published, box, unseen, clicks, planAction, consent,
                 resultBoxes>>

CloseResult ==
  /\ box.state = "Result"
  /\ TrySend([kind |-> "Dismiss", id |-> box.operation])
  /\ box' = NoBox
  /\ UNCHANGED <<vars, dirty, published, unseen, dialoged, clicks, planAction, consent,
                 resultBoxes>>

-----------------------------------------------------------------------------
(* The runner *)

\* handle_command: a command the controller refuses changes nothing.
HandlePrepare(a) ==
  \/ /\ PrepareAction(a)
     /\ planAction' = [planAction EXCEPT ![nextPlan] = a]
  \/ /\ ~Preparable(a) \/ ~PlanFits
     /\ UNCHANGED <<vars, planAction>>

HandleConfirm(id) ==
  /\ \/ ConfirmInvalidates(id)
     \/ ConfirmAction(id)
     \/ ~Confirmable(id) /\ UNCHANGED vars
  /\ UNCHANGED planAction

HandleCancel(id) ==
  /\ CancelAction(id) \/ (prepared.id # id /\ UNCHANGED vars)
  /\ UNCHANGED planAction

HandleDismiss(id) ==
  /\ DismissOperation(id) \/ (operation.id # id /\ UNCHANGED vars)
  /\ UNCHANGED planAction

HandleCommand ==
  /\ ~scanning /\ ~dirty /\ queue # <<>>
  /\ LET command == Head(queue)
     IN  \/ command.kind = "Prepare" /\ HandlePrepare(command.action)
         \/ command.kind = "Confirm" /\ HandleConfirm(command.id)
         \/ command.kind = "Cancel" /\ HandleCancel(command.id)
         \/ command.kind = "Dismiss" /\ HandleDismiss(command.id)
  /\ queue' = Tail(queue) /\ dirty' = TRUE
  /\ UNCHANGED <<published, box, unseen, dialoged, clicks, consent, resultBoxes>>

\* Its other steps: the executor's result, a scan and its stages, other jobs.
RunnerStep ==
  /\ ~dirty
  /\ PollOperationCompletion \/ Refresh \/ Others \/ (\E g \in Ground : SetActiveProbe(g))
  /\ dirty' = TRUE
  /\ UNCHANGED <<queue, published, box, unseen, dialoged, clicks, planAction, consent,
                 resultBoxes>>

Publish ==
  /\ dirty
  /\ dirty' = FALSE
  /\ published' = [prepared |-> prepared, operation |-> operation]
  /\ unseen' = (box.state \in {"Asking", "Waiting"})
  /\ UNCHANGED <<vars, queue, box, dialoged, clicks, planAction, consent, resultBoxes>>

\* Nothing of this passes through the queue.
Outside ==
  /\ Executor \/ RequestRefresh
  /\ UNCHANGED <<ui, planAction>>

\* A clock unit is seconds, the runner's loop takes milliseconds: time passes only
\* while it scans or has nothing to handle and nothing to publish.
TimePasses ==
  /\ Tick
  /\ ~dirty /\ (scanning \/ queue = <<>>)
  /\ UNCHANGED <<ui, planAction>>

-----------------------------------------------------------------------------

DialogThread == SendAnswer \/ LookAgain \/ GiveUp

Panel ==
  \/ \E a \in Action : ClickAction(a)
  \/ \E yes \in BOOLEAN : AnswerBox(yes)
  \/ ShowResult \/ ForgetResult \/ CloseResult

ConsentNext == Panel \/ DialogThread \/ HandleCommand \/ RunnerStep \/ Publish
               \/ Outside \/ TimePasses

\* The dialog thread polls every 5 ms and the runner publishes what it did.  Its
\* loop takes a command each time round, whatever else it does in between, and
\* time passes whether it scans or idles: strong fairness for these two.
ConsentFairness ==
  /\ WF_consentVars(DialogThread) /\ WF_consentVars(Publish)
  /\ SF_consentVars(HandleCommand) /\ SF_consentVars(TimePasses)

ConsentSpec == ConsentInit /\ [][ConsentNext]_consentVars
FairConsentSpec == ConsentSpec /\ ConsentFairness

-----------------------------------------------------------------------------
(* Properties *)

ConsentTypeOK ==
  /\ TypeOK
  /\ queue \in Seq(Command) /\ Len(queue) <= QueueCapacity
  /\ dirty \in BOOLEAN /\ unseen \in BOOLEAN
  /\ box \in Box
  /\ dialoged \in OperationId \cup {0}

\* What is written is what the user agreed to: for every executed plan there was
\* a box that showed this very action and was answered yes.
ConsentIsForThisAction ==
  \A p \in PlanId : executed[p] > 0 => [plan |-> p, action |-> planAction[p]] \in consent

\* The result of an operation is shown in one box only, however late the
\* runner handles its dismissal.
ResultShownOnce == \A o \in OperationId : resultBoxes[o] <= 1

\* An answered box never keeps the dialog slot: without a plan the wait ends.
DialogSlotFreed == box.state = "Waiting" ~> box.state # "Waiting"
=============================================================================
