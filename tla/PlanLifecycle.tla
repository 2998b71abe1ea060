--------------------------- MODULE PlanLifecycle ---------------------------
(***************************************************************************)
(* The controlled-repair core of the panel: one Controller owned by the    *)
(* runner thread (crates/application/src/controller.rs), the executor      *)
(* thread it spawns for a confirmed plan, and the runner's scan of the     *)
(* device (crates/application/src/monitor.rs, run_refresh), which is the   *)
(* only source of new evidence.                                            *)
(*                                                                         *)
(* A user prepares an action against the evidence on screen, confirms it   *)
(* within the plan's lifetime, and the plan is consumed exactly once; the  *)
(* write itself happens on another thread.  Everything a handler reads is  *)
(* state of the runner thread, so one handler is one step; what interleaves*)
(* is time, the executor thread, the scan's stages and the user.           *)
(*                                                                         *)
(* The reducer's evidence is kept as the four facts a plan depends on: the *)
(* evidence revision, the device epoch, the proven target and the "ground",*)
(* that is whatever else enters the before-state hash (adapter, network,   *)
(* hotspot).  Two grounds are equal exactly when their hashes are.         *)
(***************************************************************************)
EXTENDS Integers

CONSTANTS
  Action,        \* the modeled ActionKinds other than Refresh
  Ground,        \* before-state material besides epoch and target
  ReadyOn,       \* ReadyOn[a]: the grounds on which a's own stage checks pass
  Target,        \* device identities the inventory can prove
  Writable,      \* those whose profile allows_controlled_actions
  NoTarget,
  PlanLifetime,  \* PLAN_LIFETIME, in clock units
  EvidenceTTL,   \* EVIDENCE_TTL, in clock units
  MaxClock,      \* bound on the wall clock
  MaxEpoch,      \* bound on DeviceEpoch
  MaxRevision,   \* bound on evidence_revision
  MaxPlans,      \* bound on the plan ids handed out
  MaxJobs        \* bound on the host and serial jobs started besides repairs

ASSUME ConstantsAssumption ==
  /\ ReadyOn \in [Action -> SUBSET Ground]
  /\ Writable \subseteq Target
  /\ NoTarget \notin Target
  /\ PlanLifetime \in Nat
  /\ EvidenceTTL \in Nat
  /\ MaxClock \in Nat
  /\ MaxEpoch \in Nat \ {0}
  /\ MaxRevision \in Nat
  /\ MaxPlans \in Nat
  /\ MaxJobs \in Nat

VARIABLES
  clock,       \* the controller's wall clock
  evidence,    \* ReducerState, reduced to what a plan depends on
  scanning,    \* the runner is inside run_refresh
  signal,      \* RefreshSignal.requested: the user asked for a refresh
  deferred,    \* ControllerRunner.refresh_deferred
  hostJob,     \* host_work_busy
  serialJob,   \* an SMS, tool or delete job of serial_work_busy
  jobs,        \* how many of those jobs have been started
  prepared,    \* Controller.prepared
  nextPlan,    \* the id next_plan_id hands out next
  consumed,    \* Controller.consumed_plans
  operation,   \* Controller.operation
  nextOperation,
  pending,     \* operation_pending: the operation whose channel is held, or 0
  worker,      \* the executor thread of each operation
  executed,    \* history: calls of execute_once for each plan
  moved        \* history: target or ground changed since the plan was prepared

device == <<evidence, scanning, signal, deferred>>
outside == <<hostJob, serialJob, jobs>>
plan == <<prepared, nextPlan, consumed>>
execution == <<operation, nextOperation, pending, worker, executed>>
vars == <<clock, device, outside, plan, execution, moved>>

PlanId == 1..MaxPlans
OperationId == 1..MaxPlans    \* every operation consumes a plan

\* What execute_once can answer: a receipt, or a PortError.
Receipt == {"Applied", "AppliedUnproven", "Failed", "Unknown"}
Error == {"Timeout", "OtherError"}

\* PreparedActionState: awaiting, or invalidated for a reason.
Reason == {"Expired", "DeviceRemoved", "SnapshotChanged", "EpochChanged",
           "TargetChanged", "BeforeStateChanged"}
PlanRecord ==
  [id : PlanId, action : Action, revision : Nat, epoch : Nat, target : Target,
   ground : Ground, expires : Nat, state : {"Awaiting"} \cup Reason]
NoPlan == [id |-> 0, state |-> "None"]

OperationRecord == [id : OperationId, plan : PlanId,
                    state : {"Running", "Applied", "Failed", "OutcomeUnknown"}]
NoOperation == [id |-> 0, state |-> "None"]

Evidence == [revision : Nat, epoch : Nat, target : Target \cup {NoTarget},
             ground : Ground, observed : Nat]

-----------------------------------------------------------------------------
(* Predicates of the Controller *)

Awaiting == prepared.state = "Awaiting"
Running == operation.state = "Running"

\* Mutant: the plan's own expiry does not end the interaction.
InteractionInFlight_UntilAnswered == Awaiting \/ Running

\* interaction_in_flight: a live plan awaits its answer, or a write is running.
InteractionInFlight == (Awaiting /\ clock <= prepared.expires) \/ Running

\* Mutant: the operation is forgotten among the serial owners.
SerialWorkBusy_ForgetsOperation == serialJob

\* serial_work_busy, except for the network check, which only runs in a scan.
SerialWorkBusy == serialJob \/ pending # 0 \/ Running

\* Mutant: the target's age is not looked at.
TargetFresh_AnyAge == evidence.target # NoTarget

\* is_fresh_for: same epoch (evidence of an old one is cleared) and within TTL.
TargetFresh == evidence.target # NoTarget /\ clock - evidence.observed <= EvidenceTTL

\* action_prerequisite: a fresh target the panel may write to, and the stages
\* this action depends on passed.
ActionPrerequisite(a) ==
  /\ TargetFresh
  /\ evidence.target \in Writable
  /\ evidence.ground \in ReadyOn[a]

\* Mutant: the frozen evidence revision is not compared.
Verdict_NoRevision(p) ==
  IF clock > p.expires THEN "Expired"
  ELSE IF evidence.target # p.target THEN "TargetChanged"
  ELSE IF evidence.ground # p.ground THEN "BeforeStateChanged"
  ELSE "Valid"

\* The checks of revalidate_and_consume and validate_for_execution, in order:
\* the first that fails names the reason.
Verdict(p) ==
  IF clock > p.expires THEN "Expired"
  ELSE IF evidence.target = NoTarget THEN "DeviceRemoved"
  ELSE IF evidence.target \notin Writable THEN "TargetChanged"
  ELSE IF evidence.revision # p.revision THEN "SnapshotChanged"
  ELSE IF evidence.epoch # p.epoch THEN "EpochChanged"
  ELSE IF evidence.target # p.target THEN "TargetChanged"
  ELSE IF evidence.ground # p.ground THEN "BeforeStateChanged"
  ELSE "Valid"

\* map_execution: only a receipt with an after-state hash is Applied, and what
\* may have been written without proof is OutcomeUnknown.
MapExecution(r) ==
  IF r = "Applied" THEN "Applied"
  ELSE IF r \in {"AppliedUnproven", "Unknown", "Timeout"} THEN "OutcomeUnknown"
  ELSE "Failed"

-----------------------------------------------------------------------------
(* The initial state: nothing observed, nothing prepared *)

Init ==
  /\ clock = 0
  /\ \E g \in Ground :
       evidence = [revision |-> 0, epoch |-> 0, target |-> NoTarget,
                   ground |-> g, observed |-> 0]
  /\ scanning = FALSE /\ signal = FALSE /\ deferred = FALSE
  /\ hostJob = FALSE /\ serialJob = FALSE /\ jobs = 0
  /\ prepared = NoPlan /\ nextPlan = 1 /\ consumed = {}
  /\ operation = NoOperation /\ nextOperation = 1 /\ pending = 0
  /\ worker = [o \in OperationId |-> "None"]
  /\ executed = [p \in PlanId |-> 0]
  /\ moved = FALSE

-----------------------------------------------------------------------------
(* Commands, handled by the runner between two scans *)

\* What prepare_action and the arm that calls it refuse otherwise.
Preparable(a) ==
  /\ ~hostJob /\ ~SerialWorkBusy /\ ~Awaiting
  /\ ActionPrerequisite(a)

\* The bounds: an id is left, and the plan's whole lifetime fits under MaxClock.
PlanFits == nextPlan <= MaxPlans /\ clock + PlanLifetime < MaxClock

\* prepare_action: one plan at a time, frozen on the evidence it was read from.
PrepareAction(a) ==
  /\ ~scanning /\ Preparable(a)
  /\ PlanFits
  /\ prepared' = [id |-> nextPlan, action |-> a,
                  revision |-> evidence.revision, epoch |-> evidence.epoch,
                  target |-> evidence.target, ground |-> evidence.ground,
                  expires |-> clock + PlanLifetime, state |-> "Awaiting"]
  /\ nextPlan' = nextPlan + 1
  /\ moved' = FALSE
  /\ UNCHANGED <<clock, device, outside, consumed, execution>>

\* A confirmation reaches revalidation when nothing else holds the device.
Confirmable(id) ==
  /\ ~hostJob /\ ~SerialWorkBusy
  /\ prepared.id = id /\ Awaiting

\* revalidate_and_consume refuses: the plan is invalidated in place.
ConfirmInvalidates(id) ==
  /\ ~scanning /\ Confirmable(id)
  /\ Verdict(prepared) # "Valid"
  /\ prepared' = [prepared EXCEPT !.state = Verdict(prepared)]
  /\ UNCHANGED <<clock, device, outside, nextPlan, consumed, execution, moved>>

\* begin_confirmation: consume the plan, open the operation and spawn the
\* executor thread.  A thread that cannot be spawned finishes it as Failed.
ConfirmAction(id) ==
  /\ ~scanning /\ Confirmable(id)
  /\ Verdict(prepared) = "Valid"
  /\ nextOperation \in OperationId
  /\ prepared' = NoPlan
  /\ consumed' = consumed \cup {id}
  /\ nextOperation' = nextOperation + 1
  /\ \/ /\ operation' = [id |-> nextOperation, plan |-> id, state |-> "Running"]
        /\ pending' = nextOperation
        /\ worker' = [worker EXCEPT ![nextOperation] = "Running"]
        /\ executed' = [executed EXCEPT ![id] = @ + 1]
     \/ /\ operation' = [id |-> nextOperation, plan |-> id, state |-> "Failed"]
        /\ UNCHANGED <<pending, worker, executed>>
  /\ UNCHANGED <<clock, device, outside, nextPlan, moved>>

\* cancel_action: the plan is dropped, whatever its state.
CancelAction(id) ==
  /\ ~scanning
  /\ prepared.id = id /\ prepared # NoPlan
  /\ prepared' = NoPlan
  /\ UNCHANGED <<clock, device, outside, nextPlan, consumed, execution, moved>>

\* dismiss_operation: whatever the state of the operation it names.
DismissOperation(id) ==
  /\ ~scanning
  /\ operation.id = id /\ operation # NoOperation
  /\ operation' = NoOperation
  /\ UNCHANGED <<clock, device, outside, plan, nextOperation, pending, worker,
                 executed, moved>>

\* set_active_probe: clears the probe facts and counts as new evidence, but it
\* is no backend event, so a waiting plan is left as it is.
SetActiveProbe(g) ==
  /\ ~scanning /\ evidence.revision < MaxRevision
  /\ evidence' = [revision |-> evidence.revision + 1, epoch |-> evidence.epoch,
                  target |-> evidence.target, ground |-> g,
                  observed |-> evidence.observed]
  /\ moved' = (moved \/ g # evidence.ground)
  /\ UNCHANGED <<clock, scanning, signal, deferred, outside, plan, execution>>

-----------------------------------------------------------------------------
(* The executor thread, and the runner's poll of its channel *)

\* execute_once returns and its result is sent, or the thread dies in it.
WorkerReturns(o, r) ==
  /\ worker[o] = "Running"
  /\ worker' = [worker EXCEPT ![o] = r]
  /\ UNCHANGED <<clock, device, outside, plan, operation, nextOperation, pending,
                 executed, moved>>

\* Mutant: a dropped channel is read as "not there yet".
PollOperationCompletion_WaitsOnLost ==
  /\ ~scanning
  /\ pending # 0 /\ worker[pending] \notin {"Running", "Lost"}
  /\ pending' = 0
  /\ operation' = IF operation = NoOperation THEN NoOperation
                  ELSE [operation EXCEPT !.state = MapExecution(worker[pending])]
  /\ UNCHANGED <<clock, device, outside, plan, nextOperation, worker, executed,
                 moved>>

\* poll_operation_completion with finish_operation; a dead thread is an error.
PollOperationCompletion ==
  /\ ~scanning
  /\ pending # 0 /\ worker[pending] # "Running"
  /\ pending' = 0
  /\ operation' = IF operation = NoOperation THEN NoOperation
                  ELSE [operation EXCEPT !.state = MapExecution(worker[pending])]
  /\ UNCHANGED <<clock, device, outside, plan, nextOperation, worker, executed,
                 moved>>

-----------------------------------------------------------------------------
(* Refresh: the user's request, the runner's cadence and the scan's events *)

RequestRefresh ==
  /\ ~signal
  /\ signal' = TRUE
  /\ UNCHANGED <<clock, evidence, scanning, deferred, outside, plan, execution,
                 moved>>

\* The loop takes the signal; run_refresh puts it off while it may not scan.
DeferRefresh ==
  /\ ~scanning /\ signal
  /\ InteractionInFlight \/ hostJob \/ SerialWorkBusy
  /\ signal' = FALSE /\ deferred' = TRUE
  /\ UNCHANGED <<clock, evidence, scanning, outside, plan, execution, moved>>

\* run_refresh starts: on request, deferred, or on the periodic cadence.
StartRefresh ==
  /\ ~scanning
  /\ ~InteractionInFlight /\ ~hostJob /\ ~SerialWorkBusy
  /\ scanning' = TRUE /\ signal' = FALSE /\ deferred' = FALSE
  /\ UNCHANGED <<clock, evidence, outside, plan, execution, moved>>

\* apply_backend_event: the revision moved, so a waiting plan is invalidated.
InvalidatePrepared(reason) ==
  prepared' = IF Awaiting THEN [prepared EXCEPT !.state = reason] ELSE prepared

\* InventoryFinished: a passed scan proves a target or its absence, under this
\* epoch or a newer one (ProductionInventory advances it when the device leaves,
\* returns or drifts); a failed one only says so.
InventoryFinished ==
  /\ scanning /\ evidence.revision < MaxRevision
  /\ \/ \E t \in Target \cup {NoTarget}, g \in Ground,
            e \in {evidence.epoch, evidence.epoch + 1} \cap 1..MaxEpoch :
          evidence' = [revision |-> evidence.revision + 1, epoch |-> e,
                       target |-> t, ground |-> g, observed |-> clock]
     \/ evidence' = [evidence EXCEPT !.revision = @ + 1]
  /\ InvalidatePrepared("SnapshotChanged")
  /\ moved' = (moved \/ evidence'.target # evidence.target
                     \/ evidence'.ground # evidence.ground
                     \/ evidence'.epoch # evidence.epoch)
  /\ UNCHANGED <<clock, scanning, signal, deferred, outside, nextPlan, consumed,
                 execution>>

\* AtFinished, AdapterFinished, ProbeFinished, HotspotFinished: any of them may
\* move the ground, and each accepted one is new evidence.
StageFinished(g) ==
  /\ scanning /\ evidence.revision < MaxRevision
  /\ evidence.target # NoTarget
  /\ evidence' = [revision |-> evidence.revision + 1, epoch |-> evidence.epoch,
                  target |-> evidence.target, ground |-> g,
                  observed |-> evidence.observed]
  /\ InvalidatePrepared("SnapshotChanged")
  /\ moved' = (moved \/ g # evidence.ground)
  /\ UNCHANGED <<clock, scanning, signal, deferred, outside, nextPlan, consumed,
                 execution>>

RefreshFinished ==
  /\ scanning
  /\ scanning' = FALSE
  /\ UNCHANGED <<clock, evidence, signal, deferred, outside, plan, execution, moved>>

-----------------------------------------------------------------------------
(* Work of other parts that repairs and scans yield to, and time *)

\* InspectHostNetwork may start at any time between scans.
StartHostJob ==
  /\ ~scanning /\ ~hostJob /\ jobs < MaxJobs
  /\ hostJob' = TRUE /\ jobs' = jobs + 1
  /\ UNCHANGED <<clock, device, serialJob, plan, execution, moved>>

EndHostJob ==
  /\ ~scanning /\ hostJob
  /\ hostJob' = FALSE
  /\ UNCHANGED <<clock, device, serialJob, jobs, plan, execution, moved>>

\* SMS and tool commands are refused while serial_work_busy.
StartSerialJob ==
  /\ ~scanning /\ ~SerialWorkBusy /\ jobs < MaxJobs
  /\ serialJob' = TRUE /\ jobs' = jobs + 1
  /\ UNCHANGED <<clock, device, hostJob, plan, execution, moved>>

EndSerialJob ==
  /\ ~scanning /\ serialJob
  /\ serialJob' = FALSE
  /\ UNCHANGED <<clock, device, hostJob, jobs, plan, execution, moved>>

Tick ==
  /\ clock < MaxClock
  /\ clock' = clock + 1
  /\ UNCHANGED <<device, outside, plan, execution, moved>>

-----------------------------------------------------------------------------

\* The panel dismisses only from the result box of a finished operation (app.rs,
\* drive_native_dialogs).
User ==
  \/ \E a \in Action : PrepareAction(a)
  \/ \E id \in PlanId : ConfirmInvalidates(id) \/ ConfirmAction(id) \/ CancelAction(id)
  \/ \E id \in OperationId : ~Running /\ DismissOperation(id)
  \/ \E g \in Ground : SetActiveProbe(g)
  \/ RequestRefresh

Executor ==
  \E o \in OperationId, r \in Receipt \cup Error \cup {"Lost"} : WorkerReturns(o, r)

Refresh ==
  \/ DeferRefresh \/ StartRefresh \/ InventoryFinished \/ RefreshFinished
  \/ \E g \in Ground : StageFinished(g)

Others == StartHostJob \/ EndHostJob \/ StartSerialJob \/ EndSerialJob

Next == User \/ Executor \/ PollOperationCompletion \/ Refresh \/ Others \/ Tick

\* The runner loops every IDLE_POLL_INTERVAL and joins every stage with a
\* deadline, execute_once ends (its own waits are bounded, and the elevation
\* prompt is answered in the end), jobs end, and time passes; the user owes
\* nothing else.
Fairness ==
  /\ WF_vars(Executor)
  /\ WF_vars(PollOperationCompletion)
  /\ WF_vars(StartRefresh)
  /\ WF_vars(RefreshFinished)
  /\ WF_vars(EndHostJob)
  /\ WF_vars(EndSerialJob)
  /\ WF_vars(Tick)

Spec == Init /\ [][Next]_vars
FairSpec == Spec /\ Fairness

-----------------------------------------------------------------------------
(* Properties *)

TypeOK ==
  /\ clock \in Nat
  /\ evidence \in Evidence
  /\ scanning \in BOOLEAN /\ signal \in BOOLEAN /\ deferred \in BOOLEAN
  /\ hostJob \in BOOLEAN /\ serialJob \in BOOLEAN /\ jobs \in Nat
  /\ prepared \in PlanRecord \cup {NoPlan}
  /\ nextPlan \in Nat \ {0} /\ consumed \subseteq PlanId
  /\ operation \in OperationRecord \cup {NoOperation}
  /\ nextOperation \in Nat /\ pending \in OperationId \cup {0}
  /\ worker \in [OperationId -> {"None", "Running", "Lost"} \cup Receipt \cup Error]
  /\ executed \in [PlanId -> Nat]
  /\ moved \in BOOLEAN

\* A plan's write is carried out at most once, however often its confirmation
\* is repeated, late, or follows a failed spawn (consumed_plans).
AtMostOnce == \A p \in PlanId : executed[p] <= 1

\* While an executor thread runs it is the only one, the runner still holds its
\* channel, and neither a scan nor an SMS or tool job shares the device with it.
ExecutorHasTheDevice ==
  \A o \in OperationId : worker[o] = "Running" =>
    pending = o /\ ~scanning /\ ~serialJob

\* A finished operation shows what its own executor thread answered: Applied
\* only on a receipt with proof, Failed never for a write left in doubt.
OutcomeIsItsWorkers ==
  \A o \in OperationId : operation.id = o =>
    /\ operation.state = "Applied" => worker[o] = "Applied"
    /\ operation.state = "Failed" =>
         worker[o] \in {"None", "Failed", "OtherError", "Lost"}
    /\ operation.state = "OutcomeUnknown" =>
         worker[o] \in {"AppliedUnproven", "Unknown", "Timeout"}

\* The monitor never scans under a plan that still waits for its answer, nor
\* under a running write (the yielding rule of interaction_in_flight).
ScanYieldsToInteraction ==
  scanning => ~Running /\ (Awaiting => clock > prepared.expires)

\* No write starts on ground that moved since its plan was shown, not even when
\* it moved and came back (A-B-A leaves the before-state hash equal).
NoWriteOnMovedGround ==
  [][\A p \in PlanId : executed'[p] > executed[p] => ~moved]_vars

\* A write starts on a target observed at most one TTL plus one plan lifetime ago:
\* confirmation does not check freshness again, the frozen revision bounds it.
WriteEvidenceAge ==
  [][\A p \in PlanId : executed'[p] > executed[p] =>
       clock - evidence.observed <= EvidenceTTL + PlanLifetime]_vars

\* What became of each plan, as RepairContract has it.
Stage == [p \in PlanId |->
  IF p \in consumed THEN IF pending # 0 /\ operation.plan = p THEN "Writing" ELSE "Ended"
  ELSE IF p >= nextPlan THEN "Unused"
  ELSE IF Awaiting /\ prepared.id = p THEN "Shown"
  ELSE "Withdrawn"]

Contract == INSTANCE RepairContract WITH Plan <- PlanId, stage <- Stage, still <- ~moved

\* The controller, its executor threads and the scans keep the promise of
\* RepairContract: one consent, at most one write, alone and on unmoved ground.
KeepsContract == Contract!Spec

\* A running operation is not left running: its thread reports or dies, and the
\* runner collects either.
OperationEnds == Running ~> ~Running

\* A plan prepared and abandoned cannot stall monitoring: scans keep starting.
MonitoringResumes == []<>scanning

\* What the comment on interaction_in_flight says of an explicit refresh: a plan
\* that awaits confirmation does not hold it back.
ExplicitRefreshNotSuppressed ==
  [][(signal /\ ~signal' /\ Awaiting /\ ~Running /\ ~hostJob /\ ~SerialWorkBusy)
       => scanning']_vars
=============================================================================
