------------------------ MODULE PlanLifecycleProofs ------------------------
(***************************************************************************)
(* What PlanLifecycle, and ConsentFlow which extends it by the dialogs,    *)
(* guarantee for every value of their constants.  For the controller, the  *)
(* inductive invariant adds to the types what the handlers rely on without *)
(* checking it: ids are handed out in order and never reused, a plan that  *)
(* is still prepared was never consumed, and the channel of a running      *)
(* executor is always the one that is held.                                *)
(***************************************************************************)
EXTENDS ConsentFlow, TLAPS

\* Ids: the prepared plan is a fresh one; what was executed was consumed.
PlanIds ==
  /\ prepared # NoPlan => prepared.id < nextPlan /\ prepared.id \notin consumed
  /\ \A p \in consumed : p < nextPlan
  /\ \A p \in PlanId : executed[p] <= 1 /\ (executed[p] # 0 => p \in consumed)

\* The device: whoever holds the operation channel holds the device alone.
DeviceOwner ==
  /\ \A o \in OperationId : worker[o] = "Running" => pending = o
  /\ pending # 0 => ~scanning /\ ~serialJob

\* The ground: while the frozen revision is current nothing moved, and the
\* target is as old as it was when the plan was prepared.
FrozenGround ==
  Awaiting =>
    /\ prepared.revision <= evidence.revision
    /\ prepared.revision = evidence.revision =>
         /\ ~moved
         /\ prepared.expires <= evidence.observed + EvidenceTTL + PlanLifetime

\* The operation: it is running exactly while its channel is held, and a thread
\* exists only for an id already handed out.
OperationOwner ==
  /\ pending # 0 => Running /\ operation.id = pending /\ worker[pending] # "None"
  /\ Running => pending # 0
  /\ \A o \in OperationId : o >= nextOperation => worker[o] = "None"

IInv == /\ TypeOK /\ PlanIds /\ DeviceOwner /\ FrozenGround
        /\ OperationOwner /\ OutcomeIsItsWorkers /\ ScanYieldsToInteraction

LEMMA InitIInv == Init => IInv
<1> USE ConstantsAssumption DEF PlanId, OperationId
<1> SUFFICES ASSUME Init PROVE IInv OBVIOUS
<1>1. TypeOK
  <2>1. evidence \in Evidence BY DEF Init, Evidence
  <2>2. worker \in [OperationId -> {"None", "Running", "Lost"} \cup Receipt \cup Error]
    BY DEF Init
  <2>3. executed \in [PlanId -> Nat] BY DEF Init
  <2>4. /\ clock \in Nat /\ jobs \in Nat /\ nextPlan \in Nat \ {0} /\ nextOperation \in Nat
        /\ pending \in OperationId \cup {0} /\ consumed \subseteq PlanId
        /\ prepared \in PlanRecord \cup {NoPlan}
        /\ operation \in OperationRecord \cup {NoOperation}
    BY DEF Init
  <2>5. /\ scanning \in BOOLEAN /\ signal \in BOOLEAN /\ deferred \in BOOLEAN
        /\ hostJob \in BOOLEAN /\ serialJob \in BOOLEAN /\ moved \in BOOLEAN
    BY DEF Init
  <2> QED BY <2>1, <2>2, <2>3, <2>4, <2>5 DEF TypeOK
<1>2. PlanIds BY DEF Init, PlanIds
<1>3. DeviceOwner BY DEF Init, DeviceOwner
<1>4. FrozenGround BY DEF Init, FrozenGround, Awaiting, NoPlan
<1>5. OperationOwner BY DEF Init, OperationOwner, Running, NoOperation
<1>6. OutcomeIsItsWorkers BY DEF Init, OutcomeIsItsWorkers, NoOperation
<1>7. ScanYieldsToInteraction BY DEF Init, ScanYieldsToInteraction
<1> QED BY <1>1, <1>2, <1>3, <1>4, <1>5, <1>6, <1>7 DEF IInv

LEMMA NextType == TypeOK /\ [Next]_vars => TypeOK'
<1> USE ConstantsAssumption
<1> SUFFICES ASSUME TypeOK, [Next]_vars PROVE TypeOK' OBVIOUS
<1>1. ASSUME NEW a \in Action, PrepareAction(a) PROVE TypeOK'
  <2>1. prepared' \in PlanRecord
    BY <1>1 DEF PrepareAction, Preparable, PlanFits, TypeOK, PlanRecord, PlanId,
                ActionPrerequisite, TargetFresh, Evidence
  <2>2. nextPlan' \in Nat \ {0} BY <1>1 DEF PrepareAction, TypeOK
  <2>3. moved' \in BOOLEAN BY <1>1 DEF PrepareAction
  <2>4. UNCHANGED <<clock, evidence, scanning, signal, deferred, hostJob, serialJob, jobs,
                   consumed, operation, nextOperation, pending, worker, executed>>
    BY <1>1 DEF PrepareAction, device, outside, execution
  <2> QED BY <2>1, <2>2, <2>3, <2>4 DEF TypeOK
<1>2. ASSUME NEW id \in PlanId, ConfirmInvalidates(id) PROVE TypeOK'
  <2>1. prepared' \in PlanRecord
    BY <1>2 DEF ConfirmInvalidates, Confirmable, Awaiting, TypeOK, PlanRecord, NoPlan,
                Verdict, Reason
  <2> QED BY <1>2, <2>1 DEF ConfirmInvalidates, TypeOK, device, outside, execution
<1>3. ASSUME NEW id \in PlanId, ConfirmAction(id) PROVE TypeOK'
  <2>1. operation' \in OperationRecord
    BY <1>3 DEF ConfirmAction, TypeOK, OperationRecord
  <2>2. worker' \in [OperationId -> {"None", "Running", "Lost"} \cup Receipt \cup Error]
    BY <1>3 DEF ConfirmAction, TypeOK
  <2>3. executed' \in [PlanId -> Nat]
    BY <1>3 DEF ConfirmAction, TypeOK
  <2> QED BY <1>3, <2>1, <2>2, <2>3 DEF ConfirmAction, TypeOK, device, outside
<1>4. ASSUME NEW id \in PlanId, CancelAction(id) PROVE TypeOK'
  BY <1>4 DEF CancelAction, TypeOK, device, outside, execution
<1>5. ASSUME NEW id \in OperationId, ~Running, DismissOperation(id) PROVE TypeOK'
  BY <1>5 DEF DismissOperation, TypeOK, device, outside, plan
<1>6. ASSUME NEW g \in Ground, SetActiveProbe(g) PROVE TypeOK'
  <2>1. evidence' \in Evidence BY <1>6 DEF SetActiveProbe, TypeOK, Evidence
  <2>2. moved' \in BOOLEAN BY <1>6 DEF SetActiveProbe
  <2> QED BY <1>6, <2>1, <2>2 DEF SetActiveProbe, TypeOK, outside, plan, execution
<1>7. CASE RequestRefresh
  BY <1>7 DEF RequestRefresh, TypeOK, outside, plan, execution
<1>8. ASSUME NEW o \in OperationId, NEW r \in Receipt \cup Error \cup {"Lost"},
             WorkerReturns(o, r)
      PROVE TypeOK'
  <2>1. worker' \in [OperationId -> {"None", "Running", "Lost"} \cup Receipt \cup Error]
    BY <1>8 DEF WorkerReturns, TypeOK
  <2> QED BY <1>8, <2>1 DEF WorkerReturns, TypeOK, device, outside, plan
<1>9. CASE PollOperationCompletion
  <2>1. operation' \in OperationRecord \cup {NoOperation}
    BY <1>9 DEF PollOperationCompletion, TypeOK, OperationRecord, MapExecution
  <2> QED BY <1>9, <2>1 DEF PollOperationCompletion, TypeOK, device, outside, plan
<1>10. CASE DeferRefresh
  BY <1>10 DEF DeferRefresh, TypeOK, outside, plan, execution
<1>11. CASE StartRefresh
  BY <1>11 DEF StartRefresh, TypeOK, outside, plan, execution
<1>12. CASE InventoryFinished
  <2>1. evidence' \in Evidence BY <1>12 DEF InventoryFinished, TypeOK, Evidence
  <2>2. prepared' \in PlanRecord \cup {NoPlan}
    BY <1>12 DEF InventoryFinished, InvalidatePrepared, Awaiting, TypeOK, PlanRecord,
                 NoPlan, Reason
  <2>3. moved' \in BOOLEAN BY <1>12 DEF InventoryFinished
  <2> QED BY <1>12, <2>1, <2>2, <2>3 DEF InventoryFinished, TypeOK, outside, execution
<1>13. ASSUME NEW g \in Ground, StageFinished(g) PROVE TypeOK'
  <2>1. evidence' \in Evidence BY <1>13 DEF StageFinished, TypeOK, Evidence
  <2>2. prepared' \in PlanRecord \cup {NoPlan}
    BY <1>13 DEF StageFinished, InvalidatePrepared, Awaiting, TypeOK, PlanRecord,
                 NoPlan, Reason
  <2>3. moved' \in BOOLEAN BY <1>13 DEF StageFinished
  <2> QED BY <1>13, <2>1, <2>2, <2>3 DEF StageFinished, TypeOK, outside, execution
<1>14. CASE RefreshFinished
  BY <1>14 DEF RefreshFinished, TypeOK, outside, plan, execution
<1>15. CASE Others
  <2>1. CASE StartHostJob
    BY <2>1 DEF StartHostJob, TypeOK, device, plan, execution
  <2>2. CASE EndHostJob
    BY <2>2 DEF EndHostJob, TypeOK, device, plan, execution
  <2>3. CASE StartSerialJob
    BY <2>3 DEF StartSerialJob, TypeOK, device, plan, execution
  <2>4. CASE EndSerialJob
    BY <2>4 DEF EndSerialJob, TypeOK, device, plan, execution
  <2> QED BY <1>15, <2>1, <2>2, <2>3, <2>4 DEF Others
<1>16. CASE Tick
  BY <1>16 DEF Tick, TypeOK, device, outside, plan, execution
<1>17. CASE UNCHANGED vars
  BY <1>17 DEF vars, TypeOK, device, outside, plan, execution
<1> QED
  BY <1>1, <1>2, <1>3, <1>4, <1>5, <1>6, <1>7, <1>8, <1>9, <1>10, <1>11, <1>12, <1>13,
     <1>14, <1>15, <1>16, <1>17 DEF Next, User, Executor, Refresh

LEMMA NextPlanIds == TypeOK /\ PlanIds /\ [Next]_vars => PlanIds'
<1> USE ConstantsAssumption
<1> SUFFICES ASSUME TypeOK, PlanIds, [Next]_vars PROVE PlanIds' OBVIOUS
<1>1. ASSUME NEW a \in Action, PrepareAction(a) PROVE PlanIds'
  <2>1. prepared'.id = nextPlan /\ nextPlan' = nextPlan + 1
        /\ UNCHANGED <<consumed, executed>>
    BY <1>1 DEF PrepareAction, execution
  <2>2. nextPlan \notin consumed BY DEF PlanIds, TypeOK, PlanId
  <2>3. \A p \in consumed : p < nextPlan + 1 BY DEF PlanIds, TypeOK, PlanId
  <2> QED BY <2>1, <2>2, <2>3 DEF PlanIds, TypeOK
<1>2. ASSUME NEW id \in PlanId, ConfirmInvalidates(id) PROVE PlanIds'
  <2>1. prepared # NoPlan BY <1>2 DEF ConfirmInvalidates, Confirmable, Awaiting, NoPlan
  <2>2. prepared'.id = prepared.id
    BY <1>2, <2>1 DEF ConfirmInvalidates, TypeOK, PlanRecord
  <2> QED BY <1>2, <2>1, <2>2 DEF ConfirmInvalidates, PlanIds, execution
<1>3. ASSUME NEW id \in PlanId, ConfirmAction(id) PROVE PlanIds'
  <2>1. prepared # NoPlan /\ prepared.id = id
    BY <1>3 DEF ConfirmAction, Confirmable, Awaiting, NoPlan
  <2>2. id < nextPlan /\ id \notin consumed BY <2>1 DEF PlanIds
  <2>3. executed[id] = 0 BY <2>2 DEF PlanIds, TypeOK
  <2>4. prepared' = NoPlan /\ consumed' = consumed \cup {id} /\ nextPlan' = nextPlan
    BY <1>3 DEF ConfirmAction
  <2>5. executed' = executed \/ executed' = [executed EXCEPT ![id] = @ + 1]
    BY <1>3 DEF ConfirmAction
  <2>6. \A p \in PlanId :
          executed'[p] <= 1 /\ (executed'[p] # 0 => p \in consumed \cup {id})
    BY <2>3, <2>5 DEF PlanIds, TypeOK
  <2> QED BY <2>2, <2>4, <2>6 DEF PlanIds
<1>4. ASSUME NEW id \in PlanId, CancelAction(id) PROVE PlanIds'
  BY <1>4 DEF CancelAction, PlanIds, execution
<1>5. CASE InventoryFinished \/ \E g \in Ground : StageFinished(g)
  <2>1. InvalidatePrepared("SnapshotChanged")
    BY <1>5 DEF InventoryFinished, StageFinished
  <2>2. prepared' # NoPlan => prepared # NoPlan /\ prepared'.id = prepared.id
    <3>1. CASE Awaiting
      BY <2>1, <3>1 DEF InvalidatePrepared, Awaiting, NoPlan, TypeOK, PlanRecord
    <3>2. CASE ~Awaiting
      BY <2>1, <3>2 DEF InvalidatePrepared
    <3> QED BY <3>1, <3>2
  <2>3. UNCHANGED <<nextPlan, consumed, executed>>
    BY <1>5 DEF InventoryFinished, StageFinished, execution
  <2> QED BY <2>2, <2>3 DEF PlanIds
<1>6. CASE UNCHANGED <<plan, executed>>
  BY <1>6 DEF PlanIds, plan
<1> QED
  <2>1. ASSUME NEW id \in OperationId, ~Running, DismissOperation(id)
        PROVE UNCHANGED <<plan, executed>>
    BY <2>1 DEF DismissOperation
  <2>2. ASSUME NEW g \in Ground, SetActiveProbe(g) PROVE UNCHANGED <<plan, executed>>
    BY <2>2 DEF SetActiveProbe, execution
  <2>3. RequestRefresh \/ Executor \/ PollOperationCompletion \/ DeferRefresh
          \/ StartRefresh \/ RefreshFinished \/ Others \/ Tick \/ UNCHANGED vars
          => UNCHANGED <<plan, executed>>
    BY DEF RequestRefresh, Executor, WorkerReturns, PollOperationCompletion, DeferRefresh,
       StartRefresh, RefreshFinished, Others, StartHostJob, EndHostJob, StartSerialJob,
       EndSerialJob, Tick, execution, vars
  <2> QED BY <1>1, <1>2, <1>3, <1>4, <1>5, <1>6, <2>1, <2>2, <2>3
          DEF Next, User, Refresh

LEMMA NextDeviceOwner == TypeOK /\ DeviceOwner /\ [Next]_vars => DeviceOwner'
<1> USE ConstantsAssumption
<1> SUFFICES ASSUME TypeOK, DeviceOwner, [Next]_vars PROVE DeviceOwner' OBVIOUS
<1>1. ASSUME NEW id \in PlanId, ConfirmAction(id) PROVE DeviceOwner'
  <2>1. pending = 0 /\ ~scanning /\ ~serialJob
    BY <1>1 DEF ConfirmAction, Confirmable, SerialWorkBusy
  <2>2. UNCHANGED <<scanning, serialJob>> BY <1>1 DEF ConfirmAction, device, outside
  <2>3. \A o \in OperationId : worker[o] # "Running"
    BY <2>1 DEF DeviceOwner, OperationId
  <2>4. CASE UNCHANGED <<pending, worker>> BY <2>1, <2>2, <2>4, <2>3 DEF DeviceOwner
  <2>5. CASE /\ pending' = nextOperation
             /\ worker' = [worker EXCEPT ![nextOperation] = "Running"]
    BY <2>1, <2>2, <2>3, <2>5 DEF DeviceOwner, TypeOK
  <2> QED BY <1>1, <2>4, <2>5 DEF ConfirmAction
<1>2. ASSUME NEW o \in OperationId, NEW r \in Receipt \cup Error \cup {"Lost"},
             WorkerReturns(o, r)
      PROVE DeviceOwner'
  <2>1. r # "Running" BY DEF Receipt, Error
  <2> QED BY <1>2, <2>1 DEF WorkerReturns, DeviceOwner, TypeOK, device, outside
<1>3. CASE PollOperationCompletion
  <2>1. \A o \in OperationId : worker[o] # "Running"
    BY <1>3 DEF PollOperationCompletion, DeviceOwner
  <2> QED BY <1>3, <2>1 DEF PollOperationCompletion, DeviceOwner
<1>4. CASE StartRefresh
  BY <1>4 DEF StartRefresh, DeviceOwner, SerialWorkBusy, outside, execution
<1>5. CASE StartSerialJob
  BY <1>5 DEF StartSerialJob, DeviceOwner, SerialWorkBusy, device, execution
<1>6. CASE /\ UNCHANGED <<worker, pending>>
           /\ scanning' => scanning
           /\ serialJob' => serialJob
  BY <1>6 DEF DeviceOwner
<1> QED
  <2>1. ASSUME NEW a \in Action, PrepareAction(a) PROVE DeviceOwner'
    BY <2>1, <1>6 DEF PrepareAction, device, outside, execution
  <2>2. ASSUME NEW id \in PlanId, ConfirmInvalidates(id) \/ CancelAction(id)
        PROVE DeviceOwner'
    BY <2>2, <1>6 DEF ConfirmInvalidates, CancelAction, device, outside, execution
  <2>3. ASSUME NEW id \in OperationId, ~Running, DismissOperation(id) PROVE DeviceOwner'
    BY <2>3, <1>6 DEF DismissOperation, device, outside
  <2>4. ASSUME NEW g \in Ground, SetActiveProbe(g) \/ StageFinished(g) PROVE DeviceOwner'
    BY <2>4, <1>6 DEF SetActiveProbe, StageFinished, outside, execution
  <2>5. CASE RequestRefresh \/ DeferRefresh \/ InventoryFinished \/ RefreshFinished
    BY <2>5, <1>6 DEF RequestRefresh, DeferRefresh, InventoryFinished, RefreshFinished,
       outside, execution
  <2>6. CASE StartHostJob \/ EndHostJob \/ EndSerialJob \/ Tick \/ UNCHANGED vars
    BY <2>6, <1>6 DEF StartHostJob, EndHostJob, EndSerialJob, Tick, vars, device, outside,
       execution
  <2> QED BY <1>1, <1>2, <1>3, <1>4, <1>5, <2>1, <2>2, <2>3, <2>4, <2>5, <2>6
          DEF Next, User, Executor, Refresh, Others

LEMMA NextFrozenGround == TypeOK /\ FrozenGround /\ [Next]_vars => FrozenGround'
<1> USE ConstantsAssumption
<1> SUFFICES ASSUME TypeOK, FrozenGround, [Next]_vars PROVE FrozenGround' OBVIOUS
<1> evidence.revision \in Nat /\ evidence.observed \in Nat
  BY DEF TypeOK, Evidence
<1>1. ASSUME NEW a \in Action, PrepareAction(a) PROVE FrozenGround'
  <2>1. clock - evidence.observed <= EvidenceTTL
    BY <1>1 DEF PrepareAction, Preparable, ActionPrerequisite, TargetFresh
  <2>2. /\ prepared'.revision = evidence.revision
        /\ prepared'.expires = clock + PlanLifetime
        /\ moved' = FALSE /\ evidence' = evidence
    BY <1>1 DEF PrepareAction, device
  <2> QED BY <2>1, <2>2 DEF FrozenGround, TypeOK
<1>2. ASSUME NEW id \in PlanId, ConfirmInvalidates(id) PROVE FrozenGround'
  <2>1. prepared'.state # "Awaiting"
    BY <1>2 DEF ConfirmInvalidates, Confirmable, Awaiting, TypeOK, PlanRecord, NoPlan,
                Verdict
  <2> QED BY <2>1 DEF FrozenGround, Awaiting
<1>3. ASSUME NEW id \in PlanId, ConfirmAction(id) \/ CancelAction(id)
      PROVE FrozenGround'
  BY <1>3 DEF ConfirmAction, CancelAction, FrozenGround, Awaiting, NoPlan
<1>4. ASSUME NEW g \in Ground, SetActiveProbe(g) PROVE FrozenGround'
  <2>1. evidence'.revision = evidence.revision + 1 /\ prepared' = prepared
    BY <1>4 DEF SetActiveProbe, plan
  <2>2. Awaiting => prepared.revision \in Nat
    BY DEF Awaiting, TypeOK, PlanRecord, NoPlan
  <2> QED BY <2>1, <2>2 DEF FrozenGround, Awaiting
<1>5. CASE InventoryFinished \/ \E g \in Ground : StageFinished(g)
  <2>1. ~Awaiting'
    <3>1. Awaiting => prepared \in PlanRecord BY DEF Awaiting, TypeOK, NoPlan
    <3> QED BY <1>5, <3>1 DEF InventoryFinished, StageFinished, InvalidatePrepared,
                              Awaiting, PlanRecord
  <2> QED BY <2>1 DEF FrozenGround
<1>6. CASE UNCHANGED <<prepared, evidence, moved>>
  BY <1>6 DEF FrozenGround, Awaiting
<1> QED
  <2>1. ASSUME NEW id \in OperationId, ~Running, DismissOperation(id)
        PROVE UNCHANGED <<prepared, evidence, moved>>
    BY <2>1 DEF DismissOperation, device, plan
  <2>2. RequestRefresh \/ Executor \/ PollOperationCompletion \/ DeferRefresh
          \/ StartRefresh \/ RefreshFinished \/ Others \/ Tick \/ UNCHANGED vars
          => UNCHANGED <<prepared, evidence, moved>>
    BY DEF RequestRefresh, Executor, WorkerReturns, PollOperationCompletion, DeferRefresh,
       StartRefresh, RefreshFinished, Others, StartHostJob, EndHostJob, StartSerialJob,
       EndSerialJob, Tick, device, plan, vars
  <2> QED BY <1>1, <1>2, <1>3, <1>4, <1>5, <1>6, <2>1, <2>2 DEF Next, User, Refresh

LEMMA NextOperationOwner ==
  TypeOK /\ DeviceOwner /\ OperationOwner /\ [Next]_vars => OperationOwner'
<1> USE ConstantsAssumption
<1> SUFFICES ASSUME TypeOK, DeviceOwner, OperationOwner, [Next]_vars
             PROVE OperationOwner'
  OBVIOUS
<1>1. ASSUME NEW id \in PlanId, ConfirmAction(id) PROVE OperationOwner'
  <2>1. pending = 0 /\ nextOperation \in OperationId /\ nextOperation' = nextOperation + 1
    BY <1>1 DEF ConfirmAction, Confirmable, SerialWorkBusy
  <2>2. CASE /\ operation' = [id |-> nextOperation, plan |-> id, state |-> "Running"]
             /\ pending' = nextOperation
             /\ worker' = [worker EXCEPT ![nextOperation] = "Running"]
    <3>1. Running' /\ operation'.id = pending' /\ pending' # 0 /\ worker'[pending'] # "None"
      BY <2>1, <2>2 DEF Running, TypeOK, OperationId
    <3>2. \A o \in OperationId : o >= nextOperation + 1 => worker'[o] = "None"
      BY <2>1, <2>2 DEF OperationOwner, TypeOK, OperationId
    <3> QED BY <2>1, <3>1, <3>2 DEF OperationOwner
  <2>3. CASE /\ operation' = [id |-> nextOperation, plan |-> id, state |-> "Failed"]
             /\ UNCHANGED <<pending, worker>>
    <3>1. ~Running' /\ pending' = 0 BY <2>1, <2>3 DEF Running
    <3>2. \A o \in OperationId : o >= nextOperation + 1 => worker'[o] = "None"
      BY <2>1, <2>3 DEF OperationOwner, TypeOK, OperationId
    <3> QED BY <2>1, <3>1, <3>2 DEF OperationOwner
  <2> QED BY <1>1, <2>2, <2>3 DEF ConfirmAction
<1>2. ASSUME NEW id \in OperationId, ~Running, DismissOperation(id) PROVE OperationOwner'
  BY <1>2 DEF DismissOperation, OperationOwner, Running, NoOperation
<1>3. ASSUME NEW o \in OperationId, NEW r \in Receipt \cup Error \cup {"Lost"},
             WorkerReturns(o, r)
      PROVE OperationOwner'
  <2>1. r # "None" BY DEF Receipt, Error
  <2>2. pending = o BY <1>3 DEF WorkerReturns, DeviceOwner
  <2>3. UNCHANGED <<operation, nextOperation, pending>> BY <1>3 DEF WorkerReturns
  <2>4. worker'[o] # "None" BY <1>3, <2>1 DEF WorkerReturns, TypeOK
  <2>5. o < nextOperation
    BY <1>3 DEF WorkerReturns, OperationOwner, TypeOK, OperationId
  <2>6. \A q \in OperationId : q # o => worker'[q] = worker[q]
    BY <1>3 DEF WorkerReturns, TypeOK
  <2> QED BY <2>2, <2>3, <2>4, <2>5, <2>6 DEF OperationOwner, Running, TypeOK, OperationId
<1>4. CASE PollOperationCompletion
  <2>1. pending' = 0 /\ Running /\ UNCHANGED <<worker, nextOperation>>
    BY <1>4 DEF PollOperationCompletion, OperationOwner
  <2>2. operation \in OperationRecord BY <2>1 DEF Running, TypeOK, NoOperation
  <2>3. MapExecution(worker[pending]) # "Running" BY DEF MapExecution
  <2>4. ~Running'
    BY <1>4, <2>2, <2>3 DEF PollOperationCompletion, Running, OperationRecord, NoOperation
  <2> QED BY <2>1, <2>4 DEF OperationOwner
<1>5. CASE UNCHANGED <<operation, nextOperation, pending, worker>>
  BY <1>5 DEF OperationOwner, Running
<1> QED
  <2>1. ASSUME NEW a \in Action, PrepareAction(a)
        PROVE UNCHANGED <<operation, nextOperation, pending, worker>>
    BY <2>1 DEF PrepareAction, execution
  <2>2. ASSUME NEW id \in PlanId, ConfirmInvalidates(id) \/ CancelAction(id)
        PROVE UNCHANGED <<operation, nextOperation, pending, worker>>
    BY <2>2 DEF ConfirmInvalidates, CancelAction, execution
  <2>3. ASSUME NEW g \in Ground, SetActiveProbe(g) \/ StageFinished(g)
        PROVE UNCHANGED <<operation, nextOperation, pending, worker>>
    BY <2>3 DEF SetActiveProbe, StageFinished, execution
  <2>4. RequestRefresh \/ DeferRefresh \/ StartRefresh \/ InventoryFinished
          \/ RefreshFinished \/ Others \/ Tick \/ UNCHANGED vars
          => UNCHANGED <<operation, nextOperation, pending, worker>>
    BY DEF RequestRefresh, DeferRefresh, StartRefresh, InventoryFinished, RefreshFinished,
       Others, StartHostJob, EndHostJob, StartSerialJob, EndSerialJob, Tick, execution, vars
  <2> QED BY <1>1, <1>2, <1>3, <1>4, <1>5, <2>1, <2>2, <2>3, <2>4
          DEF Next, User, Executor, Refresh

LEMMA NextOutcome ==
  TypeOK /\ DeviceOwner /\ OperationOwner /\ OutcomeIsItsWorkers /\ [Next]_vars
    => OutcomeIsItsWorkers'
<1> USE ConstantsAssumption
<1> SUFFICES ASSUME TypeOK, DeviceOwner, OperationOwner, OutcomeIsItsWorkers, [Next]_vars
             PROVE OutcomeIsItsWorkers'
  OBVIOUS
<1>1. ASSUME NEW id \in PlanId, ConfirmAction(id) PROVE OutcomeIsItsWorkers'
  <2>1. nextOperation \in OperationId /\ worker[nextOperation] = "None"
    BY <1>1 DEF ConfirmAction, OperationOwner, TypeOK
  <2>2. \/ operation' = [id |-> nextOperation, plan |-> id, state |-> "Running"]
        \/ /\ operation' = [id |-> nextOperation, plan |-> id, state |-> "Failed"]
           /\ worker' = worker
    BY <1>1 DEF ConfirmAction
  <2> QED BY <2>1, <2>2 DEF OutcomeIsItsWorkers
<1>2. ASSUME NEW id \in OperationId, ~Running, DismissOperation(id) PROVE OutcomeIsItsWorkers'
  BY <1>2 DEF DismissOperation, OutcomeIsItsWorkers, NoOperation
<1>3. ASSUME NEW o \in OperationId, NEW r \in Receipt \cup Error \cup {"Lost"},
             WorkerReturns(o, r)
      PROVE OutcomeIsItsWorkers'
  <2>1. Running /\ operation' = operation
    BY <1>3 DEF WorkerReturns, DeviceOwner, OperationOwner, OperationId
  <2> QED BY <2>1 DEF OutcomeIsItsWorkers, Running
<1>4. CASE PollOperationCompletion
  <2>1. /\ pending \in OperationId /\ Running /\ operation.id = pending
        /\ worker[pending] \notin {"None", "Running"} /\ worker' = worker
    BY <1>4 DEF PollOperationCompletion, OperationOwner, TypeOK
  <2>2. operation \in OperationRecord BY <2>1 DEF Running, TypeOK, NoOperation
  <2>3. operation'.id = pending /\ operation'.state = MapExecution(worker[pending])
    BY <1>4, <2>1, <2>2 DEF PollOperationCompletion, Running, OperationRecord, NoOperation
  <2>4. worker[pending] \in {"Lost"} \cup Receipt \cup Error
    BY <2>1 DEF TypeOK
  <2> QED BY <2>1, <2>3, <2>4 DEF OutcomeIsItsWorkers, MapExecution, Receipt, Error
<1>5. CASE UNCHANGED <<operation, worker>>
  BY <1>5 DEF OutcomeIsItsWorkers
<1> QED
  <2>1. ASSUME NEW a \in Action, PrepareAction(a) PROVE UNCHANGED <<operation, worker>>
    BY <2>1 DEF PrepareAction, execution
  <2>2. ASSUME NEW id \in PlanId, ConfirmInvalidates(id) \/ CancelAction(id)
        PROVE UNCHANGED <<operation, worker>>
    BY <2>2 DEF ConfirmInvalidates, CancelAction, execution
  <2>3. ASSUME NEW g \in Ground, SetActiveProbe(g) \/ StageFinished(g)
        PROVE UNCHANGED <<operation, worker>>
    BY <2>3 DEF SetActiveProbe, StageFinished, execution
  <2>4. RequestRefresh \/ DeferRefresh \/ StartRefresh \/ InventoryFinished
          \/ RefreshFinished \/ Others \/ Tick \/ UNCHANGED vars
          => UNCHANGED <<operation, worker>>
    BY DEF RequestRefresh, DeferRefresh, StartRefresh, InventoryFinished, RefreshFinished,
       Others, StartHostJob, EndHostJob, StartSerialJob, EndSerialJob, Tick, execution, vars
  <2> QED BY <1>1, <1>2, <1>3, <1>4, <1>5, <2>1, <2>2, <2>3, <2>4
          DEF Next, User, Executor, Refresh

LEMMA NextScanYields ==
  TypeOK /\ ScanYieldsToInteraction /\ [Next]_vars => ScanYieldsToInteraction'
<1> USE ConstantsAssumption
<1> SUFFICES ASSUME TypeOK, ScanYieldsToInteraction, [Next]_vars
             PROVE ScanYieldsToInteraction'
  OBVIOUS
<1> clock \in Nat /\ (Awaiting => prepared.expires \in Nat)
  BY DEF TypeOK, Awaiting, PlanRecord, NoPlan
<1>1. CASE ~scanning /\ scanning' = scanning
  BY <1>1 DEF ScanYieldsToInteraction
<1>2. CASE StartRefresh
  <2>1. ~Running /\ ~(Awaiting /\ clock <= prepared.expires)
    BY <1>2 DEF StartRefresh, InteractionInFlight
  <2>2. UNCHANGED <<clock, prepared, operation>>
    BY <1>2 DEF StartRefresh, plan, execution
  <2> QED BY <2>1, <2>2 DEF ScanYieldsToInteraction, Running, Awaiting
<1>3. CASE RefreshFinished
  BY <1>3 DEF RefreshFinished, ScanYieldsToInteraction
<1>4. CASE InventoryFinished \/ \E g \in Ground : StageFinished(g)
  <2>1. ~Awaiting'
    <3>1. InvalidatePrepared("SnapshotChanged")
      BY <1>4 DEF InventoryFinished, StageFinished
    <3>2. Awaiting => prepared \in PlanRecord BY DEF Awaiting, TypeOK, NoPlan
    <3> QED BY <3>1, <3>2 DEF InvalidatePrepared, Awaiting, PlanRecord
  <2>2. UNCHANGED <<operation, scanning>>
    BY <1>4 DEF InventoryFinished, StageFinished, execution
  <2> QED BY <2>1, <2>2 DEF ScanYieldsToInteraction, Running
<1>5. CASE UNCHANGED <<prepared, operation, scanning>> /\ clock' \in {clock, clock + 1}
  BY <1>5 DEF ScanYieldsToInteraction, Running, Awaiting
<1> QED
  <2>1. ASSUME NEW a \in Action, PrepareAction(a) PROVE ~scanning /\ scanning' = scanning
    BY <2>1 DEF PrepareAction, device
  <2>2. ASSUME NEW id \in PlanId, ConfirmInvalidates(id) \/ ConfirmAction(id) \/ CancelAction(id)
        PROVE ~scanning /\ scanning' = scanning
    BY <2>2 DEF ConfirmInvalidates, ConfirmAction, CancelAction, Confirmable, device
  <2>3. ASSUME NEW id \in OperationId, ~Running, DismissOperation(id)
        PROVE ~scanning /\ scanning' = scanning
    BY <2>3 DEF DismissOperation, device
  <2>4. ASSUME NEW g \in Ground, SetActiveProbe(g) PROVE ~scanning /\ scanning' = scanning
    BY <2>4 DEF SetActiveProbe
  <2>5. PollOperationCompletion \/ DeferRefresh \/ Others => ~scanning /\ scanning' = scanning
    BY DEF PollOperationCompletion, DeferRefresh, Others, StartHostJob, EndHostJob,
       StartSerialJob, EndSerialJob, device
  <2>6. RequestRefresh \/ Executor \/ Tick \/ UNCHANGED vars
          => UNCHANGED <<prepared, operation, scanning>> /\ clock' \in {clock, clock + 1}
    BY DEF RequestRefresh, Executor, WorkerReturns, Tick, device, plan, execution, vars
  <2> QED BY <1>1, <1>2, <1>3, <1>4, <1>5, <2>1, <2>2, <2>3, <2>4, <2>5, <2>6
          DEF Next, User, Refresh

\* The inductive invariant holds in every reachable state.
THEOREM Invariance == Spec => []IInv
<1>1. IInv /\ [Next]_vars => IInv'
  BY NextType, NextPlanIds, NextDeviceOwner, NextFrozenGround, NextOperationOwner,
     NextOutcome, NextScanYields DEF IInv
<1> QED BY InitIInv, <1>1, PTL DEF Spec

\* Every variable of the controller stays in its type.
THEOREM TypeCorrect == Spec => []TypeOK
<1>1. IInv => TypeOK BY DEF IInv
<1> QED BY Invariance, <1>1, PTL

\* However many plans and clicks: one plan, at most one call of execute_once.
THEOREM ExecutesAtMostOnce == Spec => []AtMostOnce
<1>1. IInv => AtMostOnce BY DEF IInv, PlanIds, AtMostOnce
<1> QED BY Invariance, <1>1, PTL

\* The executor thread never shares the device with a scan or a serial job.
THEOREM ExecutorAlone == Spec => []ExecutorHasTheDevice
<1>1. IInv => ExecutorHasTheDevice
  BY DEF IInv, DeviceOwner, ExecutorHasTheDevice, OperationId
<1> QED BY Invariance, <1>1, PTL

\* The outcome on screen is the one its own executor thread reported.
THEOREM OutcomeCorrect == Spec => []OutcomeIsItsWorkers
<1>1. IInv => OutcomeIsItsWorkers BY DEF IInv
<1> QED BY Invariance, <1>1, PTL

\* The monitor yields to a live plan and to a running write.
THEOREM ScanYields == Spec => []ScanYieldsToInteraction
<1>1. IInv => ScanYieldsToInteraction BY DEF IInv
<1> QED BY Invariance, <1>1, PTL

\* A step that starts a write confirms a plan which is valid in that very state.
LEMMA WriteIsConfirmed ==
  ASSUME TypeOK, [Next]_vars, NEW p \in PlanId, executed'[p] > executed[p]
  PROVE  Awaiting /\ Verdict(prepared) = "Valid"
<1>1. executed' # executed BY DEF TypeOK
<1>2. ASSUME NEW id \in PlanId, ConfirmAction(id)
      PROVE Awaiting /\ Verdict(prepared) = "Valid"
  BY <1>2 DEF ConfirmAction, Confirmable
<1>3. ASSUME NEW a \in Action, PrepareAction(a) PROVE executed' = executed
  BY <1>3 DEF PrepareAction, execution
<1>4. ASSUME NEW id \in PlanId, ConfirmInvalidates(id) \/ CancelAction(id)
      PROVE executed' = executed
  BY <1>4 DEF ConfirmInvalidates, CancelAction, execution
<1>5. ASSUME NEW g \in Ground, SetActiveProbe(g) \/ StageFinished(g)
      PROVE executed' = executed
  BY <1>5 DEF SetActiveProbe, StageFinished, execution
<1>6. ASSUME NEW id \in OperationId, ~Running, DismissOperation(id) PROVE executed' = executed
  BY <1>6 DEF DismissOperation
<1>7. RequestRefresh \/ Executor \/ PollOperationCompletion \/ DeferRefresh
        \/ StartRefresh \/ InventoryFinished \/ RefreshFinished \/ Others \/ Tick
        \/ UNCHANGED vars
        => executed' = executed
  BY DEF RequestRefresh, Executor, WorkerReturns, PollOperationCompletion, DeferRefresh,
     StartRefresh, InventoryFinished, RefreshFinished, Others, StartHostJob, EndHostJob,
     StartSerialJob, EndSerialJob, Tick, execution, vars
<1> QED BY <1>1, <1>2, <1>3, <1>4, <1>5, <1>6, <1>7 DEF Next, User, Refresh

\* A valid verdict means the frozen revision is still the current one.
LEMMA ValidIsCurrent ==
  ASSUME Verdict(prepared) = "Valid"
  PROVE  prepared.revision = evidence.revision /\ ~(clock > prepared.expires)
BY DEF Verdict

\* No write starts once target or ground moved, even if they moved back.
THEOREM NeverOnMovedGround == Spec => NoWriteOnMovedGround
<1>1. IInv /\ [Next]_vars
        => [\A p \in PlanId : executed'[p] > executed[p] => ~moved]_vars
  BY WriteIsConfirmed, ValidIsCurrent DEF IInv, FrozenGround
<1> QED BY Invariance, <1>1, PTL DEF Spec, NoWriteOnMovedGround

\* The evidence under a write is never older than one TTL and one plan lifetime.
THEOREM WriteEvidenceIsRecent == Spec => WriteEvidenceAge
<1> USE ConstantsAssumption
<1>1. ASSUME IInv, [Next]_vars, NEW p \in PlanId, executed'[p] > executed[p]
      PROVE clock - evidence.observed <= EvidenceTTL + PlanLifetime
  <2>1. Awaiting /\ prepared.revision = evidence.revision /\ ~(clock > prepared.expires)
    BY <1>1, WriteIsConfirmed, ValidIsCurrent DEF IInv
  <2>2. prepared.expires <= evidence.observed + EvidenceTTL + PlanLifetime
    BY <1>1, <2>1 DEF IInv, FrozenGround
  <2>3. clock \in Nat /\ evidence.observed \in Nat /\ prepared.expires \in Nat
    BY <1>1, <2>1 DEF IInv, TypeOK, Evidence, Awaiting, PlanRecord, NoPlan
  <2> QED BY <2>1, <2>2, <2>3
<1>2. IInv /\ [Next]_vars
        => [\A p \in PlanId : executed'[p] > executed[p] =>
              clock - evidence.observed <= EvidenceTTL + PlanLifetime]_vars
  BY <1>1
<1> QED BY Invariance, <1>2, PTL DEF Spec, WriteEvidenceAge

-----------------------------------------------------------------------------
(* The contract.  Stage is read off four variables, so a step that leaves them  *)
(* alone is at most a Move; every other step takes one plan one stage further. *)

\* What the contract's stages are made of stays, or the plan shown falls.
LEMMA StageKept ==
  ASSUME UNCHANGED <<consumed, nextPlan, prepared, pending, operation>>
  PROVE  Stage' = Stage
BY DEF Stage, Awaiting

LEMMA StageOfShown ==
  ASSUME IInv, Awaiting
  PROVE  /\ prepared.id \in PlanId /\ prepared.id < nextPlan /\ prepared.id \notin consumed
         /\ Stage[prepared.id] = "Shown"
<1>1. prepared \in PlanRecord /\ prepared # NoPlan
  BY DEF IInv, TypeOK, Awaiting, NoPlan
<1>2. prepared.id \in PlanId /\ prepared.id < nextPlan /\ prepared.id \notin consumed
  BY <1>1 DEF IInv, PlanIds, PlanRecord
<1>3. ~(prepared.id >= nextPlan)
  BY <1>2 DEF IInv, TypeOK, PlanId
<1> QED
  BY <1>2, <1>3 DEF Stage

\* The plan shown is dropped, or has become invalid: it is withdrawn.
LEMMA DropWithdraws ==
  ASSUME IInv, Awaiting, ~Awaiting',
         UNCHANGED <<consumed, nextPlan, pending, operation>>
  PROVE  Contract!Becomes(prepared.id, "Shown", "Withdrawn")
<1>1. /\ prepared.id \in PlanId /\ prepared.id < nextPlan /\ prepared.id \notin consumed
      /\ Stage[prepared.id] = "Shown"
  BY StageOfShown
<1>2. ~(prepared.id >= nextPlan)
  BY <1>1 DEF IInv, TypeOK, PlanId
<1>3. Stage' = [Stage EXCEPT ![prepared.id] = "Withdrawn"]
  BY <1>1, <1>2 DEF Stage
<1> QED
  BY <1>1, <1>3 DEF Contract!Becomes

LEMMA PrepareShows ==
  ASSUME IInv, NEW a \in Action, PrepareAction(a)
  PROVE  Contract!Show(nextPlan)
<1>1. /\ nextPlan \in PlanId /\ nextPlan' = nextPlan + 1 /\ ~Awaiting /\ pending = 0
      /\ prepared'.id = nextPlan /\ moved' = FALSE
      /\ UNCHANGED <<consumed, pending, operation>>
  BY ConstantsAssumption DEF PrepareAction, Preparable, PlanFits, SerialWorkBusy, execution,
     IInv, TypeOK, PlanId
<1>2. nextPlan \notin consumed /\ nextPlan \in Nat
  BY DEF IInv, PlanIds, TypeOK, PlanId
<1>3. Stage[nextPlan] = "Unused"
  BY <1>1, <1>2 DEF Stage
<1>4. \A p \in PlanId : Stage[p] # "Shown" /\ Stage[p] # "Writing"
  BY <1>1 DEF Stage
<1>5. Awaiting'
  BY DEF PrepareAction, Awaiting
<1>6. ASSUME NEW p \in PlanId
      PROVE  Stage'[p] = IF p = nextPlan THEN "Shown" ELSE Stage[p]
  <2>1. (p >= nextPlan' <=> p >= nextPlan /\ p # nextPlan)
    BY <1>1, <1>2 DEF PlanId
  <2> QED
    BY <1>1, <1>2, <1>5, <2>1 DEF Stage
<1>7. Stage' = [Stage EXCEPT ![nextPlan] = "Shown"]
  BY <1>1, <1>6 DEF Stage
<1> QED
  BY <1>1, <1>3, <1>4, <1>7 DEF Contract!Show, Contract!Becomes, Contract!NoneIs

LEMMA ConfirmStarts ==
  ASSUME IInv, NEW id \in PlanId, ConfirmAction(id)
  PROVE  Contract!StartWrite(id) \/ Contract!GiveUp(id)
<1>1. /\ Awaiting /\ prepared.id = id /\ pending = 0 /\ ~Awaiting'
      /\ consumed' = consumed \cup {id} /\ UNCHANGED <<nextPlan, moved>>
  BY DEF ConfirmAction, Confirmable, SerialWorkBusy, Awaiting, NoPlan
<1>2. id < nextPlan /\ id \notin consumed /\ Stage[id] = "Shown"
  BY <1>1, StageOfShown
<1>3. ~moved
  BY <1>1, ValidIsCurrent DEF ConfirmAction, IInv, FrozenGround
<1>4. \A p \in PlanId : Stage[p] # "Writing"
  BY <1>1 DEF Stage
<1>5. CASE /\ operation' = [id |-> nextOperation, plan |-> id, state |-> "Running"]
           /\ pending' = nextOperation
  <2>1. pending' # 0 /\ operation'.plan = id
    BY <1>5, ConstantsAssumption DEF ConfirmAction, OperationId
  <2>2. Stage' = [Stage EXCEPT ![id] = "Writing"]
    BY <1>1, <1>2, <2>1 DEF Stage
  <2> QED
    BY <1>1, <1>2, <1>3, <1>4, <2>2
       DEF Contract!StartWrite, Contract!Becomes, Contract!NoneIs
<1>6. CASE pending' = pending
  <2>1. Stage' = [Stage EXCEPT ![id] = "Ended"]
    BY <1>1, <1>2, <1>6 DEF Stage
  <2> QED
    BY <1>1, <1>2, <2>1 DEF Contract!GiveUp, Contract!Becomes
<1> QED
  BY <1>5, <1>6 DEF ConfirmAction

LEMMA PollEnds ==
  ASSUME IInv, PollOperationCompletion
  PROVE  Contract!EndWrite(operation.plan) \/ UNCHANGED Contract!vars
<1>1. /\ pending # 0 /\ pending' = 0 /\ Running
      /\ UNCHANGED <<consumed, nextPlan, prepared, moved>>
  BY DEF PollOperationCompletion, IInv, OperationOwner, plan
<1>2. operation.plan \in PlanId
  BY <1>1 DEF IInv, TypeOK, Running, NoOperation, OperationRecord
<1>3. CASE operation.plan \in consumed
  <2>1. Stage[operation.plan] = "Writing"
    BY <1>1, <1>2, <1>3 DEF Stage
  <2>2. Stage' = [Stage EXCEPT ![operation.plan] = "Ended"]
    BY <1>1, <1>2, <1>3 DEF Stage, Awaiting
  <2> QED
    BY <1>1, <2>1, <2>2 DEF Contract!EndWrite, Contract!Becomes
<1>4. CASE operation.plan \notin consumed
  <2>1. Stage' = Stage
    BY <1>1, <1>2, <1>4 DEF Stage, Awaiting
  <2> QED
    BY <1>1, <2>1 DEF Contract!vars
<1> QED
  BY <1>3, <1>4

\* New evidence: the plan shown is withdrawn, or things move behind no plan.
LEMMA EvidenceMoves ==
  ASSUME IInv, UNCHANGED <<consumed, nextPlan, pending, operation>>,
         InvalidatePrepared("SnapshotChanged") \/ UNCHANGED prepared,
         moved' \in {moved, TRUE}
  PROVE  [Contract!Next]_(Contract!vars)
<1>0. (~moved)' = ~moved \/ (~moved)' = FALSE
  BY DEF IInv, TypeOK
<1>1. CASE Awaiting /\ ~Awaiting'
  <2>1. prepared.id \in PlanId
    BY <1>1, StageOfShown
  <2>2. Contract!Becomes(prepared.id, "Shown", "Withdrawn")
    BY <1>1, DropWithdraws
  <2>3. Contract!Withdraw(prepared.id)
    BY <1>0, <2>2, Zenon DEF Contract!Withdraw
  <2> QED
    BY <2>1, <2>3 DEF Contract!Next
<1>2. CASE ~Awaiting \/ UNCHANGED prepared
  <2>1. Stage' = Stage
    BY <1>2, StageKept DEF InvalidatePrepared
  <2>2. (~moved)' = ~moved => UNCHANGED Contract!vars
    BY <2>1 DEF Contract!vars
  <2>3. (~moved)' = FALSE => Contract!Move
    BY <2>1 DEF Contract!Move
  <2> QED
    BY <1>0, <2>2, <2>3 DEF Contract!Next
<1>3. Awaiting => prepared \in PlanRecord
  BY DEF IInv, TypeOK, Awaiting, NoPlan
<1> QED
  BY <1>1, <1>2, <1>3 DEF InvalidatePrepared, Awaiting, PlanRecord

LEMMA ContractStep ==
  ASSUME IInv, [Next]_vars
  PROVE  [Contract!Next]_(Contract!vars)
<1>1. ASSUME NEW a \in Action, PrepareAction(a) PROVE [Contract!Next]_(Contract!vars)
  <2>1. nextPlan \in PlanId
    BY <1>1, ConstantsAssumption DEF PrepareAction, PlanFits, IInv, TypeOK, PlanId
  <2> QED
    BY <1>1, <2>1, PrepareShows DEF Contract!Next
<1>2. ASSUME NEW id \in PlanId, ConfirmInvalidates(id) \/ CancelAction(id)
      PROVE [Contract!Next]_(Contract!vars)
  <2>1. UNCHANGED <<consumed, nextPlan, pending, operation, moved>> /\ ~Awaiting'
    BY <1>2 DEF ConfirmInvalidates, Confirmable, CancelAction, execution, Awaiting, NoPlan,
                IInv, TypeOK, PlanRecord, Verdict
  <2>2. CASE Awaiting
    <3>1. prepared.id \in PlanId
      BY <2>2, StageOfShown
    <3>2. Contract!Withdraw(prepared.id)
      BY <2>1, <2>2, DropWithdraws DEF Contract!Withdraw
    <3> QED
      BY <3>1, <3>2 DEF Contract!Next
  <2>3. CASE ~Awaiting
    BY <2>1, <2>3 DEF Stage, Contract!vars
  <2> QED
    BY <2>2, <2>3
<1>3. ASSUME NEW id \in PlanId, ConfirmAction(id) PROVE [Contract!Next]_(Contract!vars)
  BY <1>3, ConfirmStarts DEF Contract!Next
<1>4. CASE PollOperationCompletion
  <2>1. operation.plan \in PlanId
    BY <1>4 DEF PollOperationCompletion, IInv, OperationOwner, TypeOK, Running, NoOperation,
                OperationRecord
  <2> QED
    BY <1>4, <2>1, PollEnds DEF Contract!Next
<1>5. ASSUME NEW id \in OperationId, ~Running, DismissOperation(id)
      PROVE [Contract!Next]_(Contract!vars)
  <2>1. pending = 0 /\ UNCHANGED <<consumed, nextPlan, prepared, pending, moved>>
    BY <1>5 DEF DismissOperation, IInv, OperationOwner, plan
  <2> QED
    BY <2>1 DEF Stage, Awaiting, Contract!vars
<1>6. ASSUME NEW g \in Ground, SetActiveProbe(g) PROVE [Contract!Next]_(Contract!vars)
  <2>1. /\ UNCHANGED <<consumed, nextPlan, prepared, pending, operation>>
        /\ moved' \in {moved, TRUE}
    BY <1>6 DEF SetActiveProbe, plan, execution, IInv, TypeOK
  <2> QED
    BY <2>1, EvidenceMoves
<1>7. CASE InventoryFinished \/ \E g \in Ground : StageFinished(g)
  <2>1. /\ UNCHANGED <<consumed, nextPlan, pending, operation>>
        /\ InvalidatePrepared("SnapshotChanged")
        /\ moved' \in {moved, TRUE}
    BY <1>7 DEF InventoryFinished, StageFinished, execution, IInv, TypeOK
  <2> QED
    BY <2>1, EvidenceMoves
<1>8. RequestRefresh \/ Executor \/ DeferRefresh \/ StartRefresh \/ RefreshFinished
        \/ Others \/ Tick \/ UNCHANGED vars
        => UNCHANGED Contract!vars
  <2>1. RequestRefresh \/ Executor \/ DeferRefresh \/ StartRefresh \/ RefreshFinished
          \/ Others \/ Tick \/ UNCHANGED vars
          => UNCHANGED <<consumed, nextPlan, prepared, pending, operation, moved>>
    BY DEF RequestRefresh, Executor, WorkerReturns, DeferRefresh, StartRefresh,
       RefreshFinished, Others, StartHostJob, EndHostJob, StartSerialJob, EndSerialJob, Tick,
       plan, execution, vars
  <2> QED
    BY <2>1, StageKept DEF Contract!vars
<1> QED
  BY <1>1, <1>2, <1>3, <1>4, <1>5, <1>6, <1>7, <1>8 DEF Next, User, Refresh

\* The controller, its threads and the scans implement the contract: one consent,
\* at most one write, alone and on unmoved ground.
THEOREM ContractKept == Spec => KeepsContract
<1>1. Init => Contract!Init
  <2>1. Init => /\ consumed = {} /\ nextPlan = 1 /\ ~moved
    BY DEF Init
  <2> QED
    BY <2>1, ConstantsAssumption DEF Contract!Init, Stage, PlanId
<1>2. IInv /\ [Next]_vars => [Contract!Next]_(Contract!vars)
  BY ContractStep
<1> QED
  BY Invariance, <1>1, <1>2, PTL DEF Spec, KeepsContract, Contract!Spec

-----------------------------------------------------------------------------
(* The dialogs in front of the controller (ConsentFlow).  Snapshots and        *)
(* commands are old when they are read, so what holds of the controller now    *)
(* must be kept of the plan on the screen and of every command in the queue.   *)

Snapshot == [prepared : PlanRecord \cup {NoPlan},
             operation : OperationRecord \cup {NoOperation}]

\* The variables of the panel side hold what their names say.
PanelTypes ==
  /\ ConsentTypeOK
  /\ published \in Snapshot
  /\ planAction \in [PlanId -> Action \cup {"None"}]
  /\ resultBoxes \in [OperationId -> Nat]

\* A plan, in the controller or on the screen, is of the action it was made for.
Attributed ==
  \A p \in {prepared, published.prepared} :
    p # NoPlan => p.id < nextPlan /\ planAction[p.id] = p.action

\* The plans for whose tag a box was answered yes.
AgreedPlans ==
  {p \in PlanId : /\ p < nextPlan /\ planAction[p] \in Action
                  /\ \E a \in Action : /\ [plan |-> p, action |-> a] \in consent
                                       /\ TagOf[a] = TagOf[planAction[p]]}

\* The user agreed before a confirmation was sent, and so before a plan was
\* carried out.
AgreedFirst ==
  /\ \A i \in DOMAIN queue : queue[i].kind = "Confirm" => queue[i].id \in AgreedPlans
  /\ \A p \in PlanId : executed[p] # 0 => p \in AgreedPlans

\* No operation is known before its id is handed out.
OperationIds == operation.id < nextOperation /\ published.operation.id < nextOperation

\* An operation whose box was shown is remembered as long as it is on the screen;
\* once it left the screen the controller no longer has it.
ShownKept ==
  \A o \in OperationId : resultBoxes[o] # 0 =>
    /\ resultBoxes[o] = 1 /\ o < nextOperation
    /\ published.operation.id = o => dialoged = o
    /\ published.operation.id # o => operation.id # o

\* The operations that are over, or gone: none of them will ever run again.
Settled == {o \in OperationId : o < nextOperation /\ ~(Running /\ operation.id = o)}

\* Only these are dismissed: on the screen, in a result box and in the queue.
DismissedAreSettled ==
  /\ \A i \in DOMAIN queue : queue[i].kind = "Dismiss" => queue[i].id \in Settled
  /\ box.state = "Result" => box.operation \in Settled
  /\ published.operation.state \notin {"None", "Running"} => published.operation.id \in Settled

ConsentInv == /\ IInv /\ PanelTypes
              /\ Attributed /\ AgreedFirst /\ OperationIds /\ ShownKept
              /\ DismissedAreSettled

LEMMA InitConsentInv == ConsentInit => ConsentInv
<1> USE ConstantsAssumption, ConsentAssumption DEF PlanId, OperationId
<1> SUFFICES ASSUME ConsentInit PROVE ConsentInv
  OBVIOUS
<1>1. IInv
  BY InitIInv DEF ConsentInit
<1>2. PanelTypes
  <2>1. published \in Snapshot
    BY DEF ConsentInit, Snapshot
  <2>2. queue \in Seq(Command) /\ Len(queue) <= QueueCapacity
    BY DEF ConsentInit
  <2> QED
    BY <1>1, <2>1, <2>2 DEF ConsentInit, PanelTypes, ConsentTypeOK, Box, IInv
<1>3. Attributed /\ OperationIds
  BY DEF ConsentInit, Init, Attributed, OperationIds, NoOperation
<1>4. AgreedFirst /\ ShownKept
  BY DEF ConsentInit, Init, AgreedFirst, ShownKept
<1>5. DismissedAreSettled
  BY DEF ConsentInit, DismissedAreSettled, NoBox, NoOperation
<1> QED
  BY <1>1, <1>2, <1>3, <1>4, <1>5 DEF ConsentInv

\* A command of the queue names what its kind is about.
LEMMA Commands ==
  ASSUME NEW c \in Command
  PROVE  /\ c.kind \in {"Prepare", "Confirm", "Cancel", "Dismiss"}
         /\ c.kind = "Prepare" => c.action \in Action
         /\ c.kind \in {"Confirm", "Cancel"} => c.id \in PlanId
         /\ c.kind = "Dismiss" => c.id \in OperationId
BY DEF Command

LEMMA HeadIsCommand ==
  ASSUME PanelTypes, queue # <<>>
  PROVE  Head(queue) \in Command
BY DEF PanelTypes, ConsentTypeOK

\* What a command makes of the controller is a step of the controller.
LEMMA CommandSteps ==
  ASSUME PanelTypes, DismissedAreSettled, HandleCommand
  PROVE  [Next]_vars
<1> DEFINE c == Head(queue)
<1>1. /\ c.kind \in {"Prepare", "Confirm", "Cancel", "Dismiss"}
      /\ c.kind = "Prepare" => c.action \in Action
      /\ c.kind \in {"Confirm", "Cancel"} => c.id \in PlanId
      /\ c.kind = "Dismiss" => c.id \in OperationId
  <2>1. c \in Command
    BY HeadIsCommand DEF HandleCommand
  <2> QED
    BY <2>1, Commands
<1>2. \/ c.kind = "Prepare" /\ HandlePrepare(c.action)
      \/ c.kind = "Confirm" /\ HandleConfirm(c.id)
      \/ c.kind = "Cancel" /\ HandleCancel(c.id)
      \/ c.kind = "Dismiss" /\ HandleDismiss(c.id)
  BY DEF HandleCommand
<1>0. c.kind = "Dismiss" => c.id \in Settled
  <2>1. 1 \in DOMAIN queue /\ c = queue[1]
    BY DEF HandleCommand, PanelTypes, ConsentTypeOK
  <2> QED
    BY <2>1 DEF DismissedAreSettled
<1> HIDE DEF c
<1>3. CASE c.kind = "Prepare" /\ HandlePrepare(c.action)
  BY <1>1, <1>3 DEF HandlePrepare, Next, User
<1>4. CASE c.kind = "Confirm" /\ HandleConfirm(c.id)
  BY <1>1, <1>4 DEF HandleConfirm, Next, User
<1>5. CASE c.kind = "Cancel" /\ HandleCancel(c.id)
  BY <1>1, <1>5 DEF HandleCancel, Next, User
<1>6. CASE c.kind = "Dismiss" /\ HandleDismiss(c.id)
  <2>1. DismissOperation(c.id) => ~Running
    BY <1>0, <1>6 DEF DismissOperation, Settled
  <2> QED
    BY <1>1, <1>6, <2>1 DEF HandleDismiss, Next, User
<1> QED
  BY <1>2, <1>3, <1>4, <1>5, <1>6

\* The panel, its dialog thread and a publication leave the controller alone.
LEMMA PanelLeaves ==
  ASSUME Panel \/ DialogThread \/ Publish \/ UNCHANGED consentVars
  PROVE  UNCHANGED vars /\ UNCHANGED planAction
<1>1. Panel => UNCHANGED vars /\ UNCHANGED planAction
  BY DEF Panel, ClickAction, AnswerBox, ShowResult, ForgetResult, CloseResult
<1>2. DialogThread => UNCHANGED vars /\ UNCHANGED planAction
  BY DEF DialogThread, SendAnswer, LookAgain, GiveUp
<1>3. Publish \/ UNCHANGED consentVars => UNCHANGED vars /\ UNCHANGED planAction
  BY DEF Publish, consentVars
<1> QED
  BY <1>1, <1>2, <1>3

\* The controller behind the dialogs is the one of PlanLifecycle.
LEMMA ControllerSteps ==
  ASSUME PanelTypes, DismissedAreSettled, [ConsentNext]_consentVars
  PROVE  [Next]_vars
<1>1. CASE Panel \/ DialogThread \/ Publish \/ UNCHANGED consentVars
  BY <1>1, PanelLeaves
<1>2. CASE HandleCommand
  BY <1>2, CommandSteps
<1>3. CASE RunnerStep
  BY <1>3 DEF RunnerStep, Next, User
<1>4. CASE Outside \/ TimePasses
  BY <1>4 DEF Outside, TimePasses, Next, User
<1> QED
  BY <1>1, <1>2, <1>3, <1>4 DEF ConsentNext

\* The plan in the controller stays, is marked, or goes.
SamePlan ==
  \/ prepared' = prepared
  \/ prepared' = NoPlan
  \/ prepared # NoPlan /\ prepared'.id = prepared.id /\ prepared'.action = prepared.action

Marked == \E r : prepared' = [prepared EXCEPT !.state = r]

LEMMA MarkedIsSame ==
  ASSUME TypeOK, prepared # NoPlan, Marked
  PROVE  SamePlan
<1>1. prepared \in PlanRecord
  BY DEF TypeOK
<1>2. prepared'.id = prepared.id /\ prepared'.action = prepared.action
  BY <1>1 DEF Marked, PlanRecord
<1> QED
  BY <1>2 DEF SamePlan

LEMMA ScanMarks ==
  ASSUME TypeOK, NEW r, InvalidatePrepared(r)
  PROVE  SamePlan
<1>1. CASE Awaiting
  <2>1. prepared # NoPlan
    BY <1>1 DEF Awaiting, NoPlan
  <2> QED
    BY <1>1, <2>1, MarkedIsSame DEF Marked, InvalidatePrepared
<1>2. CASE ~Awaiting
  BY <1>2 DEF SamePlan, InvalidatePrepared
<1> QED
  BY <1>1, <1>2

\* A plan comes into being by a prepare command only, and its action is noted.
LEMMA Preparing ==
  ASSUME PanelTypes, [ConsentNext]_consentVars
  PROVE  \/ \E a \in Action :
              PrepareAction(a) /\ planAction' = [planAction EXCEPT ![nextPlan] = a]
         \/ UNCHANGED <<planAction, nextPlan>> /\ SamePlan
<1>t. TypeOK
  BY DEF PanelTypes, ConsentTypeOK
<1>k. UNCHANGED vars => UNCHANGED nextPlan /\ SamePlan
  BY DEF vars, plan, SamePlan
<1>1. CASE Panel \/ DialogThread \/ Publish \/ UNCHANGED consentVars
  BY <1>1, <1>k, PanelLeaves
<1>2. CASE HandleCommand
  <2> DEFINE c == Head(queue)
  <2>1. c.kind = "Prepare" => c.action \in Action
    BY <1>2, HeadIsCommand, Commands DEF HandleCommand
  <2>2. \/ c.kind = "Prepare" /\ HandlePrepare(c.action)
        \/ HandleConfirm(c.id) \/ HandleCancel(c.id) \/ HandleDismiss(c.id)
    BY <1>2 DEF HandleCommand
  <2> HIDE DEF c
  <2>3. CASE c.kind = "Prepare" /\ HandlePrepare(c.action)
    BY <1>k, <2>1, <2>3 DEF HandlePrepare
  <2>4. CASE HandleConfirm(c.id)
    <3>1. CASE ConfirmInvalidates(c.id)
      <4>1. prepared # NoPlan
        BY <3>1 DEF ConfirmInvalidates, Confirmable, Awaiting, NoPlan
      <4>2. Marked
        BY <3>1 DEF ConfirmInvalidates, Marked
      <4> QED
        BY <1>t, <2>4, <3>1, <4>1, <4>2, MarkedIsSame DEF ConfirmInvalidates, HandleConfirm
    <3>2. CASE ConfirmAction(c.id)
      BY <2>4, <3>2 DEF ConfirmAction, SamePlan, HandleConfirm
    <3> QED
      BY <1>k, <2>4, <3>1, <3>2 DEF HandleConfirm
  <2>5. CASE HandleCancel(c.id)
    BY <1>k, <2>5 DEF HandleCancel, CancelAction, SamePlan
  <2>6. CASE HandleDismiss(c.id)
    BY <1>k, <2>6 DEF HandleDismiss, DismissOperation, plan, SamePlan
  <2> QED
    BY <2>2, <2>3, <2>4, <2>5, <2>6
<1>3. CASE RunnerStep
  <2>1. CASE InventoryFinished \/ \E g \in Ground : StageFinished(g)
    <3>1. SamePlan /\ UNCHANGED nextPlan
      BY <1>t, <2>1, ScanMarks DEF InventoryFinished, StageFinished
    <3> QED
      BY <1>3, <3>1 DEF RunnerStep
  <2>2. CASE \/ PollOperationCompletion \/ Others \/ DeferRefresh \/ StartRefresh
             \/ RefreshFinished \/ (\E g \in Ground : SetActiveProbe(g))
    <3>1. UNCHANGED <<prepared, nextPlan>>
      BY <2>2 DEF PollOperationCompletion, Others, StartHostJob, EndHostJob, StartSerialJob,
         EndSerialJob, DeferRefresh, StartRefresh, RefreshFinished, SetActiveProbe, plan
    <3> QED
      BY <1>3, <3>1 DEF RunnerStep, SamePlan
  <2> QED
    BY <1>3, <2>1, <2>2 DEF RunnerStep, Refresh
<1>4. CASE Outside \/ TimePasses
  BY <1>4 DEF Outside, TimePasses, Executor, WorkerReturns, RequestRefresh, Tick, plan, SamePlan
<1> QED
  BY <1>1, <1>2, <1>3, <1>4 DEF ConsentNext

\* Only the confirmation at the head of the queue starts a write.
LEMMA Executing ==
  ASSUME PanelTypes, [ConsentNext]_consentVars, NEW p \in PlanId, executed'[p] # executed[p]
  PROVE  queue # <<>> /\ Head(queue).kind = "Confirm" /\ Head(queue).id = p
<1>t. executed \in [PlanId -> Nat]
  BY DEF PanelTypes, ConsentTypeOK, TypeOK
<1>k. ~UNCHANGED vars /\ executed' # executed
  BY DEF vars, execution
<1>1. CASE Panel \/ DialogThread \/ Publish \/ UNCHANGED consentVars
  BY <1>1, <1>k, PanelLeaves
<1>2. CASE HandleCommand
  <2> DEFINE c == Head(queue)
  <2>2. \/ c.kind = "Prepare" /\ HandlePrepare(c.action)
        \/ c.kind = "Confirm" /\ HandleConfirm(c.id)
        \/ c.kind = "Cancel" /\ HandleCancel(c.id)
        \/ c.kind = "Dismiss" /\ HandleDismiss(c.id)
    BY <1>2 DEF HandleCommand
  <2> HIDE DEF c
  <2>3. ~HandlePrepare(c.action)
    BY <1>k DEF HandlePrepare, PrepareAction, execution
  <2>4. ~HandleCancel(c.id)
    BY <1>k DEF HandleCancel, CancelAction, execution
  <2>5. ~HandleDismiss(c.id)
    BY <1>k DEF HandleDismiss, DismissOperation
  <2>6. c.kind = "Confirm" /\ ConfirmAction(c.id)
    BY <1>k, <2>2, <2>3, <2>4, <2>5 DEF HandleConfirm, ConfirmInvalidates, execution
  <2>7. executed' = [executed EXCEPT ![c.id] = @ + 1]
    BY <1>k, <2>6 DEF ConfirmAction
  <2>8. c.id = p
    BY <1>t, <2>7
  <2> QED
    BY <1>2, <2>6, <2>8 DEF c, HandleCommand
<1>3. CASE RunnerStep
  BY <1>3, <1>k DEF RunnerStep, PollOperationCompletion, Others, StartHostJob, EndHostJob,
     StartSerialJob, EndSerialJob, Refresh, DeferRefresh, StartRefresh, InventoryFinished,
     StageFinished, RefreshFinished, SetActiveProbe, execution
<1>4. CASE Outside \/ TimePasses
  BY <1>4, <1>k DEF Outside, TimePasses, Executor, WorkerReturns, RequestRefresh, Tick,
     execution
<1> QED
  BY <1>1, <1>2, <1>3, <1>4 DEF ConsentNext

\* What the panel sends: a confirmation only with the answer the user gave to a
\* box of the plan's tag, for the plan on the screen; a dismissal only of the
\* operation its result box was about.
LEMMA Sending ==
  ASSUME PanelTypes, [ConsentNext]_consentVars
  PROVE  \/ queue' = queue
         \/ queue # <<>> /\ queue' = Tail(queue)
         \/ \E c \in Command :
              /\ queue' = Append(queue, c) /\ Len(queue) < QueueCapacity
              /\ c.kind = "Confirm" =>
                   /\ c.id = published.prepared.id /\ published.prepared # NoPlan
                   /\ \E a \in Action : /\ [plan |-> c.id, action |-> a] \in consent'
                                        /\ TagOf[a] = TagOf[published.prepared.action]
              /\ c.kind = "Dismiss" => box.state = "Result" /\ c.id = box.operation
<1>b. box \in Box /\ published \in Snapshot
  BY DEF PanelTypes, ConsentTypeOK
<1>1. ASSUME NEW a \in Action, ClickAction(a)
      PROVE \E c \in Command :
              /\ queue' = Append(queue, c) /\ Len(queue) < QueueCapacity
              /\ c.kind = "Prepare"
  <2>1. [kind |-> "Prepare", action |-> a] \in Command
    BY DEF Command
  <2> QED
    BY <1>1, <2>1 DEF ClickAction, TrySend
<1>2. ASSUME CloseResult
      PROVE \/ queue' = queue
            \/ \E c \in Command :
                 /\ queue' = Append(queue, c) /\ Len(queue) < QueueCapacity
                 /\ c.kind = "Dismiss" /\ box.state = "Result" /\ c.id = box.operation
  <2>1. box.operation \in OperationId
    BY <1>b, <1>2 DEF CloseResult, Box, NoBox
  <2>2. [kind |-> "Dismiss", id |-> box.operation] \in Command
    BY <2>1 DEF Command
  <2> QED
    BY <1>2, <2>2 DEF CloseResult, TrySend
<1>3. CASE SendAnswer
  <2> DEFINE id == published.prepared.id
             c == [kind |-> IF box.yes THEN "Confirm" ELSE "Cancel", id |-> id]
  <2>1. published.prepared \in PlanRecord /\ published.prepared # NoPlan
    BY <1>b, <1>3 DEF SendAnswer, PlanAppeared, Snapshot, NoPlan, PlanRecord
  <2>2. id \in PlanId
    BY <2>1 DEF PlanRecord
  <2>3. box.action \in Action /\ box.yes \in BOOLEAN
    BY <1>b, <1>3 DEF SendAnswer, Box, NoBox
  <2>4. c \in Command
    <3>1. [kind |-> "Confirm", id |-> id] \in Command /\ [kind |-> "Cancel", id |-> id] \in Command
      BY <2>2 DEF Command
    <3> QED
      BY <2>3, <3>1
  <2>5. queue' = queue \/ (queue' = Append(queue, c) /\ Len(queue) < QueueCapacity)
    BY <1>3 DEF SendAnswer, TrySend
  <2>6. c.kind = "Confirm" => box.yes
    OBVIOUS
  <2>7. box.yes => [plan |-> id, action |-> box.action] \in consent'
    BY <1>3 DEF SendAnswer
  <2>8. TagOf[box.action] = TagOf[published.prepared.action]
    BY <1>3 DEF SendAnswer, PlanAppeared
  <2>9. c.id = id
    OBVIOUS
  <2>12. c.kind # "Dismiss"
    OBVIOUS
  <2> HIDE DEF c, id
  <2>10. c.kind = "Confirm" =>
           \E a \in Action : /\ [plan |-> c.id, action |-> a] \in consent'
                             /\ TagOf[a] = TagOf[published.prepared.action]
    BY <2>3, <2>6, <2>7, <2>8, <2>9
  <2>11. c.id = published.prepared.id
    BY <2>9 DEF id
  <2> QED
    BY <2>1, <2>4, <2>5, <2>10, <2>11, <2>12
<1>4. CASE \/ \E yes \in BOOLEAN : AnswerBox(yes)
           \/ ShowResult \/ ForgetResult \/ LookAgain \/ GiveUp \/ RunnerStep \/ Publish
           \/ Outside \/ TimePasses \/ UNCHANGED consentVars
  BY <1>4 DEF AnswerBox, ShowResult, ForgetResult, LookAgain, GiveUp, RunnerStep, Publish,
     Outside, TimePasses, consentVars, ui
<1>5. CASE HandleCommand
  BY <1>5 DEF HandleCommand
<1> QED
  BY <1>1, <1>2, <1>3, <1>4, <1>5 DEF ConsentNext, Panel, DialogThread

\* The confirmations noted stay noted.
LEMMA ConsentStays ==
  ASSUME [ConsentNext]_consentVars
  PROVE  consent \subseteq consent'
<1>1. SendAnswer => consent \subseteq consent'
  BY DEF SendAnswer
<1>2. ~SendAnswer => consent' = consent
  BY DEF ConsentNext, Panel, ClickAction, AnswerBox, ShowResult, ForgetResult, CloseResult,
     DialogThread, LookAgain, GiveUp, HandleCommand, RunnerStep, Publish, Outside, TimePasses,
     consentVars, ui
<1> QED
  BY <1>1, <1>2

\* The screen shows what it did, or what the controller has, which then stays.
LEMMA Publishing ==
  ASSUME [ConsentNext]_consentVars
  PROVE  \/ published' = published
         \/ /\ published' = [prepared |-> prepared, operation |-> operation]
            /\ UNCHANGED vars /\ UNCHANGED <<planAction, resultBoxes, dialoged>>
<1>1. Publish => /\ published' = [prepared |-> prepared, operation |-> operation]
                 /\ UNCHANGED vars /\ UNCHANGED <<planAction, resultBoxes, dialoged>>
  BY DEF Publish
<1>2. ~Publish => published' = published
  BY DEF ConsentNext, Panel, ClickAction, AnswerBox, ShowResult, ForgetResult, CloseResult,
     DialogThread, SendAnswer, LookAgain, GiveUp, HandleCommand, RunnerStep, Outside,
     TimePasses, consentVars, ui
<1> QED
  BY <1>1, <1>2

\* The operation in the controller stays, is finished, goes, or is a new one.
LEMMA Operating ==
  ASSUME TypeOK, [Next]_vars
  PROVE  \/ nextOperation' = nextOperation /\ operation'.id \in {operation.id, 0}
         \/ nextOperation' = nextOperation + 1 /\ operation'.id = nextOperation
<1>1. ASSUME NEW id \in PlanId, ConfirmAction(id)
      PROVE nextOperation' = nextOperation + 1 /\ operation'.id = nextOperation
  BY <1>1 DEF ConfirmAction
<1>2. ASSUME NEW id \in OperationId, ~Running, DismissOperation(id)
      PROVE nextOperation' = nextOperation /\ operation'.id = 0
  BY <1>2 DEF DismissOperation, NoOperation
<1>3. CASE PollOperationCompletion
  <2>1. operation' = operation \/ \E s : operation' = [operation EXCEPT !.state = s]
    BY <1>3 DEF PollOperationCompletion
  <2>2. operation'.id = operation.id
    BY <2>1 DEF TypeOK, OperationRecord, NoOperation
  <2> QED
    BY <1>3, <2>2 DEF PollOperationCompletion
<1>4. ASSUME \/ \E a \in Action : PrepareAction(a)
             \/ \E id \in PlanId : ConfirmInvalidates(id) \/ CancelAction(id)
             \/ \E g \in Ground : SetActiveProbe(g) \/ StageFinished(g)
             \/ RequestRefresh \/ Executor \/ DeferRefresh \/ StartRefresh \/ InventoryFinished
             \/ RefreshFinished \/ Others \/ Tick \/ UNCHANGED vars
      PROVE UNCHANGED <<operation, nextOperation>>
  BY <1>4 DEF PrepareAction, ConfirmInvalidates, CancelAction, SetActiveProbe, StageFinished,
     RequestRefresh, Executor, WorkerReturns, DeferRefresh, StartRefresh, InventoryFinished,
     RefreshFinished, Others, StartHostJob, EndHostJob, StartSerialJob, EndSerialJob, Tick,
     execution, vars
<1> QED
  BY <1>1, <1>2, <1>3, <1>4 DEF Next, User, Refresh

\* A command is sent while the controller does nothing.
LEMMA SendingLeaves ==
  ASSUME PanelTypes, [ConsentNext]_consentVars, NEW c \in Command,
         queue' = Append(queue, c)
  PROVE  UNCHANGED <<nextPlan, planAction>>
<1>q. queue \in Seq(Command)
  BY DEF PanelTypes, ConsentTypeOK
<1>1. CASE Panel \/ DialogThread \/ Publish \/ UNCHANGED consentVars
  BY <1>1, PanelLeaves DEF vars, plan
<1>2. ASSUME HandleCommand PROVE FALSE
  <2>1. queue # <<>> /\ queue' = Tail(queue)
    BY <1>2 DEF HandleCommand
  <2>2. Len(queue') = Len(queue) - 1 /\ Len(queue) \in Nat
    BY <1>q, <2>1
  <2> QED
    BY <1>q, <2>2
<1>3. ASSUME RunnerStep \/ Outside \/ TimePasses PROVE FALSE
  <2>1. queue' = queue
    BY <1>3 DEF RunnerStep, Outside, TimePasses, ui
  <2>2. Len(queue') = Len(queue) + 1 /\ Len(queue) \in Nat
    BY <1>q
  <2> QED
    BY <2>1, <2>2
<1> QED
  BY <1>1, <1>2, <1>3 DEF ConsentNext

LEMMA NextQueue ==
  ASSUME PanelTypes, [ConsentNext]_consentVars
  PROVE  queue' \in Seq(Command) /\ Len(queue') <= QueueCapacity
<1> USE ConsentAssumption
<1>1. queue \in Seq(Command) /\ Len(queue) <= QueueCapacity
  BY DEF PanelTypes, ConsentTypeOK
<1>2. CASE queue' = queue
  BY <1>1, <1>2
<1>3. CASE queue # <<>> /\ queue' = Tail(queue)
  <2>1. queue' \in Seq(Command) /\ Len(queue') = Len(queue) - 1
    BY <1>1, <1>3
  <2>2. Len(queue) \in Nat
    BY <1>1
  <2> QED
    BY <1>1, <2>1, <2>2
<1>4. ASSUME NEW c \in Command, queue' = Append(queue, c), Len(queue) < QueueCapacity
      PROVE queue' \in Seq(Command) /\ Len(queue') <= QueueCapacity
  <2>1. queue' \in Seq(Command) /\ Len(queue') = Len(queue) + 1
    BY <1>1, <1>4
  <2>2. Len(queue) \in Nat
    BY <1>1
  <2> QED
    BY <1>4, <2>1, <2>2
<1> QED
  BY <1>2, <1>3, <1>4, Sending

LEMMA NextBox ==
  ASSUME PanelTypes, [ConsentNext]_consentVars
  PROVE  box' \in Box
<1> USE ConstantsAssumption, ConsentAssumption
<1>b. box \in Box /\ published \in Snapshot /\ clock \in Nat
  BY DEF PanelTypes, ConsentTypeOK, TypeOK
<1>1. ASSUME NEW a \in Action, ClickAction(a) PROVE box' \in Box
  <2>1. published.prepared.id \in PlanId \cup {0}
    BY <1>b DEF Snapshot, PlanRecord, NoPlan
  <2> QED
    BY <1>1, <2>1 DEF ClickAction, Box
<1>2. ASSUME NEW yes \in BOOLEAN, AnswerBox(yes) PROVE box' \in Box
  <2>1. box.action \in Action /\ box.previous \in PlanId \cup {0}
    BY <1>b, <1>2 DEF AnswerBox, Box, NoBox
  <2>2. clock + PreparedPlanWait \in Nat
    BY <1>b
  <2> QED
    BY <1>2, <2>1, <2>2 DEF AnswerBox, Box
<1>3. CASE ShowResult
  <2>1. published.operation.id \in OperationId
    BY <1>b, <1>3 DEF ShowResult, Snapshot, OperationRecord, NoOperation
  <2> QED
    BY <1>3, <2>1 DEF ShowResult, Box
<1>4. CASE CloseResult \/ SendAnswer \/ GiveUp
  BY <1>4 DEF CloseResult, SendAnswer, GiveUp, Box
<1>5. CASE \/ ForgetResult \/ LookAgain \/ HandleCommand \/ RunnerStep \/ Publish \/ Outside
           \/ TimePasses \/ UNCHANGED consentVars
  BY <1>5, <1>b DEF ForgetResult, LookAgain, HandleCommand, RunnerStep, Publish, Outside,
     TimePasses, consentVars, ui
<1> QED
  BY <1>1, <1>2, <1>3, <1>4, <1>5 DEF ConsentNext, Panel, DialogThread

\* Only a result box is counted, and it is the one that is remembered.
LEMMA Showing ==
  ASSUME PanelTypes, [ConsentNext]_consentVars
  PROVE  \/ UNCHANGED <<dialoged, resultBoxes>>
         \/ /\ dialoged' = 0 /\ published.operation.id = 0
            /\ UNCHANGED <<vars, published, resultBoxes>>
         \/ /\ dialoged' = published.operation.id
            /\ published.operation.id \in OperationId /\ published.operation.id # dialoged
            /\ resultBoxes' = [resultBoxes EXCEPT ![published.operation.id] = @ + 1]
            /\ UNCHANGED <<vars, published>>
<1>1. CASE ShowResult
  <2>1. published.operation.id \in OperationId
    BY <1>1 DEF ShowResult, Snapshot, OperationRecord, NoOperation, PanelTypes
  <2> QED
    BY <1>1, <2>1 DEF ShowResult
<1>2. CASE ForgetResult
  BY <1>2 DEF ForgetResult, NoOperation
<1>3. CASE ~ShowResult /\ ~ForgetResult
  BY <1>3 DEF ConsentNext, Panel, ClickAction, AnswerBox, CloseResult, DialogThread, SendAnswer,
     LookAgain, GiveUp, HandleCommand, RunnerStep, Publish, Outside, TimePasses, consentVars, ui
<1> QED
  BY <1>1, <1>2, <1>3

LEMMA NextPanelTypes ==
  ASSUME PanelTypes, DismissedAreSettled, [ConsentNext]_consentVars
  PROVE  PanelTypes'
<1>t. TypeOK /\ published \in Snapshot /\ planAction \in [PlanId -> Action \cup {"None"}]
      /\ resultBoxes \in [OperationId -> Nat] /\ dialoged \in OperationId \cup {0}
      /\ dirty \in BOOLEAN /\ unseen \in BOOLEAN
  BY DEF PanelTypes, ConsentTypeOK
<1>1. TypeOK'
  BY <1>t, ControllerSteps, NextType
<1>2. published' \in Snapshot
  <2>1. [prepared |-> prepared, operation |-> operation] \in Snapshot
    BY <1>t DEF TypeOK, Snapshot
  <2> QED
    BY <1>t, <2>1, Publishing
<1>3. planAction' \in [PlanId -> Action \cup {"None"}]
  BY <1>t, Preparing
<1>4. resultBoxes' \in [OperationId -> Nat]
  BY <1>t, Showing
<1>5. dialoged' \in OperationId \cup {0}
  BY <1>t, Showing
<1>6. dirty' \in BOOLEAN
  BY <1>t DEF ConsentNext, Panel, ClickAction, AnswerBox, ShowResult, ForgetResult, CloseResult,
     DialogThread, SendAnswer, LookAgain, GiveUp, HandleCommand, RunnerStep, Publish, Outside,
     TimePasses, consentVars, ui
<1>7. unseen' \in BOOLEAN
  <2>1. ASSUME Publish PROVE unseen' \in BOOLEAN
    <3>1. unseen' = (box.state \in {"Asking", "Waiting"})
      BY <2>1 DEF Publish
    <3>2. (box.state \in {"Asking", "Waiting"}) \in BOOLEAN
      OBVIOUS
    <3> QED
      BY <3>1, <3>2, Zenon
  <2>2. ~Publish => unseen' \in {unseen, FALSE}
    BY DEF ConsentNext, Panel, ClickAction, AnswerBox, ShowResult, ForgetResult, CloseResult,
       DialogThread, SendAnswer, LookAgain, GiveUp, HandleCommand, RunnerStep, Outside,
       TimePasses, consentVars, ui
  <2> QED
    BY <1>t, <2>1, <2>2
<1> QED
  BY <1>1, <1>2, <1>3, <1>4, <1>5, <1>6, <1>7, NextQueue, NextBox DEF PanelTypes, ConsentTypeOK

LEMMA NextAttributed ==
  ASSUME PanelTypes, Attributed, [ConsentNext]_consentVars
  PROVE  Attributed'
<1>t. /\ prepared \in PlanRecord \cup {NoPlan} /\ published.prepared \in PlanRecord \cup {NoPlan}
      /\ planAction \in [PlanId -> Action \cup {"None"}] /\ nextPlan \in Nat
  BY DEF PanelTypes, ConsentTypeOK, TypeOK, Snapshot
<1>i. /\ prepared # NoPlan => prepared.id \in PlanId
      /\ published.prepared # NoPlan => published.prepared.id \in PlanId
  BY <1>t DEF PlanRecord
<1>a. /\ prepared # NoPlan => prepared.id < nextPlan /\ planAction[prepared.id] = prepared.action
      /\ published.prepared # NoPlan => /\ published.prepared.id < nextPlan
                                        /\ planAction[published.prepared.id]
                                             = published.prepared.action
  BY DEF Attributed
<1> DEFINE Right(p) == p # NoPlan => p.id < nextPlan' /\ planAction'[p.id] = p.action
<1>1. Right(prepared') /\ Right(published.prepared)
  <2>1. ASSUME NEW a \in Action, PrepareAction(a),
               planAction' = [planAction EXCEPT ![nextPlan] = a]
        PROVE  Right(prepared') /\ Right(published.prepared)
    <3>1. nextPlan \in PlanId /\ nextPlan' = nextPlan + 1
      BY <1>t, <2>1 DEF PrepareAction, PlanFits, PlanId, PanelTypes, ConsentTypeOK, TypeOK
    <3>2. prepared'.id = nextPlan /\ prepared'.action = a
      BY <2>1 DEF PrepareAction
    <3>3. planAction'[nextPlan] = a
      BY <1>t, <2>1, <3>1
    <3>4. published.prepared # NoPlan => published.prepared.id # nextPlan
      BY <1>t, <1>a, <1>i DEF PlanId
    <3>5. published.prepared # NoPlan =>
            planAction'[published.prepared.id] = planAction[published.prepared.id]
      BY <1>t, <1>i, <2>1, <3>4
    <3>6. nextPlan < nextPlan' /\ (published.prepared # NoPlan => published.prepared.id < nextPlan')
      BY <1>t, <1>a, <1>i, <3>1 DEF PlanId
    <3> QED
      BY <1>a, <3>2, <3>3, <3>5, <3>6
  <2>2. CASE UNCHANGED <<planAction, nextPlan>> /\ SamePlan
    BY <1>a, <2>2 DEF SamePlan
  <2> QED
    BY <2>1, <2>2, Preparing
<1>2. published'.prepared \in {published.prepared, prepared'}
  <2>1. CASE published' = published
    BY <2>1
  <2>2. CASE published' = [prepared |-> prepared, operation |-> operation] /\ UNCHANGED vars
    BY <2>2 DEF vars, plan
  <2> QED
    BY <2>1, <2>2, Publishing
<1> QED
  BY <1>1, <1>2 DEF Attributed

\* What was agreed stays agreed: a plan that exists keeps its action.
LEMMA AgreedStays ==
  ASSUME PanelTypes, [ConsentNext]_consentVars
  PROVE  AgreedPlans \subseteq AgreedPlans'
<1>t. nextPlan \in Nat /\ planAction \in [PlanId -> Action \cup {"None"}]
  BY DEF PanelTypes, ConsentTypeOK, TypeOK
<1> SUFFICES ASSUME NEW p \in AgreedPlans PROVE p \in AgreedPlans'
  OBVIOUS
<1>p. p \in PlanId /\ p < nextPlan
  BY DEF AgreedPlans
<1>1. p < nextPlan' /\ planAction'[p] = planAction[p]
  <2>1. ASSUME NEW a \in Action, PrepareAction(a),
               planAction' = [planAction EXCEPT ![nextPlan] = a]
        PROVE  p < nextPlan' /\ planAction'[p] = planAction[p]
    BY <1>t, <1>p, <2>1 DEF PrepareAction, PlanId
  <2> QED
    BY <1>p, <2>1, Preparing
<1>2. consent \subseteq consent'
  BY ConsentStays
<1> QED
  BY <1>p, <1>1, <1>2 DEF AgreedPlans, PlanId

LEMMA NextAgreedFirst ==
  ASSUME PanelTypes, Attributed, AgreedFirst, [ConsentNext]_consentVars
  PROVE  AgreedFirst'
<1>q. queue \in Seq(Command)
  BY DEF PanelTypes, ConsentTypeOK
<1> DEFINE Sent(c) == c.kind = "Confirm" => c.id \in AgreedPlans'
<1>1. \A i \in DOMAIN queue : Sent(queue[i])
  <2>1. SUFFICES ASSUME NEW i \in DOMAIN queue, queue[i].kind = "Confirm"
                 PROVE  queue[i].id \in AgreedPlans'
    OBVIOUS
  <2> QED
    BY <2>1, AgreedStays DEF AgreedFirst
<1>2. \A i \in DOMAIN queue' : Sent(queue'[i])
  <2>1. CASE queue' = queue
    BY <1>1, <2>1
  <2>2. CASE queue # <<>> /\ queue' = Tail(queue)
    <3> HIDE DEF Sent
    <3>1. \A i \in DOMAIN queue' : i + 1 \in DOMAIN queue /\ queue'[i] = queue[i + 1]
      BY <1>q, <2>2
    <3> QED
      BY <1>1, <3>1
  <2>3. ASSUME NEW c \in Command, queue' = Append(queue, c),
               c.kind = "Confirm" =>
                 /\ c.id = published.prepared.id /\ published.prepared # NoPlan
                 /\ \E a \in Action : /\ [plan |-> c.id, action |-> a] \in consent'
                                      /\ TagOf[a] = TagOf[published.prepared.action]
        PROVE  \A i \in DOMAIN queue' : Sent(queue'[i])
    <3>1. Sent(c)
      <4> SUFFICES ASSUME c.kind = "Confirm" PROVE c.id \in AgreedPlans'
        OBVIOUS
      <4>1. c.id = published.prepared.id /\ published.prepared \in PlanRecord
        BY <2>3 DEF PanelTypes, Snapshot
      <4>2. c.id \in PlanId /\ published.prepared.action \in Action
        BY <4>1 DEF PlanRecord
      <4>3. queue' # queue
        BY <1>q, <2>3
      <4>4. UNCHANGED <<nextPlan, planAction>>
        BY <1>q, <2>3, <4>3, SendingLeaves
      <4>5. c.id < nextPlan /\ planAction[c.id] = published.prepared.action
        BY <2>3, <4>1 DEF Attributed
      <4> QED
        BY <2>3, <4>2, <4>4, <4>5 DEF AgreedPlans, PlanId
    <3> HIDE DEF Sent
    <3>2. \A i \in DOMAIN queue' : queue'[i] = c \/ (i \in DOMAIN queue /\ queue'[i] = queue[i])
      BY <1>q, <2>3
    <3> QED
      BY <1>1, <3>1, <3>2
  <2> HIDE DEF Sent
  <2> QED
    BY <2>1, <2>2, <2>3, Sending
<1>3. \A p \in PlanId : executed'[p] # 0 => p \in AgreedPlans'
  <2> SUFFICES ASSUME NEW p \in PlanId, executed'[p] # 0
               PROVE  p \in AgreedPlans'
    OBVIOUS
  <2>1. CASE executed'[p] = executed[p]
    BY <2>1, AgreedStays DEF AgreedFirst
  <2>2. CASE executed'[p] # executed[p]
    <3>1. queue # <<>> /\ Head(queue).kind = "Confirm" /\ Head(queue).id = p
      BY <2>2, Executing
    <3>2. 1 \in DOMAIN queue /\ Head(queue) = queue[1]
      BY <1>q, <3>1
    <3> QED
      BY <3>1, <3>2, AgreedStays DEF AgreedFirst
  <2> QED
    BY <2>1, <2>2
<1> QED
  BY <1>2, <1>3 DEF AgreedFirst

LEMMA NextOperationIds ==
  ASSUME PanelTypes, DismissedAreSettled, OperationIds, [ConsentNext]_consentVars
  PROVE  OperationIds'
<1>t. /\ TypeOK /\ operation.id \in Nat /\ published.operation.id \in Nat
      /\ nextOperation \in Nat
  BY DEF PanelTypes, ConsentTypeOK, TypeOK, Snapshot, OperationRecord, NoOperation, OperationId
<1>1. operation'.id < nextOperation' /\ nextOperation <= nextOperation'
  BY <1>t, ControllerSteps, Operating DEF OperationIds
<1>2. CASE published' = published
  BY <1>t, <1>1, <1>2, NextPanelTypes DEF OperationIds, PanelTypes, ConsentTypeOK, TypeOK
<1>3. CASE published' = [prepared |-> prepared, operation |-> operation] /\ UNCHANGED vars
  BY <1>3 DEF OperationIds, vars, execution
<1> QED
  BY <1>2, <1>3, Publishing

LEMMA NextShownKept ==
  ASSUME PanelTypes, DismissedAreSettled, OperationIds, ShownKept, [ConsentNext]_consentVars
  PROVE  ShownKept'
<1>t. /\ TypeOK /\ operation.id \in Nat /\ published.operation.id \in OperationId \cup {0}
      /\ nextOperation \in Nat /\ resultBoxes \in [OperationId -> Nat]
  BY DEF PanelTypes, ConsentTypeOK, TypeOK, Snapshot, OperationRecord, NoOperation, OperationId
<1> SUFFICES ASSUME NEW o \in OperationId, resultBoxes'[o] # 0
             PROVE  /\ resultBoxes'[o] = 1 /\ o < nextOperation'
                    /\ published'.operation.id = o => dialoged' = o
                    /\ published'.operation.id # o => operation'.id # o
  BY DEF ShownKept
<1>k. resultBoxes[o] # 0 =>
        /\ resultBoxes[o] = 1 /\ o < nextOperation
        /\ published.operation.id = o => dialoged = o
        /\ published.operation.id # o => operation.id # o
  BY DEF ShownKept
<1>n. /\ nextOperation <= nextOperation'
      /\ operation'.id \in {operation.id, 0, nextOperation}
  BY <1>t, ControllerSteps, Operating
<1>1. CASE UNCHANGED <<dialoged, resultBoxes>> /\ published' = published
  <2>1. nextOperation' \in Nat
    BY NextPanelTypes DEF PanelTypes, ConsentTypeOK, TypeOK
  <2> QED
    BY <1>t, <1>k, <1>n, <1>1, <2>1 DEF OperationId
<1>2. CASE /\ published' = [prepared |-> prepared, operation |-> operation]
           /\ UNCHANGED vars /\ UNCHANGED <<resultBoxes, dialoged>>
  BY <1>k, <1>2 DEF vars, execution
<1>3. CASE /\ dialoged' = 0 /\ published.operation.id = 0
           /\ UNCHANGED <<vars, published, resultBoxes>>
  BY <1>k, <1>3 DEF vars, execution, OperationId
<1>4. CASE /\ dialoged' = published.operation.id
           /\ published.operation.id \in OperationId /\ published.operation.id # dialoged
           /\ resultBoxes' = [resultBoxes EXCEPT ![published.operation.id] = @ + 1]
           /\ UNCHANGED <<vars, published>>
  <2>1. CASE o = published.operation.id
    <3>1. resultBoxes'[o] = 1
      BY <1>t, <1>k, <1>4, <2>1
    <3> QED
      BY <1>4, <2>1, <3>1 DEF vars, execution, OperationIds
  <2>2. CASE o # published.operation.id
    BY <1>t, <1>k, <1>4, <2>2 DEF vars, execution
  <2> QED
    BY <2>1, <2>2
<1> QED
  BY <1>1, <1>2, <1>3, <1>4, Showing, Publishing

\* What is over stays over: a new operation has a new id.
LEMMA SettledStays ==
  ASSUME TypeOK, OperationOwner, [Next]_vars
  PROVE  Settled \subseteq Settled'
<1>t. nextOperation \in Nat /\ nextOperation' \in Nat
  BY NextType DEF TypeOK
<1> SUFFICES ASSUME NEW o \in OperationId, o < nextOperation, Running => operation.id # o
             PROVE  o < nextOperation' /\ (Running' => operation'.id # o)
  BY DEF Settled
<1>o. o \in Nat
  BY DEF OperationId
<1>1. CASE nextOperation' = nextOperation + 1 /\ operation'.id = nextOperation
  BY <1>t, <1>o, <1>1
<1>2. CASE nextOperation' = nextOperation /\ operation'.id \in {operation.id, 0}
  <2>1. operation' = operation \/ operation' = NoOperation \/ Running
    <3>1. ASSUME NEW id \in PlanId, ConfirmAction(id) PROVE FALSE
      BY <1>t, <1>2, <3>1 DEF ConfirmAction
    <3>2. ASSUME NEW id \in OperationId, DismissOperation(id) PROVE operation' = NoOperation
      BY <3>2 DEF DismissOperation
    <3>3. PollOperationCompletion => Running
      BY DEF PollOperationCompletion, OperationOwner
    <3>4. ASSUME \/ \E a \in Action : PrepareAction(a)
                 \/ \E id \in PlanId : ConfirmInvalidates(id) \/ CancelAction(id)
                 \/ \E g \in Ground : SetActiveProbe(g) \/ StageFinished(g)
                 \/ RequestRefresh \/ Executor \/ DeferRefresh \/ StartRefresh
                 \/ InventoryFinished \/ RefreshFinished \/ Others \/ Tick \/ UNCHANGED vars
          PROVE operation' = operation
      BY <3>4 DEF PrepareAction, ConfirmInvalidates, CancelAction, SetActiveProbe,
         StageFinished, RequestRefresh, Executor, WorkerReturns, DeferRefresh, StartRefresh,
         InventoryFinished, RefreshFinished, Others, StartHostJob, EndHostJob, StartSerialJob,
         EndSerialJob, Tick, execution, vars
    <3> QED
      BY <3>1, <3>2, <3>3, <3>4 DEF Next, User, Refresh
  <2>2. Running' => operation' # NoOperation
    BY DEF Running, NoOperation
  <2> QED
    BY <1>2, <1>o, <2>1, <2>2 DEF Running, OperationId
<1> QED
  BY <1>1, <1>2, Operating

LEMMA NextDismissed ==
  ASSUME IInv, PanelTypes, OperationIds, DismissedAreSettled, [ConsentNext]_consentVars
  PROVE  DismissedAreSettled'
<1>q. queue \in Seq(Command) /\ box \in Box /\ published \in Snapshot /\ TypeOK
  BY DEF PanelTypes, ConsentTypeOK
<1>s. Settled \subseteq Settled'
  BY <1>q, ControllerSteps, SettledStays DEF IInv
<1> DEFINE Over(c) == c.kind = "Dismiss" => c.id \in Settled'
<1>1. \A i \in DOMAIN queue : Over(queue[i])
  BY <1>s DEF DismissedAreSettled
<1>2. \A i \in DOMAIN queue' : Over(queue'[i])
  <2>1. CASE queue' = queue
    BY <1>1, <2>1
  <2>2. CASE queue # <<>> /\ queue' = Tail(queue)
    <3> HIDE DEF Over
    <3>1. \A i \in DOMAIN queue' : i + 1 \in DOMAIN queue /\ queue'[i] = queue[i + 1]
      BY <1>q, <2>2
    <3> QED
      BY <1>1, <3>1
  <2>3. ASSUME NEW c \in Command, queue' = Append(queue, c),
               c.kind = "Dismiss" => box.state = "Result" /\ c.id = box.operation
        PROVE  \A i \in DOMAIN queue' : Over(queue'[i])
    <3>1. Over(c)
      BY <1>s, <2>3 DEF DismissedAreSettled
    <3> HIDE DEF Over
    <3>2. \A i \in DOMAIN queue' : queue'[i] = c \/ (i \in DOMAIN queue /\ queue'[i] = queue[i])
      BY <1>q, <2>3
    <3> QED
      BY <1>1, <3>1, <3>2
  <2> HIDE DEF Over
  <2> QED
    BY <2>1, <2>2, <2>3, Sending
<1>3. box'.state = "Result" => box'.operation \in Settled'
  <2>1. CASE ShowResult
    <3>1. box' = [state |-> "Result", operation |-> published.operation.id]
          /\ published.operation.id \in Settled
      BY <2>1 DEF ShowResult, DismissedAreSettled
    <3> QED
      BY <1>s, <3>1
  <2>2. CASE ~ShowResult
    <3>1. ASSUME \/ \E a \in Action : ClickAction(a)
                 \/ \E yes \in BOOLEAN : AnswerBox(yes)
                 \/ CloseResult \/ SendAnswer \/ GiveUp
          PROVE box'.state # "Result"
      <4>1. ASSUME NEW a \in Action, ClickAction(a) PROVE box'.state = "Asking"
        BY <4>1 DEF ClickAction
      <4>2. ASSUME NEW yes \in BOOLEAN, AnswerBox(yes) PROVE box'.state = "Waiting"
        BY <4>2 DEF AnswerBox
      <4>3. CloseResult \/ SendAnswer \/ GiveUp => box'.state = "None"
        BY DEF CloseResult, SendAnswer, GiveUp, NoBox
      <4> QED
        BY <3>1, <4>1, <4>2, <4>3
    <3>2. ASSUME \/ ForgetResult \/ LookAgain \/ HandleCommand \/ RunnerStep \/ Publish
                 \/ Outside \/ TimePasses \/ UNCHANGED consentVars
          PROVE box' = box
      BY <3>2 DEF ForgetResult, LookAgain, HandleCommand, RunnerStep, Publish, Outside,
         TimePasses, consentVars, ui
    <3>3. box' = box \/ box'.state # "Result"
      BY <2>2, <3>1, <3>2 DEF ConsentNext, Panel, DialogThread
    <3> QED
      BY <1>s, <3>3 DEF DismissedAreSettled
  <2> QED
    BY <2>1, <2>2
<1>4. published'.operation.state \notin {"None", "Running"} =>
        published'.operation.id \in Settled'
  <2>1. CASE published' = published
    BY <1>s, <2>1 DEF DismissedAreSettled
  <2>2. CASE published' = [prepared |-> prepared, operation |-> operation]
    <3>1. operation.state \notin {"None", "Running"} => operation.id \in Settled
      BY <1>q DEF TypeOK, OperationRecord, NoOperation, OperationIds, Settled, Running
    <3> QED
      BY <1>s, <2>2, <3>1
  <2> QED
    BY <2>1, <2>2, Publishing
<1> QED
  BY <1>2, <1>3, <1>4 DEF DismissedAreSettled

\* The dialogs keep their invariant.
THEOREM ConsentInvariance == ConsentSpec => []ConsentInv
<1>1. ConsentInv /\ [ConsentNext]_consentVars => ConsentInv'
  <2> SUFFICES ASSUME ConsentInv, [ConsentNext]_consentVars
               PROVE  ConsentInv'
    OBVIOUS
  <2>1. IInv'
    <3>1. [Next]_vars
      BY ControllerSteps DEF ConsentInv
    <3> QED
      BY <3>1, NextType, NextPlanIds, NextDeviceOwner, NextFrozenGround, NextOperationOwner,
         NextOutcome, NextScanYields DEF ConsentInv, IInv
  <2> QED
    BY <2>1, NextPanelTypes, NextAttributed, NextAgreedFirst, NextOperationIds, NextShownKept,
       NextDismissed DEF ConsentInv, IInv
<1> QED
  BY InitConsentInv, <1>1, PTL DEF ConsentSpec

\* Queue, snapshots and the dialog slot stay in their types: no command outgrows
\* the queue, and a box is about an action or an operation that exists.
THEOREM ConsentTypeCorrect == ConsentSpec => []ConsentTypeOK
<1>1. ConsentInv => ConsentTypeOK
  BY DEF ConsentInv, PanelTypes
<1> QED
  BY ConsentInvariance, <1>1, PTL

\* Through the dialogs, with old snapshots and queued commands, the controller is
\* still the one of PlanLifecycle, so all that is proved of it holds of the panel.
THEOREM ControllerBehindDialogs == ConsentSpec => Spec
<1>1. ConsentInit => Init
  BY DEF ConsentInit
<1>2. ConsentInv /\ [ConsentNext]_consentVars => [Next]_vars
  BY ControllerSteps DEF ConsentInv
<1> QED
  BY ConsentInvariance, <1>1, <1>2, PTL DEF ConsentSpec, Spec

\* So from the click to the write the panel keeps the promise of RepairContract.
THEOREM ContractBehindDialogs == ConsentSpec => KeepsContract
BY ControllerBehindDialogs, ContractKept

\* An executed plan was agreed to in a box for an action of its tag: this much
\* wait_for_prepared_plan ensures, whatever the tags are.
THEOREM ConsentByTag == ConsentSpec => [](\A p \in PlanId : executed[p] > 0 => p \in AgreedPlans)
<1>1. ConsentInv => \A p \in PlanId : executed[p] > 0 => p \in AgreedPlans
  BY DEF ConsentInv, AgreedFirst, PanelTypes, ConsentTypeOK, TypeOK
<1> QED
  BY ConsentInvariance, <1>1, PTL

\* Where no two actions share a tag, the box showed this very action.  The code's
\* tags leave out the DNS profile, the APN (the tag has its cid) and the USB profile
\* (confirmation.rs, ActionKindTag), so between actions that differ only there ConsentByTag is all.
THEOREM ConsentByOwnTag ==
  ASSUME \A a, b \in Action : TagOf[a] = TagOf[b] => a = b
  PROVE  ConsentSpec => []ConsentIsForThisAction
<1>1. ASSUME ConsentInv, NEW p \in PlanId, executed[p] > 0
      PROVE  [plan |-> p, action |-> planAction[p]] \in consent
  <2>1. p \in AgreedPlans
    BY <1>1 DEF ConsentInv, AgreedFirst, PanelTypes, ConsentTypeOK, TypeOK
  <2>2. PICK a \in Action : /\ [plan |-> p, action |-> a] \in consent
                            /\ TagOf[a] = TagOf[planAction[p]]
    BY <2>1 DEF AgreedPlans
  <2>3. a = planAction[p]
    BY <2>1, <2>2 DEF AgreedPlans
  <2> QED
    BY <2>2, <2>3
<1>2. ConsentInv => ConsentIsForThisAction
  BY <1>1 DEF ConsentIsForThisAction
<1> QED
  BY ConsentInvariance, <1>2, PTL

\* One result box for an operation, however late its dismissal is handled.
THEOREM OneResultBox == ConsentSpec => []ResultShownOnce
<1>1. ConsentInv => ResultShownOnce
  BY DEF ConsentInv, ShownKept, ResultShownOnce
<1> QED
  BY ConsentInvariance, <1>1, PTL
=============================================================================
