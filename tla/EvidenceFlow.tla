---------------------------- MODULE EvidenceFlow ----------------------------
(***************************************************************************)
(* One refresh after the other: the stages of run_refresh (monitor.rs) on  *)
(* their worker threads, what they observe of a module that is plugged,    *)
(* unplugged and exchanged meanwhile (runtime.rs), how the reducer keeps   *)
(* what it is told (reducer.rs), what the classifier makes of it           *)
(* (availability.rs), and the network check a user asks for                *)
(* (module_network_check.rs).                                              *)
(*                                                                         *)
(* Time passes in ticks, and only its passing ages evidence.  An answer is *)
(* stamped when the runner takes it, not when the world was looked at; the  *)
(* adapter's alone is stamped by its worker.  A stage that does not answer *)
(* in time is a failure; its worker goes on, and what that of the          *)
(* inventory still writes into the port's memory is written at once.       *)
(*                                                                         *)
(* Left out: what keeps a refresh from starting (PlanLifecycle), rate      *)
(* ticks, the hotspot's own verdict, read-only modules (which end Limited  *)
(* where a writable one is Available), the default route and the system's  *)
(* own connectivity, which only choose among the verdicts that deny.       *)
(***************************************************************************)
EXTENDS Integers, FiniteSets

CONSTANTS
  Attachment,   \* a module on the bus with its network adapter
  IdOf,         \* the module's stable identity
  Nobody,       \* nothing is attached
  First,        \* what is attached when the panel starts
  TTL,          \* EVIDENCE_TTL
  StageTime,    \* STAGE_TIMEOUT
  ProbeTime,    \* PROBE_STAGE_TIMEOUT
  AtAnswer,     \* what an AT session may find, of "Ok", "Rejected", "Failed"
  AdapterAnswer,\* of "Usable", "NoRoute", "LinkDown", "Failed"
  ProbeAnswer,  \* of "Full", "Single", "NoDns", "Failed", "Incomplete", "NoRoute"
  MaxMoves,     \* bound on changes of the world
  MaxAsks       \* bound on what the user asks for: checks, changes of a setting

ASSUME EvidenceAssumption ==
  /\ Nobody \notin Attachment /\ First \in Attachment \cup {Nobody} /\ DOMAIN IdOf = Attachment
  /\ TTL \in Nat /\ StageTime \in Nat /\ ProbeTime \in Nat /\ MaxMoves \in Nat /\ MaxAsks \in Nat
  /\ AtAnswer \subseteq {"Ok", "Rejected", "Failed"}
  /\ AdapterAnswer \subseteq {"Usable", "NoRoute", "LinkDown", "Failed"}
  /\ ProbeAnswer \subseteq {"Full", "Single", "NoDns", "Failed", "Incomplete", "NoRoute"}

VARIABLES
  plugged,     \* the attachment in the world, or Nobody
  online,      \* the module's own path reaches the internet
  moves,       \* history: changes of the world
  known,       \* ProductionInventory: epoch and identity of the last scan
  pc,          \* the stage run_refresh waits for
  left,        \* ticks to the stage's deadline
  scan,        \* the worker of each stage: Off, Running, or what it came back with
  at,
  adapter,
  probe,
  epoch,       \* the reducer's epoch, phase and evidence
  phase,
  ev,
  failures,    \* consecutive_public_failures
  checks,      \* diagnostics of the adapter and of the probe in the cycle under way
  active,      \* settings: probe actively
  once,        \* this cycle may probe although active is off
  report,      \* the network check
  lately,      \* history: ticks since an attachment was plugged and online
  inCycle,     \* history: attachments plugged and online during the check's cycle
  lastOnce,    \* history: once of the last cycle that ended
  asks         \* history: what the user has asked for

world == <<plugged, online, moves, lately>>
workers == <<scan, at, adapter, probe>>
runner == <<pc, left, once>>
reducer == <<epoch, phase, ev, failures, checks>>
history == <<inCycle, lastOnce, asks>>
vars == <<world, known, workers, runner, reducer, active, report, history>>

\* No evidence; and what a worker is without an answer.
Absent == [is |-> "Absent"]
Off == [is |-> "Off"]
Running == [is |-> "Running"]
Failed == [is |-> "Failed"]
Disabled == [is |-> "Disabled"]

Kind == {"presence", "target", "binding", "adapter", "bound", "at", "block"}
Old == TTL + ProbeTime + 1
Younger(n, m) == IF n < m THEN n ELSE m

NoChecks == [adapter |-> "NotRun", bound |-> "NotRun"]
Idle == [phase |-> "Stale", epoch |-> 0, once |-> FALSE, device |-> "NotRun",
         to |-> Nobody, route |-> "NotRun", verdict |-> "Inconclusive"]

Init ==
  /\ plugged = First /\ online = (plugged # Nobody) /\ moves = 0
  /\ known = [epoch |-> 0, id |-> Nobody]
  /\ pc = "Idle" /\ left = 0 /\ once = FALSE
  /\ scan = Off /\ at = Off /\ adapter = Off /\ probe = Off
  /\ epoch = 0 /\ phase = "Startup" /\ ev = [k \in Kind |-> Absent]
  /\ failures = 0 /\ checks = NoChecks
  /\ active \in BOOLEAN
  /\ report = Idle
  /\ lately = [a \in Attachment |-> IF a = plugged THEN 0 ELSE Old]
  /\ inCycle = {} /\ lastOnce = FALSE /\ asks = 0

-----------------------------------------------------------------------------
(* The classifier *)

Known(e) == e # Absent

\* Mutant: what was observed in this epoch does not grow old.
Fresh_AnyAge(e) == Known(e) /\ e.epoch = epoch

\* is_fresh_for
Fresh(e) == Known(e) /\ e.epoch = epoch /\ e.age <= TTL

\* contains_stale_non_device_evidence
Stale == \E k \in Kind \ {"presence"} : Known(ev[k]) /\ ~Fresh(ev[k])

Incomplete ==
  IF Fresh(ev["at"]) /\ ev["at"].val = "Unavailable" THEN "NoAtControl" ELSE "Incomplete"

\* valid_bound_value: what the probe found, on the binding that is proven now.
Bound == IF Fresh(ev["bound"]) /\ ev["bound"].val.to = ev["binding"].val
         THEN ev["bound"].val.found ELSE "None"

\* classify_bound_success
BoundSuccess ==
  IF Bound = "NoDns" THEN "DnsFailure"
  ELSE IF Bound = "Single" THEN "SingleFamily"
  ELSE IF ~Known(ev["at"]) THEN Incomplete
  ELSE IF ev["at"].val = "Ok" THEN "Available" ELSE "NoAtControl"

\* classify_data_path
DataPath ==
  IF phase # "Stable" \/ ~Fresh(ev["target"]) \/ Stale THEN "Detecting"
  ELSE IF ~Known(ev["binding"]) THEN Incomplete
  ELSE IF IdOf[ev["binding"].val] # ev["target"].val THEN Incomplete
  ELSE IF Known(ev["block"]) THEN "CellularRejected"
  ELSE IF ~Known(ev["adapter"]) THEN Incomplete
  ELSE IF ev["adapter"].val \in {"NoRoute", "LinkDown"} THEN "NoAddressOrRoute"
  ELSE IF Bound = "Failed" /\ ev["bound"].val.cycles >= 2 THEN "ProbeFailed"
  ELSE IF Bound \in {"Failed", "Incomplete", "None"} THEN Incomplete
  ELSE BoundSuccess

\* classify
Status ==
  IF ~Fresh(ev["presence"]) \/ ev["presence"].val = "Denied" THEN "Detecting"
  ELSE IF ev["presence"].val = "NotDetected" THEN "NotDetected" ELSE DataPath

-----------------------------------------------------------------------------
(* The world *)

Reachable == IF online THEN {plugged} ELSE {}

\* Plugged, unplugged, replaced; the module's path comes or goes.
Move(a, up) ==
  /\ moves < MaxMoves /\ <<a, up>> # <<plugged, online>> /\ (up => a # Nobody)
  /\ plugged' = a /\ online' = up /\ moves' = moves + 1
  /\ lately' = [b \in Attachment |-> IF up /\ b = a THEN 0 ELSE lately[b]]
  /\ inCycle' = inCycle \cup (IF up /\ report.phase = "Running" THEN {a} ELSE {})
  /\ UNCHANGED <<known, workers, runner, reducer, active, report, lastOnce, asks>>

Aged(e) == IF ~Known(e) THEN e ELSE [e EXCEPT !.age = Younger(@ + 1, TTL + 1)]
Came(answer) == answer \notin {Off, Running, Failed, Disabled}

\* An answer the runner has not taken yet grows older, too, where its time is noted.
Waiting(answer) ==
  IF Came(answer) /\ "age" \in DOMAIN answer
  THEN [answer EXCEPT !.age = Younger(@ + 1, TTL + 1)] ELSE answer

Tick ==
  /\ pc = "Idle" \/ left > 0
  /\ left' = IF pc = "Idle" THEN 0 ELSE left - 1
  /\ ev' = [k \in Kind |-> Aged(ev[k])]
  /\ at' = Waiting(at) /\ adapter' = Waiting(adapter) /\ probe' = Waiting(probe)
  /\ lately' = [a \in Attachment |-> IF a \in Reachable THEN 0 ELSE Younger(lately[a] + 1, Old)]
  /\ UNCHANGED <<plugged, online, moves, known, scan, pc, once, epoch, phase,
                 failures, checks, active, report, history>>

-----------------------------------------------------------------------------
(* The network check of the user *)

Busy == report.phase \in {"Queued", "Running"}

\* CheckModuleNetwork, heard between two refreshes; a check under way stands for a second one.
RequestCheck(allow) ==
  /\ pc = "Idle" /\ ~Busy /\ asks < MaxAsks /\ asks' = asks + 1
  /\ report' = [Idle EXCEPT !.phase = "Queued", !.epoch = epoch, !.once = allow]
  /\ UNCHANGED <<world, known, workers, runner, reducer, active, inCycle, lastOnce>>

\* A report of another epoch is no longer one (the end of apply_backend_event).
OfEpoch(r, e) == IF r.epoch # e /\ r.epoch # 0 THEN Idle ELSE r

\* classify_module_network
Verdict(r, c) ==
  IF r.device = "Failed" THEN "DeviceMissing"
  ELSE IF r.device # "Passed" THEN "Inconclusive"
  ELSE IF c.adapter = "Failed" THEN "AdapterIssue"
  ELSE IF c.adapter # "Passed" THEN "Inconclusive"
  ELSE IF r.route = "Down" THEN "LinkDown"
  ELSE IF r.route = "Failed" THEN "AddressRouteIssue"
  ELSE IF r.route # "Passed" THEN "Inconclusive"
  ELSE IF c.bound = "NoRoute" THEN "BoundRouteIssue"
  ELSE IF c.bound \in {"Full", "Single"} THEN "Usable"
  ELSE IF c.bound = "NoDns" THEN "DnsIssue"
  ELSE IF c.bound = "Failed" THEN "PublicProbeFailed" ELSE "Inconclusive"

\* Checks that are still running when the cycle ends have failed.
Ended(c) ==
  [adapter |-> IF c.adapter = "Running" THEN "Failed" ELSE c.adapter,
   bound |-> IF c.bound = "Running" THEN "NoRoute" ELSE c.bound]

\* RefreshFinished in the reducer and in the check.
Finish(r, c) ==
  /\ pc' = "Idle" /\ left' = 0 /\ once' = FALSE /\ lastOnce' = once
  /\ phase' = "Stable" /\ checks' = NoChecks /\ inCycle' = {} /\ UNCHANGED asks
  /\ report' = IF r.phase = "Running"
               THEN [Idle EXCEPT !.phase = "Finished", !.epoch = r.epoch,
                                 !.verdict = Verdict(r, Ended(c))]
               ELSE r

-----------------------------------------------------------------------------
(* Settings *)

\* set_active_probe, heard between two refreshes, too.
SetActiveProbe ==
  /\ pc = "Idle" /\ asks < MaxAsks /\ asks' = asks + 1
  /\ active' = ~active
  /\ ev' = [ev EXCEPT !["bound"] = Absent]
  /\ failures' = 0
  /\ UNCHANGED <<world, known, workers, runner, epoch, phase, checks, report, inCycle, lastOnce>>

-----------------------------------------------------------------------------
(* Stage 1: the inventory *)

StartRefresh ==
  /\ pc = "Idle"
  /\ pc' = "Inventory" /\ left' = StageTime
  /\ once' = (report.phase = "Queued" /\ report.once)
  /\ report' = IF report.phase = "Queued" THEN [report EXCEPT !.phase = "Running"] ELSE report
  /\ checks' = [adapter |-> "Running", bound |-> "Running"]
  /\ phase' = IF ~Known(ev["presence"]) \/ phase # "Stable" THEN "Recent" ELSE phase
  /\ scan' = Running
  /\ inCycle' = IF report.phase = "Queued" THEN Reachable ELSE {}
  /\ UNCHANGED <<world, known, at, adapter, probe, epoch, ev, failures, active,
                 lastOnce, asks>>

\* Two modules, an enumeration that fails.
ScanFails ==
  /\ scan = Running
  /\ scan' = Failed
  /\ UNCHANGED <<world, known, at, adapter, probe, runner, reducer, active, report, history>>

\* The port's memory after a scan: removal, return and another identity advance the epoch.
Remember(saw) ==
  LET id == IF saw = Nobody THEN Nobody ELSE IdOf[saw]
  IN [epoch |-> known.epoch + (IF id = known.id THEN 0 ELSE 1), id |-> id]

\* scan_observation
ScanAnswers ==
  /\ scan = Running
  /\ known' = Remember(plugged)
  /\ scan' = [saw |-> plugged, epoch |-> known'.epoch]
  /\ UNCHANGED <<world, at, adapter, probe, runner, reducer, active, report, history>>

Seen(v) == [val |-> v, epoch |-> epoch', age |-> 0]

\* What apply_inventory takes with it when the adapter is not known or the module not there.
NoData(e) == [e EXCEPT !["binding"] = Absent, !["adapter"] = Absent, !["bound"] = Absent]

\* accept_epoch_event, invalidate: a newer epoch forgets everything.
AcceptEpoch(e) ==
  /\ epoch' = e
  /\ failures' = IF epoch # 0 /\ e > epoch THEN 0 ELSE failures

Before(e) == IF epoch # 0 /\ e > epoch THEN [k \in Kind |-> Absent] ELSE ev
Started(e) == IF e > epoch THEN NoChecks ELSE checks

\* The check takes its epoch from the inventory of its own cycle.
Adopts(r, device) ==
  IF r.phase = "Running" /\ r.epoch \in {0, epoch'}
  THEN [r EXCEPT !.epoch = epoch', !.device = device]
  ELSE OfEpoch(r, epoch')

\* Supported, with or without a network adapter to be told from others.
FindsModule(named) ==
  /\ pc = "Inventory" /\ Came(scan) /\ scan.saw # Nobody
  /\ AcceptEpoch(scan.epoch)
  /\ LET e == [Before(scan.epoch) EXCEPT !["presence"] = Seen("Supported"),
                                         !["target"] = Seen(IdOf[scan.saw])]
     IN ev' = IF named THEN [e EXCEPT !["binding"] = Seen(scan.saw)] ELSE NoData(e)
  /\ phase' = IF (epoch # 0 /\ scan.epoch > epoch) \/ phase = "Recent" THEN "Recent" ELSE "Stable"
  /\ checks' = Started(scan.epoch)
  /\ report' = Adopts(report, "Passed")
  /\ scan' = Off /\ at' = Running /\ adapter' = Running
  /\ pc' = "Pair" /\ left' = StageTime
  /\ UNCHANGED <<world, known, probe, once, active, history>>

\* NotDetected: the cycle ends here.
FindsNothing ==
  /\ pc = "Inventory" /\ Came(scan) /\ scan.saw = Nobody
  /\ AcceptEpoch(scan.epoch)
  /\ ev' = [NoData(Before(scan.epoch)) EXCEPT !["presence"] = Seen("NotDetected"),
                                              !["target"] = Absent]
  /\ Finish(Adopts(report, "Failed"), [adapter |-> "Unavailable", bound |-> "Unavailable"])
  /\ scan' = Off
  /\ UNCHANGED <<world, known, at, adapter, probe, active>>

\* Mutant: a stage is waited for as long as it takes.
Expired_Never == FALSE

Expired == left = 0

\* A failed or late inventory: the presence is denied, and the cycle ends.
InventoryFails ==
  /\ pc = "Inventory"
  /\ \/ scan = Failed /\ UNCHANGED known
     \/ Expired /\ scan = Running /\ known' \in {known, Remember(plugged)}
  /\ ev' = [ev EXCEPT !["presence"] = [val |-> "Denied", epoch |-> epoch, age |-> 0]]
  /\ Finish(report, checks)
  /\ scan' = Off
  /\ UNCHANGED <<world, at, adapter, probe, epoch, failures, active>>

-----------------------------------------------------------------------------
(* Stages 2 and 3: AT and the adapter *)

Attached == plugged # Nobody /\ IdOf[plugged] = ev["target"].val

\* observe_current: the module is looked up again before its port is opened.
AtAnswers(v) ==
  /\ at = Running
  /\ v # "Failed" => Attached
  /\ at' = [val |-> v, age |-> 0]
  /\ UNCHANGED <<world, known, scan, adapter, probe, runner, reducer, active, report, history>>

\* resolve_current
AdapterAnswers(v) ==
  /\ adapter = Running
  /\ IF v = "Failed" THEN adapter' = Failed
     ELSE Attached /\ adapter' = [val |-> v, to |-> plugged, age |-> 0]
  /\ UNCHANGED <<world, known, scan, at, probe, runner, reducer, active, report, history>>

\* apply_at: a failure leaves an earlier refusal of the network as it is.
ApplyAt(e) ==
  IF ~Came(at) THEN [e EXCEPT !["at"] = Seen("Unavailable")]
  ELSE LET stamped(v) == [Seen(v) EXCEPT !.age = at.age]
       IN IF at.val = "Failed" THEN [e EXCEPT !["at"] = stamped("Unavailable")]
          ELSE [e EXCEPT !["at"] = stamped("Ok"),
                         !["block"] = IF at.val = "Rejected" THEN stamped("Rejected") ELSE Absent]

\* apply_adapter: a failure leaves the earlier observation.
ApplyAdapter(e) ==
  IF ~Came(adapter) THEN e
  ELSE LET stamped(v) == [Seen(v) EXCEPT !.age = adapter.age]
       IN [e EXCEPT !["binding"] = stamped(adapter.to), !["adapter"] = stamped(adapter.val)]

\* With a binding and an adapter's addresses the probe has somewhere to go.
HasContext(e) == Known(e["binding"]) /\ Known(e["adapter"])

\* address_route and link of the check; an adapter that is down has no usable family.
RouteOf(v) == IF v = "Usable" THEN "Passed" ELSE IF v = "LinkDown" THEN "Down" ELSE "Failed"

\* AtFinished and AdapterFinished, in this order; then the probe's worker, if there is one.
JoinPair ==
  /\ pc = "Pair" /\ (Expired \/ (at # Running /\ adapter # Running))
  /\ UNCHANGED epoch
  /\ ev' = ApplyAdapter(ApplyAt(ev))
  /\ checks' = [checks EXCEPT !.adapter = IF Came(adapter) THEN "Passed" ELSE "Failed"]
  /\ report' = IF report.phase = "Running" /\ Came(adapter)
               THEN [report EXCEPT !.to = adapter.to,
                                   !.route = RouteOf(adapter.val)]
               ELSE report
  /\ at' = Off /\ adapter' = Off
  /\ probe' = IF ~(active \/ once) THEN Disabled
              ELSE IF HasContext(ev') THEN Running ELSE Failed
  /\ pc' = "Probe" /\ left' = ProbeTime
  /\ UNCHANGED <<world, known, scan, once, phase, failures, active, history>>

-----------------------------------------------------------------------------
(* Stages 4 and 5: the bound probe, beside it the hotspot *)

\* Mutant: the probe takes any way to the internet.
Reaches_AnyRoute(found) == TRUE

\* What a probe on the bound adapter can find; a packet may also be lost.
Reaches(found) == found \in {"Full", "Single", "NoDns"} => online

\* The module and its adapter are looked up again; then the bound sockets.
ProbeFinds(found) ==
  /\ probe = Running
  /\ plugged = ev["binding"].val /\ Attached
  /\ Reaches(found)
  /\ probe' = [found |-> found]
  /\ UNCHANGED <<world, known, scan, at, adapter, runner, reducer, active, report, history>>

ProbeReturns ==
  /\ Came(probe) /\ "age" \notin DOMAIN probe
  /\ probe' = [found |-> probe.found, age |-> 0]
  /\ UNCHANGED <<world, known, scan, at, adapter, runner, reducer, active, report, history>>

ProbeFails ==
  /\ probe = Running
  /\ probe' = Failed
  /\ UNCHANGED <<world, known, scan, at, adapter, runner, reducer, active, report, history>>

Answered == Came(probe) /\ "age" \in DOMAIN probe

\* A probe of an adapter that this cycle did not resolve ends the check without a report.
Probed(r) == IF r.phase = "Running" /\ r.to # ev["binding"].val THEN Idle ELSE r

\* apply_probe with an answer
ProbePasses ==
  /\ Answered
  /\ failures' = IF probe.found = "Failed" THEN Younger(failures + 1, 2)
                 ELSE IF probe.found \in {"Full", "Single", "NoDns"} THEN 0 ELSE failures
  /\ ev' = [ev EXCEPT !["bound"] =
              IF probe.found = "NoRoute" THEN Absent
              ELSE [val |-> [to |-> ev["binding"].val, found |-> probe.found, cycles |-> failures'],
                    epoch |-> epoch, age |-> probe.age]]
  /\ Finish(Probed(report), [checks EXCEPT !.bound = probe.found])

\* Failed, or not there in time: what an earlier probe found stays.
ProbeMissing ==
  /\ probe = Failed \/ (Expired /\ probe # Disabled /\ ~Answered)
  /\ Finish(report, [checks EXCEPT !.bound = "Unavailable"])
  /\ UNCHANGED <<ev, failures>>

\* Mutant: a cycle without a probe leaves the last one's proof.
Unprobed_Keeps == ev

\* An earlier proof is not this cycle's.
Unprobed == [ev EXCEPT !["bound"] = Absent]

\* DisabledBySetting
ProbeSkipped ==
  /\ probe = Disabled
  /\ ev' = Unprobed
  /\ Finish(report, [checks EXCEPT !.bound = "NotRun"])
  /\ UNCHANGED failures

\* The hotspot's stage is joined before: up to ProbeTime, which is not shorter than its
\* own bound, the cycle may wait with what the probe answered, or without a probe.
EndProbe ==
  /\ pc = "Probe"
  /\ ProbePasses \/ ProbeMissing \/ ProbeSkipped
  /\ probe' = Off
  /\ UNCHANGED <<world, known, scan, at, adapter, epoch, active>>

-----------------------------------------------------------------------------
Worker ==
  \/ ScanAnswers \/ ScanFails
  \/ \E v \in AtAnswer : AtAnswers(v)
  \/ \E v \in AdapterAnswer : AdapterAnswers(v)
  \/ \E f \in ProbeAnswer : ProbeFinds(f)
  \/ ProbeReturns \/ ProbeFails

Runner ==
  \/ StartRefresh
  \/ \E named \in BOOLEAN : FindsModule(named)
  \/ FindsNothing \/ InventoryFails \/ JoinPair \/ EndProbe

Next ==
  \/ \E a \in Attachment \cup {Nobody}, up \in BOOLEAN : Move(a, up)
  \/ Tick \/ SetActiveProbe
  \/ \E allow \in BOOLEAN : RequestCheck(allow)
  \/ Worker \/ Runner

EvidenceSpec == Init /\ [][Next]_vars

\* The runner polls, time goes on; no worker need ever answer.
FairEvidenceSpec == EvidenceSpec /\ WF_vars(Runner) /\ WF_vars(Tick)

-----------------------------------------------------------------------------
(* Properties *)

\* The module is shown as available only if its own path, over the adapter that is
\* bound now and belongs to the identity that is shown, was up no longer ago than an
\* observation may age and a probe may take, whatever was exchanged in between.
GreenIsRecent ==
  Status = "Available" =>
    /\ IdOf[ev["binding"].val] = ev["target"].val
    /\ lately[ev["binding"].val] <= TTL + ProbeTime

\* A check that ends with "usable" found its adapter's path up during its own cycle
\* (a report cannot be filled by an earlier cycle, ModuleNetworkCheckSnapshot::observe).
ReportIsOwn ==
  [][report.phase = "Running" /\ report'.phase = "Finished" /\ report'.verdict = "Usable"
       => report.to \in inCycle]_vars

\* With active probing off, what a probe allowed once found is not the availability
\* of a later cycle (the comment in apply_probe, reducer.rs).
DisabledIsNotGreen == pc = "Idle" /\ ~active /\ ~lastOnce => Status # "Available"

\* The user's check comes to an end, though a stage may never answer.
CheckEnds == report.phase = "Queued" ~> report.phase \in {"Finished", "Stale"}

\* The type invariant.
EvidenceTypeOK ==
  /\ plugged \in Attachment \cup {Nobody} /\ online \in BOOLEAN /\ moves \in 0 .. MaxMoves
  /\ pc \in {"Idle", "Inventory", "Pair", "Probe"}
  /\ left \in 0 .. (IF pc = "Probe" THEN ProbeTime ELSE StageTime)
  /\ known.epoch \in Nat /\ epoch \in 0 .. known.epoch
  /\ phase \in {"Startup", "Recent", "Stable"}
  /\ \A k \in {j \in Kind : Known(ev[j])} : ev[k].epoch \in 0 .. epoch /\ ev[k].age \in 0 .. TTL + 1
  /\ failures \in 0 .. 2 /\ active \in BOOLEAN /\ once \in BOOLEAN
  /\ report.phase \in {"Queued", "Running", "Finished", "Stale"}
  /\ lately \in [Attachment -> 0 .. Old] /\ inCycle \subseteq Attachment
=============================================================================
