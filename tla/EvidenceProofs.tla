--------------------------- MODULE EvidenceProofs ---------------------------
(***************************************************************************)
(* What refreshes, classifier and network check guarantee for any modules, *)
(* however often they are exchanged, and any deadlines.  The argument      *)
(* follows what a probe found, from the worker through the runner into the *)
(* evidence, together with the time since the path it took was up; every   *)
(* other piece of evidence is only needed for its shape.                   *)
(***************************************************************************)
EXTENDS EvidenceFlow, TLAPS

------------------------------------------------------------------------------
(* The inductive invariant                                                   *)

\* The answers of a probe that met the internet, and those that are kept.
Reached == {"Full", "Single", "NoDns"}
Kept == Reached \cup {"Failed", "Incomplete"}

\* A piece of evidence is absent, or has a value, an epoch and an age.
IsEvidence(e, n) ==
  \/ e = Absent
  \/ /\ e = [val |-> e.val, epoch |-> e.epoch, age |-> e.age]
     /\ e.epoch \in 0 .. n /\ e.age \in 0 .. TTL + 1

\* What the values of the binding and of a probe are.
Sound(k, e) ==
  Known(e) => /\ k = "binding" => e.val \in Attachment
              /\ k = "bound" => /\ e.val = [to |-> e.val.to, found |-> e.val.found,
                                           cycles |-> e.val.cycles]
                                /\ e.val.to \in Attachment /\ e.val.found \in Kept

EvidenceOf(e, n) ==
  /\ e = [k \in Kind |-> e[k]]
  /\ \A k \in Kind : IsEvidence(e[k], n) /\ Sound(k, e[k])

Evidence == EvidenceOf(ev, epoch)

\* What each worker may be, and that it is only in its stage.
Scanning ==
  /\ scan \in {Off, Running, Failed}
       \/ (/\ scan = [saw |-> scan.saw, epoch |-> scan.epoch]
           /\ scan.saw \in Attachment \cup {Nobody} /\ scan.epoch \in epoch .. known.epoch)
  /\ pc # "Inventory" => scan = Off
Pairing ==
  /\ at \in {Off, Running} \/ (at = [val |-> at.val, age |-> at.age] /\ at.age \in 0 .. TTL + 1)
  /\ adapter \in {Off, Running, Failed}
       \/ (/\ adapter = [val |-> adapter.val, to |-> adapter.to, age |-> adapter.age]
           /\ adapter.to \in Attachment /\ adapter.age \in 0 .. TTL + 1)
  /\ pc # "Pair" => at = Off /\ adapter = Off
Probing ==
  /\ probe \in {Off, Running, Failed, Disabled}
       \/ probe = [found |-> probe.found]
       \/ (probe = [found |-> probe.found, age |-> probe.age] /\ probe.age \in 0 .. TTL + 1)
  /\ Came(probe) => probe.found \in Kept \cup {"NoRoute"}
  /\ pc # "Probe" => probe = Off
  /\ probe = Running \/ Came(probe) => Known(ev["binding"])
  /\ probe = Disabled => ~active /\ ~once
  /\ pc = "Probe" /\ ~active /\ ~once => probe = Disabled

Report ==
  [phase : {"Queued", "Running", "Finished", "Stale"}, epoch : Nat, once : BOOLEAN,
   device : {"NotRun", "Passed", "Failed"}, to : Attachment \cup {Nobody},
   route : {"NotRun", "Passed", "Failed", "Down"},
   verdict : {"DeviceMissing", "Inconclusive", "AdapterIssue", "LinkDown",
              "AddressRouteIssue", "BoundRouteIssue", "Usable", "DnsIssue", "PublicProbeFailed"}]
Checks == [adapter : {"NotRun", "Running", "Passed", "Failed"}, bound : {"NotRun", "Running"}]

Types ==
  /\ plugged \in Attachment \cup {Nobody} /\ online \in BOOLEAN /\ moves \in 0 .. MaxMoves
  /\ pc \in {"Idle", "Inventory", "Pair", "Probe"}
  /\ left \in 0 .. (IF pc = "Probe" THEN ProbeTime ELSE StageTime)
  /\ known = [epoch |-> known.epoch, id |-> known.id]
  /\ known.epoch \in Nat /\ epoch \in 0 .. known.epoch
  /\ phase \in {"Startup", "Recent", "Stable"} /\ failures \in 0 .. 2
  /\ active \in BOOLEAN /\ once \in BOOLEAN /\ lastOnce \in BOOLEAN
  /\ lately \in [Attachment -> 0 .. Old] /\ inCycle \subseteq Attachment

Shapes ==
  /\ Types /\ Evidence /\ Scanning /\ Pairing /\ Probing
  /\ report \in Report /\ checks \in Checks

\* A path that is up is up now.
PathNow == online => plugged \in Attachment /\ lately[plugged] = 0

\* What a probe found was so when its answer came, at most a probe's time before it.
FoundLately ==
  Came(probe) /\ probe.found \in Reached =>
    IF "age" \in DOMAIN probe
    THEN probe.age <= TTL => lately[ev["binding"].val] <= probe.age + ProbeTime
    ELSE lately[ev["binding"].val] <= ProbeTime - left
BoundLately ==
  Known(ev["bound"]) /\ ev["bound"].val.found \in Reached /\ ev["bound"].age <= TTL =>
    lately[ev["bound"].val.to] <= ev["bound"].age + ProbeTime

\* The user's check notes every path that was up while it runs.
CycleNoted ==
  report.phase = "Running" =>
    /\ pc # "Idle"
    /\ online => plugged \in inCycle
    /\ Came(probe) /\ probe.found \in Reached => ev["binding"].val \in inCycle

\* With active probing off, a cycle leaves nothing of a probe, or does not know the module.
NothingProbed ==
  pc = "Idle" /\ ~active /\ ~lastOnce =>
    ev["bound"] = Absent \/ (Known(ev["presence"]) /\ ev["presence"].val = "Denied")

EvidenceInv == Shapes /\ PathNow /\ FoundLately /\ BoundLately /\ CycleNoted /\ NothingProbed
-----------------------------------------------------------------------------
(* Records: no evidence and no answer are no records of another shape *)

LEMMA AbsentIsNone ==
  ASSUME NEW v, NEW n, NEW a
  PROVE  [val |-> v, epoch |-> n, age |-> a] # Absent
<1>1. "is" \notin DOMAIN [val |-> v, epoch |-> n, age |-> a] /\ "is" \in DOMAIN Absent
  BY DEF Absent
<1> QED
  BY <1>1

LEMMA NoAnswers ==
  /\ Off # Running /\ Off # Failed /\ Off # Disabled
  /\ Running # Failed /\ Running # Disabled /\ Failed # Disabled
  /\ ~Came(Off) /\ ~Came(Running) /\ ~Came(Failed) /\ ~Came(Disabled)
<1>1. Off.is = "Off" /\ Running.is = "Running" /\ Failed.is = "Failed" /\ Disabled.is = "Disabled"
  BY DEF Off, Running, Failed, Disabled
<1> QED
  BY <1>1 DEF Came

\* An answer is a record without the field of those that are none.
LEMMA HasCome ==
  ASSUME NEW x, "is" \notin DOMAIN x
  PROVE  Came(x)
<1>1. "is" \in DOMAIN Off /\ "is" \in DOMAIN Running /\ "is" \in DOMAIN Failed
      /\ "is" \in DOMAIN Disabled
  BY DEF Off, Running, Failed, Disabled
<1> QED
  BY <1>1 DEF Came

LEMMA Answers ==
  ASSUME NEW v, NEW w, NEW a
  PROVE  /\ Came([saw |-> v, epoch |-> w])
         /\ Came([val |-> v, age |-> a])
         /\ Came([val |-> v, to |-> w, age |-> a])
         /\ Came([found |-> v]) /\ "age" \notin DOMAIN [found |-> v]
         /\ Came([found |-> v, age |-> a]) /\ "age" \in DOMAIN [found |-> v, age |-> a]
<1>1. /\ "is" \notin DOMAIN [saw |-> v, epoch |-> w]
      /\ "is" \notin DOMAIN [val |-> v, age |-> a]
      /\ "is" \notin DOMAIN [val |-> v, to |-> w, age |-> a]
      /\ "is" \notin DOMAIN [found |-> v] /\ "is" \notin DOMAIN [found |-> v, age |-> a]
      /\ "age" \notin DOMAIN [found |-> v] /\ "age" \in DOMAIN [found |-> v, age |-> a]
  OBVIOUS
<1> QED
  BY <1>1, HasCome

\* Growing older keeps the shape.
LEMMA Older ==
  ASSUME NEW a \in 0..TTL + 1
  PROVE  /\ Younger(a + 1, TTL + 1) \in 0..TTL + 1
         /\ Younger(a + 1, TTL + 1) <= TTL => Younger(a + 1, TTL + 1) = a + 1 /\ a <= TTL
BY EvidenceAssumption DEF Younger

\* What is up is a module.
LEMMA PathOfModule ==
  ASSUME PathNow
  PROVE  Reachable \subseteq Attachment
BY DEF PathNow, Reachable

-----------------------------------------------------------------------------
(* The types of what is not evidence, answer or report *)

LEMMA TypesOnWorld ==
  ASSUME Types,
         \/ \E a \in Attachment \cup {Nobody}, up \in BOOLEAN : Move(a, up)
         \/ Tick \/ SetActiveProbe \/ \E allow \in BOOLEAN : RequestCheck(allow)
  PROVE  Types'
<1> USE EvidenceAssumption
<1>1. ASSUME NEW a \in Attachment \cup {Nobody}, NEW up \in BOOLEAN, Move(a, up)
      PROVE  Types'
  <2>1. 0 \in 0..Old /\ moves + 1 \in 0..MaxMoves
    BY <1>1 DEF Types, Move, Old
  <2>2. lately' \in [Attachment -> 0..Old]
    BY <1>1, <2>1 DEF Types, Move
  <2>3. inCycle' \subseteq Attachment
    BY <1>1 DEF Types, Move
  <2> QED
    BY <1>1, <2>1, <2>2, <2>3 DEF Types, Move, workers, runner, reducer
<1>2. CASE Tick
  <2>1. \A n \in 0..Old : Younger(n + 1, Old) \in 0..Old
    BY DEF Younger, Old
  <2>2. 0 \in 0..Old
    BY DEF Old
  <2>3. lately' \in [Attachment -> 0..Old]
    BY <1>2, <2>1, <2>2 DEF Types, Tick
  <2>4. left' \in 0..(IF pc = "Probe" THEN ProbeTime ELSE StageTime)
    BY <1>2 DEF Types, Tick
  <2> QED
    BY <1>2, <2>3, <2>4 DEF Types, Tick, history
<1>3. CASE SetActiveProbe
  BY <1>3 DEF Types, SetActiveProbe, world, workers, runner
<1>4. ASSUME NEW allow \in BOOLEAN, RequestCheck(allow)
      PROVE  Types'
  BY <1>4 DEF Types, RequestCheck, world, workers, runner, reducer
<1> QED
  BY <1>1, <1>2, <1>3, <1>4

\* The port's memory keeps its shape, and its epoch does not go back.
LEMMA Remembering ==
  ASSUME known.epoch \in Nat, NEW saw
  PROVE  /\ Remember(saw) = [epoch |-> Remember(saw).epoch, id |-> Remember(saw).id]
         /\ Remember(saw).epoch \in Nat /\ Remember(saw).epoch >= known.epoch
BY DEF Remember

LEMMA TypesOnWorker ==
  ASSUME Types, Worker
  PROVE  Types'
<1>1. CASE ScanAnswers
  <2>1. known' = Remember(plugged) /\ UNCHANGED <<world, runner, reducer, active, history>>
    BY <1>1 DEF ScanAnswers
  <2>2. known.epoch \in Nat /\ epoch \in 0..known.epoch
    BY DEF Types
  <2>3. /\ known' = [epoch |-> known'.epoch, id |-> known'.id]
        /\ known'.epoch \in Nat /\ epoch' \in 0..known'.epoch
    BY <2>1, <2>2, Remembering DEF reducer
  <2> QED
    BY <2>1, <2>3 DEF Types, world, runner, reducer, history
<1>2. ASSUME UNCHANGED <<world, known, runner, reducer, active, history>>
      PROVE  Types'
  BY <1>2 DEF Types, world, runner, reducer, history
<1> QED
  BY <1>1, <1>2 DEF Worker, ScanFails, AtAnswers, AdapterAnswers, ProbeFinds, ProbeReturns,
     ProbeFails

\* The end of a cycle.
LEMMA FinishTypes ==
  ASSUME Types, NEW r, NEW c, Finish(r, c)
  PROVE  /\ pc' = "Idle" /\ left' = 0 /\ once' = FALSE /\ lastOnce' \in BOOLEAN
         /\ phase' = "Stable" /\ inCycle' = {}
BY DEF Finish, Types

LEMMA AcceptedTypes ==
  ASSUME Types, Scanning, Came(scan), NEW e, e = scan.epoch, AcceptEpoch(e),
         UNCHANGED known
  PROVE  epoch' \in 0..known'.epoch /\ epoch' >= epoch /\ failures' \in 0..2
<1>1. scan.epoch \in epoch..known.epoch
  BY NoAnswers DEF Scanning
<1>2. epoch \in 0..known.epoch /\ known.epoch \in Nat
  BY DEF Types
<1>3. 0 \in 0..2
  OBVIOUS
<1> QED
  BY <1>1, <1>2, <1>3 DEF AcceptEpoch, Types

LEMMA TypesOnRunner ==
  ASSUME EvidenceInv, Runner
  PROVE  Types'
<1> USE EvidenceAssumption
<1>0. Types /\ Scanning /\ Probing
  BY DEF EvidenceInv, Shapes
<1>z. 0 \in 0..StageTime /\ StageTime \in 0..StageTime /\ ProbeTime \in 0..ProbeTime
  OBVIOUS
<1>1. CASE StartRefresh
  <2>1. inCycle' \subseteq Attachment
    BY <1>0, <1>1, PathOfModule DEF StartRefresh, EvidenceInv
  <2>2. once' \in BOOLEAN
    BY <1>1 DEF StartRefresh
  <2> QED
    BY <1>0, <1>1, <1>z, <2>1, <2>2 DEF Types, StartRefresh, world
<1>2. ASSUME NEW named \in BOOLEAN, FindsModule(named)
      PROVE  Types'
  <2>1. /\ Came(scan) /\ AcceptEpoch(scan.epoch) /\ UNCHANGED <<world, known, once, active, history>>
        /\ phase' \in {"Recent", "Stable"} /\ pc' = "Pair" /\ left' = StageTime
    BY <1>2 DEF FindsModule
  <2>2. epoch' \in 0..known'.epoch /\ failures' \in 0..2
    BY <1>0, <2>1, AcceptedTypes
  <2> QED
    BY <1>0, <1>z, <2>1, <2>2 DEF Types, world, history
<1>3. CASE FindsNothing
  <2>1. /\ Came(scan) /\ AcceptEpoch(scan.epoch) /\ UNCHANGED <<world, known, active>>
        /\ \E r, c : Finish(r, c)
    BY <1>3 DEF FindsNothing
  <2>2. epoch' \in 0..known'.epoch /\ failures' \in 0..2
    BY <1>0, <2>1, AcceptedTypes
  <2>3. /\ pc' = "Idle" /\ left' = 0 /\ once' = FALSE /\ lastOnce' \in BOOLEAN
        /\ phase' = "Stable" /\ inCycle' = {}
    BY <1>0, <2>1, FinishTypes
  <2> QED
    BY <1>0, <1>z, <2>1, <2>2, <2>3 DEF Types, world
<1>4. CASE InventoryFails
  <2>1. /\ UNCHANGED <<world, epoch, failures, active>>
        /\ known' = known \/ known' = Remember(plugged)
    BY <1>4 DEF InventoryFails
  <2>2. known.epoch \in Nat /\ epoch \in 0..known.epoch
        /\ known = [epoch |-> known.epoch, id |-> known.id]
    BY <1>0 DEF Types
  <2>3. /\ known' = [epoch |-> known'.epoch, id |-> known'.id]
        /\ known'.epoch \in Nat /\ epoch' \in 0..known'.epoch
    BY <2>1, <2>2, Remembering
  <2>4. /\ pc' = "Idle" /\ left' = 0 /\ once' = FALSE /\ lastOnce' \in BOOLEAN
        /\ phase' = "Stable" /\ inCycle' = {}
    BY <1>0, <1>4, FinishTypes DEF InventoryFails
  <2> QED
    BY <1>0, <1>z, <2>1, <2>3, <2>4 DEF Types, world
<1>5. CASE JoinPair
  BY <1>0, <1>5, <1>z DEF Types, JoinPair, world, history
<1>6. CASE EndProbe
  <2>1. /\ UNCHANGED <<world, known, epoch, active>>
        /\ \E r, c : Finish(r, c)
    BY <1>6 DEF EndProbe, ProbePasses, ProbeMissing, ProbeSkipped
  <2>2. failures' \in 0..2
    <3>1. \A n \in 0..2 : Younger(n + 1, 2) \in 0..2
      BY DEF Younger
    <3>2. failures \in 0..2 /\ 0 \in 0..2
      BY <1>0 DEF Types
    <3> QED
      BY <1>6, <3>1, <3>2 DEF EndProbe, ProbePasses, ProbeMissing, ProbeSkipped
  <2>3. /\ pc' = "Idle" /\ left' = 0 /\ once' = FALSE /\ lastOnce' \in BOOLEAN
        /\ phase' = "Stable" /\ inCycle' = {}
    BY <1>0, <2>1, FinishTypes
  <2> QED
    BY <1>0, <1>z, <2>1, <2>2, <2>3 DEF Types, world
<1> QED
  BY <1>1, <1>2, <1>3, <1>4, <1>5, <1>6 DEF Runner

-----------------------------------------------------------------------------
(* The workers *)

\* Who changes what the scan may be.
LEMMA ScanAside ==
  ASSUME [Next]_vars,
         ~ScanAnswers, ~ScanFails, ~StartRefresh, \A named \in BOOLEAN : ~FindsModule(named),
         ~FindsNothing, ~InventoryFails
  PROVE  UNCHANGED <<scan, known, epoch>> /\ (pc' = pc \/ pc \in {"Pair", "Probe"})
<1>1. ASSUME NEW a \in Attachment \cup {Nobody}, NEW up \in BOOLEAN, Move(a, up)
      PROVE  UNCHANGED <<scan, known, epoch, pc>>
  BY <1>1 DEF Move, workers, runner, reducer
<1>2. CASE Tick
  BY <1>2 DEF Tick
<1>3. CASE SetActiveProbe
  BY <1>3 DEF SetActiveProbe, workers, runner
<1>4. ASSUME NEW allow \in BOOLEAN, RequestCheck(allow)
      PROVE  UNCHANGED <<scan, known, epoch, pc>>
  BY <1>4 DEF RequestCheck, workers, runner, reducer
<1>5. CASE Worker
  BY <1>5 DEF Worker, AtAnswers, AdapterAnswers, ProbeFinds, ProbeReturns, ProbeFails, runner,
     reducer
<1>6. CASE Runner
  BY <1>6 DEF Runner, JoinPair, EndProbe
<1>7. CASE UNCHANGED vars
  BY <1>7 DEF vars, workers, reducer, runner
<1> QED
  BY <1>1, <1>2, <1>3, <1>4, <1>5, <1>6, <1>7 DEF Next

LEMMA ScanningStep ==
  ASSUME Types, PathNow, Scanning, [Next]_vars
  PROVE  Scanning'
<1>0. /\ plugged \in Attachment \cup {Nobody}
      /\ known.epoch \in Nat /\ epoch \in 0..known.epoch
  BY DEF Types
<1>1. CASE ScanAnswers
  <2>1. /\ scan = Running /\ known' = Remember(plugged)
        /\ scan' = [saw |-> plugged, epoch |-> known'.epoch] /\ epoch' = epoch /\ pc' = pc
    BY <1>1 DEF ScanAnswers, runner, reducer
  <2>2. pc = "Inventory"
    BY <2>1, NoAnswers DEF Scanning
  <2>3. known'.epoch \in Nat /\ known'.epoch >= epoch
    BY <1>0, <2>1, Remembering
  <2>4. /\ scan' = [saw |-> scan'.saw, epoch |-> scan'.epoch]
        /\ scan'.saw \in Attachment \cup {Nobody} /\ scan'.epoch \in epoch'..known'.epoch
    BY <1>0, <2>1, <2>3
  <2> QED
    BY <2>1, <2>2, <2>4 DEF Scanning
<1>2. CASE ScanFails
  BY <1>2, NoAnswers DEF Scanning, ScanFails, runner, reducer
<1>3. CASE StartRefresh
  BY <1>3 DEF Scanning, StartRefresh
<1>4. CASE (\E named \in BOOLEAN : FindsModule(named)) \/ FindsNothing \/ InventoryFails
  BY <1>4 DEF Scanning, FindsModule, FindsNothing, InventoryFails
<1>5. CASE UNCHANGED <<scan, known, epoch>> /\ (pc' = pc \/ pc \in {"Pair", "Probe"})
  <2>1. pc' # "Inventory" => scan = Off
    BY <1>5 DEF Scanning
  <2> QED
    BY <1>5, <2>1 DEF Scanning
<1> QED
  BY <1>1, <1>2, <1>3, <1>4, <1>5, ScanAside

LEMMA WaitingAt ==
  ASSUME NEW x, x \in {Off, Running} \/ (x = [val |-> x.val, age |-> x.age] /\ x.age \in 0..TTL + 1)
  PROVE  LET y == Waiting(x)
         IN  /\ x \in {Off, Running} => y = x
             /\ x \notin {Off, Running} => y = [val |-> x.val, age |-> Younger(x.age + 1, TTL + 1)]
<1>1. CASE x \in {Off, Running}
  BY <1>1, NoAnswers DEF Waiting
<1>2. CASE x = [val |-> x.val, age |-> x.age] /\ x.age \in 0..TTL + 1
  <2>1. Came(x) /\ "age" \in DOMAIN x
    <3>1. Came([val |-> x.val, age |-> x.age])
      BY Answers
    <3>2. "age" \in DOMAIN [val |-> x.val, age |-> x.age]
      OBVIOUS
    <3> QED
      BY <1>2, <3>1, <3>2
  <2>2. Waiting(x) = [x EXCEPT !.age = Younger(@ + 1, TTL + 1)]
    BY <2>1 DEF Waiting
  <2>3. Waiting(x) = [val |-> x.val, age |-> Younger(x.age + 1, TTL + 1)]
    BY <1>2, <2>2
  <2> QED
    BY <2>1, <2>3, NoAnswers DEF Came
<1> QED
  BY <1>1, <1>2

LEMMA WaitingAdapter ==
  ASSUME NEW x,
         \/ x \in {Off, Running, Failed}
         \/ x = [val |-> x.val, to |-> x.to, age |-> x.age] /\ x.age \in 0..TTL + 1
  PROVE  LET y == Waiting(x)
         IN  /\ x \in {Off, Running, Failed} => y = x
             /\ x \notin {Off, Running, Failed} =>
                  y = [val |-> x.val, to |-> x.to, age |-> Younger(x.age + 1, TTL + 1)]
<1>1. CASE x \in {Off, Running, Failed}
  BY <1>1, NoAnswers DEF Waiting
<1>2. CASE x = [val |-> x.val, to |-> x.to, age |-> x.age] /\ x.age \in 0..TTL + 1
  <2>1. Came(x) /\ "age" \in DOMAIN x
    <3>1. Came([val |-> x.val, to |-> x.to, age |-> x.age])
      BY Answers
    <3>2. "age" \in DOMAIN [val |-> x.val, to |-> x.to, age |-> x.age]
      OBVIOUS
    <3> QED
      BY <1>2, <3>1, <3>2
  <2>2. Waiting(x) = [x EXCEPT !.age = Younger(@ + 1, TTL + 1)]
    BY <2>1 DEF Waiting
  <2>3. Waiting(x) = [val |-> x.val, to |-> x.to, age |-> Younger(x.age + 1, TTL + 1)]
    BY <1>2, <2>2
  <2> QED
    BY <2>1, <2>3, NoAnswers DEF Came
<1> QED
  BY <1>1, <1>2

LEMMA PairAside ==
  ASSUME [Next]_vars,
         ~Tick, ~JoinPair, \A v \in AtAnswer : ~AtAnswers(v),
         \A v \in AdapterAnswer : ~AdapterAnswers(v), \A named \in BOOLEAN : ~FindsModule(named)
  PROVE  UNCHANGED <<at, adapter>> /\ (pc' = pc \/ pc # "Pair")
<1>1. ASSUME NEW a \in Attachment \cup {Nobody}, NEW up \in BOOLEAN, Move(a, up)
      PROVE  UNCHANGED <<at, adapter, pc>>
  BY <1>1 DEF Move, workers, runner
<1>3. CASE SetActiveProbe
  BY <1>3 DEF SetActiveProbe, workers, runner
<1>4. ASSUME NEW allow \in BOOLEAN, RequestCheck(allow)
      PROVE  UNCHANGED <<at, adapter, pc>>
  BY <1>4 DEF RequestCheck, workers, runner
<1>5. CASE Worker
  BY <1>5 DEF Worker, ScanAnswers, ScanFails, ProbeFinds, ProbeReturns, ProbeFails, runner
<1>6. CASE Runner
  BY <1>6 DEF Runner, StartRefresh, FindsNothing, InventoryFails, EndProbe
<1>7. CASE UNCHANGED vars
  BY <1>7 DEF vars, workers, runner
<1> QED
  BY <1>1, <1>3, <1>4, <1>5, <1>6, <1>7 DEF Next

LEMMA PairingStep ==
  ASSUME Types, PathNow, Pairing, [Next]_vars
  PROVE  Pairing'
<1> USE EvidenceAssumption
<1>1. CASE Tick
  <2>1. at' = Waiting(at) /\ adapter' = Waiting(adapter) /\ pc' = pc
    BY <1>1 DEF Tick
  <2>2. \/ at' = at
        \/ at' = [val |-> at'.val, age |-> at'.age] /\ at'.age \in 0..TTL + 1
    <3>1. CASE at \in {Off, Running}
      BY <3>1, <2>1, WaitingAt
    <3>2. CASE at \notin {Off, Running}
      <4>1. at = [val |-> at.val, age |-> at.age] /\ at.age \in 0..TTL + 1
        BY <3>2 DEF Pairing
      <4>2. at' = [val |-> at.val, age |-> Younger(at.age + 1, TTL + 1)]
        BY <2>1, <3>2, <4>1, WaitingAt
      <4>3. Younger(at.age + 1, TTL + 1) \in 0..TTL + 1
        BY <4>1, Older
      <4> QED
        BY <4>2, <4>3
    <3> QED
      BY <3>1, <3>2
  <2>3. \/ adapter' = adapter
        \/ /\ adapter' = [val |-> adapter'.val, to |-> adapter'.to, age |-> adapter'.age]
           /\ adapter'.to \in Attachment /\ adapter'.age \in 0..TTL + 1
    <3>1. CASE adapter \in {Off, Running, Failed}
      BY <3>1, <2>1, WaitingAdapter
    <3>2. CASE adapter \notin {Off, Running, Failed}
      <4>1. /\ adapter = [val |-> adapter.val, to |-> adapter.to, age |-> adapter.age]
            /\ adapter.to \in Attachment /\ adapter.age \in 0..TTL + 1
        BY <3>2 DEF Pairing
      <4>2. adapter' = [val |-> adapter.val, to |-> adapter.to,
                        age |-> Younger(adapter.age + 1, TTL + 1)]
        BY <2>1, <3>2, <4>1, WaitingAdapter
      <4>3. Younger(adapter.age + 1, TTL + 1) \in 0..TTL + 1
        BY <4>1, Older
      <4> QED
        BY <4>1, <4>2, <4>3
    <3> QED
      BY <3>1, <3>2
  <2>4. pc # "Pair" => at' = Off /\ adapter' = Off
    BY <2>1, NoAnswers DEF Pairing, Waiting
  <2> QED
    BY <2>1, <2>2, <2>3, <2>4 DEF Pairing
<1>2. CASE JoinPair
  BY <1>2 DEF Pairing, JoinPair
<1>3. ASSUME NEW v \in AtAnswer, AtAnswers(v)
      PROVE  Pairing'
  <2>1. at = Running /\ at' = [val |-> v, age |-> 0] /\ adapter' = adapter /\ pc' = pc
    BY <1>3 DEF AtAnswers, runner
  <2>2. pc = "Pair"
    BY <2>1, NoAnswers DEF Pairing
  <2>3. at' = [val |-> at'.val, age |-> at'.age] /\ at'.age \in 0..TTL + 1
    BY <2>1
  <2> QED
    BY <2>1, <2>2, <2>3 DEF Pairing
<1>4. ASSUME NEW v \in AdapterAnswer, AdapterAnswers(v)
      PROVE  Pairing'
  <2>1. adapter = Running /\ at' = at /\ pc' = pc
    BY <1>4 DEF AdapterAnswers, runner
  <2>2. pc = "Pair"
    BY <2>1, NoAnswers DEF Pairing
  <2>3. \/ adapter' = Failed
        \/ /\ adapter' = [val |-> adapter'.val, to |-> adapter'.to, age |-> adapter'.age]
           /\ adapter'.to \in Attachment /\ adapter'.age \in 0..TTL + 1
    <3>1. CASE v = "Failed"
      BY <1>4, <3>1 DEF AdapterAnswers
    <3>2. CASE v # "Failed"
      <4>1. adapter' = [val |-> v, to |-> plugged, age |-> 0] /\ plugged \in Attachment
        BY <1>4, <3>2 DEF AdapterAnswers, Attached, Types
      <4> QED
        BY <4>1
    <3> QED
      BY <3>1, <3>2
  <2> QED
    BY <2>1, <2>2, <2>3 DEF Pairing
<1>5. ASSUME NEW named \in BOOLEAN, FindsModule(named)
      PROVE  Pairing'
  BY <1>5 DEF Pairing, FindsModule
<1>6. CASE UNCHANGED <<at, adapter>> /\ (pc' = pc \/ pc # "Pair")
  BY <1>6 DEF Pairing
<1> QED
  BY <1>1, <1>2, <1>3, <1>4, <1>5, <1>6, PairAside

-----------------------------------------------------------------------------
(* Evidence *)

LEMMA Put ==
  ASSUME NEW e, NEW n, EvidenceOf(e, n), NEW k \in Kind, NEW x, IsEvidence(x, n), Sound(k, x)
  PROVE  /\ EvidenceOf([e EXCEPT ![k] = x], n)
         /\ [e EXCEPT ![k] = x][k] = x
         /\ \A j \in Kind \ {k} : [e EXCEPT ![k] = x][j] = e[j]
<1> DEFINE f == [e EXCEPT ![k] = x]
<1>1. f[k] = x /\ \A j \in Kind \ {k} : f[j] = e[j]
  BY DEF EvidenceOf
<1>2. f = [j \in Kind |-> f[j]]
  BY DEF EvidenceOf
<1> HIDE DEF f
<1>3. \A j \in Kind : IsEvidence(f[j], n) /\ Sound(j, f[j])
  BY <1>1 DEF EvidenceOf
<1>4. EvidenceOf(f, n)
  BY <1>2, <1>3 DEF EvidenceOf
<1> QED
  BY <1>1, <1>4 DEF f

LEMMA AbsentFits ==
  ASSUME NEW n, NEW k
  PROVE  IsEvidence(Absent, n) /\ Sound(k, Absent)
BY DEF IsEvidence, Sound, Known

LEMMA NoDataKeeps ==
  ASSUME NEW e, NEW n, EvidenceOf(e, n)
  PROVE  /\ EvidenceOf(NoData(e), n)
         /\ NoData(e)["binding"] = Absent /\ NoData(e)["bound"] = Absent
<1> DEFINE f == [e EXCEPT !["binding"] = Absent]
           g == [f EXCEPT !["adapter"] = Absent]
           h == [g EXCEPT !["bound"] = Absent]
<1>k. "binding" \in Kind /\ "adapter" \in Kind /\ "bound" \in Kind
  BY DEF Kind
<1>1. EvidenceOf(f, n) /\ f["binding"] = Absent
  BY <1>k, Put, AbsentFits
<1>2. EvidenceOf(g, n) /\ g["binding"] = Absent
  <2> HIDE DEF f
  <2>1. "binding" \in Kind \ {"adapter"}
    BY <1>k
  <2> QED
    BY <1>k, <1>1, <2>1, Put, AbsentFits
<1>3. EvidenceOf(h, n) /\ h["binding"] = Absent /\ h["bound"] = Absent
  <2> HIDE DEF g
  <2>1. "binding" \in Kind \ {"bound"}
    BY <1>k
  <2> QED
    BY <1>k, <1>2, <2>1, Put, AbsentFits
<1>4. NoData(e) = h
  BY DEF NoData
<1> QED
  BY <1>3, <1>4

\* What is observed now.
LEMMA IsSeen ==
  ASSUME NEW v, NEW n, NEW a, n \in Nat, a \in 0..TTL + 1
  PROVE  LET x == [val |-> v, epoch |-> n, age |-> a]
         IN  IsEvidence(x, n) /\ Known(x)
<1> DEFINE x == [val |-> v, epoch |-> n, age |-> a]
<1>1. x = [val |-> x.val, epoch |-> x.epoch, age |-> x.age] /\ x.epoch = n /\ x.age = a
  OBVIOUS
<1>2. x # Absent
  BY AbsentIsNone
<1> HIDE DEF x
<1> QED
  BY <1>1, <1>2 DEF IsEvidence, Known, x

LEMMA Grows ==
  ASSUME NEW e, NEW n \in Nat, NEW m \in Nat, n <= m, EvidenceOf(e, n)
  PROVE  EvidenceOf(e, m)
<1>1. \A k \in Kind : IsEvidence(e[k], m)
  BY DEF EvidenceOf, IsEvidence
<1> QED
  BY <1>1 DEF EvidenceOf

\* Nothing is known of a new epoch.
LEMMA NothingYet ==
  ASSUME NEW n
  PROVE  EvidenceOf([k \in Kind |-> Absent], n)
BY AbsentFits DEF EvidenceOf

LEMMA AgedKeeps ==
  ASSUME NEW e, NEW n, IsEvidence(e, n), NEW k, Sound(k, e)
  PROVE  /\ IsEvidence(Aged(e), n) /\ Sound(k, Aged(e)) /\ Known(Aged(e)) = Known(e)
         /\ Known(e) => /\ Aged(e).val = e.val /\ Aged(e).epoch = e.epoch
                        /\ Aged(e).age = Younger(e.age + 1, TTL + 1)
<1>1. CASE ~Known(e)
  BY <1>1 DEF Aged
<1>2. CASE Known(e)
  <2>1. e = [val |-> e.val, epoch |-> e.epoch, age |-> e.age] /\ e.epoch \in 0..n /\ e.age \in 0..TTL + 1
    BY <1>2 DEF IsEvidence, Known
  <2>2. Aged(e) = [val |-> e.val, epoch |-> e.epoch, age |-> Younger(e.age + 1, TTL + 1)]
    <3>1. Aged(e) = [e EXCEPT !.age = Younger(@ + 1, TTL + 1)]
      BY <1>2 DEF Aged
    <3> QED
      BY <2>1, <3>1
  <2>3. Younger(e.age + 1, TTL + 1) \in 0..TTL + 1
    BY <2>1, Older
  <2>4. Aged(e) # Absent
    BY <2>2, AbsentIsNone
  <2>5. /\ Aged(e) = [val |-> Aged(e).val, epoch |-> Aged(e).epoch, age |-> Aged(e).age]
        /\ Aged(e).val = e.val /\ Aged(e).epoch = e.epoch
        /\ Aged(e).age = Younger(e.age + 1, TTL + 1)
    BY <2>2
  <2>6. IsEvidence(Aged(e), n) /\ Known(Aged(e))
    BY <2>1, <2>3, <2>4, <2>5 DEF IsEvidence, Known
  <2>7. Sound(k, Aged(e))
    BY <2>5, <1>2 DEF Sound
  <2>8. Known(Aged(e)) = Known(e)
    BY <1>2, <2>4 DEF Known
  <2> QED
    BY <2>5, <2>6, <2>7, <2>8
<1> QED
  BY <1>1, <1>2

LEMMA Kinds ==
  /\ "presence" \in Kind /\ "target" \in Kind /\ "binding" \in Kind /\ "adapter" \in Kind
  /\ "bound" \in Kind /\ "at" \in Kind /\ "block" \in Kind
BY DEF Kind

LEMMA SeenIs ==
  ASSUME NEW v, epoch' \in Nat
  PROVE  IsEvidence(Seen(v), epoch') /\ Known(Seen(v)) /\ Seen(v).val = v
<1>1. 0 \in 0..TTL + 1
  BY EvidenceAssumption
<1> QED
  BY <1>1, IsSeen DEF Seen

\* What was observed when an answer was given.
LEMMA StampedIs ==
  ASSUME NEW v, epoch' \in Nat, NEW a \in 0..TTL + 1
  PROVE  /\ IsEvidence([Seen(v) EXCEPT !.age = a], epoch') /\ Known([Seen(v) EXCEPT !.age = a])
         /\ [Seen(v) EXCEPT !.age = a].val = v /\ [Seen(v) EXCEPT !.age = a].age = a
<1>1. Seen(v) = [val |-> v, epoch |-> epoch', age |-> 0]
  BY DEF Seen
<1>2. [Seen(v) EXCEPT !.age = a] = [val |-> v, epoch |-> epoch', age |-> a]
  BY <1>1
<1> QED
  BY <1>2, IsSeen

LEMMA TickEvidence ==
  ASSUME Types, Evidence, Tick
  PROVE  /\ Evidence' /\ \A k \in Kind : ev'[k] = Aged(ev[k])
<1>1. ev' = [k \in Kind |-> Aged(ev[k])] /\ epoch' = epoch
  BY DEF Tick
<1>2. ev' = [k \in Kind |-> ev'[k]] /\ \A k \in Kind : ev'[k] = Aged(ev[k])
  BY <1>1
<1>3. \A k \in Kind : IsEvidence(ev[k], epoch) /\ Sound(k, ev[k])
  BY DEF Evidence, EvidenceOf
<1>4. \A k \in Kind : IsEvidence(ev'[k], epoch) /\ Sound(k, ev'[k])
  BY <1>2, <1>3, AgedKeeps
<1> QED
  BY <1>1, <1>2, <1>4 DEF Evidence, EvidenceOf

LEMMA BeforeIs ==
  ASSUME Types, Scanning, Evidence, Came(scan), AcceptEpoch(scan.epoch)
  PROVE  /\ epoch' \in Nat /\ EvidenceOf(Before(scan.epoch), epoch')
         /\ Before(scan.epoch) = ev \/ Before(scan.epoch)["bound"] = Absent
<1>1. scan.epoch \in epoch..known.epoch
  BY NoAnswers DEF Scanning
<1>2. epoch \in 0..known.epoch /\ known.epoch \in Nat
  BY DEF Types
<1>3. epoch \in Nat /\ epoch' \in Nat /\ epoch <= epoch' /\ epoch' = scan.epoch
  BY <1>1, <1>2 DEF AcceptEpoch
<1>4. EvidenceOf(ev, epoch')
  BY <1>3, Grows DEF Evidence
<1>5. EvidenceOf([k \in Kind |-> Absent], epoch')
  BY NothingYet
<1>6. [k \in Kind |-> Absent]["bound"] = Absent
  BY Kinds
<1> QED
  BY <1>3, <1>4, <1>5, <1>6 DEF Before

LEMMA FindsModuleEvidence ==
  ASSUME Types, Scanning, Evidence, NEW named \in BOOLEAN, FindsModule(named)
  PROVE  /\ Evidence'
         /\ ev'["bound"] = ev["bound"] \/ ev'["bound"] = Absent
<1> DEFINE old == Before(scan.epoch)
           e1 == [old EXCEPT !["presence"] = Seen("Supported")]
           e2 == [e1 EXCEPT !["target"] = Seen(IdOf[scan.saw])]
<1>0. /\ Came(scan) /\ AcceptEpoch(scan.epoch) /\ scan.saw # Nobody
      /\ ev' = IF named THEN [e2 EXCEPT !["binding"] = Seen(scan.saw)] ELSE NoData(e2)
  BY DEF FindsModule
<1>s. scan.saw \in Attachment
  BY <1>0, NoAnswers DEF Scanning
<1>1. /\ epoch' \in Nat /\ EvidenceOf(old, epoch')
      /\ old["bound"] = ev["bound"] \/ old["bound"] = Absent
  BY <1>0, BeforeIs
<1>k. 0 \in 0..TTL + 1 /\ "bound" \in Kind \ {"presence"} /\ "bound" \in Kind \ {"target"}
      /\ "bound" \in Kind \ {"binding"}
  BY Kinds, EvidenceAssumption
<1>2. /\ IsEvidence(Seen("Supported"), epoch') /\ IsEvidence(Seen(IdOf[scan.saw]), epoch')
      /\ IsEvidence(Seen(scan.saw), epoch') /\ Seen(scan.saw).val = scan.saw
  BY <1>1, SeenIs
<1> HIDE DEF old
<1>3. EvidenceOf(e1, epoch') /\ e1["bound"] = old["bound"]
  <2>1. Sound("presence", Seen("Supported"))
    BY DEF Sound
  <2>2. EvidenceOf(old, epoch') /\ IsEvidence(Seen("Supported"), epoch') /\ "presence" \in Kind
    BY <1>1, <1>2, Kinds
  <2> QED
    BY <1>k, <2>1, <2>2, Put DEF e1
<1> HIDE DEF e1
<1>4. EvidenceOf(e2, epoch') /\ e2["bound"] = old["bound"]
  <2>1. Sound("target", Seen(IdOf[scan.saw]))
    BY DEF Sound
  <2>2. EvidenceOf(e1, epoch') /\ IsEvidence(Seen(IdOf[scan.saw]), epoch') /\ "target" \in Kind
    BY <1>2, <1>3, Kinds
  <2>3. EvidenceOf(e2, epoch') /\ e2["bound"] = e1["bound"]
    BY <1>k, <2>1, <2>2, Put DEF e2
  <2> QED
    BY <1>3, <2>3
<1> HIDE DEF e2
<1>5. CASE named
  <2>1. Sound("binding", Seen(scan.saw))
    BY <1>2, <1>s DEF Sound
  <2>2. /\ EvidenceOf([e2 EXCEPT !["binding"] = Seen(scan.saw)], epoch')
        /\ [e2 EXCEPT !["binding"] = Seen(scan.saw)]["bound"] = e2["bound"]
    <3>1. IsEvidence(Seen(scan.saw), epoch') /\ "binding" \in Kind /\ EvidenceOf(e2, epoch')
      BY <1>2, <1>4, Kinds
    <3> QED
      BY <1>k, <2>1, <3>1, Put
  <2> QED
    BY <1>0, <1>1, <1>4, <1>5, <2>2 DEF Evidence
<1>6. CASE ~named
  BY <1>0, <1>4, <1>6, NoDataKeeps DEF Evidence
<1> QED
  BY <1>5, <1>6

LEMMA FindsNothingEvidence ==
  ASSUME Types, Scanning, Evidence, FindsNothing
  PROVE  Evidence' /\ ev'["bound"] = Absent
<1> DEFINE old == NoData(Before(scan.epoch))
           e1 == [old EXCEPT !["presence"] = Seen("NotDetected")]
<1>0. /\ Came(scan) /\ AcceptEpoch(scan.epoch)
      /\ ev' = [e1 EXCEPT !["target"] = Absent]
  BY DEF FindsNothing
<1>1. epoch' \in Nat /\ EvidenceOf(old, epoch') /\ old["bound"] = Absent
  BY <1>0, BeforeIs, NoDataKeeps
<1>k. 0 \in 0..TTL + 1 /\ "bound" \in Kind \ {"presence"} /\ "bound" \in Kind \ {"target"}
  BY Kinds, EvidenceAssumption
<1>2. IsEvidence(Seen("NotDetected"), epoch') /\ Sound("presence", Seen("NotDetected"))
  BY <1>1, <1>k, SeenIs DEF Sound
<1> HIDE DEF old
<1>3. EvidenceOf(e1, epoch') /\ e1["bound"] = Absent
  <2>1. EvidenceOf(old, epoch') /\ "presence" \in Kind
    BY <1>1, Kinds
  <2>2. EvidenceOf(e1, epoch') /\ e1["bound"] = old["bound"]
    BY <1>2, <1>k, <2>1, Put
  <2> QED
    BY <1>1, <2>2
<1> HIDE DEF e1
<1>4. EvidenceOf(ev', epoch') /\ ev'["bound"] = Absent
  <2>1. "target" \in Kind /\ IsEvidence(Absent, epoch') /\ Sound("target", Absent)
    BY Kinds, AbsentFits
  <2>2. /\ EvidenceOf([e1 EXCEPT !["target"] = Absent], epoch')
        /\ [e1 EXCEPT !["target"] = Absent]["bound"] = e1["bound"]
    BY <1>3, <1>k, <2>1, Put
  <2> QED
    BY <1>0, <1>3, <2>2
<1> QED
  BY <1>4 DEF Evidence

LEMMA InventoryFailsEvidence ==
  ASSUME Types, Evidence, InventoryFails
  PROVE  /\ Evidence'
         /\ Known(ev'["presence"]) /\ ev'["presence"].val = "Denied"
         /\ ev'["bound"] = ev["bound"]
<1> DEFINE x == [val |-> "Denied", epoch |-> epoch, age |-> 0]
<1>1. ev' = [ev EXCEPT !["presence"] = x] /\ epoch' = epoch
  BY DEF InventoryFails
<1>2. epoch \in Nat /\ 0 \in 0..TTL + 1 /\ "bound" \in Kind \ {"presence"}
  BY EvidenceAssumption, Kinds DEF Types
<1>3. IsEvidence(x, epoch) /\ Known(x) /\ x.val = "Denied" /\ Sound("presence", x)
  BY <1>2, IsSeen DEF Sound
<1> HIDE DEF x
<1>4. EvidenceOf(ev, epoch) /\ "presence" \in Kind
  BY Kinds DEF Evidence
<1>5. EvidenceOf(ev', epoch) /\ ev'["presence"] = x /\ ev'["bound"] = ev["bound"]
  <2>1. /\ EvidenceOf([ev EXCEPT !["presence"] = x], epoch)
        /\ [ev EXCEPT !["presence"] = x]["presence"] = x
        /\ [ev EXCEPT !["presence"] = x]["bound"] = ev["bound"]
    BY <1>2, <1>3, <1>4, Put
  <2> QED
    BY <1>1, <2>1
<1> QED
  BY <1>1, <1>3, <1>5 DEF Evidence

LEMMA ApplyAtKeeps ==
  ASSUME Pairing, epoch' \in Nat, NEW e, EvidenceOf(e, epoch')
  PROVE  EvidenceOf(ApplyAt(e), epoch') /\ ApplyAt(e)["bound"] = e["bound"]
<1>k. "at" \in Kind /\ "block" \in Kind /\ "bound" \in Kind \ {"at"} /\ "bound" \in Kind \ {"block"}
  BY Kinds
<1>1. ASSUME NEW x, IsEvidence(x, epoch')
      PROVE  /\ EvidenceOf([e EXCEPT !["at"] = x], epoch')
             /\ [e EXCEPT !["at"] = x]["bound"] = e["bound"]
  <2>1. Sound("at", x)
    BY DEF Sound
  <2> QED
    BY <1>1, <1>k, <2>1, Put
<1>2. CASE ~Came(at)
  <2>1. IsEvidence(Seen("Unavailable"), epoch')
    BY SeenIs
  <2>2. ApplyAt(e) = [e EXCEPT !["at"] = Seen("Unavailable")]
    BY <1>2 DEF ApplyAt
  <2>3. /\ EvidenceOf([e EXCEPT !["at"] = Seen("Unavailable")], epoch')
        /\ [e EXCEPT !["at"] = Seen("Unavailable")]["bound"] = e["bound"]
    BY <1>1, <2>1
  <2> QED
    BY <2>2, <2>3
<1>3. CASE Came(at)
  <2>0. at.age \in 0..TTL + 1
    BY <1>3, NoAnswers DEF Pairing
  <2> DEFINE s(v) == [Seen(v) EXCEPT !.age = at.age]
  <2>1. \A v : IsEvidence(s(v), epoch')
    BY <2>0, StampedIs
  <2> HIDE DEF s
  <2>2. CASE at.val = "Failed"
    <3>1. ApplyAt(e) = [e EXCEPT !["at"] = s("Unavailable")]
      BY <1>3, <2>2 DEF ApplyAt, s
    <3>2. IsEvidence(s("Unavailable"), epoch')
      BY <2>1
    <3>3. /\ EvidenceOf([e EXCEPT !["at"] = s("Unavailable")], epoch')
          /\ [e EXCEPT !["at"] = s("Unavailable")]["bound"] = e["bound"]
      BY <1>1, <3>2
    <3> QED
      BY <3>1, <3>3
  <2>3. CASE at.val # "Failed"
    <3> DEFINE f == [e EXCEPT !["at"] = s("Ok")]
               x == IF at.val = "Rejected" THEN s("Rejected") ELSE Absent
    <3>1. ApplyAt(e) = [f EXCEPT !["block"] = x]
      BY <1>3, <2>3 DEF ApplyAt, s
    <3>2. EvidenceOf(f, epoch') /\ f["bound"] = e["bound"]
      BY <1>1, <2>1
    <3>3. IsEvidence(x, epoch') /\ Sound("block", x)
      BY <2>1, AbsentFits DEF Sound
    <3> HIDE DEF f, x
    <3>4. EvidenceOf([f EXCEPT !["block"] = x], epoch') /\ [f EXCEPT !["block"] = x]["bound"] = f["bound"]
      BY <1>k, <3>2, <3>3, Put
    <3> QED
      BY <3>1, <3>2, <3>4
  <2> QED
    BY <2>2, <2>3
<1> QED
  BY <1>2, <1>3

LEMMA ApplyAdapterKeeps ==
  ASSUME Pairing, epoch' \in Nat, NEW e, EvidenceOf(e, epoch')
  PROVE  EvidenceOf(ApplyAdapter(e), epoch') /\ ApplyAdapter(e)["bound"] = e["bound"]
<1>1. CASE ~Came(adapter)
  BY <1>1 DEF ApplyAdapter
<1>2. CASE Came(adapter)
  <2>0. adapter.age \in 0..TTL + 1 /\ adapter.to \in Attachment
    BY <1>2, NoAnswers DEF Pairing
  <2>k. /\ "binding" \in Kind /\ "adapter" \in Kind
        /\ "bound" \in Kind \ {"binding"} /\ "bound" \in Kind \ {"adapter"}
    BY Kinds
  <2> DEFINE x == [Seen(adapter.to) EXCEPT !.age = adapter.age]
             y == [Seen(adapter.val) EXCEPT !.age = adapter.age]
             f == [e EXCEPT !["binding"] = x]
  <2>1. ApplyAdapter(e) = [f EXCEPT !["adapter"] = y]
    BY <1>2 DEF ApplyAdapter
  <2>2. IsEvidence(x, epoch') /\ x.val = adapter.to /\ IsEvidence(y, epoch')
    BY <2>0, StampedIs
  <2> HIDE DEF x, y
  <2>3. Sound("binding", x) /\ Sound("adapter", y)
    BY <2>0, <2>2 DEF Sound
  <2>4. EvidenceOf(f, epoch') /\ f["bound"] = e["bound"]
    BY <2>k, <2>2, <2>3, Put
  <2> HIDE DEF f
  <2>5. /\ EvidenceOf([f EXCEPT !["adapter"] = y], epoch')
        /\ [f EXCEPT !["adapter"] = y]["bound"] = f["bound"]
    BY <2>k, <2>2, <2>3, <2>4, Put
  <2> QED
    BY <2>1, <2>4, <2>5
<1> QED
  BY <1>1, <1>2

LEMMA JoinPairEvidence ==
  ASSUME Types, Pairing, Evidence, JoinPair
  PROVE  Evidence' /\ ev'["bound"] = ev["bound"]
<1>1. epoch' = epoch /\ ev' = ApplyAdapter(ApplyAt(ev))
  BY DEF JoinPair
<1>2. epoch' \in Nat /\ EvidenceOf(ev, epoch')
  BY <1>1 DEF Types, Evidence
<1>3. EvidenceOf(ApplyAt(ev), epoch') /\ ApplyAt(ev)["bound"] = ev["bound"]
  BY <1>2, ApplyAtKeeps
<1>4. /\ EvidenceOf(ApplyAdapter(ApplyAt(ev)), epoch')
      /\ ApplyAdapter(ApplyAt(ev))["bound"] = ApplyAt(ev)["bound"]
  BY <1>2, <1>3, ApplyAdapterKeeps
<1> QED
  BY <1>1, <1>3, <1>4 DEF Evidence

\* What the probe's answer, its absence or the setting leaves of a probe.
ProbeLeaves ==
  \/ /\ Answered /\ probe.found # "NoRoute"
     /\ Known(ev'["bound"])
     /\ ev'["bound"].val.to = ev["binding"].val /\ ev'["bound"].val.found = probe.found
     /\ ev'["bound"].age = probe.age
  \/ ev'["bound"] = Absent
  \/ probe # Disabled /\ ~Answered /\ ev'["bound"] = ev["bound"]

LEMMA BoundPut ==
  ASSUME Evidence, NEW x, IsEvidence(x, epoch), Sound("bound", x)
  PROVE  LET e == [ev EXCEPT !["bound"] = x]
         IN  EvidenceOf(e, epoch) /\ e["bound"] = x
BY Kinds, Put DEF Evidence

LEMMA EndProbeEvidence ==
  ASSUME Types, Probing, Evidence, EndProbe
  PROVE  Evidence' /\ ProbeLeaves
<1>0. epoch' = epoch /\ epoch \in Nat
  BY DEF EndProbe, Types
<1>1. CASE ProbePasses
  <2> DEFINE v == [to |-> ev["binding"].val, found |-> probe.found, cycles |-> failures']
             x == [val |-> v, epoch |-> epoch, age |-> probe.age]
  <2>1. Answered /\ ev' = [ev EXCEPT !["bound"] = IF probe.found = "NoRoute" THEN Absent ELSE x]
    BY <1>1 DEF ProbePasses
  <2>2. CASE probe.found = "NoRoute"
    <3>1. ev' = [ev EXCEPT !["bound"] = Absent]
      BY <2>1, <2>2
    <3>2. EvidenceOf(ev', epoch) /\ ev'["bound"] = Absent
      BY <3>1, AbsentFits, BoundPut
    <3> QED
      BY <1>0, <3>2 DEF Evidence, ProbeLeaves
  <2>3. CASE probe.found # "NoRoute"
    <3>1. ev' = [ev EXCEPT !["bound"] = x]
      BY <2>1, <2>3
    <3>2. Came(probe) /\ probe.age \in 0..TTL + 1
      BY <2>1, NoAnswers, Answers DEF Answered, Probing
    <3>3. probe.found \in Kept /\ Known(ev["binding"])
      BY <2>3, <3>2 DEF Probing
    <3>4. ev["binding"].val \in Attachment
      BY <3>3, Kinds DEF Evidence, EvidenceOf, Sound
    <3>5. v = [to |-> v.to, found |-> v.found, cycles |-> v.cycles]
          /\ v.to = ev["binding"].val /\ v.found = probe.found
      OBVIOUS
    <3> HIDE DEF v
    <3>6. IsEvidence(x, epoch) /\ Known(x)
      BY <1>0, <3>2, IsSeen
    <3>7. x.val = v /\ x.age = probe.age
      OBVIOUS
    <3> HIDE DEF x
    <3>8. Sound("bound", x)
      BY <3>3, <3>4, <3>5, <3>7 DEF Sound
    <3>9. EvidenceOf(ev', epoch) /\ ev'["bound"] = x
      BY <3>1, <3>6, <3>8, BoundPut
    <3> QED
      BY <1>0, <2>1, <2>3, <3>5, <3>6, <3>7, <3>9 DEF Evidence, ProbeLeaves
  <2> QED
    BY <2>2, <2>3
<1>2. CASE ProbeMissing
  <2>1. ev' = ev
    BY <1>2 DEF ProbeMissing
  <2>2. probe # Disabled /\ ~Answered
    BY <1>2, NoAnswers DEF ProbeMissing, Answered
  <2> QED
    BY <1>0, <2>1, <2>2 DEF Evidence, ProbeLeaves
<1>3. CASE ProbeSkipped
  <2>1. ev' = [ev EXCEPT !["bound"] = Absent]
    BY <1>3 DEF ProbeSkipped, Unprobed
  <2>2. EvidenceOf(ev', epoch) /\ ev'["bound"] = Absent
    BY <2>1, AbsentFits, BoundPut
  <2> QED
    BY <1>0, <2>2 DEF Evidence, ProbeLeaves
<1> QED
  BY <1>1, <1>2, <1>3 DEF EndProbe

LEMMA SettingEvidence ==
  ASSUME Evidence, SetActiveProbe
  PROVE  Evidence' /\ ev'["bound"] = Absent
<1>1. ev' = [ev EXCEPT !["bound"] = Absent] /\ epoch' = epoch
  BY DEF SetActiveProbe
<1>2. EvidenceOf(ev', epoch) /\ ev'["bound"] = Absent
  BY <1>1, AbsentFits, BoundPut
<1> QED
  BY <1>1, <1>2 DEF Evidence

LEMMA EvidenceStep ==
  ASSUME Types, Scanning, Pairing, Probing, Evidence, [Next]_vars
  PROVE  Evidence'
<1>0. ASSUME UNCHANGED <<ev, epoch>>
      PROVE  Evidence'
  BY <1>0 DEF Evidence
<1>1. ASSUME NEW a \in Attachment \cup {Nobody}, NEW up \in BOOLEAN, Move(a, up)
      PROVE  Evidence'
  BY <1>0, <1>1 DEF Move, reducer
<1>2. CASE Tick
  BY <1>2, TickEvidence
<1>3. CASE SetActiveProbe
  BY <1>3, SettingEvidence
<1>4. ASSUME NEW allow \in BOOLEAN, RequestCheck(allow)
      PROVE  Evidence'
  BY <1>0, <1>4 DEF RequestCheck, reducer
<1>5. CASE Worker
  BY <1>0, <1>5 DEF Worker, ScanAnswers, ScanFails, AtAnswers, AdapterAnswers, ProbeFinds,
     ProbeReturns, ProbeFails, reducer
<1>6. CASE StartRefresh
  BY <1>0, <1>6 DEF StartRefresh
<1>7. CASE \E named \in BOOLEAN : FindsModule(named)
  BY <1>7, FindsModuleEvidence
<1>8. CASE FindsNothing \/ InventoryFails \/ JoinPair \/ EndProbe
  BY <1>8, FindsNothingEvidence, InventoryFailsEvidence, JoinPairEvidence, EndProbeEvidence
<1>9. CASE UNCHANGED vars
  BY <1>0, <1>9 DEF vars, reducer
<1> QED
  BY <1>1, <1>2, <1>3, <1>4, <1>5, <1>6, <1>7, <1>8, <1>9 DEF Next, Runner

-----------------------------------------------------------------------------
(* The probe *)

LEMMA ProbeOff ==
  ASSUME probe' = Off, pc' # "Probe"
  PROVE  Probing'
BY NoAnswers DEF Probing, Came

\* An answer of the probe as it was found, and as it was returned.
LEMMA ProbeShapes ==
  ASSUME Probing, Came(probe)
  PROVE  /\ "age" \notin DOMAIN probe => probe = [found |-> probe.found]
         /\ "age" \in DOMAIN probe => /\ probe = [found |-> probe.found, age |-> probe.age]
                                      /\ probe.age \in 0..TTL + 1
<1>1. \/ probe = [found |-> probe.found]
      \/ probe = [found |-> probe.found, age |-> probe.age] /\ probe.age \in 0..TTL + 1
  BY NoAnswers DEF Probing
<1>2. "age" \notin DOMAIN [found |-> probe.found]
  BY Answers
<1>3. "age" \in DOMAIN [found |-> probe.found, age |-> probe.age]
  BY Answers
<1> QED
  BY <1>1, <1>2, <1>3

LEMMA WaitingProbe ==
  ASSUME Probing
  PROVE  /\ ~Came(probe) \/ "age" \notin DOMAIN probe => Waiting(probe) = probe
         /\ Came(probe) /\ "age" \in DOMAIN probe =>
              Waiting(probe) = [found |-> probe.found, age |-> Younger(probe.age + 1, TTL + 1)]
<1>1. CASE ~Came(probe) \/ "age" \notin DOMAIN probe
  BY <1>1 DEF Waiting
<1>2. CASE Came(probe) /\ "age" \in DOMAIN probe
  <2>1. probe = [found |-> probe.found, age |-> probe.age]
    BY <1>2, ProbeShapes
  <2>2. Waiting(probe) = [probe EXCEPT !.age = Younger(@ + 1, TTL + 1)]
    BY <1>2 DEF Waiting
  <2>3. Waiting(probe) = [found |-> probe.found, age |-> Younger(probe.age + 1, TTL + 1)]
    BY <2>1, <2>2
  <2> QED
    BY <1>2, <2>3
<1> QED
  BY <1>1, <1>2

\* A tick leaves what has come, and what was found.
LEMMA TickProbe ==
  ASSUME Probing, Tick
  PROVE  /\ Came(probe)' = Came(probe) /\ (probe = Running) = (probe' = Running)
         /\ (probe = Disabled) = (probe' = Disabled)
         /\ ~Came(probe) => probe' = probe
         /\ Came(probe) => /\ probe'.found = probe.found
                           /\ ("age" \in DOMAIN probe') = ("age" \in DOMAIN probe)
                           /\ "age" \notin DOMAIN probe => probe' = probe
                           /\ "age" \in DOMAIN probe =>
                                /\ probe' = [found |-> probe'.found, age |-> probe'.age]
                                /\ probe'.age = Younger(probe.age + 1, TTL + 1)
<1>0. probe' = Waiting(probe)
  BY DEF Tick
<1>1. CASE ~Came(probe) \/ "age" \notin DOMAIN probe
  <2>1. probe' = probe
    BY <1>0, <1>1, WaitingProbe
  <2> QED
    BY <1>1, <2>1 DEF Came
<1>2. CASE Came(probe) /\ "age" \in DOMAIN probe
  <2>1. probe' = [found |-> probe.found, age |-> Younger(probe.age + 1, TTL + 1)]
    BY <1>0, <1>2, WaitingProbe
  <2>2. Came(probe') /\ "age" \in DOMAIN probe'
    BY <2>1, Answers
  <2>3. /\ probe'.found = probe.found /\ probe'.age = Younger(probe.age + 1, TTL + 1)
        /\ probe' = [found |-> probe'.found, age |-> probe'.age]
    BY <2>1
  <2>4. probe # Running /\ probe' # Running /\ probe # Disabled /\ probe' # Disabled
    BY <1>2, <2>2 DEF Came
  <2> QED
    BY <1>2, <2>2, <2>3, <2>4 DEF Came
<1> QED
  BY <1>1, <1>2

LEMMA ProbingStep ==
  ASSUME Types, Evidence, Probing, [Next]_vars
  PROVE  Probing'
<1> USE EvidenceAssumption
<1>0. ASSUME UNCHANGED <<probe, ev, pc, once, active>>
      PROVE  Probing'
  BY <1>0 DEF Probing, Came
<1>1. ASSUME NEW a \in Attachment \cup {Nobody}, NEW up \in BOOLEAN, Move(a, up)
      PROVE  Probing'
  BY <1>0, <1>1 DEF Move, reducer, workers, runner
<1>2. CASE Tick
  <2>1. UNCHANGED <<pc, once, active>>
    BY <1>2 DEF Tick
  <2>2. Known(ev["binding"]) => Known(ev'["binding"])
    <3>1. IsEvidence(ev["binding"], epoch) /\ Sound("binding", ev["binding"])
      BY Kinds DEF Evidence, EvidenceOf
    <3>2. ev'["binding"] = Aged(ev["binding"])
      BY <1>2, Kinds, TickEvidence
    <3> QED
      BY <3>1, <3>2, AgedKeeps
  <2>3. CASE ~Came(probe)
    <3>1. probe' = probe
      BY <1>2, <2>3, TickProbe
    <3> QED
      BY <2>1, <2>2, <2>3, <3>1 DEF Probing, Came
  <2>4. CASE Came(probe)
    <3>1. /\ Came(probe') /\ probe'.found = probe.found
          /\ probe # Running /\ probe # Disabled /\ probe' # Running /\ probe' # Disabled
          /\ probe # Off
      BY <1>2, <2>4, TickProbe DEF Came
    <3>2. \/ probe' = [found |-> probe'.found]
          \/ probe' = [found |-> probe'.found, age |-> probe'.age] /\ probe'.age \in 0..TTL + 1
      <4>1. CASE "age" \notin DOMAIN probe
        BY <1>2, <2>4, <4>1, TickProbe, ProbeShapes
      <4>2. CASE "age" \in DOMAIN probe
        <5>1. /\ probe' = [found |-> probe'.found, age |-> probe'.age]
              /\ probe'.age = Younger(probe.age + 1, TTL + 1) /\ probe.age \in 0..TTL + 1
          BY <1>2, <2>4, <4>2, TickProbe, ProbeShapes
        <5>2. probe'.age \in 0..TTL + 1
          BY <5>1, Older
        <5> QED
          BY <5>1, <5>2
      <4> QED
        BY <4>1, <4>2
    <3> QED
      BY <2>1, <2>2, <2>4, <3>1, <3>2 DEF Probing
  <2> QED
    BY <2>3, <2>4
<1>3. CASE SetActiveProbe
  <2>1. pc = "Idle" /\ pc' = pc /\ probe' = probe
    BY <1>3 DEF SetActiveProbe, workers, runner
  <2> QED
    BY <2>1, ProbeOff DEF Probing
<1>4. ASSUME NEW allow \in BOOLEAN, RequestCheck(allow)
      PROVE  Probing'
  BY <1>0, <1>4 DEF RequestCheck, reducer, workers, runner
<1>5. CASE ScanAnswers \/ ScanFails \/ (\E v \in AtAnswer : AtAnswers(v))
           \/ (\E v \in AdapterAnswer : AdapterAnswers(v))
  BY <1>0, <1>5 DEF ScanAnswers, ScanFails, AtAnswers, AdapterAnswers, reducer, runner
<1>6. ASSUME NEW f \in ProbeAnswer, ProbeFinds(f)
      PROVE  Probing'
  <2>1. /\ probe = Running /\ probe' = [found |-> f] /\ UNCHANGED <<ev, pc, once, active>>
    BY <1>6 DEF ProbeFinds, reducer, runner
  <2>2. Came(probe') /\ probe' = [found |-> probe'.found] /\ probe'.found = f
    BY <2>1, Answers
  <2>3. f \in Kept \cup {"NoRoute"}
    BY DEF Kept, Reached
  <2>4. Known(ev["binding"]) /\ (pc = "Probe") /\ (active \/ once)
    BY <2>1, NoAnswers DEF Probing
  <2>5. probe' # Disabled
    BY <2>2 DEF Came
  <2> QED
    BY <2>1, <2>2, <2>3, <2>4, <2>5 DEF Probing
<1>7. CASE ProbeReturns
  <2>1. /\ Came(probe) /\ probe' = [found |-> probe.found, age |-> 0]
        /\ UNCHANGED <<ev, pc, once, active>>
    BY <1>7 DEF ProbeReturns, reducer, runner
  <2>2. /\ Came(probe') /\ probe' = [found |-> probe'.found, age |-> probe'.age]
        /\ probe'.found = probe.found /\ probe'.age \in 0..TTL + 1
    <3>1. Came([found |-> probe.found, age |-> 0])
      BY Answers
    <3>2. 0 \in 0..TTL + 1
      OBVIOUS
    <3> QED
      BY <2>1, <3>1, <3>2
  <2>3. Known(ev["binding"]) /\ (pc = "Probe") /\ (active \/ once) /\ probe.found \in Kept \cup {"NoRoute"}
    BY <2>1 DEF Probing, Came
  <2>4. probe' # Disabled
    BY <2>2 DEF Came
  <2> QED
    BY <2>1, <2>2, <2>3, <2>4 DEF Probing
<1>8. CASE ProbeFails
  <2>1. probe = Running /\ probe' = Failed /\ UNCHANGED <<ev, pc, once, active>>
    BY <1>8 DEF ProbeFails, reducer, runner
  <2>2. pc = "Probe" /\ (active \/ once)
    BY <2>1, NoAnswers DEF Probing
  <2> QED
    BY <2>1, <2>2, NoAnswers DEF Probing
<1>9. CASE StartRefresh \/ (\E named \in BOOLEAN : FindsModule(named)) \/ FindsNothing
           \/ InventoryFails
  <2>1. probe' = probe /\ pc # "Probe" /\ pc' # "Probe"
    BY <1>9 DEF StartRefresh, FindsModule, FindsNothing, InventoryFails, Finish
  <2> QED
    BY <2>1, ProbeOff DEF Probing
<1>10. CASE JoinPair
  <2>1. /\ pc' = "Probe" /\ UNCHANGED <<once, active>>
        /\ probe' = IF ~(active \/ once) THEN Disabled
                    ELSE IF HasContext(ev') THEN Running ELSE Failed
    BY <1>10 DEF JoinPair
  <2>2. CASE ~(active \/ once)
    <3>1. probe' = Disabled
      BY <2>1, <2>2
    <3> QED
      BY <2>1, <2>2, <3>1, NoAnswers DEF Probing
  <2>3. CASE active \/ once
    <3>1. probe' = Failed \/ (probe' = Running /\ Known(ev'["binding"]))
      BY <2>1, <2>3 DEF HasContext
    <3> QED
      BY <2>1, <2>3, <3>1, NoAnswers DEF Probing
  <2> QED
    BY <2>2, <2>3
<1>11. CASE EndProbe
  <2>1. probe' = Off /\ pc' # "Probe"
    BY <1>11 DEF EndProbe, ProbePasses, ProbeMissing, ProbeSkipped, Finish
  <2> QED
    BY <2>1, ProbeOff
<1>12. CASE UNCHANGED vars
  BY <1>0, <1>12 DEF vars, reducer, workers, runner
<1> QED
  BY <1>1, <1>2, <1>3, <1>4, <1>5, <1>6, <1>7, <1>8, <1>9, <1>10, <1>11, <1>12
     DEF Next, Worker, Runner

-----------------------------------------------------------------------------
(* The network check of the user *)

LEMMA VerdictIs ==
  ASSUME NEW r, NEW c
  PROVE  /\ Verdict(r, c) \in {"DeviceMissing", "Inconclusive", "AdapterIssue", "LinkDown",
              "AddressRouteIssue", "BoundRouteIssue", "Usable", "DnsIssue", "PublicProbeFailed"}
         /\ Verdict(r, c) = "Usable" => c.bound \in {"Full", "Single"}
BY DEF Verdict

LEMMA IdleIs == Idle \in Report /\ Idle.phase = "Stale"
BY DEF Idle, Report

LEMMA AdoptsIs ==
  ASSUME epoch' \in Nat, NEW r \in Report, NEW d \in {"Passed", "Failed"}
  PROVE  /\ Adopts(r, d) \in Report
         /\ Adopts(r, d).phase = r.phase \/ Adopts(r, d) = Idle
<1>1. CASE r.phase = "Running" /\ r.epoch \in {0, epoch'}
  <2>1. Adopts(r, d) = [r EXCEPT !.epoch = epoch', !.device = d]
    BY <1>1 DEF Adopts
  <2>2. d \in {"NotRun", "Passed", "Failed"}
    OBVIOUS
  <2> QED
    BY <2>1, <2>2 DEF Report
<1>2. CASE ~(r.phase = "Running" /\ r.epoch \in {0, epoch'})
  <2>1. Adopts(r, d) = r \/ Adopts(r, d) = Idle
    BY <1>2 DEF Adopts, OfEpoch
  <2> QED
    BY <2>1, IdleIs
<1> QED
  BY <1>1, <1>2

LEMMA ProbedIs ==
  ASSUME report \in Report
  PROVE  Probed(report) \in Report /\ (Probed(report) = report \/ Probed(report) = Idle)
BY IdleIs DEF Probed

LEMMA FinishIs ==
  ASSUME NEW r \in Report, NEW c, Finish(r, c)
  PROVE  /\ report' \in Report /\ checks' \in Checks /\ report'.phase # "Running"
         /\ report'.phase = "Finished" /\ report'.verdict = "Usable" /\ r.phase = "Running" =>
              Ended(c).bound \in {"Full", "Single"}
<1>1. checks' \in Checks
  BY DEF Finish, NoChecks, Checks
<1>2. CASE r.phase = "Running"
  <2> DEFINE v == Verdict(r, Ended(c))
  <2>1. report' = [Idle EXCEPT !.phase = "Finished", !.epoch = r.epoch, !.verdict = v]
    BY <1>2 DEF Finish
  <2>2. /\ v \in {"DeviceMissing", "Inconclusive", "AdapterIssue", "LinkDown",
                  "AddressRouteIssue", "BoundRouteIssue", "Usable", "DnsIssue", "PublicProbeFailed"}
        /\ v = "Usable" => Ended(c).bound \in {"Full", "Single"}
    BY VerdictIs
  <2> HIDE DEF v
  <2>3. r.epoch \in Nat
    BY DEF Report
  <2>4. report' = [phase |-> "Finished", epoch |-> r.epoch, once |-> FALSE, device |-> "NotRun",
                   to |-> Nobody, route |-> "NotRun", verdict |-> v]
    BY <2>1 DEF Idle
  <2>5. report' \in Report
    BY <2>2, <2>3, <2>4 DEF Report
  <2> QED
    BY <1>1, <2>2, <2>4, <2>5
<1>3. CASE r.phase # "Running"
  BY <1>1, <1>3 DEF Finish
<1> QED
  BY <1>2, <1>3

\* What a step makes of the check: left alone, or in the middle of a cycle.
LEMMA ReportStep ==
  ASSUME Types, Scanning, Pairing, report \in Report, checks \in Checks, [Next]_vars
  PROVE  report' \in Report /\ checks' \in Checks
<1>0. ASSUME UNCHANGED <<report, checks>>
      PROVE  report' \in Report /\ checks' \in Checks
  BY <1>0
<1>e. epoch \in Nat
  BY DEF Types
<1>1. ASSUME NEW a \in Attachment \cup {Nobody}, NEW up \in BOOLEAN, Move(a, up)
      PROVE  UNCHANGED <<report, checks>>
  BY <1>1 DEF Move, reducer
<1>2. CASE Tick
  BY <1>2 DEF Tick
<1>3. CASE SetActiveProbe
  BY <1>3 DEF SetActiveProbe
<1>4. ASSUME NEW allow \in BOOLEAN, RequestCheck(allow)
      PROVE  report' \in Report /\ checks' \in Checks
  <2>1. report' = [Idle EXCEPT !.phase = "Queued", !.epoch = epoch, !.once = allow]
        /\ checks' = checks
    BY <1>4 DEF RequestCheck, reducer
  <2>2. report' \in Report
    BY <1>e, <2>1, IdleIs DEF Report
  <2> QED
    BY <2>1, <2>2
<1>5. CASE Worker
  BY <1>5 DEF Worker, ScanAnswers, ScanFails, AtAnswers, AdapterAnswers, ProbeFinds,
     ProbeReturns, ProbeFails, reducer
<1>6. CASE StartRefresh
  <2>1. checks' = [adapter |-> "Running", bound |-> "Running"]
        /\ report' = IF report.phase = "Queued" THEN [report EXCEPT !.phase = "Running"] ELSE report
    BY <1>6 DEF StartRefresh
  <2>2. checks' \in Checks
    BY <2>1 DEF Checks
  <2>3. report' \in Report
    BY <2>1 DEF Report
  <2> QED
    BY <2>2, <2>3
<1>7. ASSUME NEW named \in BOOLEAN, FindsModule(named)
      PROVE  report' \in Report /\ checks' \in Checks
  <2>1. /\ report' = Adopts(report, "Passed") /\ checks' = Started(scan.epoch)
        /\ epoch' = scan.epoch /\ Came(scan)
    BY <1>7 DEF FindsModule, AcceptEpoch
  <2>2. epoch' \in Nat
    BY <1>e, <2>1, NoAnswers DEF Scanning, Types
  <2>3. checks' \in Checks
    BY <2>1 DEF Started, NoChecks, Checks
  <2> QED
    BY <2>1, <2>2, <2>3, AdoptsIs
<1>8. CASE FindsNothing
  <2>1. /\ epoch' = scan.epoch /\ Came(scan)
        /\ \E c : Finish(Adopts(report, "Failed"), c)
    BY <1>8 DEF FindsNothing, AcceptEpoch
  <2>2. epoch' \in Nat
    BY <1>e, <2>1, NoAnswers DEF Scanning, Types
  <2>3. Adopts(report, "Failed") \in Report
    BY <2>2, AdoptsIs
  <2> QED
    BY <2>1, <2>3, FinishIs
<1>9. CASE InventoryFails
  BY <1>9, FinishIs DEF InventoryFails
<1>10. CASE JoinPair
  <2>1. /\ checks' = [checks EXCEPT !.adapter = IF Came(adapter) THEN "Passed" ELSE "Failed"]
        /\ report' = IF report.phase = "Running" /\ Came(adapter)
               THEN [report EXCEPT !.to = adapter.to,
                                   !.route = RouteOf(adapter.val)]
               ELSE report
    BY <1>10 DEF JoinPair
  <2>2. Came(adapter) => adapter.to \in Attachment
    BY NoAnswers DEF Pairing
  <2>3. checks' \in Checks
    BY <2>1 DEF Checks
  <2>4. report' \in Report
    BY <2>1, <2>2 DEF Report, RouteOf
  <2> QED
    BY <2>3, <2>4
<1>11. CASE EndProbe
  <2>1. \E c : Finish(Probed(report), c) \/ Finish(report, c)
    BY <1>11 DEF EndProbe, ProbePasses, ProbeMissing, ProbeSkipped
  <2>2. Probed(report) \in Report
    BY ProbedIs
  <2> QED
    BY <2>1, <2>2, FinishIs
<1>12. CASE UNCHANGED vars
  BY <1>12 DEF vars, reducer
<1> QED
  BY <1>0, <1>1, <1>2, <1>3, <1>4, <1>5, <1>6, <1>7, <1>8, <1>9, <1>10, <1>11, <1>12
     DEF Next, Runner

-----------------------------------------------------------------------------
(* The paths of the modules, and what a probe found of them *)

\* Steps that are not of the world.
LEMMA WorldAside ==
  ASSUME [Next]_vars, ~Tick,
         \A a \in Attachment \cup {Nobody}, up \in BOOLEAN : ~Move(a, up)
  PROVE  UNCHANGED <<plugged, online, lately>>
<1>1. UNCHANGED world => UNCHANGED <<plugged, online, lately>>
  BY DEF world
<1>2. CASE SetActiveProbe \/ \E allow \in BOOLEAN : RequestCheck(allow)
  BY <1>1, <1>2 DEF SetActiveProbe, RequestCheck
<1>3. CASE Worker
  BY <1>1, <1>3 DEF Worker, ScanAnswers, ScanFails, AtAnswers, AdapterAnswers, ProbeFinds,
     ProbeReturns, ProbeFails
<1>4. CASE Runner
  BY <1>1, <1>4 DEF Runner, StartRefresh, FindsModule, FindsNothing, InventoryFails, JoinPair,
     EndProbe
<1>5. CASE UNCHANGED vars
  BY <1>1, <1>5 DEF vars
<1> QED
  BY <1>2, <1>3, <1>4, <1>5 DEF Next

LEMMA PathStep ==
  ASSUME Types, PathNow, [Next]_vars
  PROVE  PathNow'
<1>1. ASSUME NEW a \in Attachment \cup {Nobody}, NEW up \in BOOLEAN, Move(a, up)
      PROVE  PathNow'
  <2>1. /\ plugged' = a /\ online' = up /\ (up => a \in Attachment)
        /\ lately' = [b \in Attachment |-> IF up /\ b = a THEN 0 ELSE lately[b]]
    BY <1>1 DEF Move
  <2> QED
    BY <2>1 DEF PathNow
<1>2. CASE Tick
  BY <1>2 DEF Tick, PathNow, Reachable
<1>3. CASE UNCHANGED <<plugged, online, lately>>
  BY <1>3 DEF PathNow
<1> QED
  BY <1>1, <1>2, <1>3, WorldAside

\* How far a step of the world moves a path away: not at all, or by a tick.
LEMMA LatelyMoves ==
  ASSUME Types, NEW a \in Attachment \cup {Nobody}, NEW up \in BOOLEAN, Move(a, up),
         NEW b \in Attachment
  PROVE  lately'[b] \in Nat /\ lately[b] \in Nat /\ lately'[b] <= lately[b]
<1>1. lately'[b] = IF up /\ b = a THEN 0 ELSE lately[b]
  BY DEF Move
<1>2. lately[b] \in 0..Old
  BY DEF Types
<1>3. lately[b] \in Nat /\ lately[b] >= 0
  BY <1>2
<1> QED
  BY <1>1, <1>3

LEMMA LatelyTicks ==
  ASSUME Types, Tick, NEW b \in Attachment
  PROVE  lately'[b] \in Nat /\ lately[b] \in Nat /\ lately'[b] <= lately[b] + 1
<1>1. lately'[b] = IF b \in Reachable THEN 0 ELSE Younger(lately[b] + 1, Old)
  BY DEF Tick
<1>2. lately[b] \in 0..Old /\ Old \in Nat
  BY EvidenceAssumption DEF Types, Old
<1>3. lately[b] \in Nat /\ Younger(lately[b] + 1, Old) \in Nat
      /\ Younger(lately[b] + 1, Old) <= lately[b] + 1
  BY <1>2 DEF Younger
<1> QED
  BY <1>1, <1>3

LEMMA BindingIs ==
  ASSUME Evidence, Known(ev["binding"])
  PROVE  ev["binding"].val \in Attachment
BY Kinds DEF Evidence, EvidenceOf, Sound

LEMMA BoundIs ==
  ASSUME Evidence, Known(ev["bound"])
  PROVE  /\ ev["bound"].val.to \in Attachment /\ ev["bound"].val.found \in Kept
         /\ ev["bound"].age \in 0..TTL + 1
BY Kinds DEF Evidence, EvidenceOf, Sound, IsEvidence, Known

LEMMA FoundStep ==
  ASSUME Types, Evidence, Probing, PathNow, FoundLately, [Next]_vars
  PROVE  FoundLately'
<1> USE EvidenceAssumption
<1>0. ASSUME UNCHANGED <<probe, ev, lately, left>>
      PROVE  FoundLately'
  BY <1>0 DEF FoundLately, Came
<1>n. ASSUME ~Came(probe')
      PROVE  FoundLately'
  BY <1>n DEF FoundLately, Came
<1>b. Came(probe) => /\ Known(ev["binding"]) /\ ev["binding"].val \in Attachment
                     /\ pc = "Probe"
  BY BindingIs, NoAnswers DEF Probing
<1>1. ASSUME NEW a \in Attachment \cup {Nobody}, NEW up \in BOOLEAN, Move(a, up)
      PROVE  FoundLately'
  <2>1. UNCHANGED <<probe, ev, left>>
    BY <1>1 DEF Move, workers, reducer, runner
  <2>2. CASE Came(probe)
    <3> DEFINE b == ev["binding"].val
    <3>1. lately'[b] \in Nat /\ lately[b] \in Nat /\ lately'[b] <= lately[b]
      BY <1>1, <1>b, <2>2, LatelyMoves
    <3>2. left \in Nat
      BY <1>b, <2>2 DEF Types
    <3>3. "age" \in DOMAIN probe => probe.age \in Nat
      BY <2>2, ProbeShapes
    <3>4. ev'["binding"].val = b /\ probe' = probe
      BY <2>1
    <3> HIDE DEF b
    <3> QED
      BY <2>1, <3>1, <3>2, <3>3, <3>4 DEF FoundLately, Came, b
  <2> QED
    BY <1>n, <2>1, <2>2
<1>2. CASE Tick
  <2>1. CASE ~Came(probe)
    <3>1. ~Came(probe')
      BY <1>2, <2>1, TickProbe
    <3> QED
      BY <1>n, <3>1
  <2>2. CASE Came(probe)
    <3> DEFINE b == ev["binding"].val
    <3>1. lately'[b] \in Nat /\ lately[b] \in Nat /\ lately'[b] <= lately[b] + 1
      BY <1>2, <1>b, <2>2, LatelyTicks
    <3>2. left \in Nat /\ left' = left - 1 /\ left > 0
      BY <1>2, <1>b, <2>2 DEF Types, Tick
    <3>3. ev'["binding"].val = b
      <4>1. IsEvidence(ev["binding"], epoch) /\ Sound("binding", ev["binding"])
        BY Kinds DEF Evidence, EvidenceOf
      <4>2. ev'["binding"] = Aged(ev["binding"])
        BY <1>2, Kinds, TickEvidence
      <4> QED
        BY <1>b, <2>2, <4>1, <4>2, AgedKeeps
    <3>4. probe'.found = probe.found /\ Came(probe')
      BY <1>2, <2>2, TickProbe
    <3> HIDE DEF b
    <3>5. SUFFICES ASSUME probe.found \in Reached
                   PROVE  IF "age" \in DOMAIN probe'
                          THEN probe'.age <= TTL => lately'[b] <= probe'.age + ProbeTime
                          ELSE lately'[b] <= ProbeTime - left'
      BY <3>3, <3>4 DEF FoundLately, Came
    <3>6. CASE "age" \notin DOMAIN probe
      <4>1. "age" \notin DOMAIN probe'
        BY <1>2, <2>2, <3>6, TickProbe
      <4>2. lately[b] <= ProbeTime - left
        BY <2>2, <3>5, <3>6 DEF FoundLately, b
      <4> QED
        BY <3>1, <3>2, <4>1, <4>2
    <3>7. CASE "age" \in DOMAIN probe
      <4>1. "age" \in DOMAIN probe' /\ probe'.age = Younger(probe.age + 1, TTL + 1)
        BY <1>2, <2>2, <3>7, TickProbe
      <4>2. probe.age \in 0..TTL + 1
        BY <2>2, <3>7, ProbeShapes
      <4>3. probe'.age <= TTL => probe'.age = probe.age + 1 /\ probe.age <= TTL
        BY <4>1, <4>2, Older
      <4>4. probe.age <= TTL => lately[b] <= probe.age + ProbeTime
        BY <2>2, <3>5, <3>7 DEF FoundLately, b
      <4>5. probe'.age <= TTL => lately'[b] <= probe'.age + ProbeTime
        <5> SUFFICES ASSUME probe'.age <= TTL PROVE lately'[b] <= probe'.age + ProbeTime
          OBVIOUS
        <5>1. probe'.age = probe.age + 1 /\ lately[b] <= probe.age + ProbeTime
          BY <4>3, <4>4
        <5>2. probe.age \in Nat
          BY <4>2
        <5> QED
          BY <3>1, <5>1, <5>2
      <4> QED
        BY <4>1, <4>5
    <3> QED
      BY <3>6, <3>7
  <2> QED
    BY <2>1, <2>2
<1>3. ASSUME NEW f \in ProbeAnswer, ProbeFinds(f)
      PROVE  FoundLately'
  <2>1. /\ probe = Running /\ probe' = [found |-> f] /\ plugged = ev["binding"].val
        /\ f \in Reached => online
        /\ UNCHANGED <<ev, lately, left, pc>>
    BY <1>3 DEF ProbeFinds, Reaches, Reached, reducer, runner, world
  <2>2. probe'.found = f /\ "age" \notin DOMAIN probe'
    BY <2>1, Answers
  <2>3. pc = "Probe"
    BY <2>1, NoAnswers DEF Probing
  <2>4. left \in 0..ProbeTime
    BY <2>3 DEF Types
  <2>5. f \in Reached => lately[ev["binding"].val] = 0
    BY <2>1 DEF PathNow
  <2>6. f \in Reached => lately'[ev'["binding"].val] <= ProbeTime - left'
    BY <2>1, <2>4, <2>5
  <2> QED
    BY <2>2, <2>6 DEF FoundLately
<1>4. CASE ProbeReturns
  <2>1. /\ Came(probe) /\ "age" \notin DOMAIN probe /\ probe' = [found |-> probe.found, age |-> 0]
        /\ UNCHANGED <<ev, lately, left, pc>>
    BY <1>4 DEF ProbeReturns, reducer, runner, world
  <2>2. probe'.found = probe.found /\ probe'.age = 0 /\ "age" \in DOMAIN probe'
    BY <2>1
  <2>3. left \in 0..ProbeTime
    BY <1>b, <2>1 DEF Types
  <2>4. probe.found \in Reached => lately[ev["binding"].val] <= ProbeTime - left
    BY <2>1 DEF FoundLately
  <2>5. lately[ev["binding"].val] \in Nat
    BY <1>b, <2>1 DEF Types, Old
  <2>6. probe.found \in Reached => lately'[ev'["binding"].val] <= 0 + ProbeTime
    BY <2>1, <2>3, <2>4, <2>5
  <2> QED
    BY <2>2, <2>6 DEF FoundLately
<1>5. CASE ProbeFails \/ JoinPair \/ EndProbe
  <2>1. probe' \in {Off, Failed, Disabled, Running}
    BY <1>5 DEF ProbeFails, JoinPair, EndProbe
  <2> QED
    BY <1>n, <2>1, NoAnswers
<1>6. CASE ScanAnswers \/ ScanFails \/ (\E v \in AtAnswer : AtAnswers(v))
           \/ (\E v \in AdapterAnswer : AdapterAnswers(v))
  BY <1>0, <1>6 DEF ScanAnswers, ScanFails, AtAnswers, AdapterAnswers, reducer, runner, world
<1>7. CASE StartRefresh \/ (\E named \in BOOLEAN : FindsModule(named)) \/ FindsNothing
           \/ InventoryFails \/ SetActiveProbe \/ (\E allow \in BOOLEAN : RequestCheck(allow))
  <2>1. probe' = probe /\ pc # "Probe"
    BY <1>7 DEF StartRefresh, FindsModule, FindsNothing, InventoryFails, SetActiveProbe,
       RequestCheck, workers
  <2> QED
    BY <1>n, <2>1, NoAnswers DEF Probing
<1>8. CASE UNCHANGED vars
  BY <1>0, <1>8 DEF vars, reducer, workers, runner, world
<1> QED
  BY <1>1, <1>2, <1>3, <1>4, <1>5, <1>6, <1>7, <1>8 DEF Next, Worker, Runner

\* A step that leaves the proof of a probe alone, or takes it away.
LEMMA BoundAside ==
  ASSUME Types, Scanning, Pairing, Evidence, [Next]_vars, ~Tick, ~EndProbe
  PROVE  ev'["bound"] = ev["bound"] \/ ev'["bound"] = Absent
<1>1. ASSUME NEW a \in Attachment \cup {Nobody}, NEW up \in BOOLEAN, Move(a, up)
      PROVE  ev' = ev
  BY <1>1 DEF Move, reducer
<1>2. ASSUME NEW allow \in BOOLEAN, RequestCheck(allow)
      PROVE  ev' = ev
  BY <1>2 DEF RequestCheck, reducer
<1>3. CASE Worker
  BY <1>3 DEF Worker, ScanAnswers, ScanFails, AtAnswers, AdapterAnswers, ProbeFinds,
     ProbeReturns, ProbeFails, reducer
<1>4. CASE SetActiveProbe
  BY <1>4, SettingEvidence
<1>5. CASE \E named \in BOOLEAN : FindsModule(named)
  BY <1>5, FindsModuleEvidence
<1>6. CASE FindsNothing \/ InventoryFails \/ JoinPair
  BY <1>6, FindsNothingEvidence, InventoryFailsEvidence, JoinPairEvidence
<1>7. CASE StartRefresh
  BY <1>7 DEF StartRefresh
<1>8. CASE UNCHANGED vars
  BY <1>8 DEF vars, reducer
<1> QED
  BY <1>1, <1>2, <1>3, <1>4, <1>5, <1>6, <1>7, <1>8 DEF Next, Runner

LEMMA BoundStep ==
  ASSUME Types, Scanning, Pairing, Probing, Evidence, FoundLately, BoundLately, [Next]_vars
  PROVE  BoundLately'
<1> USE EvidenceAssumption
<1>a. ~Known(Absent)
  BY DEF Known
<1>1. ASSUME NEW a \in Attachment \cup {Nobody}, NEW up \in BOOLEAN, Move(a, up)
      PROVE  BoundLately'
  <2>1. ev' = ev
    BY <1>1 DEF Move, reducer
  <2>2. SUFFICES ASSUME Known(ev["bound"]), ev["bound"].val.found \in Reached, ev["bound"].age <= TTL
                 PROVE  lately'[ev["bound"].val.to] <= ev["bound"].age + ProbeTime
    BY <2>1 DEF BoundLately, Known
  <2> DEFINE b == ev["bound"].val.to
             n == ev["bound"].age
  <2>3. b \in Attachment /\ n \in Nat
    BY <2>2, BoundIs
  <2>4. lately[b] <= n + ProbeTime
    BY <2>2 DEF BoundLately
  <2> HIDE DEF b, n
  <2>5. lately'[b] \in Nat /\ lately[b] \in Nat /\ lately'[b] <= lately[b]
    BY <1>1, <2>3, LatelyMoves
  <2>6. lately'[b] <= n + ProbeTime
    BY <2>3, <2>4, <2>5
  <2> QED
    BY <2>6 DEF b, n
<1>2. CASE Tick
  <2>1. ev'["bound"] = Aged(ev["bound"])
    BY <1>2, Kinds, TickEvidence
  <2>2. IsEvidence(ev["bound"], epoch) /\ Sound("bound", ev["bound"])
    BY Kinds DEF Evidence, EvidenceOf
  <2>3. /\ Known(ev'["bound"]) = Known(ev["bound"])
        /\ Known(ev["bound"]) => /\ ev'["bound"].val = ev["bound"].val
                                 /\ ev'["bound"].age = Younger(ev["bound"].age + 1, TTL + 1)
    BY <2>1, <2>2, AgedKeeps
  <2>4. SUFFICES ASSUME Known(ev["bound"]), ev["bound"].val.found \in Reached,
                        ev'["bound"].age <= TTL
                 PROVE  lately'[ev["bound"].val.to] <= ev'["bound"].age + ProbeTime
    BY <2>3 DEF BoundLately, Known
  <2> DEFINE b == ev["bound"].val.to
             n == ev["bound"].age
             k == ev'["bound"].age
  <2>5. b \in Attachment /\ n \in 0..TTL + 1
    BY <2>4, BoundIs
  <2>6. k = Younger(n + 1, TTL + 1) /\ k <= TTL
    BY <2>3, <2>4
  <2>7. n <= TTL => lately[b] <= n + ProbeTime
    BY <2>4 DEF BoundLately
  <2> HIDE DEF b, n, k
  <2>8. k = n + 1 /\ n <= TTL /\ n \in Nat
    BY <2>5, <2>6, Older
  <2>9. lately'[b] \in Nat /\ lately[b] \in Nat /\ lately'[b] <= lately[b] + 1
    BY <1>2, <2>5, LatelyTicks
  <2>10. lately'[b] <= k + ProbeTime
    BY <2>7, <2>8, <2>9
  <2> QED
    BY <2>10 DEF b, k
<1>3. CASE EndProbe
  <2>1. ProbeLeaves /\ lately' = lately
    BY <1>3, EndProbeEvidence DEF EndProbe, world
  <2>2. CASE ev'["bound"] = Absent \/ ev'["bound"] = ev["bound"]
    BY <1>a, <2>1, <2>2 DEF BoundLately, Known
  <2>3. CASE /\ Answered
             /\ ev'["bound"].val.to = ev["binding"].val /\ ev'["bound"].val.found = probe.found
             /\ ev'["bound"].age = probe.age
    <3>1. Came(probe) /\ "age" \in DOMAIN probe
      BY <2>3 DEF Answered
    <3>2. probe.found \in Reached /\ probe.age <= TTL =>
            lately[ev["binding"].val] <= probe.age + ProbeTime
      BY <3>1 DEF FoundLately
    <3> QED
      BY <2>1, <2>3, <3>2 DEF BoundLately
  <2> QED
    BY <2>1, <2>2, <2>3 DEF ProbeLeaves
<1>4. CASE /\ ~Tick /\ ~EndProbe
           /\ \A a \in Attachment \cup {Nobody}, up \in BOOLEAN : ~Move(a, up)
  <2>1. ev'["bound"] = ev["bound"] \/ ev'["bound"] = Absent
    BY <1>4, BoundAside
  <2>2. lately' = lately
    BY <1>4, WorldAside
  <2> QED
    BY <1>a, <2>1, <2>2 DEF BoundLately, Known
<1> QED
  BY <1>1, <1>2, <1>3, <1>4

-----------------------------------------------------------------------------
(* What the check notes, and what a cycle without a probe leaves *)

LEMMA CycleStep ==
  ASSUME Types, Scanning, Evidence, Probing, report \in Report, PathNow, CycleNoted, [Next]_vars
  PROVE  CycleNoted'
<1>0. ASSUME UNCHANGED <<report, pc, online, plugged, inCycle, probe, ev>>
      PROVE  CycleNoted'
  BY <1>0 DEF CycleNoted, Came
<1>n. ASSUME report'.phase # "Running"
      PROVE  CycleNoted'
  BY <1>n DEF CycleNoted
<1>1. ASSUME NEW a \in Attachment \cup {Nobody}, NEW up \in BOOLEAN, Move(a, up)
      PROVE  CycleNoted'
  <2>1. /\ plugged' = a /\ online' = up /\ UNCHANGED <<report, pc, probe, ev>>
        /\ inCycle' = inCycle \cup (IF up /\ report.phase = "Running" THEN {a} ELSE {})
    BY <1>1 DEF Move, runner, workers, reducer
  <2> QED
    BY <2>1 DEF CycleNoted, Came
<1>2. CASE Tick
  <2>1. UNCHANGED <<report, pc, online, plugged, inCycle>>
    BY <1>2 DEF Tick, history
  <2>2. Came(probe') = Came(probe) /\ (Came(probe) => probe'.found = probe.found)
    BY <1>2, TickProbe DEF Came
  <2>3. Came(probe) => ev'["binding"].val = ev["binding"].val
    <3>1. IsEvidence(ev["binding"], epoch) /\ Sound("binding", ev["binding"])
      BY Kinds DEF Evidence, EvidenceOf
    <3>2. ev'["binding"] = Aged(ev["binding"])
      BY <1>2, Kinds, TickEvidence
    <3> QED
      BY <3>1, <3>2, AgedKeeps DEF Probing
  <2> QED
    BY <2>1, <2>2, <2>3 DEF CycleNoted, Came
<1>3. CASE SetActiveProbe
  <2>1. report' = report /\ pc = "Idle"
    BY <1>3 DEF SetActiveProbe
  <2> QED
    BY <1>n, <2>1 DEF CycleNoted
<1>4. ASSUME NEW allow \in BOOLEAN, RequestCheck(allow)
      PROVE  CycleNoted'
  <2>1. report' = [Idle EXCEPT !.phase = "Queued", !.epoch = epoch, !.once = allow]
    BY <1>4 DEF RequestCheck
  <2>2. report'.phase = "Queued"
    BY <2>1 DEF Idle
  <2> QED
    BY <1>n, <2>2
<1>5. CASE ScanAnswers \/ ScanFails \/ (\E v \in AtAnswer : AtAnswers(v))
           \/ (\E v \in AdapterAnswer : AdapterAnswers(v))
  BY <1>0, <1>5 DEF ScanAnswers, ScanFails, AtAnswers, AdapterAnswers, reducer, runner, world, history
<1>6. ASSUME NEW f \in ProbeAnswer, ProbeFinds(f)
      PROVE  CycleNoted'
  <2>1. /\ probe' = [found |-> f] /\ plugged = ev["binding"].val
        /\ f \in Reached => online
        /\ UNCHANGED <<report, pc, online, plugged, inCycle, ev>>
    BY <1>6 DEF ProbeFinds, Reaches, Reached, reducer, runner, world, history
  <2>2. probe'.found = f
    BY <2>1
  <2> QED
    BY <2>1, <2>2 DEF CycleNoted
<1>7. CASE ProbeReturns
  <2>1. /\ Came(probe) /\ probe' = [found |-> probe.found, age |-> 0]
        /\ UNCHANGED <<report, pc, online, plugged, inCycle, ev>>
    BY <1>7 DEF ProbeReturns, reducer, runner, world, history
  <2>2. probe'.found = probe.found
    BY <2>1
  <2> QED
    BY <2>1, <2>2 DEF CycleNoted
<1>8. CASE ProbeFails
  <2>1. probe' = Failed /\ UNCHANGED <<report, pc, online, plugged, inCycle, ev>>
    BY <1>8 DEF ProbeFails, reducer, runner, world, history
  <2> QED
    BY <2>1, NoAnswers DEF CycleNoted, Came
<1>9. CASE StartRefresh
  <2>1. /\ pc = "Idle" /\ pc' = "Inventory" /\ UNCHANGED <<online, plugged, probe>>
        /\ report' = IF report.phase = "Queued" THEN [report EXCEPT !.phase = "Running"] ELSE report
        /\ inCycle' = IF report.phase = "Queued" THEN Reachable ELSE {}
    BY <1>9 DEF StartRefresh, world
  <2>2. probe' = Off
    BY <2>1 DEF Probing
  <2>3. report.phase # "Running"
    BY <2>1 DEF CycleNoted
  <2>4. CASE report.phase = "Queued"
    BY <2>1, <2>2, <2>4, NoAnswers DEF CycleNoted, Reachable, Came
  <2>5. CASE report.phase # "Queued"
    BY <1>n, <2>1, <2>3, <2>5
  <2> QED
    BY <2>4, <2>5
<1>10. ASSUME NEW named \in BOOLEAN, FindsModule(named)
       PROVE  CycleNoted'
  <2>1. /\ report' = Adopts(report, "Passed") /\ epoch' = scan.epoch /\ Came(scan)
        /\ pc = "Inventory" /\ pc' = "Pair" /\ UNCHANGED <<online, plugged, probe, inCycle>>
    BY <1>10 DEF FindsModule, AcceptEpoch, world, history
  <2>2. epoch' \in Nat
    BY <2>1, NoAnswers DEF Scanning, Types
  <2>3. report'.phase = report.phase \/ report' = Idle
    BY <2>1, <2>2, AdoptsIs
  <2>4. probe' = Off
    BY <2>1 DEF Probing
  <2>5. report'.phase = report.phase \/ report'.phase = "Stale"
    BY <2>3, IdleIs
  <2> QED
    BY <1>n, <2>1, <2>4, <2>5, NoAnswers DEF CycleNoted, Came
<1>11. CASE FindsNothing
  <2>1. /\ epoch' = scan.epoch /\ Came(scan) /\ \E c : Finish(Adopts(report, "Failed"), c)
    BY <1>11 DEF FindsNothing, AcceptEpoch
  <2>2. epoch' \in Nat
    BY <2>1, NoAnswers DEF Scanning, Types
  <2>3. Adopts(report, "Failed") \in Report
    BY <2>2, AdoptsIs
  <2> QED
    BY <1>n, <2>1, <2>3, FinishIs
<1>12. CASE InventoryFails
  BY <1>n, <1>12, FinishIs DEF InventoryFails
<1>13. CASE JoinPair
  <2>1. /\ pc = "Pair" /\ pc' = "Probe" /\ UNCHANGED <<online, plugged, inCycle>>
        /\ report' = IF report.phase = "Running" /\ Came(adapter)
               THEN [report EXCEPT !.to = adapter.to,
                                   !.route = RouteOf(adapter.val)]
               ELSE report
        /\ probe' \in {Off, Failed, Disabled, Running}
    BY <1>13 DEF JoinPair, world, history
  <2>2. report'.phase = report.phase
    BY <2>1 DEF Report
  <2>3. ~Came(probe')
    BY <2>1, NoAnswers
  <2> QED
    BY <2>1, <2>2, <2>3 DEF CycleNoted, Came
<1>14. CASE EndProbe
  <2>1. \E c : Finish(Probed(report), c) \/ Finish(report, c)
    BY <1>14 DEF EndProbe, ProbePasses, ProbeMissing, ProbeSkipped
  <2>2. Probed(report) \in Report
    BY ProbedIs
  <2> QED
    BY <1>n, <2>1, <2>2, FinishIs
<1>15. CASE UNCHANGED vars
  BY <1>0, <1>15 DEF vars, reducer, workers, runner, world, history
<1> QED
  BY <1>1, <1>2, <1>3, <1>4, <1>5, <1>6, <1>7, <1>8, <1>9, <1>10, <1>11, <1>12, <1>13, <1>14,
     <1>15 DEF Next, Worker, Runner

LEMMA NothingStep ==
  ASSUME Types, Scanning, Pairing, Evidence, Probing, NothingProbed, [Next]_vars
  PROVE  NothingProbed'
<1>0. ASSUME UNCHANGED <<ev, pc, active, lastOnce>>
      PROVE  NothingProbed'
  BY <1>0 DEF NothingProbed, Known
<1>n. ASSUME ev'["bound"] = Absent \/ pc' # "Idle"
      PROVE  NothingProbed'
  BY <1>n DEF NothingProbed
<1>1. ASSUME NEW a \in Attachment \cup {Nobody}, NEW up \in BOOLEAN, Move(a, up)
      PROVE  NothingProbed'
  BY <1>0, <1>1 DEF Move, runner, reducer
<1>2. CASE Tick
  <2>1. UNCHANGED <<pc, active, lastOnce>>
    BY <1>2 DEF Tick, history
  <2>2. ev'["bound"] = Aged(ev["bound"]) /\ ev'["presence"] = Aged(ev["presence"])
    BY <1>2, Kinds, TickEvidence
  <2>3. ev["bound"] = Absent => ev'["bound"] = Absent
    BY <2>2 DEF Aged, Known
  <2>4. Known(ev["presence"]) => /\ Known(ev'["presence"])
                                 /\ ev'["presence"].val = ev["presence"].val
    <3>1. IsEvidence(ev["presence"], epoch) /\ Sound("presence", ev["presence"])
      BY Kinds DEF Evidence, EvidenceOf
    <3> QED
      BY <2>2, <3>1, AgedKeeps
  <2> QED
    BY <2>1, <2>3, <2>4 DEF NothingProbed, Known
<1>3. CASE SetActiveProbe
  BY <1>n, <1>3, SettingEvidence
<1>4. ASSUME NEW allow \in BOOLEAN, RequestCheck(allow)
      PROVE  NothingProbed'
  BY <1>0, <1>4 DEF RequestCheck, runner, reducer
<1>5. CASE Worker
  BY <1>0, <1>5 DEF Worker, ScanAnswers, ScanFails, AtAnswers, AdapterAnswers, ProbeFinds,
     ProbeReturns, ProbeFails, reducer, runner, history
<1>6. CASE StartRefresh \/ (\E named \in BOOLEAN : FindsModule(named)) \/ JoinPair
  BY <1>n, <1>6 DEF StartRefresh, FindsModule, JoinPair
<1>7. CASE FindsNothing
  BY <1>n, <1>7, FindsNothingEvidence
<1>8. CASE InventoryFails
  BY <1>8, InventoryFailsEvidence DEF NothingProbed, Known
<1>9. CASE EndProbe
  <2>1. ProbeLeaves /\ active' = active /\ lastOnce' = once /\ pc = "Probe"
    BY <1>9, EndProbeEvidence DEF EndProbe, ProbePasses, ProbeMissing, ProbeSkipped, Finish
  <2>2. CASE ~active /\ ~once
    <3>1. probe = Disabled
      BY <2>1, <2>2 DEF Probing
    <3>2. ev'["bound"] = Absent
      BY <2>1, <3>1, NoAnswers DEF ProbeLeaves, Answered
    <3> QED
      BY <1>n, <3>2
  <2>3. CASE active \/ once
    BY <2>1, <2>3 DEF NothingProbed
  <2> QED
    BY <2>2, <2>3
<1>10. CASE UNCHANGED vars
  BY <1>0, <1>10 DEF vars, reducer, runner, history
<1> QED
  BY <1>1, <1>2, <1>3, <1>4, <1>5, <1>6, <1>7, <1>8, <1>9, <1>10 DEF Next, Runner

-----------------------------------------------------------------------------
(* The invariant *)

LEMMA InitHolds == Init => EvidenceInv
<1> SUFFICES ASSUME Init PROVE EvidenceInv
  OBVIOUS
<1> USE EvidenceAssumption
<1>1. Types
  <2>1. known = [epoch |-> 0, id |-> Nobody]
    BY DEF Init
  <2>2. lately \in [Attachment -> 0..Old]
    <3>1. 0 \in 0..Old /\ Old \in 0..Old
      BY DEF Old
    <3> QED
      BY <3>1 DEF Init
  <2>3. /\ known = [epoch |-> known.epoch, id |-> known.id]
        /\ known.epoch \in Nat /\ epoch \in 0..known.epoch
    BY <2>1 DEF Init
  <2>4. online \in BOOLEAN /\ active \in BOOLEAN /\ once \in BOOLEAN /\ lastOnce \in BOOLEAN
    BY DEF Init
  <2>5. moves \in 0..MaxMoves /\ left \in 0..StageTime /\ failures \in 0..2
    BY DEF Init
  <2>6. plugged \in Attachment \cup {Nobody} /\ inCycle \subseteq Attachment
    BY DEF Init
  <2>7. pc = "Idle" /\ phase = "Startup"
    BY DEF Init
  <2> QED
    BY <2>2, <2>3, <2>4, <2>5, <2>6, <2>7 DEF Types
<1>2. Evidence
  <2>1. ev = [k \in Kind |-> Absent] /\ epoch = 0
    BY DEF Init
  <2> QED
    BY <2>1, NothingYet DEF Evidence
<1>3. Scanning /\ Pairing /\ Probing
  BY NoAnswers DEF Init, Scanning, Pairing, Probing, Came
<1>4. report \in Report /\ report.phase = "Stale" /\ checks \in Checks
  BY IdleIs DEF Init, NoChecks, Checks
<1>5. PathNow
  BY DEF Init, PathNow
<1>6. FoundLately /\ CycleNoted
  BY <1>4, NoAnswers DEF Init, FoundLately, CycleNoted
<1>7. ev["bound"] = Absent
  BY Kinds DEF Init
<1> QED
  BY <1>1, <1>2, <1>3, <1>4, <1>5, <1>6, <1>7 DEF EvidenceInv, Shapes, BoundLately, NothingProbed,
     Known

LEMMA StepHolds == EvidenceInv /\ [Next]_vars => EvidenceInv'
<1> SUFFICES ASSUME EvidenceInv, [Next]_vars PROVE EvidenceInv'
  OBVIOUS
<1>1. /\ Types /\ Evidence /\ Scanning /\ Pairing /\ Probing /\ report \in Report /\ checks \in Checks
      /\ PathNow /\ FoundLately /\ BoundLately /\ CycleNoted /\ NothingProbed
  BY DEF EvidenceInv, Shapes
<1>2. Types'
  <2>1. CASE UNCHANGED vars
    BY <1>1, <2>1 DEF vars, world, runner, reducer, history, Types
  <2> QED
    BY <1>1, <2>1, TypesOnWorld, TypesOnWorker, TypesOnRunner DEF Next
<1>3. Evidence' /\ Scanning' /\ Pairing' /\ Probing'
  BY <1>1, EvidenceStep, ScanningStep, PairingStep, ProbingStep
<1>4. report' \in Report /\ checks' \in Checks
  BY <1>1, ReportStep
<1>5. PathNow' /\ FoundLately' /\ BoundLately'
  BY <1>1, PathStep, FoundStep, BoundStep
<1>6. CycleNoted' /\ NothingProbed'
  BY <1>1, CycleStep, NothingStep
<1> QED
  BY <1>2, <1>3, <1>4, <1>5, <1>6 DEF EvidenceInv, Shapes

LEMMA Invariance == EvidenceSpec => []EvidenceInv
<1> QED
  BY InitHolds, StepHolds, PTL DEF EvidenceSpec

-----------------------------------------------------------------------------

\* Evidence is of the epoch or an earlier one, its age is bounded, a stage's time does not
\* run out twice: every variable of the refresh keeps its type.
THEOREM EvidenceTypeCorrect == EvidenceSpec => []EvidenceTypeOK
<1>1. EvidenceInv => EvidenceTypeOK
  <2> SUFFICES ASSUME EvidenceInv PROVE EvidenceTypeOK
    OBVIOUS
  <2>1. Types /\ report \in Report
    BY DEF EvidenceInv, Shapes
  <2>2. \A k \in {j \in Kind : Known(ev[j])} :
          ev[k].epoch \in 0..epoch /\ ev[k].age \in 0..TTL + 1
    BY DEF EvidenceInv, Shapes, Evidence, EvidenceOf, IsEvidence, Known
  <2>3. report.phase \in {"Queued", "Running", "Finished", "Stale"}
    BY <2>1 DEF Report
  <2> QED
    BY <2>1, <2>2, <2>3 DEF Types, EvidenceTypeOK
<1> QED
  BY <1>1, Invariance, PTL

\* What the classifier needs to call the module available.
LEMMA GreenNeeds ==
  ASSUME Evidence, Status = "Available"
  PROVE  /\ Known(ev["bound"]) /\ ev["bound"].age <= TTL
         /\ ev["bound"].val.to = ev["binding"].val /\ ev["bound"].val.found \in Reached
         /\ IdOf[ev["binding"].val] = ev["target"].val
         /\ Known(ev["presence"]) /\ ev["presence"].val # "Denied"
<1>0. Incomplete # "Available"
  BY DEF Incomplete
<1>1. /\ DataPath = "Available" /\ Fresh(ev["presence"]) /\ ev["presence"].val # "Denied"
  BY DEF Status
<1>2. /\ IdOf[ev["binding"].val] = ev["target"].val
      /\ Bound \notin {"Failed", "Incomplete", "None"} /\ BoundSuccess = "Available"
  BY <1>0, <1>1 DEF DataPath
<1>3. /\ Fresh(ev["bound"]) /\ ev["bound"].val.to = ev["binding"].val
      /\ ev["bound"].val.found = Bound
  BY <1>2 DEF Bound
<1>4. Known(ev["bound"]) /\ ev["bound"].age <= TTL
  BY <1>3 DEF Fresh
<1>5. ev["bound"].val.found \in Reached
  BY <1>2, <1>3, <1>4, BoundIs DEF Kept
<1> QED
  BY <1>1, <1>2, <1>3, <1>4, <1>5 DEF Fresh

\* The module is called available only on a probe of its own path that is no older than
\* an observation may be, however modules, adapters and epochs changed in the meantime:
\* is_fresh_for, valid_bound_value and the identity check of classify_data_path suffice.
THEOREM GreenOnRecentPath == EvidenceSpec => []GreenIsRecent
<1>1. EvidenceInv => GreenIsRecent
  <2> SUFFICES ASSUME EvidenceInv, Status = "Available"
               PROVE  /\ IdOf[ev["binding"].val] = ev["target"].val
                      /\ lately[ev["binding"].val] <= TTL + ProbeTime
    BY DEF GreenIsRecent
  <2>1. Evidence /\ Types /\ BoundLately
    BY DEF EvidenceInv, Shapes
  <2>2. /\ Known(ev["bound"]) /\ ev["bound"].age <= TTL
        /\ ev["bound"].val.to = ev["binding"].val /\ ev["bound"].val.found \in Reached
        /\ IdOf[ev["binding"].val] = ev["target"].val
    BY <2>1, GreenNeeds
  <2>3. lately[ev["binding"].val] <= ev["bound"].age + ProbeTime
    BY <2>1, <2>2 DEF BoundLately
  <2> DEFINE n == lately[ev["binding"].val]
             a == ev["bound"].age
  <2>4. ev["binding"].val \in Attachment /\ a \in 0..TTL + 1
    BY <2>1, <2>2, BoundIs
  <2>5. n \in 0..Old /\ Old \in Nat
    BY <2>1, <2>4, EvidenceAssumption DEF Types, Old
  <2> HIDE DEF n, a
  <2>6. n <= TTL + ProbeTime
    <3>1. n <= a + ProbeTime /\ a <= TTL
      BY <2>2, <2>3 DEF n, a
    <3>2. n \in Nat /\ a \in Nat /\ TTL \in Nat /\ ProbeTime \in Nat
      BY <2>4, <2>5, EvidenceAssumption
    <3> QED
      BY <3>1, <3>2
  <2> QED
    BY <2>2, <2>6 DEF n
<1> QED
  BY <1>1, Invariance, PTL

\* After a cycle without a probe, which the setting forbade, what a probe once found does
\* not make the module available (DisabledBySetting in apply_probe).
THEOREM NotGreenUnprobed == EvidenceSpec => []DisabledIsNotGreen
<1>1. EvidenceInv => DisabledIsNotGreen
  <2> SUFFICES ASSUME EvidenceInv, pc = "Idle", ~active, ~lastOnce, Status = "Available"
               PROVE  FALSE
    BY DEF DisabledIsNotGreen
  <2>1. Evidence /\ NothingProbed
    BY DEF EvidenceInv, Shapes
  <2>2. ev["bound"] = Absent \/ ev["presence"].val = "Denied"
    BY <2>1 DEF NothingProbed
  <2> QED
    BY <2>1, <2>2, GreenNeeds DEF Known
<1> QED
  BY <1>1, Invariance, PTL

\* A check that ends with "usable" probed the adapter that its own cycle had resolved, and
\* found its path up during that cycle (RefreshFinished, classify_module_network).
THEOREM ReportsOwnCycle == EvidenceSpec => ReportIsOwn
<1> DEFINE Own == report.phase = "Running" /\ report'.phase = "Finished"
                    /\ report'.verdict = "Usable" => report.to \in inCycle
<1>1. EvidenceInv /\ [Next]_vars => [Own]_vars
  <2> SUFFICES ASSUME EvidenceInv, [Next]_vars, report.phase = "Running",
                      report'.phase = "Finished", report'.verdict = "Usable"
               PROVE  report.to \in inCycle
    OBVIOUS
  <2>1. /\ Types /\ Scanning /\ Probing /\ report \in Report /\ checks \in Checks /\ CycleNoted
    BY DEF EvidenceInv, Shapes
  <2>i. Idle.phase = "Stale"
    BY DEF Idle
  <2>2. CASE UNCHANGED report
    BY <2>2
  <2>3. CASE FindsNothing
    <3> DEFINE c == [adapter |-> "Unavailable", bound |-> "Unavailable"]
               r == Adopts(report, "Failed")
    <3>1. Finish(r, c) /\ epoch' = scan.epoch /\ Came(scan)
      BY <2>3 DEF FindsNothing, AcceptEpoch
    <3>2. epoch' \in Nat
      BY <2>1, <3>1, NoAnswers DEF Scanning, Types
    <3>3. r \in Report /\ (r.phase = report.phase \/ r = Idle)
      BY <2>1, <3>2, AdoptsIs
    <3>4. Ended(c).bound = "Unavailable"
      BY DEF Ended
    <3> HIDE DEF r, c
    <3>5. CASE r.phase = "Running"
      <4>1. Ended(c).bound \in {"Full", "Single"}
        BY <3>1, <3>3, <3>5, FinishIs
      <4> QED
        BY <3>4, <4>1
    <3>6. CASE r = Idle
      <4>1. report' = r
        BY <2>i, <3>1, <3>6 DEF Finish
      <4> QED
        BY <2>i, <3>6, <4>1
    <3> QED
      BY <3>3, <3>5, <3>6
  <2>4. CASE InventoryFails
    <3>1. Finish(report, checks)
      BY <2>4 DEF InventoryFails
    <3>2. Ended(checks).bound \in {"Full", "Single"}
      BY <2>1, <3>1, FinishIs
    <3>3. checks.bound \in {"NotRun", "Running"}
      BY <2>1 DEF Checks
    <3> QED
      BY <3>2, <3>3 DEF Ended
  <2>5. CASE EndProbe
    <3>1. CASE ProbePasses
      <4> DEFINE c == [checks EXCEPT !.bound = probe.found]
      <4>1. Answered /\ Finish(Probed(report), c)
        BY <3>1 DEF ProbePasses
      <4>2. Probed(report) \in Report /\ (Probed(report) = report \/ Probed(report) = Idle)
        BY <2>1, ProbedIs
      <4>3. CASE Probed(report) = Idle
        <5>1. report' = Idle
          BY <2>i, <4>1, <4>3 DEF Finish
        <5> QED
          BY <2>i, <5>1
      <4>4. CASE Probed(report) = report /\ report.to = ev["binding"].val
        <5>1. Ended(c).bound \in {"Full", "Single"}
          BY <2>1, <4>1, <4>4, FinishIs
        <5>2. c.bound = probe.found
          BY <2>1 DEF Checks
        <5> HIDE DEF c
        <5>3. probe.found \in Reached
          BY <5>1, <5>2 DEF Ended, Reached
        <5>4. Came(probe)
          BY <4>1 DEF Answered
        <5> QED
          BY <2>1, <4>4, <5>3, <5>4 DEF CycleNoted
      <4>5. report.to = ev["binding"].val \/ Probed(report) = Idle
        BY DEF Probed
      <4> QED
        BY <4>2, <4>3, <4>4, <4>5
    <3>2. CASE ProbeMissing \/ ProbeSkipped
      <4>1. PICK b \in {"Unavailable", "NotRun"} : Finish(report, [checks EXCEPT !.bound = b])
        BY <3>2 DEF ProbeMissing, ProbeSkipped
      <4> DEFINE c == [checks EXCEPT !.bound = b]
      <4>2. c.bound = b
        BY <2>1 DEF Checks
      <4>3. Ended(c).bound \in {"Full", "Single"}
        BY <2>1, <4>1, FinishIs
      <4> HIDE DEF c
      <4> QED
        BY <4>2, <4>3 DEF Ended
    <3> QED
      BY <2>5, <3>1, <3>2 DEF EndProbe
  <2>6. CASE StartRefresh
    <3>1. report' = report
      BY <2>6 DEF StartRefresh
    <3> QED
      BY <3>1
  <2>7. ASSUME NEW named \in BOOLEAN, FindsModule(named)
        PROVE  report'.phase # "Finished"
    <3>1. report' = Adopts(report, "Passed") /\ epoch' = scan.epoch /\ Came(scan)
      BY <2>7 DEF FindsModule, AcceptEpoch
    <3>2. epoch' \in Nat
      BY <2>1, <3>1, NoAnswers DEF Scanning, Types
    <3>3. report'.phase = report.phase \/ report' = Idle
      BY <2>1, <3>1, <3>2, AdoptsIs
    <3> QED
      BY <2>i, <3>3
  <2>8. CASE JoinPair
    <3>1. report' = IF report.phase = "Running" /\ Came(adapter)
               THEN [report EXCEPT !.to = adapter.to,
                                   !.route = RouteOf(adapter.val)]
               ELSE report
      BY <2>8 DEF JoinPair
    <3>2. report'.phase = report.phase
      BY <2>1, <3>1 DEF Report
    <3> QED
      BY <3>2
  <2>9. ASSUME NEW allow \in BOOLEAN, RequestCheck(allow)
        PROVE  FALSE
    BY <2>9 DEF RequestCheck, Busy
  <2>10. CASE Worker \/ Tick \/ SetActiveProbe
              \/ \E a \in Attachment \cup {Nobody}, up \in BOOLEAN : Move(a, up)
    <3>1. UNCHANGED report
      BY <2>10 DEF Worker, ScanAnswers, ScanFails, AtAnswers, AdapterAnswers, ProbeFinds,
         ProbeReturns, ProbeFails, Tick, SetActiveProbe, Move
    <3> QED
      BY <3>1
  <2>11. CASE UNCHANGED vars
    BY <2>11 DEF vars
  <2> QED
    BY <2>3, <2>4, <2>5, <2>6, <2>7, <2>8, <2>9, <2>10, <2>11 DEF Next, Runner
<1> QED
  BY <1>1, Invariance, PTL DEF EvidenceSpec, ReportIsOwn

=============================================================================
