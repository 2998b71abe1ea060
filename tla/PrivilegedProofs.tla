-------------------------- MODULE PrivilegedProofs --------------------------
(***************************************************************************)
(* Proofs about PrivilegedFlow, for any number of repairs, devices, states *)
(* and changes of the device.                                              *)
(***************************************************************************)
EXTENDS PrivilegedFlow, TLAPS

Unsent == {"Idle", "Find", "Prove", "Prompt"}
Listening == {"Prompt", "Accept", "Send", "Receive", "Exit"}
Idling == {"None", "Connect", "Read", "Gone"}
NotYet == {"None", "Connect", "Read", "Check", "Inspect", "Prepare", "Execute", "Dispatch"}

\* Where the two ends of one operation can be at the same time.
Together(o) ==
  /\ panel[o] \in Unsent => helper[o] = "None"
  /\ panel[o] \in {"Accept", "Send"} => helper[o] \in Idling /\ o \notin wrote
  /\ panel[o] # "Done" => told[o] = "Nothing"
  /\ panel[o] \in Listening => o \in open
  /\ o \in request => panel[o] \in {"Receive", "Exit"}
  /\ panel[o] = "Exit" => response[o] # "None"

\* What the helper has done by where it is.
Progress(o) ==
  /\ helper[o] \in NotYet => o \notin wrote /\ response[o] = "None"
  /\ helper[o] = "Readback" => o \in wrote
  /\ helper[o] = "Respond" => verdict[o] # "None"
  /\ verdict[o] = "Applied" => o \in wrote
  /\ response[o] = "Applied" => o \in wrote
  /\ verdict[o] = "Rejected" => o \notin wrote /\ helper[o] \in {"Respond", "Leave", "Gone"}
  /\ response[o] = "Rejected" => o \notin wrote /\ helper[o] \in {"Leave", "Gone"}

\* What a helper that is gone leaves behind, and what a repair not done means.
Settled(o) ==
  /\ helper[o] \in {"Leave", "Gone"} /\ o \in wrote /\ panel[o] = "Receive" /\ o \notin lost
       => response[o] # "None"
  /\ told[o] = "NotDone" /\ o \notin lost => o \notin wrote /\ helper[o] \in Idling

OpInv(o) == Together(o) /\ Progress(o) /\ Settled(o)
PrivInv == PrivTypeOK /\ \A o \in Op : OpInv(o)

USE DEF Panel, Helper, Verdict, Told, Seen

\* A plan that is gone is a value like a plan.
LEMMA NothingSeen == Nothing \in Seen
  BY PrivilegedAssumption DEF Nothing

-----------------------------------------------------------------------------
(* One step of one operation *)

PanelMoves(o) == Ask(o) \/ Age(o) \/ PanelStep(o) \/ CallFails(o) \/ PanelDies(o)
HelperMoves(o) == HelperStep(o) \/ HelperDies(o)

\* A step of the panel keeps the types (execute_via_helper).
LEMMA PanelTypes ==
  ASSUME PrivInv, NEW o \in Op, PanelMoves(o)
  PROVE  PrivTypeOK'
<1> USE DEF PrivInv, PrivTypeOK, OpInv, Together, world, pipe, helping, asking, At, Report,
    Tells, Close
<1>1. CASE Ask(o)
  BY <1>1 DEF Ask
<1>2. CASE FindTarget(o)
  BY <1>2 DEF FindTarget
<1>3. CASE Prove(o)
  BY <1>3 DEF Prove
<1>4. CASE Refuse(o)
  BY <1>4 DEF Refuse
<1>5. CASE Elevate(o)
  BY <1>5 DEF Elevate
<1>6. CASE Accept(o)
  BY <1>6 DEF Accept
<1>7. CASE Send(o)
  BY <1>7 DEF Send
<1>8. CASE GivesUpBeforeRequest(o)
  <2>1. PICK what \in {"NotDone", "Unknown"} : Report(o, what)
    BY <1>8 DEF GivesUpBeforeRequest, OnTimeout
  <2> QED BY <2>1
<1>9. CASE Receive(o)
  BY <1>9 DEF Receive
<1>10. CASE ReceiveTimesOut(o)
  BY <1>10 DEF ReceiveTimesOut, OnTimeout
<1>11. CASE ReceiveBroken(o)
  BY <1>11 DEF ReceiveBroken
<1>12. CASE HelperExits(o)
  BY <1>12 DEF HelperExits, Means
<1>13. CASE ExitTimesOut(o)
  BY <1>13 DEF ExitTimesOut, OnTimeout
<1>14. CASE PanelDies(o)
  BY <1>14 DEF PanelDies
<1>15. CASE CallFails(o)
  BY <1>15 DEF CallFails
<1>16. CASE Age(o)
  BY <1>16 DEF Age
<1> QED BY <1>1, <1>2, <1>3, <1>4, <1>5, <1>6, <1>7, <1>8,
    <1>9, <1>10, <1>11, <1>12, <1>13, <1>14, <1>15, <1>16 DEF PanelMoves, PanelStep

\* A step of the helper keeps the types (run_helper_once).
LEMMA HelperTypes ==
  ASSUME PrivTypeOK, NEW o \in Op, HelperMoves(o)
  PROVE  PrivTypeOK'
<1> USE DEF PrivTypeOK, world, pipe, helping, asking, Moves, Ends, Concludes
<1>1. CASE Connect(o)
  BY <1>1 DEF Connect
<1>2. CASE TakeRequest(o)
  BY <1>2 DEF TakeRequest
<1>3. CASE LeaveSilently(o)
  BY <1>3, NothingSeen DEF LeaveSilently
<1>4. CASE CheckRequest(o)
  BY <1>4 DEF CheckRequest
<1>5. CASE Inspect(o)
  BY <1>5 DEF Inspect
<1>6. CASE Prepare(o)
  <2>1. CASE plan' = [plan EXCEPT ![o] = device] /\ UNCHANGED verdict
    BY <1>6, <2>1 DEF Prepare
  <2>2. CASE Concludes(o, "Failed") /\ UNCHANGED plan
    BY <1>6, <2>2 DEF Prepare
  <2> QED BY <1>6, <2>1, <2>2 DEF Prepare
<1>7. CASE Execute(o)
  BY <1>7 DEF Execute
<1>8. CASE DispatchRejected(o)
  BY <1>8 DEF DispatchRejected
<1>9. CASE Respond(o)
  BY <1>9 DEF Respond
<1>10. CASE Leave(o)
  BY <1>10, NothingSeen DEF Leave
<1>11. CASE HelperDies(o)
  BY <1>11, NothingSeen DEF HelperDies
<1>12. ASSUME NEW s \in State, Dispatch(o, s)
       PROVE  PrivTypeOK'
  BY <1>12 DEF Dispatch
<1>13. ASSUME NEW v \in {"Applied", "Failed", "Unknown"}, Readback(o, v)
       PROVE  PrivTypeOK'
  BY <1>13 DEF Readback
<1> QED BY <1>1, <1>2, <1>3, <1>4, <1>5, <1>6, <1>7, <1>8,
    <1>9, <1>10, <1>11, <1>12, <1>13 DEF HelperMoves, HelperStep

\* A step of the panel keeps what is known of its operation.
LEMMA PanelKeeps ==
  ASSUME PrivInv, NEW o \in Op, PanelMoves(o)
  PROVE  OpInv(o)'
<1> USE DEF PrivInv, PrivTypeOK, OpInv, Together, Progress, Settled, Unsent, Listening, Idling,
    NotYet,
    world, pipe, helping, asking, At, Report, Tells, Close
<1>1. CASE Ask(o)
  BY <1>1 DEF Ask
<1>2. CASE FindTarget(o)
  BY <1>2 DEF FindTarget
<1>3. CASE Prove(o)
  BY <1>3 DEF Prove
<1>4. CASE Refuse(o)
  BY <1>4 DEF Refuse
<1>5. CASE Elevate(o)
  BY <1>5 DEF Elevate
<1>6. CASE Accept(o)
  BY <1>6 DEF Accept
<1>7. CASE Send(o)
  BY <1>7 DEF Send
<1>8. CASE GivesUpBeforeRequest(o)
  BY <1>8 DEF GivesUpBeforeRequest, OnTimeout
<1>9. CASE Receive(o)
  BY <1>9 DEF Receive
<1>10. CASE ReceiveTimesOut(o)
  BY <1>10 DEF ReceiveTimesOut, OnTimeout
<1>11. CASE ReceiveBroken(o)
  BY <1>11 DEF ReceiveBroken
<1>12. CASE HelperExits(o)
  BY <1>12 DEF HelperExits, Means
<1>13. CASE ExitTimesOut(o)
  BY <1>13 DEF ExitTimesOut, OnTimeout
<1>14. CASE PanelDies(o)
  BY <1>14 DEF PanelDies
<1>15. CASE CallFails(o)
  BY <1>15 DEF CallFails
<1>16. CASE Age(o)
  BY <1>16 DEF Age
<1> QED BY <1>1, <1>2, <1>3, <1>4, <1>5, <1>6, <1>7, <1>8,
    <1>9, <1>10, <1>11, <1>12, <1>13, <1>14, <1>15, <1>16 DEF PanelMoves, PanelStep

\* A step of the helper keeps what is known of its operation.
LEMMA HelperKeeps ==
  ASSUME PrivInv, NEW o \in Op, HelperMoves(o)
  PROVE  OpInv(o)'
<1> USE DEF PrivInv, PrivTypeOK, OpInv, Together, Progress, Settled, Unsent, Listening, Idling,
    NotYet,
    world, pipe, helping, asking, Moves, Ends, Concludes
<1>1. CASE Connect(o)
  BY <1>1 DEF Connect
<1>2. CASE TakeRequest(o)
  BY <1>2 DEF TakeRequest
<1>3. CASE LeaveSilently(o)
  BY <1>3 DEF LeaveSilently
<1>4. CASE CheckRequest(o)
  BY <1>4 DEF CheckRequest
<1>5. CASE Inspect(o)
  BY <1>5 DEF Inspect
<1>6. CASE Prepare(o)
  BY <1>6 DEF Prepare, Agrees
<1>7. CASE Execute(o)
  BY <1>7 DEF Execute
<1>8. CASE DispatchRejected(o)
  BY <1>8 DEF DispatchRejected
<1>9. CASE Respond(o)
  BY <1>9 DEF Respond
<1>10. CASE Leave(o)
  BY <1>10 DEF Leave
<1>11. CASE HelperDies(o)
  BY <1>11 DEF HelperDies
<1>12. ASSUME NEW s \in State, Dispatch(o, s)
       PROVE  OpInv(o)'
  BY <1>12 DEF Dispatch
<1>13. ASSUME NEW v \in {"Applied", "Failed", "Unknown"}, Readback(o, v)
       PROVE  OpInv(o)'
  BY <1>13 DEF Readback
<1> QED BY <1>1, <1>2, <1>3, <1>4, <1>5, <1>6, <1>7, <1>8,
    <1>9, <1>10, <1>11, <1>12, <1>13 DEF HelperMoves, HelperStep

\* A step of the panel leaves every other operation alone.
LEMMA PanelApart ==
  ASSUME PrivTypeOK, NEW o \in Op, PanelMoves(o), NEW q \in Op \ {o}, OpInv(q)
  PROVE  OpInv(q)'
<1> USE DEF PrivTypeOK, OpInv, Together, Progress, Settled, world, pipe, helping, asking, At,
    Report, Tells, Close
<1>1. CASE Ask(o)
  BY <1>1 DEF Ask
<1>2. CASE FindTarget(o)
  BY <1>2 DEF FindTarget
<1>3. CASE Prove(o)
  BY <1>3 DEF Prove
<1>4. CASE Refuse(o)
  BY <1>4 DEF Refuse
<1>5. CASE Elevate(o)
  BY <1>5 DEF Elevate
<1>6. CASE Accept(o)
  BY <1>6 DEF Accept
<1>7. CASE Send(o)
  BY <1>7 DEF Send
<1>8. CASE GivesUpBeforeRequest(o)
  BY <1>8 DEF GivesUpBeforeRequest, OnTimeout
<1>9. CASE Receive(o)
  BY <1>9 DEF Receive
<1>10. CASE ReceiveTimesOut(o)
  BY <1>10 DEF ReceiveTimesOut, OnTimeout
<1>11. CASE ReceiveBroken(o)
  BY <1>11 DEF ReceiveBroken
<1>12. CASE HelperExits(o)
  BY <1>12 DEF HelperExits, Means
<1>13. CASE ExitTimesOut(o)
  BY <1>13 DEF ExitTimesOut, OnTimeout
<1>14. CASE PanelDies(o)
  BY <1>14 DEF PanelDies
<1>15. CASE CallFails(o)
  BY <1>15 DEF CallFails
<1>16. CASE Age(o)
  BY <1>16 DEF Age
<1> QED BY <1>1, <1>2, <1>3, <1>4, <1>5, <1>6, <1>7, <1>8,
    <1>9, <1>10, <1>11, <1>12, <1>13, <1>14, <1>15, <1>16 DEF PanelMoves, PanelStep

\* A step of the helper leaves every other operation alone.
LEMMA HelperApart ==
  ASSUME PrivTypeOK, NEW o \in Op, HelperMoves(o), NEW q \in Op \ {o}, OpInv(q)
  PROVE  OpInv(q)'
<1> USE DEF PrivTypeOK, OpInv, Together, Progress, Settled, world, pipe, helping, asking, Moves,
    Ends, Concludes
<1>1. CASE Connect(o)
  BY <1>1 DEF Connect
<1>2. CASE TakeRequest(o)
  BY <1>2 DEF TakeRequest
<1>3. CASE LeaveSilently(o)
  BY <1>3 DEF LeaveSilently
<1>4. CASE CheckRequest(o)
  BY <1>4 DEF CheckRequest
<1>5. CASE Inspect(o)
  BY <1>5 DEF Inspect
<1>6. CASE Prepare(o)
  BY <1>6 DEF Prepare, Agrees
<1>7. CASE Execute(o)
  BY <1>7 DEF Execute
<1>8. CASE DispatchRejected(o)
  BY <1>8 DEF DispatchRejected
<1>9. CASE Respond(o)
  BY <1>9 DEF Respond
<1>10. CASE Leave(o)
  BY <1>10 DEF Leave
<1>11. CASE HelperDies(o)
  BY <1>11 DEF HelperDies
<1>12. ASSUME NEW s \in State, Dispatch(o, s)
       PROVE  OpInv(q)'
  BY <1>12 DEF Dispatch
<1>13. ASSUME NEW v \in {"Applied", "Failed", "Unknown"}, Readback(o, v)
       PROVE  OpInv(q)'
  BY <1>13 DEF Readback
<1> QED BY <1>1, <1>2, <1>3, <1>4, <1>5, <1>6, <1>7, <1>8,
    <1>9, <1>10, <1>11, <1>12, <1>13 DEF HelperMoves, HelperStep

-----------------------------------------------------------------------------
(* Every step *)

\* The device moves by itself.
LEMMA ChangeKeeps ==
  ASSUME PrivInv, NEW d \in Seen, Change(d)
  PROVE  PrivInv'
<1> USE DEF Change, asking, pipe
<1>1. PrivTypeOK' BY PrivilegedAssumption DEF PrivInv, PrivTypeOK
<1>2. ASSUME NEW q \in Op PROVE OpInv(q)'
  BY DEF PrivInv, OpInv, Together, Progress, Settled
<1> QED BY <1>1, <1>2 DEF PrivInv

\* The inductive invariant: what the two ends of a pipe, the helper's place and the
\* user's receipt have to do with each other (execute_via_helper, run_helper_once).
THEOREM PrivInvariant == Spec => []PrivInv
<1>1. Init => PrivInv
  <2> SUFFICES ASSUME Init PROVE PrivInv
    OBVIOUS
  <2>1. PrivTypeOK BY NothingSeen, PrivilegedAssumption DEF Init, PrivTypeOK
  <2>2. ASSUME NEW q \in Op PROVE OpInv(q)
    BY DEF Init, OpInv, Together, Progress, Settled, Unsent, Listening, Idling, NotYet
  <2> QED BY <2>1, <2>2 DEF PrivInv
<1>2. PrivInv /\ [Next]_vars => PrivInv'
  <2> SUFFICES ASSUME PrivInv, [Next]_vars PROVE PrivInv'
    OBVIOUS
  <2>1. ASSUME NEW o \in Op, PanelMoves(o) PROVE PrivInv'
    BY <2>1, PanelTypes, PanelKeeps, PanelApart DEF PrivInv
  <2>2. ASSUME NEW o \in Op, HelperMoves(o) PROVE PrivInv'
    BY <2>2, HelperTypes, HelperKeeps, HelperApart DEF PrivInv
  <2>3. CASE UNCHANGED vars
    BY <2>3 DEF vars, world, pipe, helping, asking, PrivInv, PrivTypeOK, OpInv, Together,
      Progress, Settled
  <2> QED BY <2>1, <2>2, <2>3, ChangeKeeps DEF Next, PanelMoves, HelperMoves
<1> QED BY <1>1, <1>2, PTL DEF Spec

\* Every variable keeps its type.
COROLLARY PrivTypes == Spec => []PrivTypeOK
<1>1. PrivInv => PrivTypeOK BY DEF PrivInv
<1> QED BY <1>1, PrivInvariant, PTL

-----------------------------------------------------------------------------
(* What the user is told *)

\* A step of the panel is one of telling, or none (map_execution).
LEMMA PanelDelivers ==
  ASSUME PrivInv, NEW o \in Op, PanelMoves(o)
  PROVE  [Delivery!Next]_(Delivery!vars)
<1>1. \/ UNCHANGED <<wrote, told, lost>>
      \/ \E what \in {"Applied", "Failed", "NotDone", "Unknown"} : Delivery!Tell(o, what)
  <2> USE DEF PrivInv, PrivTypeOK, OpInv, Together, Progress, Settled, Unsent, Listening, Idling, NotYet,
              world, pipe, helping, asking, At, Report, Tells, Close, Delivery!Tell
  <2>1. CASE Ask(o)
    BY <2>1 DEF Ask
  <2>2. CASE FindTarget(o)
    BY <2>2 DEF FindTarget
  <2>3. CASE Prove(o)
    BY <2>3 DEF Prove
  <2>4. CASE Refuse(o)
    BY <2>4 DEF Refuse
  <2>5. CASE Elevate(o)
    BY <2>5 DEF Elevate
  <2>6. CASE Accept(o)
    BY <2>6 DEF Accept
  <2>7. CASE Send(o)
    BY <2>7 DEF Send
  <2>8. CASE GivesUpBeforeRequest(o)
    BY <2>8 DEF GivesUpBeforeRequest, OnTimeout
  <2>9. CASE Receive(o)
    BY <2>9 DEF Receive
  <2>10. CASE ReceiveTimesOut(o)
    BY <2>10 DEF ReceiveTimesOut, OnTimeout
  <2>11. CASE ReceiveBroken(o)
    BY <2>11 DEF ReceiveBroken
  <2>12. CASE HelperExits(o)
    BY <2>12 DEF HelperExits, Means
  <2>13. CASE ExitTimesOut(o)
    BY <2>13 DEF ExitTimesOut, OnTimeout
  <2>14. CASE PanelDies(o)
    BY <2>14 DEF PanelDies
  <2>15. CASE CallFails(o)
    BY <2>15 DEF CallFails
  <2>16. CASE Age(o)
    BY <2>16 DEF Age
  <2> QED BY <2>1, <2>2, <2>3, <2>4, <2>5, <2>6, <2>7, <2>8,
      <2>9, <2>10, <2>11, <2>12, <2>13, <2>14, <2>15, <2>16 DEF PanelMoves, PanelStep
<1> QED BY <1>1 DEF Delivery!Next, Delivery!vars

\* A step of the helper is one of writing or of being lost, or none.
LEMMA HelperDelivers ==
  ASSUME PrivInv, NEW o \in Op, HelperMoves(o)
  PROVE  [Delivery!Next]_(Delivery!vars)
<1>1. UNCHANGED <<wrote, told, lost>> \/ Delivery!Write(o) \/ Delivery!Lose(o)
  <2> USE DEF world, pipe, helping, asking, Moves, Ends, Concludes
  <2>1. CASE Connect(o)
    BY <2>1 DEF Connect
  <2>2. CASE TakeRequest(o)
    BY <2>2 DEF TakeRequest
  <2>3. CASE LeaveSilently(o)
    BY <2>3 DEF LeaveSilently
  <2>4. CASE CheckRequest(o)
    BY <2>4 DEF CheckRequest
  <2>5. CASE Inspect(o)
    BY <2>5 DEF Inspect
  <2>6. CASE Prepare(o)
    BY <2>6 DEF Prepare
  <2>7. CASE Execute(o)
    BY <2>7 DEF Execute
  <2>8. CASE DispatchRejected(o)
    BY <2>8 DEF DispatchRejected
  <2>9. CASE Respond(o)
    BY <2>9 DEF Respond
  <2>10. CASE Leave(o)
    BY <2>10 DEF Leave
  <2>11. ASSUME NEW v \in {"Applied", "Failed", "Unknown"}, Readback(o, v)
        PROVE  UNCHANGED <<wrote, told, lost>>
    BY <2>11 DEF Readback
  <2>12. ASSUME NEW s \in State, Dispatch(o, s) PROVE Delivery!Write(o)
    BY <2>12 DEF Dispatch, Delivery!Write, PrivInv, OpInv, Progress, Settled, Idling, NotYet
  <2>13. CASE HelperDies(o)
    BY <2>13 DEF HelperDies, Delivery!Lose
  <2> QED BY <2>1, <2>2, <2>3, <2>4, <2>5, <2>6, <2>7, <2>8,
      <2>9, <2>10, <2>11, <2>12, <2>13 DEF HelperMoves, HelperStep
<1> QED BY <1>1 DEF Delivery!Next, Delivery!vars

\* What the panel tells is what RepairDelivery allows, for every interleaving of
\* panel, helper and device (map_execution, runtime.rs; run_helper_once, privilege.rs).
THEOREM KeepsDelivery == Spec => DeliveryKept
<1>1. Init => Delivery!Init
  BY DEF Init, Delivery!Init
<1>2. PrivInv /\ [Next]_vars => [Delivery!Next]_(Delivery!vars)
  <2> SUFFICES ASSUME PrivInv, [Next]_vars PROVE [Delivery!Next]_(Delivery!vars)
    OBVIOUS
  <2>1. ASSUME NEW d \in Seen, Change(d) PROVE UNCHANGED Delivery!vars
    BY <2>1 DEF Change, asking, Delivery!vars
  <2>2. CASE UNCHANGED vars
    BY <2>2 DEF vars, asking, helping, Delivery!vars
  <2> QED BY <2>1, <2>2, PanelDelivers, HelperDelivers DEF Next, PanelMoves, HelperMoves
<1> QED BY <1>1, <1>2, PrivInvariant, PTL DEF Spec, DeliveryKept, Delivery!Spec
-----------------------------------------------------------------------------
(* What is written on *)

\* The helper's plan is the panel's proof, and the device still fits it since it was compared.
Planned(o) ==
  /\ helper[o] \in {"Execute", "Dispatch"} => plan[o] = proof[o]
  /\ helper[o] = "Dispatch" /\ o \in compared => device = plan[o]

\* The panel does not touch a request whose helper is at work.
LEMMA PanelPlans ==
  ASSUME PrivInv, NEW o \in Op, PanelMoves(o), NEW q \in Op, Planned(q)
  PROVE  Planned(q)'
<1> USE DEF PrivInv, PrivTypeOK, OpInv, Together, Unsent, Planned, world, pipe, helping, asking,
    At, Report, Tells, Close
<1>1. CASE Ask(o)
  BY <1>1 DEF Ask
<1>2. CASE FindTarget(o)
  BY <1>2 DEF FindTarget
<1>3. CASE Prove(o)
  BY <1>3 DEF Prove
<1>4. CASE Refuse(o)
  BY <1>4 DEF Refuse
<1>5. CASE Elevate(o)
  BY <1>5 DEF Elevate
<1>6. CASE Accept(o)
  BY <1>6 DEF Accept
<1>7. CASE Send(o)
  BY <1>7 DEF Send
<1>8. CASE GivesUpBeforeRequest(o)
  BY <1>8 DEF GivesUpBeforeRequest, OnTimeout
<1>9. CASE Receive(o)
  BY <1>9 DEF Receive
<1>10. CASE ReceiveTimesOut(o)
  BY <1>10 DEF ReceiveTimesOut
<1>11. CASE ReceiveBroken(o)
  BY <1>11 DEF ReceiveBroken
<1>12. CASE HelperExits(o)
  BY <1>12 DEF HelperExits
<1>13. CASE ExitTimesOut(o)
  BY <1>13 DEF ExitTimesOut
<1>14. CASE PanelDies(o)
  BY <1>14 DEF PanelDies
<1>15. CASE CallFails(o)
  BY <1>15 DEF CallFails
<1>16. CASE Age(o)
  BY <1>16 DEF Age
<1> QED BY <1>1, <1>2, <1>3, <1>4, <1>5, <1>6, <1>7, <1>8,
    <1>9, <1>10, <1>11, <1>12, <1>13, <1>14, <1>15, <1>16 DEF PanelMoves, PanelStep

\* The helper compares before it writes, and sees what the others write.
LEMMA HelperPlans ==
  ASSUME PrivInv, NEW o \in Op, HelperMoves(o), NEW q \in Op, Planned(q)
  PROVE  Planned(q)'
<1> USE DEF PrivInv, PrivTypeOK, Planned, world, pipe, helping, asking, Moves, Ends, Concludes
<1>1. CASE Connect(o)
  BY <1>1 DEF Connect
<1>2. CASE TakeRequest(o)
  BY <1>2 DEF TakeRequest
<1>3. CASE LeaveSilently(o)
  BY <1>3 DEF LeaveSilently
<1>4. CASE CheckRequest(o)
  BY <1>4 DEF CheckRequest
<1>5. CASE Inspect(o)
  BY <1>5 DEF Inspect
<1>6. CASE Prepare(o)
  BY <1>6 DEF Prepare, Agrees
<1>7. CASE Execute(o)
  BY <1>7 DEF Execute
<1>8. CASE DispatchRejected(o)
  BY <1>8 DEF DispatchRejected
<1>9. CASE Respond(o)
  BY <1>9 DEF Respond
<1>10. CASE Leave(o)
  BY <1>10 DEF Leave
<1>11. CASE HelperDies(o)
  BY <1>11 DEF HelperDies
<1>12. ASSUME NEW v \in {"Applied", "Failed", "Unknown"}, Readback(o, v)
       PROVE  Planned(q)'
  BY <1>12 DEF Readback
<1>13. ASSUME NEW s \in State, Dispatch(o, s)
       PROVE  Planned(q)'
  BY <1>13 DEF Dispatch
<1> QED BY <1>1, <1>2, <1>3, <1>4, <1>5, <1>6, <1>7, <1>8,
    <1>9, <1>10, <1>11, <1>12, <1>13 DEF HelperMoves, HelperStep

\* A helper about to write has the device before it in the state the panel proved,
\* unless it changed since (execute_repair_once, privilege.rs; execute, repair.rs).
THEOREM WritesAsProven == Spec => []WrittenAsProven
<1> DEFINE PlanInv == \A o \in Op : Planned(o)
<1>1. Init => PlanInv
  BY DEF Init, Planned
<1>2. PrivInv /\ PlanInv /\ [Next]_vars => PlanInv'
  <2> SUFFICES ASSUME PrivInv, PlanInv, [Next]_vars, NEW q \in Op PROVE Planned(q)'
    OBVIOUS
  <2>1. ASSUME NEW d \in Seen, Change(d) PROVE Planned(q)'
    BY <2>1 DEF Change, asking, Planned
  <2>2. CASE UNCHANGED vars
    BY <2>2 DEF vars, world, helping, asking, Planned
  <2> QED BY <2>1, <2>2, PanelPlans, HelperPlans DEF Next, PanelMoves, HelperMoves
<1>3. PlanInv => WrittenAsProven
  BY DEF Planned, WrittenAsProven
<1> QED BY <1>1, <1>2, <1>3, PrivInvariant, PTL DEF Spec
=============================================================================
