--------------------------- MODULE PrivilegedFlow ---------------------------
(***************************************************************************)
(* A confirmed repair on its way through the one-shot elevated helper:     *)
(* execute_via_helper (runtime.rs) and launch_elevated_helper on the       *)
(* panel's side, run_helper_once on the other (privilege.rs), with the     *)
(* pipe of the operation between them (crates/ipc).                        *)
(*                                                                         *)
(* Every wait of the panel is bounded by five seconds, the helper's work is *)
(* not: a panel that has given up has closed its end of the pipe, and the  *)
(* helper, which does not look at it again before it answers, goes on.  The *)
(* user may then ask for the next repair.  The device may be exchanged or  *)
(* change state at any time, the request may age behind the elevation      *)
(* prompt, the helper and the panel may be killed, the system may fail the  *)
(* panel's read or wait.                                                    *)
(*                                                                         *)
(* How the repair is written and read back is RepairTransaction's business; *)
(* here it is one write and a verdict.  Frames the panel cannot have sent  *)
(* (a wrong nonce, a second frame) are not modelled.                       *)
(***************************************************************************)
EXTENDS Integers, FiniteSets

CONSTANTS
  Op,         \* operations, 1 .. the number of repairs asked for
  Device,     \* identities a device may have
  State,      \* before-states the device may be in
  MaxMoves    \* bound on changes of the device from outside

Nobody == "Nobody"

ASSUME PrivilegedAssumption ==
  /\ Op \subseteq Nat \ {0}
  /\ Nobody \notin Device /\ State # {}
  /\ MaxMoves \in Nat

VARIABLES
  device,    \* the device that is plugged in, or Nobody, and its state
  moves,     \* history: changes from outside
  panel,     \* where execute_via_helper stands
  wanted,    \* the identity the user confirmed
  proof,     \* identity and before-state in the request
  aged,      \* requests past expires_at
  open,      \* pipes whose server end the panel holds
  request,   \* pipes with a request nobody has read
  response,  \* what the helper wrote into its pipe
  helper,    \* where run_helper_once stands
  plan,      \* identity and before-state of the helper's own plan
  verdict,   \* the helper's result
  wrote,     \* history: operations written
  told,      \* the receipt, as map_execution shows it
  lost,      \* repairs whose helper was killed, or whose pipe or wait the system failed
  compared   \* history: no change since the helper compared for the last time

pipe == <<open, request, response>>
asking == <<panel, wanted, proof, told>>
helping == <<helper, plan, verdict, wrote, compared>>
world == <<device, moves>>
vars == <<world, asking, aged, pipe, helping, lost>>

Seen == [id : Device \cup {Nobody}, state : State]
Nothing == [id |-> Nobody, state |-> CHOOSE s \in State : TRUE]
Panel == {"Idle", "Find", "Prove", "Prompt", "Accept", "Send", "Receive", "Exit", "Done"}
Helper == {"None", "Connect", "Read", "Check", "Inspect", "Prepare", "Execute", "Dispatch",
           "Readback", "Respond", "Leave", "Gone"}
Verdict == {"None", "Applied", "Failed", "Unknown", "Rejected"}
Told == {"Nothing", "Applied", "Failed", "NotDone", "Unknown"}

Init ==
  /\ device \in [id : Device, state : State] /\ moves = 0
  /\ panel = [o \in Op |-> "Idle"]
  /\ wanted = [o \in Op |-> Nobody]
  /\ proof = [o \in Op |-> Nothing] /\ plan = [o \in Op |-> Nothing]
  /\ aged = {} /\ wrote = {} /\ lost = {} /\ compared = {}
  /\ open = {} /\ request = {} /\ response = [o \in Op |-> "None"]
  /\ helper = [o \in Op |-> "None"]
  /\ verdict = [o \in Op |-> "None"]
  /\ told = [o \in Op |-> "Nothing"]

-----------------------------------------------------------------------------
(* The panel *)

At(o, place, next) == panel[o] = place /\ panel' = [panel EXCEPT ![o] = next]

\* The panel's end is dropped, and what is on the pipe with it.
Close(o) ==
  /\ open' = open \ {o} /\ request' = request \ {o}
  /\ response' = [response EXCEPT ![o] = "None"]

\* map_execution: a timeout leaves the outcome open, every other error is a failure.
Tells(o, what) ==
  /\ panel' = [panel EXCEPT ![o] = "Done"]
  /\ told' = [told EXCEPT ![o] = what]
  /\ Close(o)
  /\ wanted' = [wanted EXCEPT ![o] = Nobody]
  /\ UNCHANGED <<world, proof, aged, helping>>

Report(o, what) == Tells(o, what) /\ UNCHANGED lost

\* The user confirms; one repair at a time has the executor.
Ask(o) ==
  /\ \A q \in Op : panel[q] = (IF q < o THEN "Done" ELSE "Idle")
  /\ device.id # Nobody
  /\ At(o, "Idle", "Find")
  /\ wanted' = [wanted EXCEPT ![o] = device.id]
  /\ UNCHANGED <<world, proof, told, aged, pipe, helping, lost>>

\* current_device, the closed mappings and the trust gate.
FindTarget(o) ==
  /\ device.id = wanted[o]
  /\ At(o, "Find", "Prove")
  /\ UNCHANGED <<world, wanted, proof, told, aged, pipe, helping, lost>>

\* prepare and validate_native_plan_target; the request is built and the pipe created.
Prove(o) ==
  /\ device.id = wanted[o]
  /\ At(o, "Prove", "Prompt")
  /\ proof' = [proof EXCEPT ![o] = device]
  /\ open' = open \cup {o}
  /\ UNCHANGED <<world, wanted, told, aged, request, response, helping, lost>>

\* No such device, no trusted helper, nothing to change, a prompt that was declined.
Refuse(o) ==
  /\ panel[o] \in {"Find", "Prove", "Prompt"}
  /\ Report(o, "NotDone")

Elevate(o) ==
  /\ At(o, "Prompt", "Accept")
  /\ helper' = [helper EXCEPT ![o] = "Connect"]
  /\ UNCHANGED <<world, wanted, proof, told, aged, pipe, plan, verdict, wrote, compared, lost>>

\* A request past the helper's check does not age to any effect.
Age(o) ==
  /\ panel[o] \in {"Prompt", "Accept", "Send", "Receive"} /\ o \notin aged
  /\ helper[o] \in {"None", "Connect", "Read", "Check"}
  /\ aged' = aged \cup {o}
  /\ UNCHANGED <<world, asking, pipe, helping, lost>>

\* A helper that came and left again fails the panel here or at its next use of the pipe.
Accept(o) ==
  /\ helper[o] = "Read"
  /\ At(o, "Accept", "Send")
  /\ UNCHANGED <<world, wanted, proof, told, aged, pipe, helping, lost>>

Send(o) ==
  /\ At(o, "Send", "Receive")
  /\ request' = request \cup {o}
  /\ UNCHANGED <<world, wanted, proof, told, aged, open, response, helping, lost>>

\* Mutant: a wait that ran out counts as a failure.
OnTimeout_Failed == "NotDone"

OnTimeout == "Unknown"

\* A peer that is not the helper, a broken pipe; a wait that ran out.
GivesUpBeforeRequest(o) ==
  /\ panel[o] \in {"Accept", "Send"}
  /\ \/ Report(o, "NotDone")
     \/ Report(o, OnTimeout)

Receive(o) ==
  /\ response[o] # "None"
  /\ At(o, "Receive", "Exit")
  /\ UNCHANGED <<world, wanted, proof, told, aged, pipe, helping, lost>>

\* Mutant: the panel waits for the helper as long as that takes.
ReceiveTimesOut_Never(o) == FALSE

\* read_frame waits five seconds at the most.
ReceiveTimesOut(o) ==
  /\ panel[o] = "Receive" /\ response[o] = "None"
  /\ Report(o, OnTimeout)

\* The helper is gone without an answer.
ReceiveBroken(o) ==
  /\ panel[o] = "Receive" /\ response[o] = "None" /\ helper[o] = "Gone"
  /\ Report(o, "NotDone")

\* map_helper_response
Means(v) == IF v = "Rejected" THEN "NotDone" ELSE v

HelperExits(o) ==
  /\ panel[o] = "Exit" /\ helper[o] = "Gone"
  /\ Report(o, Means(response[o]))

\* The helper does not leave in time: what it answered is put aside.
ExitTimesOut(o) ==
  /\ panel[o] = "Exit" /\ helper[o] # "Gone"
  /\ Report(o, OnTimeout)

\* The system fails a read of the pipe or the wait for the process, with the helper at
\* work or done: no timeout, so the user is told of a failure (map_privilege_error).
CallFails(o) ==
  /\ panel[o] \in {"Receive", "Exit"}
  /\ Tells(o, "NotDone")
  /\ lost' = lost \cup {o}

PanelDies(o) ==
  /\ panel[o] \notin {"Idle", "Done"}
  /\ panel' = [panel EXCEPT ![o] = "Done"]
  /\ Close(o)
  /\ wanted' = [wanted EXCEPT ![o] = Nobody]
  /\ UNCHANGED <<world, proof, told, aged, helping, lost>>

-----------------------------------------------------------------------------
(* The helper *)

\* The process ends, and its plan and verdict with it.
Ends(o) ==
  /\ helper' = [helper EXCEPT ![o] = "Gone"]
  /\ plan' = [plan EXCEPT ![o] = Nothing]
  /\ verdict' = [verdict EXCEPT ![o] = "None"]
  /\ compared' = compared \ {o}

Moves(o, place, next) == helper[o] = place /\ helper' = [helper EXCEPT ![o] = next]

\* connect_once, verify_server
Connect(o) ==
  /\ o \in open
  /\ Moves(o, "Connect", "Read")
  /\ UNCHANGED <<world, asking, aged, pipe, plan, verdict, wrote, compared, lost>>

TakeRequest(o) ==
  /\ o \in request
  /\ Moves(o, "Read", "Check")
  /\ request' = request \ {o}
  /\ UNCHANGED <<world, asking, aged, open, response, plan, verdict, wrote, compared, lost>>

\* No pipe, the wrong peer, no request within five seconds, a scan that failed.
LeaveSilently(o) ==
  /\ \/ helper[o] \in {"Connect", "Inspect"}
     \/ helper[o] = "Read" /\ o \notin request
  /\ Ends(o)
  /\ UNCHANGED <<world, asking, aged, pipe, wrote, lost>>

Concludes(o, v) ==
  /\ helper' = [helper EXCEPT ![o] = "Respond"]
  /\ verdict' = [verdict EXCEPT ![o] = v]

CheckRequest(o) ==
  /\ helper[o] = "Check"
  /\ IF o \in aged
     THEN Concludes(o, "Rejected")
     ELSE helper' = [helper EXCEPT ![o] = "Inspect"] /\ UNCHANGED verdict
  /\ UNCHANGED <<world, asking, aged, pipe, plan, wrote, compared, lost>>

\* inspect_or_reject: a scan of its own
Inspect(o) ==
  /\ helper[o] = "Inspect"
  /\ IF device.id # proof[o].id
     THEN Concludes(o, "Rejected")
     ELSE helper' = [helper EXCEPT ![o] = "Prepare"] /\ UNCHANGED verdict
  /\ UNCHANGED <<world, asking, aged, pipe, plan, wrote, compared, lost>>

\* Mutant: the helper plans for what it finds, without the panel's proof.
Agrees_AnyState(o) == device.id # Nobody

\* execute_repair_once compares its own plan with the proof.
Agrees(o) == device = proof[o]

Prepare(o) ==
  /\ helper[o] = "Prepare"
  /\ \/ /\ Agrees(o)
        /\ helper' = [helper EXCEPT ![o] = "Execute"]
        /\ plan' = [plan EXCEPT ![o] = device]
        /\ UNCHANGED verdict
     \/ Concludes(o, "Failed") /\ UNCHANGED plan
  /\ UNCHANGED <<world, asking, aged, pipe, wrote, compared, lost>>

\* execute observes again, and compares with the plan.
Execute(o) ==
  /\ helper[o] = "Execute"
  /\ \/ /\ device = plan[o]
        /\ helper' = [helper EXCEPT ![o] = "Dispatch"]
        /\ compared' = compared \cup {o}
        /\ UNCHANGED verdict
     \/ Concludes(o, "Failed") /\ UNCHANGED compared
  /\ UNCHANGED <<world, asking, aged, pipe, plan, wrote, lost>>

\* The write goes to whatever is plugged in now; another helper's is a change to this one.
Dispatch(o, s) ==
  /\ Moves(o, "Dispatch", "Readback")
  /\ device' = IF device.id = Nobody THEN device ELSE [device EXCEPT !.state = s]
  /\ wrote' = wrote \cup {o}
  /\ compared' = IF device' = device THEN compared ELSE {}
  /\ UNCHANGED <<moves, asking, aged, pipe, plan, verdict, lost>>

\* The native call is refused before it has an effect.
DispatchRejected(o) ==
  /\ helper[o] = "Dispatch"
  /\ Concludes(o, "Failed")
  /\ UNCHANGED <<world, asking, aged, pipe, plan, wrote, compared, lost>>

Readback(o, v) ==
  /\ helper[o] = "Readback"
  /\ v = "Applied" => device.id = plan[o].id
  /\ Concludes(o, v)
  /\ UNCHANGED <<world, asking, aged, pipe, plan, wrote, compared, lost>>

\* write_frame, into a pipe the panel may have closed.
Respond(o) ==
  /\ Moves(o, "Respond", "Leave")
  /\ response' = IF o \in open THEN [response EXCEPT ![o] = verdict[o]] ELSE response
  /\ UNCHANGED <<world, asking, aged, open, request, plan, verdict, wrote, compared, lost>>

Leave(o) ==
  /\ helper[o] = "Leave"
  /\ Ends(o)
  /\ UNCHANGED <<world, asking, aged, pipe, wrote, lost>>

HelperDies(o) ==
  /\ helper[o] \notin {"None", "Gone"}
  /\ Ends(o)
  /\ lost' = lost \cup {o}
  /\ UNCHANGED <<world, asking, aged, pipe, wrote>>

-----------------------------------------------------------------------------
\* Unplugged, replaced, or changed by someone else.
Change(d) ==
  /\ moves < MaxMoves /\ d # device
  /\ device' = d /\ moves' = moves + 1
  /\ compared' = {}
  /\ UNCHANGED <<asking, aged, pipe, helper, plan, verdict, wrote, lost>>

PanelStep(o) ==
  \/ FindTarget(o) \/ Prove(o) \/ Refuse(o) \/ Elevate(o)
  \/ Accept(o) \/ Send(o) \/ GivesUpBeforeRequest(o)
  \/ Receive(o) \/ ReceiveTimesOut(o) \/ ReceiveBroken(o)
  \/ HelperExits(o) \/ ExitTimesOut(o)

HelperStep(o) ==
  \/ Connect(o) \/ TakeRequest(o) \/ LeaveSilently(o)
  \/ CheckRequest(o) \/ Inspect(o) \/ Prepare(o) \/ Execute(o)
  \/ \E s \in State : Dispatch(o, s)
  \/ DispatchRejected(o)
  \/ \E v \in {"Applied", "Failed", "Unknown"} : Readback(o, v)
  \/ Respond(o) \/ Leave(o)

Next ==
  \/ \E d \in Seen : Change(d)
  \/ \E o \in Op :
       \/ Ask(o) \/ Age(o) \/ PanelStep(o) \/ CallFails(o) \/ PanelDies(o)
       \/ HelperStep(o) \/ HelperDies(o)

Spec == Init /\ [][Next]_vars

-----------------------------------------------------------------------------
(* Properties *)

\* The type invariant.
PrivTypeOK ==
  /\ device \in Seen /\ moves \in 0 .. MaxMoves
  /\ panel \in [Op -> Panel] /\ wanted \in [Op -> Device \cup {Nobody}]
  /\ proof \in [Op -> Seen] /\ plan \in [Op -> Seen]
  /\ aged \subseteq Op /\ wrote \subseteq Op /\ lost \subseteq Op /\ compared \subseteq Op
  /\ open \subseteq Op /\ request \subseteq Op /\ response \in [Op -> Verdict]
  /\ helper \in [Op -> Helper] /\ verdict \in [Op -> Verdict]
  /\ told \in [Op -> Told]

Delivery == INSTANCE RepairDelivery WITH done <- wrote

\* What the panel tells its user of a repair is never refuted by the helper, not
\* even by one that outlives the panel's patience (map_execution, runtime.rs).
DeliveryKept == Delivery!Spec

\* A helper writes only on a device that is in the state the panel put into the
\* request, unless the device changed after the helper's last look at it.
WrittenAsProven ==
  \A o \in Op : helper[o] = "Dispatch" /\ o \in compared => device = proof[o]

\* Once the prompt is answered the panel is done after bounded waits, whatever
\* the helper does: it may hang, and nothing is assumed of it (launch_elevated_helper).
PanelAnswers == \A o \in Op : panel[o] = "Accept" ~> panel[o] = "Done"

\* The panel's waits are bounded; the user may leave the prompt open.
PrivFairSpec ==
  Spec /\ \A o \in Op : WF_vars(PanelStep(o) /\ panel[o] \notin {"Find", "Prove", "Prompt"})
=============================================================================
