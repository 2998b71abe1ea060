------------------------- MODULE RepairTransaction -------------------------
(***************************************************************************)
(* One confirmed AT repair from prepare to outcome: WindowsRepairExecutor  *)
(* (crates/windows-platform/src/repair.rs) on the native backend, the AT   *)
(* sessions it opens (serial.rs, execute_command) and the line parser that *)
(* decides which answer belongs to which command (at-protocol, parser.rs). *)
(*                                                                         *)
(* Five sessions follow each other: the observation of prepare, the one of *)
(* execute, the rescan right before the write, the write itself, and the   *)
(* readback.  Each begins with the handshake AT, ATI.  The module answers  *)
(* its commands in order but as late as it likes, also after the session   *)
(* that asked was given up, and it may be unplugged or exchanged meanwhile.*)
(*                                                                         *)
(* An observation is reduced to the target, whether the AT binding was     *)
(* read, and the one value the action writes (the USB profile).            *)
(***************************************************************************)
EXTENDS Integers, Sequences

CONSTANTS
  Device,      \* modules that can be found on the port
  Value,       \* values of the setting
  Want,        \* the one the plan asks for
  Actions,     \* the actions that may be confirmed
  MaxUnplugs   \* bound on the module leaving the bus

Absent == "Absent"
Unread == "Unread"

\* RestartModule leaves nothing to read back; SetUsbNetProfile does.
ActionKind == {"SetUsbNetProfile", "RestartModule"}

ASSUME RepairAssumption ==
  /\ Actions \subseteq ActionKind
  /\ Want \in Value /\ Unread \notin Value
  /\ Absent \notin Device
  /\ MaxUnplugs \in Nat

VARIABLES
  device,    \* the module on the bus
  echo,      \* whether it repeats every command in front of its answer
  setting,   \* what each module has stored
  inbox,     \* commands the module has not answered yet
  outbox,    \* its answers that nobody has read yet
  unplugs,   \* how often the module has left
  action,    \* the plan's action
  host,      \* where the executor stands, and the observation it is making
  plan,      \* RepairPlan: the observation of prepare
  current,   \* the observation of execute
  dispatch,  \* DispatchResult
  outcome,   \* OperationOutcome
  lineOut,   \* history: the write was sent to the port
  writes,    \* history: writes each module carried out
  misread    \* history: a query took an answer that was not given to it

module == <<device, echo, setting, inbox, outbox, unplugs>>
results == <<plan, current, dispatch, outcome>>
vars == <<module, action, host, results, lineOut, writes, misread>>

RequiresDispatchSuccess == action = "RestartModule"

Observation == [target : Device \cup {Absent}, at : BOOLEAN, value : Value \cup {Unread}]
NoObservation == [target |-> Absent, at |-> FALSE, value |-> Unread]

Phase == {"Prepare", "Current", "Rescan", "Write", "After", "Done"}
Step == {"Scan", "AT", "ATI", "Query", "Contexts", "Activation", "Write", "End"}
Failure == {"None", "Port", "Timeout", "Removed", "Refused", "Garbled"}

Init ==
  /\ device \in Device /\ echo \in BOOLEAN /\ setting \in [Device -> Value]
  /\ inbox = <<>> /\ outbox = <<>> /\ unplugs = 0
  /\ action \in Actions
  /\ host = [phase |-> "Prepare", step |-> "Scan", attempt |-> 1, sent |-> FALSE,
             failure |-> "None", seen |-> NoObservation]
  /\ plan = NoObservation /\ current = NoObservation
  /\ dispatch = "None" /\ outcome = "None"
  /\ lineOut = FALSE /\ writes = [d \in Device |-> 0]
  /\ misread = FALSE

-----------------------------------------------------------------------------
(* The module *)

\* It carries out the oldest command and answers it; a query or the write it may
\* also refuse with an error.  The reads of the PDP contexts only ever fail as
\* garbled or late: the executor makes no difference.
ModuleAnswers ==
  /\ device # Absent /\ inbox # <<>>
  /\ LET command == Head(inbox)
     IN  \E ok \in IF command.to \in {"Query", "Write"} THEN BOOLEAN ELSE {TRUE} :
           /\ outbox' = Append(outbox,
                [to |-> command.to, own |-> command.own, ok |-> ok,
                 value |-> IF command.to = "Query" THEN setting[device] ELSE Unread])
           /\ IF command.to = "Write" /\ ok
              THEN /\ writes' = [writes EXCEPT ![device] = @ + 1]
                   /\ setting' = IF action = "SetUsbNetProfile"
                                 THEN [setting EXCEPT ![device] = Want] ELSE setting
              ELSE UNCHANGED <<writes, setting>>
  /\ inbox' = Tail(inbox)
  /\ UNCHANGED <<device, echo, unplugs, action, host, results, lineOut, misread>>

\* The module leaves the bus, by hand or because it restarts.
Unplug ==
  /\ device # Absent /\ unplugs < MaxUnplugs
  /\ device' = Absent /\ inbox' = <<>> /\ outbox' = <<>>
  /\ unplugs' = unplugs + 1
  /\ UNCHANGED <<echo, setting, action, host, results, lineOut, writes, misread>>

Plug(d) ==
  /\ device = Absent
  /\ device' = d
  /\ UNCHANGED <<echo, setting, inbox, outbox, unplugs, action, host, results, lineOut,
                 writes, misread>>

-----------------------------------------------------------------------------
(* The AT session: open_selected, typed_handshake, execute_command *)

Goto(phase, step, seen) ==
  host' = [phase |-> phase, step |-> step, attempt |-> 1, sent |-> FALSE,
           failure |-> "None", seen |-> seen]

Ends(failure) == host' = [host EXCEPT !.step = "End", !.failure = failure]

Aged(queue) == [i \in DOMAIN queue |-> [queue[i] EXCEPT !.own = FALSE]]

\* A new session clears nothing: what an earlier one left unread is still to come,
\* unless the driver dropped its buffer when the port was closed.
OpensSession ==
  /\ inbox' = Aged(inbox)
  /\ outbox' \in {Aged(outbox), <<>>}

\* Mutant: the observation reads its values without a handshake.
Scan_SkipsHandshake ==
  /\ host.step = "Scan" /\ device # Absent
  /\ Goto(host.phase, "Query", [NoObservation EXCEPT !.target = device, !.at = TRUE])
  /\ OpensSession
  /\ UNCHANGED <<device, echo, setting, unplugs, action, results, lineOut, writes, misread>>

\* fresh_scan: the exact module, then its AT port.
Scan ==
  /\ host.step = "Scan" /\ device # Absent
  /\ Goto(host.phase, "AT", [NoObservation EXCEPT !.target = device])
  /\ OpensSession
  /\ UNCHANGED <<device, echo, setting, unplugs, action, results, lineOut, writes, misread>>

ScanFindsNone ==
  /\ host.step = "Scan" /\ device = Absent
  /\ host' = [host EXCEPT !.step = "End", !.failure = "Removed", !.seen = NoObservation]
  /\ UNCHANGED <<module, action, results, lineOut, writes, misread>>

InExchange == host.step \in {"AT", "ATI", "Query", "Contexts", "Activation", "Write"}

\* The port cannot be opened: busy, or the module behind its path has changed.
PortUnavailable ==
  /\ host.step = "AT" /\ ~host.sent /\ host.attempt = 1
  /\ Ends("Port")
  /\ UNCHANGED <<module, action, results, lineOut, writes, misread>>

Send ==
  /\ InExchange /\ ~host.sent /\ device = host.seen.target
  /\ inbox' = Append(inbox, [to |-> host.step, own |-> TRUE])
  /\ host' = [host EXCEPT !.sent = TRUE]
  /\ lineOut' = (lineOut \/ host.step = "Write")
  /\ UNCHANGED <<device, echo, setting, outbox, unplugs, action, results, writes,
                 misread>>

PortGone ==
  /\ InExchange /\ device # host.seen.target
  /\ Ends("Removed")
  /\ UNCHANGED <<module, action, results, lineOut, writes, misread>>

\* AT and the write are answered by a bare OK, the others by lines and OK.
Bare(reply) == reply.to \in {"AT", "Write"}

\* What the parser can tell of whose answer it reads (classify_line and
\* response_is_complete).  Identity lines have no form of their own: any text will
\* do, the echo of another command too, which every other command refuses.
Fits(step, reply) ==
  CASE step \in {"AT", "Write"} -> IF echo THEN reply.to = step ELSE Bare(reply)
    [] step = "ATI" -> echo \/ ~Bare(reply)
    [] OTHER -> reply.to = step

NextStep(step) ==
  CASE step = "AT" -> "ATI"
    [] step = "ATI" -> IF host.phase = "Write" THEN "Write" ELSE "Query"
    [] step = "Query" -> "Contexts"
    [] step = "Contexts" -> "Activation"
    [] OTHER -> "End"

\* at_observation: a read behind the handshake that fails is left out of the
\* observation, and the next one is sent all the same.
Fails(failure) ==
  IF host.step \in {"Query", "Contexts"}
  THEN Goto(host.phase, NextStep(host.step), host.seen)
  ELSE Ends(failure)

\* An answer arrives: a final error, lines of another command, or the answer.
Receive ==
  /\ InExchange /\ host.sent /\ device = host.seen.target /\ outbox # <<>>
  /\ LET reply == Head(outbox)
     IN  \/ ~reply.ok /\ Fails("Refused") /\ UNCHANGED misread
         \/ reply.ok /\ ~Fits(host.step, reply) /\ Fails("Garbled") /\ UNCHANGED misread
         \/ /\ reply.ok /\ Fits(host.step, reply)
            /\ Goto(host.phase, NextStep(host.step),
                    [target |-> host.seen.target,
                     at |-> host.seen.at \/ host.step = "ATI",
                     value |-> IF host.step = "Query" THEN reply.value ELSE host.seen.value])
            /\ misread' = (misread \/ (host.step = "Query" /\ ~reply.own))
  /\ outbox' = Tail(outbox)
  /\ UNCHANGED <<device, echo, setting, inbox, unplugs, action, results, lineOut, writes>>

\* A read is written again once after its timeout.
RetryRead ==
  /\ InExchange /\ host.sent /\ host.attempt = 1 /\ host.step # "Write"
  /\ host' = [host EXCEPT !.attempt = 2, !.sent = FALSE]
  /\ UNCHANGED <<module, action, results, lineOut, writes, misread>>

\* Mutant: only a command that may be repeated has a deadline.
TimedOut_ReadsOnly ==
  /\ InExchange /\ host.sent
  /\ host.attempt = 2 \/ host.step \in {"AT", "ATI"}
  /\ Ends("Timeout")
  /\ UNCHANGED <<module, action, results, lineOut, writes, misread>>

\* The last attempt timed out, or the caller's own wait did, which gives up the
\* session with it.
TimedOut ==
  /\ InExchange /\ host.sent
  /\ host.attempt = 2 \/ host.step \in {"AT", "ATI", "Write"}
  /\ Fails("Timeout") \/ Ends("Timeout")
  /\ UNCHANGED <<module, action, results, lineOut, writes, misread>>

-----------------------------------------------------------------------------
(* The executor *)

\* validate_observation and validate_action.
Valid(seen) ==
  /\ seen.target # Absent /\ seen.at
  /\ action = "SetUsbNetProfile" => seen.value \notin {Unread, Want}

\* Mutant: the module found is not compared with the one of the plan.
SameState_AnyTarget(a, b) == action = "SetUsbNetProfile" => a.value = b.value

\* The target and, in before_hash, what the action itself depends on.
SameState(a, b) ==
  /\ a.target = b.target
  /\ action = "SetUsbNetProfile" => a.value = b.value

Finish(result) ==
  /\ outcome' = result
  /\ host' = [host EXCEPT !.phase = "Done"]

ConcludePrepare ==
  /\ host.phase = "Prepare" /\ host.step = "End"
  /\ \/ /\ Valid(host.seen)
        /\ plan' = host.seen /\ Goto("Current", "Scan", NoObservation)
        /\ UNCHANGED outcome
     \/ ~Valid(host.seen) /\ Finish("Failed") /\ UNCHANGED plan
  /\ UNCHANGED <<module, action, current, dispatch, lineOut, writes, misread>>

ConcludeCurrent ==
  /\ host.phase = "Current" /\ host.step = "End"
  /\ LET valid == Valid(host.seen) /\ SameState(host.seen, plan)
     IN  \/ /\ valid
            /\ current' = host.seen /\ Goto("Rescan", "Scan", NoObservation)
            /\ UNCHANGED outcome
         \/ ~valid /\ Finish("Failed") /\ UNCHANGED current
  /\ UNCHANGED <<module, action, plan, dispatch, lineOut, writes, misread>>

Dispatched(result) ==
  /\ dispatch' = result
  /\ Goto("After", "Scan", NoObservation)

\* dispatch: one more exact scan; without a target the result is unknown, with
\* another one or another state it is rejected, else the write session opens.
ConcludeRescan ==
  /\ host.phase = "Rescan" /\ host.step = "End"
  /\ \/ /\ host.seen.target = Absent
        /\ Dispatched("Unknown") /\ UNCHANGED <<inbox, outbox, outcome>>
     \/ /\ host.seen.target # Absent /\ ~SameState(host.seen, current)
        /\ Finish("Failed") /\ UNCHANGED <<inbox, outbox, dispatch>>
     \/ /\ host.seen.target # Absent /\ SameState(host.seen, current)
        /\ Goto("Write", "AT", host.seen)
        /\ OpensSession
        /\ UNCHANGED <<dispatch, outcome>>
  /\ UNCHANGED <<device, echo, setting, unplugs, action, plan, current, lineOut, writes,
                 misread>>

\* typed_at_write: an OK is applied, a timeout or removal unknown, the rest failed;
\* without an AT port to select the plan is rejected and nothing is read back.
ConcludeWrite ==
  /\ host.phase = "Write" /\ host.step = "End"
  /\ \/ /\ Dispatched(CASE host.failure = "None" -> "Applied"
                       [] host.failure \in {"Timeout", "Removed"} -> "Unknown"
                       [] OTHER -> "Failed")
        /\ UNCHANGED outcome
     \/ host.failure = "Port" /\ Finish("Failed") /\ UNCHANGED dispatch
  /\ UNCHANGED <<module, action, plan, current, lineOut, writes, misread>>

\* verify_after: RestartModule has no readback, the module's presence must do.
Verified == action = "RestartModule" \/ host.seen.value = Want

\* Mutant: a dispatch that answered needs no readback.
Judgement_TrustsDispatch ==
  IF host.seen.target = Absent THEN "OutcomeUnknown"
  ELSE IF dispatch = "Failed" THEN "Failed"
  ELSE IF dispatch = "Applied" \/ Verified THEN "Applied"
  ELSE "OutcomeUnknown"

\* The end of execute: dispatch result and fresh facts together.
Judgement ==
  IF host.seen.target = Absent THEN "OutcomeUnknown"
  ELSE IF dispatch = "Failed" THEN "Failed"
  ELSE IF host.seen.target # plan.target THEN "OutcomeUnknown"
  ELSE IF Verified /\ (dispatch = "Applied" \/ ~RequiresDispatchSuccess) THEN "Applied"
  ELSE IF dispatch # "Applied" THEN "OutcomeUnknown"
  ELSE "Failed"

ConcludeAfter ==
  /\ host.phase = "After" /\ host.step = "End"
  /\ Finish(Judgement)
  /\ UNCHANGED <<module, action, plan, current, dispatch, lineOut, writes, misread>>

-----------------------------------------------------------------------------

Exchange ==
  \/ Scan \/ ScanFindsNone \/ PortUnavailable \/ Send \/ PortGone
  \/ Receive \/ RetryRead \/ TimedOut

Executor ==
  \/ Exchange
  \/ ConcludePrepare \/ ConcludeCurrent \/ ConcludeRescan \/ ConcludeWrite \/ ConcludeAfter

Module == ModuleAnswers \/ Unplug \/ (\E d \in Device : Plug(d))

Next == Executor \/ Module

\* Every wait of the executor has a deadline; the module owes nothing.
Spec == Init /\ [][Next]_vars
FairSpec == Spec /\ WF_vars(Executor)

-----------------------------------------------------------------------------
(* Properties *)

TypeOK ==
  /\ device \in Device \cup {Absent} /\ setting \in [Device -> Value]
  /\ inbox \in Seq([to : Step, own : BOOLEAN])
  /\ outbox \in Seq([to : Step, own : BOOLEAN, ok : BOOLEAN, value : Value \cup {Unread}])
  /\ action \in Actions /\ echo \in BOOLEAN /\ unplugs \in 0..MaxUnplugs
  /\ host \in [phase : Phase, step : Step, attempt : 1..2, sent : BOOLEAN,
               failure : Failure, seen : Observation]
  /\ plan \in Observation /\ current \in Observation
  /\ dispatch \in {"None", "Applied", "Failed", "Unknown"}
  /\ outcome \in {"None", "Applied", "Failed", "OutcomeUnknown"}
  /\ lineOut \in BOOLEAN /\ misread \in BOOLEAN /\ writes \in [Device -> Nat]

\* A setting that was read was read in this session, however many late answers of
\* the earlier ones the port still delivers: the handshake in front of the query
\* passes only when none of them is left.
ReadbackIsOwn == ~misread

\* The write is carried out at most once, and on no other module than the plan's.
WrittenOnceOnTarget ==
  \A d \in Device : writes[d] <= (IF d = plan.target THEN 1 ELSE 0)

\* A setting reported as applied was written by this plan, to the plan's module, and
\* is stored there.
AppliedIsReal ==
  outcome = "Applied" /\ action = "SetUsbNetProfile" =>
    writes[plan.target] = 1 /\ setting[plan.target] = Want

\* The comment in execute: an action without readback "requires a definite native
\* success", so a restart reported as applied was carried out.
RestartIsDefinite ==
  outcome = "Applied" /\ action = "RestartModule" => writes[plan.target] = 1

\* What docs/RELEASE_NOTES_0.1.12.md says of a result without readback proof: it
\* stays unknown.  Failed, once the write was sent, needs a refusal of the write or
\* a readback of another value.
FailedIsProven ==
  outcome = "Failed" /\ lineOut =>
    \/ host.seen.value \notin {Unread, Want}
    \/ dispatch = "Failed" /\ \A d \in Device : writes[d] = 0

\* The executor comes to an outcome, whatever the module does.
OutcomeReached == <>(outcome # "None")
=============================================================================
