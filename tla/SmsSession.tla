----------------------------- MODULE SmsSession -----------------------------
(***************************************************************************)
(* One SMS transaction on its own AT session: a send                       *)
(* (sms_transaction.rs), a history read (sms_history.rs) or the checked    *)
(* deletion of one record (sms_delete.rs), with the parts of serial.rs that *)
(* run it.  The caller waits, may be told to stop at any time (cancelled or *)
(* past its deadline, which the code treats alike), invalidates the session *)
(* and reports; the worker thread meanwhile goes on with its script until   *)
(* it notices.  The module's card may be exchanged under it.                *)
(*                                                                         *)
(* A command is checked, written and read in separate steps.  An answer    *)
(* that nobody waits for any more stays on the line and is read by the     *)
(* next command.  Repeated reads and the choice among ports are the        *)
(* business of SerialActor; there is one port and one attempt here.        *)
(***************************************************************************)
EXTENDS Integers, Sequences

CONSTANTS
  Card,       \* SIM cards
  Own,        \* the one the transaction was asked for
  Kinds,      \* the transactions to run, of {"Send", "History", "Delete"}
  Holder,     \* storages the module may have selected (mem1)
  Target,     \* storages a history read may ask for
  Known,      \* storages SmsReadStorage has a token for
  MaxSwaps    \* bound on exchanges of the card

NoTarget == "Preferred"

ASSUME SmsAssumption ==
  /\ Own \in Card
  /\ Kinds \subseteq {"Send", "History", "Delete"}
  /\ Target \subseteq Known /\ NoTarget \notin Holder \cup Known
  /\ MaxSwaps \in Nat

VARIABLES
  job,       \* kind of transaction and the storage it is about
  module,    \* card, message format, selected storage, the record, accepted sends
  line,      \* answers the host has not read yet
  stopped,   \* the control is cancelled or expired
  marked,    \* submission_possible, delete_attempted
  restoration, \* SmsStorageRestoration
  running,   \* ActorState.terminal is STATE_RUNNING
  worker,    \* the command in hand and how far it is
  memory,    \* what the script remembers of earlier answers
  result,    \* what the worker replied
  caller,    \* where the calling thread stands
  receipt,   \* what it reported
  cleanup,   \* cleanup_pending
  swaps,     \* history: exchanges of the card
  proofs     \* history: what was read of card, storage and record, and the effect, in order

device == <<module, swaps>>
control == <<stopped, marked, restoration>>
session == <<running, line>>
script == <<worker, memory, result, proofs>>
waiting == <<caller, receipt, cleanup>>
vars == <<job, device, control, session, script, waiting>>

Step == {"AT", "ATI", "Sim", "Mode", "SetPdu", "ModeAgain", "SimAgain", "Prompt", "Body",
         "Storage", "Capabilities", "Select", "Verify", "List", "Restore", "RestoreCheck",
         "Record", "Delete"}
Place == {"Check", "Mark", "Write", "Read", "Left"}
Outcome == {"None", "Ok", "Refused", "Rejected", "Broken", "RestoreUnknown"}
Receipt == {"None", "Submitted", "Listed", "Deleted", "Failed", "NotAttempted", "Unknown"}

Asked == IF job.target = NoTarget THEN memory.original ELSE job.target
Switching == Asked # memory.original

Init ==
  /\ job \in [kind : Kinds, target : Target \cup {NoTarget}]
  /\ job.kind = "Send" => job.target = NoTarget
  /\ job.kind = "Delete" => job.target # NoTarget
  /\ module \in [card : Card, pdu : BOOLEAN, holder : Holder, record : {"Expected", "Other"},
                 accepted : {0}]
  /\ line = <<>> /\ swaps = 0
  /\ stopped = FALSE /\ marked = FALSE /\ restoration = "NotNeeded"
  /\ running = TRUE
  /\ worker = [step |-> "AT", place |-> "Check", aborted |-> FALSE]
  /\ memory = [original |-> NoTarget, listed |-> FALSE]
  /\ proofs = <<>>
  /\ result = "None" /\ caller = "Waiting" /\ receipt = "None" /\ cleanup = FALSE

-----------------------------------------------------------------------------
(* The module *)

SwapCard(c) ==
  /\ swaps < MaxSwaps /\ c # module.card
  /\ module' = [module EXCEPT !.card = c] /\ swaps' = swaps + 1
  /\ UNCHANGED <<job, control, session, script, waiting>>

\* What a command that is carried out does to the module.
Effect(s) ==
  CASE s = "SetPdu" -> [module EXCEPT !.pdu = TRUE]
    [] s = "Select" -> [module EXCEPT !.holder = Asked]
    [] s = "Restore" -> [module EXCEPT !.holder = memory.original]
    [] s = "Delete" -> [module EXCEPT !.record = "Gone"]
    [] s = "Body" -> [module EXCEPT !.accepted = @ + 1]
    [] OTHER -> module

\* The lines in front of the final OK.
Lines(s) ==
  CASE s \in {"Sim", "SimAgain"} -> [form |-> "QCCID", value |-> module.card]
    [] s \in {"Mode", "ModeAgain"} -> [form |-> "CMGF", value |-> module.pdu]
    [] s \in {"Storage", "Verify", "RestoreCheck"} -> [form |-> "CPMS", value |-> module.holder]
    [] s = "Capabilities" -> [form |-> "CPMS", value |-> NoTarget]
    [] s = "List" -> [form |-> "CMGL", value |-> module.card]
    [] s = "Record" -> [form |-> "CMGR", value |-> module.record]
    [] s = "ATI" -> [form |-> "Text", value |-> NoTarget]
    [] s = "Prompt" -> [form |-> "Prompt", value |-> NoTarget]
    [] s = "Body" -> [form |-> "CMGS", value |-> NoTarget]
    [] OTHER -> [form |-> "Bare", value |-> NoTarget]

Rejection == [form |-> "Error", value |-> NoTarget]

\* The line arrives: carried out and answered, carried out in silence, refused, lost.
ModuleTakes(s) ==
  \/ module' = Effect(s) /\ line' = Append(line, Lines(s))
  \/ module' = Effect(s) /\ UNCHANGED line
  \/ line' = Append(line, Rejection) /\ UNCHANGED module
  \/ UNCHANGED <<module, line>>

-----------------------------------------------------------------------------
(* The worker: run_actor with list_in_session, delete_in_session, send_in_session *)

InCleanup == worker.step \in {"Restore", "RestoreCheck"}
Goto(s) == worker' = [step |-> s, place |-> "Check", aborted |-> FALSE]

\* Mutant: a worker that fails leaves without an answer.
Leaves_Silently(o) ==
  /\ result' = IF o = "Broken" THEN result ELSE o
  /\ worker' = [worker EXCEPT !.place = "Left", !.aborted = FALSE]
  /\ UNCHANGED running

\* reply.send, then finish_closed_locked; a failed prompt leaves the actor to the caller.
Leaves(o) ==
  /\ result' = o
  /\ worker' = [worker EXCEPT !.place = "Left", !.aborted = FALSE]
  /\ running' = FALSE

\* A step fails: once the switch was begun, list_in_session restores first and
\* what went wrong is reported after that.
Fail(o) ==
  IF job.kind = "History" /\ worker.step \in {"Select", "Verify", "List", "SimAgain"} /\ Switching
  THEN Goto("Restore") /\ UNCHANGED <<restoration, result, running>>
  ELSE /\ Leaves(IF InCleanup THEN "RestoreUnknown" ELSE o)
       /\ restoration' = IF InCleanup THEN "Unknown" ELSE restoration

\* Mutant: the attempt is marked when the write has returned.
MarksIn_AfterWrite == FALSE

\* execute_delete_command marks the attempt in the same critical section as the check.
MarksIn == worker.step = "Delete"

\* The look at the session and the control before a command is written.  The
\* submission body is marked later, and not under the gate (run_prompt_transaction).
Check ==
  /\ worker.place = "Check"
  /\ \/ /\ running /\ (stopped => InCleanup)
        /\ worker' = [worker EXCEPT !.place = IF worker.step = "Body" THEN "Mark" ELSE "Write"]
        /\ marked' = (marked \/ MarksIn)
        /\ UNCHANGED <<restoration, result, running>>
     \/ /\ ~running \/ (stopped /\ ~InCleanup)
        /\ Fail("Broken")
        /\ UNCHANGED marked
  /\ UNCHANGED <<job, device, stopped, line, memory, proofs, waiting>>

\* mark_submission_possible, just before the body goes out.
MarkSubmission ==
  /\ worker.place = "Mark"
  /\ marked' = TRUE
  /\ worker' = [worker EXCEPT !.place = "Write"]
  /\ UNCHANGED <<job, device, stopped, restoration, session, memory, result, proofs, waiting>>

\* write_all; when it fails the line may still have gone out.
Write ==
  /\ worker.place = "Write"
  /\ \/ /\ ~worker.aborted
        /\ ModuleTakes(worker.step)
        /\ worker' = [worker EXCEPT !.place = "Read"]
        /\ UNCHANGED <<restoration, result, running>>
     \/ /\ ModuleTakes(worker.step)
        /\ Fail("Broken")
  /\ proofs' = IF worker.step \in {"Body", "Delete"}
               THEN Append(proofs, <<"Effect", job.kind>>) ELSE proofs
  /\ UNCHANGED <<job, swaps, stopped, marked, memory, waiting>>

\* classify_line and response_is_complete: which answers pass as this command's.
Fits(s, a) ==
  CASE s \in {"AT", "SetPdu", "Delete"} -> a.form = "Bare"
    [] s = "ATI" -> a.form # "Bare"
    [] s \in {"Sim", "SimAgain"} -> a.form = "QCCID"
    [] s \in {"Mode", "ModeAgain"} -> a.form = "CMGF"
    [] s \in {"Storage", "Capabilities", "Verify", "RestoreCheck"} -> a.form = "CPMS"
    [] s \in {"Select", "Restore"} -> a.form \in {"Bare", "CPMS"}
    [] s = "List" -> a.form \in {"Bare", "CMGL"}
    [] s = "Record" -> a.form = "CMGR"
    [] s = "Prompt" -> a.form = "Prompt"
    [] s = "Body" -> a.form \in {"CMGS", "Bare"}

\* Mutant: the second look at the card is only made, not compared.
Proves_OneSim(s, a) ==
  CASE s = "Sim" -> a.value = Own
    [] s = "Storage" -> job.kind = "Delete" => a.value = job.target
    [] s = "Verify" -> a.value = Asked
    [] s = "RestoreCheck" -> a.value = memory.original
    [] s = "Record" -> a.value = "Expected"
    [] OTHER -> TRUE

\* Mutant: the restored storage is not read back.
Proves_NoReadback(s, a) ==
  CASE s \in {"Sim", "SimAgain"} -> a.value = Own
    [] s = "Storage" -> job.kind = "Delete" => a.value = job.target
    [] s = "Verify" -> a.value = Asked
    [] s = "Record" -> a.value = "Expected"
    [] OTHER -> TRUE

\* verify_sim, parse_cmgf_mode, snapshot, decode_read: what an answer must say.
Proves(s, a) ==
  CASE s \in {"Sim", "SimAgain"} -> a.value = Own
    [] s = "ModeAgain" -> a.value
    [] s = "Mode" -> job.kind = "Delete" => a.value
    [] s = "Storage" -> job.kind = "Delete" => a.value = job.target
    [] s = "Verify" -> a.value = Asked
    [] s = "RestoreCheck" -> a.value = memory.original
    [] s = "Record" -> a.value = "Expected"
    [] OTHER -> TRUE

\* The scripts.  A history read goes to another storage only if it can name the way back.
NextStep(s, a) ==
  CASE s = "AT" -> "ATI"
    [] s = "ATI" -> IF job.kind = "Delete" THEN "Mode" ELSE "Sim"
    [] s = "Sim" -> IF job.kind = "Delete" THEN "Record" ELSE "Mode"
    [] s = "Mode" /\ ~a.value -> "SetPdu"
    [] s = "SetPdu" -> "ModeAgain"
    [] (s = "Mode" /\ a.value) \/ s = "ModeAgain" ->
         IF job.kind = "Send" THEN "SimAgain" ELSE "Storage"
    [] s = "Storage" -> IF job.kind = "Delete" THEN "Sim" ELSE "Capabilities"
    [] s = "Capabilities" -> IF Switching THEN "Select" ELSE "List"
    [] s = "Select" -> "Verify"
    [] s = "Verify" -> "List"
    [] s = "List" -> "SimAgain"
    [] s = "Record" -> "SimAgain"
    [] s = "SimAgain" -> CASE job.kind = "Send" -> "Prompt"
                           [] job.kind = "Delete" -> "Delete"
                           [] OTHER -> IF Switching THEN "Restore" ELSE "End"
    [] s = "Prompt" -> "Body"
    [] s = "Restore" -> "RestoreCheck"
    [] OTHER -> "End"

CannotReturn(s) == s = "Capabilities" /\ Switching /\ memory.original \notin Known

\* A send's ordinary commands are run by a worker that does not know the control.
Unheeding == job.kind = "Send" /\ worker.step \notin {"Prompt", "Body"}

\* Every refusal before the card is proven counts as a failed handshake or identity.
Refusal == IF worker.step \in {"AT", "ATI", "Sim", "SimAgain"} THEN "Refused" ELSE "Rejected"

Observed(a) ==
  IF worker.step \in {"Sim", "SimAgain", "Record", "Storage"}
  THEN Append(proofs, <<worker.step, a.value>>) ELSE proofs

\* An answer is read and fits: the script goes on, the switch is announced as
\* uncertain before it is written, or the transaction is over.
Continue(a) ==
  LET n == NextStep(worker.step, a)
  IN  /\ memory' = [original |-> IF worker.step = "Storage" THEN a.value ELSE memory.original,
                    listed |-> memory.listed \/ (worker.step = "SimAgain" /\ job.kind = "History")]
      /\ restoration' = CASE n = "Select" -> "Unknown"
                          [] worker.step = "RestoreCheck" -> "Restored"
                          [] OTHER -> restoration
      /\ proofs' = Observed(a)
      /\ IF n = "End"
         THEN Leaves(CASE worker.step = "Body" /\ a.form # "CMGS" -> "Broken"
                       [] job.kind = "History" /\ ~memory'.listed -> "Broken"
                       [] OTHER -> "Ok")
         ELSE Goto(n) /\ UNCHANGED <<result, running>>

Read ==
  /\ worker.place = "Read" /\ ~worker.aborted
  /\ running /\ (stopped => InCleanup \/ Unheeding)
  /\ line # <<>>
  /\ line' = Tail(line)
  /\ LET a == Head(line)
         fits == Fits(worker.step, a)
         proves == Proves(worker.step, a) /\ ~CannotReturn(worker.step)
     IN  \/ a.form = "Error" /\ Fail(Refusal) /\ UNCHANGED <<memory, proofs>>
         \/ a.form # "Error" /\ ~fits /\ Fail("Broken") /\ UNCHANGED <<memory, proofs>>
         \/ a.form # "Error" /\ fits /\ ~proves /\ Fail("Refused") /\ UNCHANGED <<memory, proofs>>
         \/ a.form # "Error" /\ fits /\ proves /\ Continue(a)
  /\ UNCHANGED <<job, device, stopped, marked, waiting>>

\* The read ends without an answer: told to stop, invalidated, cancelled, unplugged,
\* or out of time.
ReadFails ==
  /\ worker.place = "Read"
  /\ Fail("Broken")
  /\ UNCHANGED <<job, device, stopped, marked, line, memory, proofs, waiting>>

-----------------------------------------------------------------------------
(* The caller: execute_prompt_controlled, execute_sms_history, execute_checked_delete *)

Stop ==
  /\ ~stopped /\ caller = "Waiting"
  /\ stopped' = TRUE
  /\ UNCHANGED <<job, device, marked, restoration, session, script, waiting>>

\* Mutant: no answer to the submission is taken for a late yes.
Classify_Optimistic(o) ==
  CASE o = "Ok" \/ marked -> [Send |-> "Submitted", History |-> "Listed", Delete |-> "Deleted"][job.kind]
    [] o = "Rejected" -> "Failed"
    [] OTHER -> IF job.kind = "Delete" THEN "NotAttempted" ELSE "Failed"

\* What the caller makes of a reply (classify, actor_failure, map_actor_error): a final
\* code is definite, everything else is by what had been begun.
Classify(o) ==
  CASE o = "Ok" -> [Send |-> "Submitted", History |-> "Listed", Delete |-> "Deleted"][job.kind]
    [] o = "Rejected" -> "Failed"
    [] o = "RestoreUnknown" -> "Unknown"
    [] o = "Broken" /\ (marked \/ restoration = "Unknown") -> "Unknown"
    [] OTHER -> IF job.kind = "Delete" THEN "NotAttempted" ELSE "Failed"

\* close_session and close_delete_and_wait: the module stays busy until the worker left.
Closing == worker.place # "Left"

Reports(r) ==
  /\ receipt' = r
  /\ caller' = "Closing"
  /\ cleanup' = Closing
  /\ running' = FALSE

Reply ==
  /\ caller \in {"Waiting", "Noticed"} /\ result # "None"
  /\ Reports(Classify(result))
  /\ UNCHANGED <<job, device, control, line, script>>

\* invalidate_epoch, then the report by what has been marked by now, even if a reply
\* came since the caller last looked for one.  Each ordinary command of a send has its
\* own limit, and a history read its four seconds of grace.
GiveUp ==
  /\ IF job.kind = "History" THEN caller = "Noticed"
                             ELSE caller = "Waiting" /\ (stopped \/ Unheeding)
  /\ Reports(Classify("Broken"))
  /\ worker' = [worker EXCEPT !.aborted = worker.place \in {"Write", "Read"}]
  /\ UNCHANGED <<job, device, control, line, memory, result, proofs>>

\* A history read is not invalidated at first: the session is needed to restore the
\* storage.  Only the blocked read is cancelled, unless it is already the restoration
\* (the worker may have got there after the look at the phase).
Notice ==
  /\ job.kind = "History" /\ caller = "Waiting"
  /\ stopped \/ worker.step \in {"Restore", "RestoreCheck"}
  /\ caller' = "Noticed"
  /\ \/ UNCHANGED worker
     \/ worker' = [worker EXCEPT !.aborted = worker.place \in {"Write", "Read"}]
  /\ UNCHANGED <<job, device, control, session, memory, result, proofs, receipt, cleanup>>

\* WorkerCompletion::drop and the caller's last wait.
Finish ==
  /\ caller = "Closing" /\ worker.place = "Left"
  /\ caller' = "Done" /\ cleanup' = FALSE
  /\ UNCHANGED <<job, device, control, session, script, receipt>>

-----------------------------------------------------------------------------

Worker == Check \/ MarkSubmission \/ Write \/ Read \/ ReadFails
Caller == Reply \/ GiveUp \/ Notice \/ Finish

Next == Worker \/ Caller \/ Stop \/ \E c \in Card : SwapCard(c)

\* Every native read and write comes back, and every wait of the caller is bounded.
\* Nobody owes a cancellation, but the deadline comes.
Spec == Init /\ [][Next]_vars
FairSpec == Spec /\ WF_vars(Worker) /\ WF_vars(Caller)

-----------------------------------------------------------------------------

SmsTypeOK ==
  /\ job \in [kind : Kinds, target : Target \cup {NoTarget}]
  /\ module \in [card : Card, pdu : BOOLEAN, holder : Holder \cup Known,
                 record : {"Expected", "Other", "Gone"}, accepted : 0..1]
  /\ stopped \in BOOLEAN /\ marked \in BOOLEAN /\ running \in BOOLEAN /\ cleanup \in BOOLEAN
  /\ restoration \in {"NotNeeded", "Restored", "Unknown"}
  /\ worker \in [step : Step, place : Place, aborted : BOOLEAN]
  /\ result \in Outcome /\ receipt \in Receipt
  /\ caller \in {"Waiting", "Noticed", "Closing", "Done"}

\* A deletion is reported as done only if the record is gone, and as not attempted or
\* failed only if it is still there and will stay: whoever gives up after the
\* acknowledgement, or while the command is on its way, says that it is unknown.
DeleteReportIsTrue ==
  job.kind = "Delete" =>
    /\ receipt = "Deleted" => module.record = "Gone"
    /\ receipt \in {"Failed", "NotAttempted"} => module.record # "Gone"

\* A history read that does not say otherwise leaves the module on the storage it
\* found, whatever was cancelled, lost or answered late in between.
StorageReportIsTrue ==
  job.kind = "History" /\ receipt \notin {"None", "Unknown"} /\ memory.original # NoTarget
    => module.holder = memory.original

\* What has to be read before the effect, in this order.
ProvenFirst ==
  IF job.kind = "Send" THEN <<<<"Sim", Own>>, <<"SimAgain", Own>>>>
  ELSE <<<<"Storage", job.target>>, <<"Sim", Own>>, <<"Record", "Expected">>, <<"SimAgain", Own>>>>

\* When the body or the deletion goes out, the card was proven twice, the second time
\* as the last check of all; for a deletion the storage was found to be the one the
\* record was listed from before the first look at the card, and the record was read
\* and matched between the two.  Neither goes out twice.
ProvenBeforeEffect ==
  \A i \in 1..Len(proofs) : proofs[i][1] = "Effect" =>
    /\ i = Len(proofs) /\ i = Len(ProvenFirst) + 1
    /\ \A k \in 1..i - 1 : proofs[k] = ProvenFirst[k]

\* The module is free for the next operation only when this one's worker is off the
\* port: nothing it still does can meet the next session.
FreeMeansQuiet ==
  receipt # "None" /\ ~cleanup => worker.place = "Left"

\* A send that is reported as failed was not accepted by the module, and will not be.
FailedWasNotSent ==
  job.kind = "Send" /\ receipt = "Failed" => module.accepted = 0

\* A send is reported as submitted only if the module took it.
SubmittedIsReal ==
  job.kind = "Send" /\ receipt = "Submitted" => module.accepted = 1

\* Every transaction comes to a report and gives the port back.
TransactionEnds == <>(caller = "Done")
=============================================================================
