----------------------------- MODULE SmsProofs -----------------------------
(***************************************************************************)
(* What one SMS transaction guarantees for any cards and storages, however *)
(* often the card is exchanged.  Outside the restoration of the storage the *)
(* line holds at most the answer to the command in hand, so an answer says *)
(* what its own command saw or did; the restoration may meet one late      *)
(* answer, but reads it in front of its own.                               *)
(***************************************************************************)
EXTENDS SmsSession, SequenceTheorems, TLAPS

-----------------------------------------------------------------------------
(* The inductive invariant *)

\* An answer on the line: a final error, or the lines of one command.
Answer ==
  [form : {"QCCID", "CMGL"}, value : Card]
    \cup [form : {"CMGF"}, value : BOOLEAN]
    \cup [form : {"CPMS"}, value : Holder \cup Known \cup {NoTarget}]
    \cup [form : {"CMGR"}, value : {"Expected", "Other", "Gone"}]
    \cup [form : {"Text", "Prompt", "CMGS", "Bare", "Error"}, value : {NoTarget}]

Early == {"AT", "ATI", "Mode", "SetPdu", "ModeAgain", "Sim"}

\* The steps of each script.
StepsOf(kind) ==
  CASE kind = "Send" -> Early \cup {"SimAgain", "Prompt", "Body"}
    [] kind = "Delete" -> Early \cup {"Storage", "Record", "SimAgain", "Delete"}
    [] OTHER -> Early \cup {"Storage", "Capabilities", "Select", "Verify", "List", "SimAgain",
                            "Restore", "RestoreCheck"}

SmsTypes ==
  /\ SmsTypeOK
  /\ memory.original \in Holder \cup Known \cup {NoTarget}
  /\ memory.listed \in BOOLEAN
  /\ worker.step \in StepsOf(job.kind)
  /\ worker.place = "Mark" => worker.step = "Body"
  /\ result # "None" <=> worker.place = "Left"
  /\ result # "None" => ~running
  /\ receipt # "None" => caller \in {"Closing", "Done"} /\ ~running
  /\ receipt = "None" => caller \in {"Waiting", "Noticed"}

\* What an answer says, read by the command that it was given to.
Says(a) ==
  /\ worker.step = "Storage" /\ a.form = "CPMS" => a.value = module.holder
  /\ worker.step = "Body" /\ a.form = "CMGS" => module.accepted = 1
  /\ worker.step = "Delete" =>
       /\ a.form = "Bare" => module.record = "Gone"
       /\ a.form = "Error" => module.record # "Gone"

\* Outside the restoration the line holds nothing but the answer to the command in
\* hand.  The restoration may find one late answer, in front of its own.
LineInv ==
  worker.place # "Left" =>
    /\ ~InCleanup => /\ worker.place # "Read" => Len(line) = 0
                     /\ worker.place = "Read" => Len(line) <= 1
                     /\ \A i \in 1..Len(line) : Says(line[i])
    /\ worker.step = "Restore" => \A i \in 1..Len(line) : i > 1 => line[i].form \in {"Bare", "Error"}
    /\ worker.step = "RestoreCheck" =>
         \A i \in 1..Len(line) : line[i].form = "CPMS" => line[i].value = module.holder

\* What may be noted of an answer or an effect.
Fact == (Step \cup {"Effect"})
          \X (Card \cup Holder \cup Known
                \cup {NoTarget, "Expected", "Other", "Gone", "Send", "History", "Delete"})

\* How much has been proven by the time of each step.
Needed ==
  IF job.kind = "Send"
  THEN IF worker.step \in {"AT", "ATI", "Sim"} THEN 0
       ELSE IF worker.step \in {"Prompt", "Body"} THEN 2 ELSE 1
  ELSE IF worker.step = "Sim" THEN 1
       ELSE IF worker.step = "Record" THEN 2
       ELSE IF worker.step = "SimAgain" THEN 3
       ELSE IF worker.step = "Delete" THEN 4 ELSE 0

ProofInv ==
  /\ proofs \in Seq(Fact)
  /\ job.kind = "History" => \A i \in 1..Len(proofs) : proofs[i][1] # "Effect"
  /\ job.kind # "History" =>
       /\ \A k \in 1..Needed : proofs[k] = ProvenFirst[k]
       /\ \/ Len(proofs) = Needed
          \/ /\ Len(proofs) = Needed + 1
             /\ worker.step \in {"Body", "Delete"} /\ worker.place \in {"Read", "Left"}

\* The submission: accepted only by its body.
SendInv ==
  /\ worker.step # "Body" \/ worker.place \notin {"Read", "Left"} => module.accepted = 0
  /\ job.kind = "Send" /\ result = "Ok" => module.accepted = 1

\* The record: gone only by the deletion, which is marked before it is written.
DeleteInv ==
  /\ worker.step # "Delete" \/ worker.place \notin {"Read", "Left"} => module.record # "Gone"
  /\ ~marked => /\ worker.step = "Delete" => worker.place \in {"Check", "Left"}
                /\ module.record # "Gone"
  /\ job.kind = "Delete" => /\ result = "Ok" => module.record = "Gone"
                            /\ result \in {"Refused", "Rejected"} => module.record # "Gone"
                            /\ receipt \in {"Failed", "NotAttempted"} => worker.place = "Left" \/ ~marked

\* The storage: what the history read remembers of it is where the module is, but for
\* the time that the restoration is announced as uncertain.
StorageInv ==
  /\ worker.step \in Early \cup {"Storage", "Capabilities"} => restoration = "NotNeeded"
  /\ job.kind # "History" => restoration = "NotNeeded"
  /\ restoration = "NotNeeded" =>
       /\ job.kind = "History" /\ memory.original # NoTarget => module.holder = memory.original
       /\ worker.step \notin {"Select", "Verify"} /\ ~InCleanup
       /\ worker.step \in {"List", "SimAgain"} /\ job.kind = "History" => ~Switching
  /\ restoration = "Restored" => worker.place = "Left" /\ module.holder = memory.original
  /\ restoration = "Unknown" => Switching
  /\ restoration # "NotNeeded" \/ worker.step = "Capabilities" => memory.original # NoTarget
  /\ job.kind = "History" =>
       /\ result = "Ok" => restoration # "Unknown"
       /\ result \in {"Refused", "Rejected"} => restoration = "NotNeeded"
       /\ receipt \notin {"None", "Unknown"} => restoration # "Unknown"

SmsInv ==
  /\ SmsTypes /\ line \in Seq(Answer) /\ LineInv /\ ProofInv
  /\ SendInv /\ SubmittedIsReal /\ DeleteInv /\ DeleteReportIsTrue
  /\ StorageInv /\ FreeMeansQuiet

-----------------------------------------------------------------------------
(* What the steps of the worker do *)

Switched == {"Select", "Verify", "List", "SimAgain"}

Modules == [card : Card, pdu : BOOLEAN, holder : Holder \cup Known,
            record : {"Expected", "Other", "Gone"}, accepted : 0..1]
Workers == [step : Step, place : Place, aborted : BOOLEAN]

LEMMA Types ==
  ASSUME SmsTypes
  PROVE  /\ job.kind \in Kinds /\ job.kind \in {"Send", "History", "Delete"}
         /\ job.target \in Target \cup {NoTarget}
         /\ module \in Modules /\ worker \in Workers
         /\ worker.step \in StepsOf(job.kind) /\ worker.step \in Step
         /\ worker.place \in Place /\ worker.aborted \in BOOLEAN
         /\ memory.original \in Holder \cup Known \cup {NoTarget} /\ memory.listed \in BOOLEAN
<1>1. Kinds \subseteq {"Send", "History", "Delete"}
  BY SmsAssumption DEF SmsAssumption
<1> QED
  BY <1>1 DEF SmsTypes, SmsTypeOK, Modules, Workers

\* A failed step: the history read that has switched restores, everything else is over.
Restores ==
  /\ job.kind = "History" /\ worker.step \in Switched /\ Switching
  /\ worker' = [step |-> "Restore", place |-> "Check", aborted |-> FALSE]
  /\ restoration = "Unknown" /\ UNCHANGED <<restoration, result, running>>

Quits ==
  /\ worker' = [worker EXCEPT !.place = "Left", !.aborted = FALSE]
  /\ result' \in {"Ok", "Refused", "Rejected", "Broken", "RestoreUnknown"} /\ running' = FALSE

Broken ==
  \/ Restores
  \/ /\ Quits /\ result' # "Ok" /\ UNCHANGED restoration
     /\ result' \in {"Refused", "Rejected"} /\ job.kind = "History" => restoration = "NotNeeded"

LEMMA FailForm ==
  ASSUME SmsTypes, StorageInv, worker.place # "Left",
         NEW o \in {"Refused", "Rejected", "Broken"}, Fail(o)
  PROVE  /\ Broken
         /\ \/ Restores
            \/ Quits /\ result' # "Ok" /\ (result' = o \/ result' = "RestoreUnknown")
<1>1. restoration \in {"NotNeeded", "Restored", "Unknown"}
  BY DEF SmsTypes, SmsTypeOK
<1>2. CASE job.kind = "History" /\ worker.step \in Switched /\ Switching
  <2>1. Goto("Restore") /\ UNCHANGED <<restoration, result, running>>
    BY <1>2 DEF Fail, Switched
  <2>2. restoration = "Unknown"
    BY <1>1, <1>2 DEF StorageInv, Switched
  <2> QED
    BY <1>2, <2>1, <2>2 DEF Goto, Restores, Broken
<1>3. CASE ~(job.kind = "History" /\ worker.step \in Switched /\ Switching)
  <2>1. /\ Leaves(IF InCleanup THEN "RestoreUnknown" ELSE o)
        /\ restoration' = IF InCleanup THEN "Unknown" ELSE restoration
    BY <1>3 DEF Fail, Switched
  <2>2. restoration' = restoration
    BY <1>1, <2>1 DEF StorageInv, InCleanup
  <2>3. Quits /\ result' # "Ok" /\ (result' = o \/ result' = "RestoreUnknown")
        /\ (InCleanup => result' = "RestoreUnknown")
    BY <2>1 DEF Leaves, Quits
  <2>4. job.kind = "History" /\ ~InCleanup => restoration = "NotNeeded"
    <3> SUFFICES ASSUME job.kind = "History", ~InCleanup PROVE restoration = "NotNeeded"
      OBVIOUS
    <3>1. worker.step \in StepsOf("History")
      BY Types
    <3>2. worker.step \in Switched => restoration # "Unknown"
      BY <1>3 DEF StorageInv
    <3> QED
      BY <1>1, <3>1, <3>2 DEF StorageInv, StepsOf, InCleanup, Switched
  <2> QED
    BY <2>2, <2>3, <2>4 DEF Broken
<1> QED
  BY <1>2, <1>3

\* The scripts, step by step.
Follows(n) ==
  /\ worker.step = "AT" => n = "ATI"
  /\ worker.step = "ATI" => n = IF job.kind = "Delete" THEN "Mode" ELSE "Sim"
  /\ worker.step = "Sim" => n = IF job.kind = "Delete" THEN "Record" ELSE "Mode"
  /\ worker.step \in {"Mode", "ModeAgain"} =>
       \/ worker.step = "Mode" /\ n = "SetPdu"
       \/ n = IF job.kind = "Send" THEN "SimAgain" ELSE "Storage"
  /\ worker.step = "SetPdu" => n = "ModeAgain"
  /\ worker.step = "Storage" => n = IF job.kind = "Delete" THEN "Sim" ELSE "Capabilities"
  /\ worker.step = "Capabilities" => n = IF Switching THEN "Select" ELSE "List"
  /\ worker.step = "Select" => n = "Verify"
  /\ worker.step = "Verify" => n = "List"
  /\ worker.step \in {"List", "Record"} => n = "SimAgain"
  /\ worker.step = "SimAgain" =>
       /\ job.kind = "Send" => n = "Prompt"
       /\ job.kind = "Delete" => n = "Delete"
       /\ job.kind = "History" => n = IF Switching THEN "Restore" ELSE "End"
  /\ worker.step = "Prompt" => n = "Body"
  /\ worker.step = "Restore" => n = "RestoreCheck"
  /\ worker.step \in {"Body", "Delete", "RestoreCheck"} => n = "End"

LEMMA NextForm ==
  ASSUME SmsTypes, NEW a
  PROVE  Follows(NextStep(worker.step, a))
<1> DEFINE s == worker.step
           n == NextStep(s, a)
<1>1. job.kind \in {"Send", "History", "Delete"}
  BY Types
<1>2. CASE s = "AT"
  BY <1>2 DEF NextStep, Follows
<1>3. CASE s = "ATI"
  BY <1>3 DEF NextStep, Follows
<1>4. CASE s = "Sim"
  BY <1>4 DEF NextStep, Follows
<1>5. CASE s = "Mode"
  <2>1. CASE a.value
    <3>1. n = IF job.kind = "Send" THEN "SimAgain" ELSE "Storage"
      BY <1>5, <2>1 DEF NextStep
    <3> QED
      BY <1>5, <3>1 DEF Follows
  <2>2. CASE ~a.value
    <3>1. n = "SetPdu"
      BY <1>5, <2>2 DEF NextStep
    <3> QED
      BY <1>5, <3>1 DEF Follows
  <2> QED
    BY <2>1, <2>2
<1>6. CASE s = "ModeAgain"
  <2>1. n = IF job.kind = "Send" THEN "SimAgain" ELSE "Storage"
    BY <1>6 DEF NextStep
  <2> QED
    BY <1>6, <2>1 DEF Follows
<1>7. CASE s = "SetPdu"
  BY <1>7 DEF NextStep, Follows
<1>8. CASE s = "Storage"
  BY <1>8 DEF NextStep, Follows
<1>9. CASE s = "Capabilities"
  BY <1>9 DEF NextStep, Follows
<1>10. CASE s \in {"Select", "Verify", "List", "Record", "Prompt", "Restore"}
  BY <1>10 DEF NextStep, Follows
<1>11. CASE s = "SimAgain"
  BY <1>1, <1>11 DEF NextStep, Follows
<1>12. CASE s \in {"Body", "Delete", "RestoreCheck"}
  BY <1>12 DEF NextStep, Follows
<1> QED
  BY <1>2, <1>3, <1>4, <1>5, <1>6, <1>7, <1>8, <1>9, <1>10, <1>11, <1>12, Types DEF Step

Advances(n) ==
  /\ n # "End"
  /\ worker' = [step |-> n, place |-> "Check", aborted |-> FALSE]
  /\ UNCHANGED <<result, running>>

\* What an answer that fits leaves.
Continues(a, n) ==
  /\ Follows(n)
  /\ memory'.original = (IF worker.step = "Storage" THEN a.value ELSE memory.original)
  /\ memory'.listed \in BOOLEAN
  /\ restoration' = IF n = "Select" THEN "Unknown"
                    ELSE IF worker.step = "RestoreCheck" THEN "Restored" ELSE restoration
  /\ proofs' = Observed(a)
  /\ \/ Advances(n)
     \/ /\ n = "End" /\ Quits /\ result' \in {"Ok", "Broken"}
        /\ worker.step = "Body" /\ result' = "Ok" => a.form = "CMGS"

LEMMA ContinueForm ==
  ASSUME SmsTypes, NEW a, Continue(a)
  PROVE  Continues(a, NextStep(worker.step, a))
<1> DEFINE n == NextStep(worker.step, a)
<1>1. Follows(n)
  BY NextForm
<1> HIDE DEF n
<1>2. /\ memory' = [original |-> IF worker.step = "Storage" THEN a.value ELSE memory.original,
                    listed |-> memory.listed \/ (worker.step = "SimAgain" /\ job.kind = "History")]
      /\ restoration' = CASE n = "Select" -> "Unknown"
                          [] worker.step = "RestoreCheck" -> "Restored"
                          [] OTHER -> restoration
      /\ proofs' = Observed(a)
      /\ IF n = "End"
         THEN Leaves(CASE worker.step = "Body" /\ a.form # "CMGS" -> "Broken"
                       [] job.kind = "History" /\ ~memory'.listed -> "Broken"
                       [] OTHER -> "Ok")
         ELSE Goto(n) /\ UNCHANGED <<result, running>>
  BY DEF Continue, n
<1>3. memory'.original = (IF worker.step = "Storage" THEN a.value ELSE memory.original)
      /\ memory'.listed \in BOOLEAN
  BY <1>2
<1>4. restoration' = IF n = "Select" THEN "Unknown"
                     ELSE IF worker.step = "RestoreCheck" THEN "Restored" ELSE restoration
  <2>1. ~(n = "Select" /\ worker.step = "RestoreCheck")
    BY <1>1 DEF Follows
  <2> QED
    BY <1>2, <2>1
<1>5. CASE n = "End"
  <2> DEFINE o == CASE worker.step = "Body" /\ a.form # "CMGS" -> "Broken"
                    [] job.kind = "History" /\ ~memory'.listed -> "Broken"
                    [] OTHER -> "Ok"
  <2>1. o \in {"Ok", "Broken"} /\ (worker.step = "Body" /\ o = "Ok" => a.form = "CMGS")
    OBVIOUS
  <2>2. Leaves(o)
    BY <1>2, <1>5
  <2> HIDE DEF o
  <2>3. Quits /\ result' = o
    BY <2>1, <2>2 DEF Leaves, Quits
  <2> QED
    BY <1>1, <1>2, <1>3, <1>4, <1>5, <2>1, <2>3 DEF Continues, n
<1>6. CASE n # "End"
  <2>1. Advances(n)
    BY <1>2, <1>6 DEF Goto, Advances
  <2> QED
    BY <1>1, <1>2, <1>3, <1>4, <2>1 DEF Continues, n
<1> QED
  BY <1>5, <1>6

\* The four ends of an answer that is read.
LEMMA ReadForm ==
  ASSUME SmsTypes, StorageInv, line \in Seq(Answer), Read
  PROVE  /\ worker.place = "Read" /\ running /\ 1 \in 1..Len(line) /\ Head(line) = line[1]
         /\ line[1] \in Answer /\ line' \in Seq(Answer) /\ Len(line') = Len(line) - 1
         /\ \A i \in 1..Len(line') : line'[i] = line[i + 1]
         /\ UNCHANGED <<job, device, stopped, marked, waiting>>
         /\ \/ /\ Broken /\ UNCHANGED <<memory, proofs>>
               /\ result' = "Rejected" => line[1].form = "Error" \/ UNCHANGED result
               /\ result' = "Refused" => worker.step # "Delete" \/ UNCHANGED result
            \/ /\ line[1].form # "Error" /\ Fits(worker.step, line[1])
               /\ Proves(worker.step, line[1])
               /\ Continues(line[1], NextStep(worker.step, line[1]))
<1> DEFINE a == Head(line)
<1>1. worker.place = "Read" /\ running /\ line # <<>> /\ line' = Tail(line)
      /\ UNCHANGED <<job, device, stopped, marked, waiting>>
  BY DEF Read
<1>2. /\ 1 \in 1..Len(line) /\ a = line[1] /\ a \in Answer /\ line' \in Seq(Answer)
      /\ Len(line') = Len(line) - 1 /\ \A i \in 1..Len(line') : line'[i] = line[i + 1]
  BY <1>1
<1>3. \/ a.form = "Error" /\ Fail(Refusal) /\ UNCHANGED <<memory, proofs>>
      \/ a.form # "Error" /\ ~Fits(worker.step, a) /\ Fail("Broken") /\ UNCHANGED <<memory, proofs>>
      \/ /\ a.form # "Error" /\ ~(Proves(worker.step, a) /\ ~CannotReturn(worker.step))
         /\ Fail("Refused") /\ UNCHANGED <<memory, proofs>>
      \/ a.form # "Error" /\ Fits(worker.step, a) /\ Proves(worker.step, a) /\ Continue(a)
  BY DEF Read
<1> HIDE DEF a
<1>4. worker.place # "Left"
  BY <1>1
<1>5. ASSUME NEW o \in {"Refused", "Rejected", "Broken"}, Fail(o), UNCHANGED <<memory, proofs>>,
             o = "Rejected" => a.form = "Error", o = "Refused" => worker.step # "Delete"
      PROVE  /\ Broken /\ UNCHANGED <<memory, proofs>>
             /\ result' = "Rejected" => a.form = "Error" \/ UNCHANGED result
             /\ result' = "Refused" => worker.step # "Delete" \/ UNCHANGED result
  <2>1. Broken /\ (Restores \/ result' = o \/ result' = "RestoreUnknown")
    BY <1>4, <1>5, FailForm
  <2> QED
    BY <1>5, <2>1 DEF Restores
<1>6. CASE a.form = "Error" /\ Fail(Refusal) /\ UNCHANGED <<memory, proofs>>
  <2>1. Refusal \in {"Refused", "Rejected"} /\ (Refusal = "Refused" => worker.step # "Delete")
    BY DEF Refusal
  <2> QED
    BY <1>1, <1>2, <1>5, <1>6, <2>1
<1>7. CASE Fail("Broken") /\ UNCHANGED <<memory, proofs>>
  BY <1>1, <1>2, <1>5, <1>7
<1>8. CASE /\ a.form # "Error" /\ ~(Proves(worker.step, a) /\ ~CannotReturn(worker.step))
           /\ Fail("Refused") /\ UNCHANGED <<memory, proofs>>
  <2>1. worker.step # "Delete"
    BY <1>8 DEF Proves, CannotReturn
  <2> QED
    BY <1>1, <1>2, <1>5, <1>8, <2>1
<1>9. CASE a.form # "Error" /\ Fits(worker.step, a) /\ Proves(worker.step, a) /\ Continue(a)
  BY <1>1, <1>2, <1>9, ContinueForm
<1> QED
  BY <1>3, <1>6, <1>7, <1>8, <1>9

\* What a command does to the module, and what it may leave on the line.
Written(s) ==
  /\ module' \in Modules
  /\ module'.holder \in {module.holder,
       IF s = "Select" THEN Asked ELSE IF s = "Restore" THEN memory.original ELSE module.holder}
  /\ module'.record = module.record \/ (s = "Delete" /\ module'.record = "Gone")
  /\ module'.accepted = module.accepted \/ (s = "Body" /\ module'.accepted = 1)
  /\ line' \in Seq(Answer)
  /\ \/ UNCHANGED line
     \/ \E e \in Answer :
          /\ line' = Append(line, e) /\ e \in {Lines(s), Rejection}
          /\ s = "Delete" /\ e = Lines(s) => module'.record = "Gone"
          /\ s = "Body" /\ e = Lines(s) => module'.accepted = 1
          /\ e = Rejection => module' = module

LEMMA LinesType ==
  ASSUME SmsTypes
  PROVE  Rejection \in Answer /\ Lines(worker.step) \in Answer
<1> DEFINE s == worker.step
<1>1. module \in Modules
  BY Types
<1>2. module.card \in Card /\ module.pdu \in BOOLEAN /\ module.holder \in Holder \cup Known
      /\ module.record \in {"Expected", "Other", "Gone"}
  BY <1>1 DEF Modules
<1>3. Rejection \in Answer
  BY DEF Rejection, Answer
<1>4. Lines(s) \in Answer
  <2>1. CASE s \in {"Sim", "SimAgain"}
    BY <1>2, <2>1 DEF Lines, Answer
  <2>2. CASE s \in {"Mode", "ModeAgain"}
    BY <1>2, <2>2 DEF Lines, Answer
  <2>3. CASE s \in {"Storage", "Verify", "RestoreCheck", "Capabilities"}
    BY <1>2, <2>3 DEF Lines, Answer
  <2>4. CASE s \in {"List", "Record"}
    BY <1>2, <2>4 DEF Lines, Answer
  <2>5. CASE s \in {"ATI", "Prompt", "Body", "AT", "SetPdu", "Select", "Restore", "Delete"}
    BY <2>5 DEF Lines, Answer
  <2> QED
    BY <2>1, <2>2, <2>3, <2>4, <2>5, Types DEF Step
<1> QED
  BY <1>3, <1>4

LEMMA WriteForm ==
  ASSUME SmsTypes, SendInv, StorageInv, line \in Seq(Answer), worker.place = "Write",
         ModuleTakes(worker.step)
  PROVE  Written(worker.step)
<1> DEFINE s == worker.step
<1>1. module \in Modules /\ s \in Step /\ Rejection \in Answer /\ Lines(s) \in Answer
  BY Types, LinesType
<1>2. s = "Body" => module.accepted = 0
  BY DEF SendInv
<1>3. s = "Select" => Asked \in Holder \cup Known
  <2> SUFFICES ASSUME s = "Select" PROVE Asked \in Holder \cup Known
    OBVIOUS
  <2>1. restoration = "Unknown"
    BY DEF StorageInv, SmsTypes, SmsTypeOK
  <2>2. Switching
    BY <2>1 DEF StorageInv
  <2> QED
    BY <2>2, Types, SmsAssumption DEF Switching, Asked, SmsAssumption
<1>4. s = "Restore" => memory.original \in Holder \cup Known
  <2> SUFFICES ASSUME s = "Restore" PROVE memory.original \in Holder \cup Known
    OBVIOUS
  <2>1. restoration # "NotNeeded"
    BY DEF StorageInv, InCleanup
  <2>2. memory.original # NoTarget
    BY <2>1 DEF StorageInv
  <2> QED
    BY <2>2, Types
<1>5. /\ Effect(s) \in Modules
      /\ Effect(s).holder = IF s = "Select" THEN Asked
                            ELSE IF s = "Restore" THEN memory.original ELSE module.holder
      /\ Effect(s).record = IF s = "Delete" THEN "Gone" ELSE module.record
      /\ Effect(s).accepted = IF s = "Body" THEN 1 ELSE module.accepted
  <2>1. CASE s = "SetPdu"
    <3>1. Effect(s) = [module EXCEPT !.pdu = TRUE] /\ TRUE \in BOOLEAN
      BY <2>1 DEF Effect
    <3> QED
      BY <1>1, <2>1, <3>1 DEF Modules
  <2>2. CASE s = "Select"
    <3>1. Effect(s) = [module EXCEPT !.holder = Asked]
      BY <2>2 DEF Effect
    <3> QED
      BY <1>1, <1>3, <2>2, <3>1 DEF Modules
  <2>3. CASE s = "Restore"
    <3>1. Effect(s) = [module EXCEPT !.holder = memory.original]
      BY <2>3 DEF Effect
    <3> QED
      BY <1>1, <1>4, <2>3, <3>1 DEF Modules
  <2>4. CASE s = "Delete"
    <3>1. Effect(s) = [module EXCEPT !.record = "Gone"]
      BY <2>4 DEF Effect
    <3> QED
      BY <1>1, <2>4, <3>1 DEF Modules
  <2>5. CASE s = "Body"
    <3>1. Effect(s) = [module EXCEPT !.accepted = @ + 1]
      BY <2>5 DEF Effect
    <3>2. Effect(s) = [module EXCEPT !.accepted = 1] /\ 1 \in 0..1
      BY <1>1, <1>2, <2>5, <3>1 DEF Modules
    <3> QED
      BY <1>1, <2>5, <3>2 DEF Modules
  <2>6. CASE s \notin {"SetPdu", "Select", "Restore", "Delete", "Body"}
    <3>1. Effect(s) = module
      BY <2>6 DEF Effect
    <3> QED
      BY <1>1, <2>6, <3>1
  <2> QED
    BY <2>1, <2>2, <2>3, <2>4, <2>5, <2>6
<1>6. \A e \in Answer : Append(line, e) \in Seq(Answer)
  OBVIOUS
<1>7. CASE module' = Effect(s) /\ line' = Append(line, Lines(s))
  <2>1. Lines(s) # Rejection
    <3>1. Lines(s).form # "Error"
      BY DEF Lines
    <3>2. Rejection.form = "Error"
      BY DEF Rejection
    <3> QED
      BY <3>1, <3>2
  <2>2. line' \in Seq(Answer)
    BY <1>1, <1>6, <1>7
  <2> HIDE DEF s
  <2> QED
    BY <1>1, <1>5, <1>7, <2>1, <2>2 DEF Written, s
<1>8. CASE module' = Effect(s) /\ UNCHANGED line
  BY <1>1, <1>5, <1>8 DEF Written
<1>9. CASE line' = Append(line, Rejection) /\ UNCHANGED module
  <2>1. line' \in Seq(Answer)
    BY <1>1, <1>6, <1>9
  <2>2. Lines(s) # Rejection
    <3>1. Lines(s).form # "Error"
      BY DEF Lines
    <3>2. Rejection.form = "Error"
      BY DEF Rejection
    <3> QED
      BY <3>1, <3>2
  <2> HIDE DEF s
  <2> QED
    BY <1>1, <1>9, <2>1, <2>2 DEF Written, s
<1>10. CASE UNCHANGED <<module, line>>
  BY <1>1, <1>10 DEF Written
<1> QED
  BY <1>7, <1>8, <1>9, <1>10 DEF ModuleTakes

\* A step of the caller, or of nobody in the program: the worker stays where it is.
Outside ==
  /\ UNCHANGED <<job, memory, proofs, result, restoration, line, marked>>
  /\ worker' \in Workers /\ worker'.step = worker.step /\ worker'.place = worker.place
  /\ module' \in Modules /\ module'.holder = module.holder /\ module'.record = module.record
  /\ module'.accepted = module.accepted
  /\ UNCHANGED running \/ running' = FALSE

\* The caller reports what it knows: a reply, or that there was none.
Reporting ==
  /\ receipt = "None" /\ caller' = "Closing" /\ cleanup' = (worker.place # "Left")
  /\ running' = FALSE
  /\ \E o \in Outcome \ {"None"} :
       receipt' = Classify(o) /\ (result = o \/ o = "Broken")

LEMMA OutsideForm ==
  ASSUME SmsTypes, Stop \/ (\E c \in Card : SwapCard(c)) \/ Caller
  PROVE  /\ Outside
         /\ \/ Reporting /\ UNCHANGED stopped
            \/ /\ UNCHANGED receipt /\ stopped' \in BOOLEAN /\ running' = running
               /\ \/ caller' = caller /\ cleanup' = cleanup
                  \/ caller = "Waiting" /\ caller' = "Noticed" /\ cleanup' = cleanup
                  \/ caller = "Closing" /\ caller' = "Done" /\ worker.place = "Left" /\ ~cleanup'
<1>1. /\ module \in Modules /\ worker \in Workers
  BY Types
<1>2. stopped \in BOOLEAN
  BY DEF SmsTypes, SmsTypeOK
<1>3. CASE Stop
  BY <1>1, <1>3 DEF Stop, Outside, device, session, script, waiting
<1>4. ASSUME NEW c \in Card, SwapCard(c)
      PROVE  Outside /\ UNCHANGED <<receipt, stopped, running, caller, cleanup>>
  <2>1. module' = [module EXCEPT !.card = c]
    BY <1>4 DEF SwapCard
  <2>2. /\ module' \in Modules /\ module'.holder = module.holder /\ module'.record = module.record
        /\ module'.accepted = module.accepted
    BY <1>1, <2>1 DEF Modules
  <2> QED
    BY <1>1, <1>4, <2>2 DEF SwapCard, Outside, control, session, script, waiting
<1>5. ASSUME NEW abort \in BOOLEAN, worker' = [worker EXCEPT !.aborted = abort]
      PROVE  worker' \in Workers /\ worker'.step = worker.step /\ worker'.place = worker.place
  BY <1>1, <1>5 DEF Workers
<1>6. CASE Reply
  <2>1. /\ UNCHANGED <<job, device, control, line, script>> /\ result # "None"
        /\ Reports(Classify(result)) /\ caller \in {"Waiting", "Noticed"}
    BY <1>6 DEF Reply
  <2>2. receipt = "None" /\ result \in Outcome \ {"None"}
    BY <2>1 DEF SmsTypes, SmsTypeOK
  <2>3. Outside
    BY <1>1, <2>1 DEF Outside, device, control, script, Reports
  <2>4. Reporting
    BY <2>1, <2>2 DEF Reporting, Reports, Closing
  <2> QED
    BY <2>1, <2>3, <2>4 DEF control
<1>7. CASE GiveUp
  <2>1. /\ UNCHANGED <<job, device, control, line, memory, result, proofs>>
        /\ Reports(Classify("Broken")) /\ caller \in {"Waiting", "Noticed"}
        /\ worker' = [worker EXCEPT !.aborted = worker.place \in {"Write", "Read"}]
    BY <1>7 DEF GiveUp
  <2>2. receipt = "None" /\ "Broken" \in Outcome \ {"None"}
    BY <2>1 DEF SmsTypes, SmsTypeOK, Outcome
  <2>3. worker' \in Workers /\ worker'.step = worker.step /\ worker'.place = worker.place
    <3> DEFINE abort == worker.place \in {"Write", "Read"}
    <3>1. abort \in BOOLEAN /\ worker' = [worker EXCEPT !.aborted = abort]
      BY <2>1
    <3> HIDE DEF abort
    <3> QED
      BY <3>1, <1>5
  <2>4. Outside
    BY <1>1, <2>1, <2>3 DEF Outside, device, control, Reports
  <2>5. Reporting
    BY <2>1, <2>2 DEF Reporting, Reports, Closing
  <2> QED
    BY <2>1, <2>4, <2>5 DEF control
<1>8. CASE Notice
  <2>1. /\ UNCHANGED <<job, device, control, session, memory, result, proofs, receipt, cleanup>>
        /\ caller = "Waiting" /\ caller' = "Noticed"
        /\ \/ UNCHANGED worker
           \/ worker' = [worker EXCEPT !.aborted = worker.place \in {"Write", "Read"}]
    BY <1>8 DEF Notice
  <2>2. worker' \in Workers /\ worker'.step = worker.step /\ worker'.place = worker.place
    <3> DEFINE abort == worker.place \in {"Write", "Read"}
    <3>1. abort \in BOOLEAN /\ (UNCHANGED worker \/ worker' = [worker EXCEPT !.aborted = abort])
      BY <2>1
    <3> HIDE DEF abort
    <3> QED
      BY <3>1, <1>1, <1>5
  <2> QED
    BY <1>1, <1>2, <2>1, <2>2 DEF Outside, device, control, session
<1>9. CASE Finish
  BY <1>1, <1>2, <1>9 DEF Finish, Outside, device, control, session, script
<1> QED
  BY <1>2, <1>3, <1>4, <1>6, <1>7, <1>8, <1>9 DEF Caller

\* A step of the worker.
Inside == UNCHANGED <<job, stopped, caller, receipt, cleanup>>

LEMMA StepsOfStep ==
  ASSUME NEW kind
  PROVE  StepsOf(kind) \subseteq Step
BY DEF StepsOf, Early, Step

LEMMA FollowsType ==
  ASSUME SmsTypes, NEW n, Follows(n), n # "End"
  PROVE  n \in StepsOf(job.kind)
<1>1. job.kind \in {"Send", "History", "Delete"} /\ worker.step \in StepsOf(job.kind)
  BY Types
<1>2. CASE job.kind = "Send"
  BY <1>1, <1>2 DEF Follows, StepsOf, Early
<1>3. CASE job.kind = "History"
  BY <1>1, <1>3 DEF Follows, StepsOf, Early
<1>4. CASE job.kind = "Delete"
  BY <1>1, <1>4 DEF Follows, StepsOf, Early
<1> QED
  BY <1>1, <1>2, <1>3, <1>4

\* Where the worker may be after a step of its own.
Moves ==
  /\ worker' \in Workers /\ worker'.step \in StepsOf(job.kind)
  /\ worker'.place = "Mark" => worker'.step = "Body"
  /\ \/ worker'.place # "Left" /\ UNCHANGED <<result, running>>
     \/ /\ worker'.place = "Left" /\ running' = FALSE
        /\ result' \in {"Ok", "Refused", "Rejected", "Broken", "RestoreUnknown"}

LEMMA QuitsMoves ==
  ASSUME SmsTypes, Quits
  PROVE  Moves /\ worker'.step = worker.step /\ worker'.place = "Left"
<1>1. worker \in Workers /\ worker.step \in StepsOf(job.kind)
  BY Types
<1>2. worker' = [worker EXCEPT !.place = "Left", !.aborted = FALSE]
  BY DEF Quits
<1>3. "Left" \in Place /\ FALSE \in BOOLEAN
  BY DEF Place
<1>4. worker' \in Workers /\ worker'.step = worker.step /\ worker'.place = "Left"
  BY <1>1, <1>2, <1>3 DEF Workers
<1> QED
  BY <1>1, <1>4 DEF Quits, Moves

LEMMA BrokenMoves ==
  ASSUME SmsTypes, worker.place # "Left", Broken
  PROVE  Moves
<1>1. CASE Restores
  <2>1. worker' = [step |-> "Restore", place |-> "Check", aborted |-> FALSE]
        /\ UNCHANGED <<result, running>> /\ job.kind = "History"
    BY <1>1 DEF Restores
  <2>2. "Check" \in Place /\ FALSE \in BOOLEAN /\ "Restore" \in Step
    BY DEF Place, Step
  <2>3. worker' \in Workers /\ worker'.step = "Restore" /\ worker'.place = "Check"
    BY <2>1, <2>2 DEF Workers
  <2>4. "Restore" \in StepsOf(job.kind)
    BY <2>1 DEF StepsOf
  <2> QED
    BY <2>1, <2>3, <2>4 DEF Moves
<1> QED
  BY <1>1, QuitsMoves DEF Broken

LEMMA ContinuesMoves ==
  ASSUME SmsTypes, NEW a, NEW n, Continues(a, n)
  PROVE  /\ Moves
         /\ \/ worker'.place = "Check" /\ worker'.step = n /\ n # "End"
            \/ worker'.place = "Left" /\ worker'.step = worker.step
<1>1. CASE Advances(n)
  <2>1. n \in StepsOf(job.kind) /\ n # "End" /\ n \in Step
    BY <1>1, FollowsType, StepsOfStep DEF Continues, Advances
  <2>2. worker' = [step |-> n, place |-> "Check", aborted |-> FALSE]
        /\ UNCHANGED <<result, running>>
    BY <1>1 DEF Advances
  <2>3. "Check" \in Place /\ FALSE \in BOOLEAN
    BY DEF Place
  <2>4. worker' \in Workers /\ worker'.step = n /\ worker'.place = "Check"
    BY <2>1, <2>2, <2>3 DEF Workers
  <2> QED
    BY <2>1, <2>2, <2>4 DEF Moves
<1> QED
  BY <1>1, QuitsMoves DEF Continues

\* The worker's look before it writes.
LEMMA CheckForm ==
  ASSUME SmsTypes, StorageInv, Check
  PROVE  /\ worker.place = "Check" /\ UNCHANGED <<job, module, line, memory, proofs, waiting>>
         /\ stopped' = stopped
         /\ \/ /\ worker' \in Workers /\ worker'.step = worker.step /\ running
               /\ worker'.place = (IF worker.step = "Body" THEN "Mark" ELSE "Write")
               /\ marked' = (marked \/ worker.step = "Delete")
               /\ UNCHANGED <<restoration, result, running>>
            \/ Broken /\ UNCHANGED marked
<1>1. worker.place = "Check" /\ worker \in Workers
  BY Types DEF Check
<1>2. CASE /\ worker' = [worker EXCEPT !.place = IF worker.step = "Body" THEN "Mark" ELSE "Write"]
           /\ marked' = (marked \/ MarksIn) /\ running
           /\ UNCHANGED <<restoration, result, running>>
  <2> DEFINE p == IF worker.step = "Body" THEN "Mark" ELSE "Write"
  <2>1. p \in Place /\ worker' = [worker EXCEPT !.place = p]
    BY <1>2 DEF Place
  <2> HIDE DEF p
  <2>2. worker' \in Workers /\ worker'.step = worker.step /\ worker'.place = p
    BY <1>1, <2>1 DEF Workers
  <2> QED
    BY <1>1, <1>2, <2>2 DEF Check, MarksIn, device, p
<1>3. CASE Fail("Broken") /\ UNCHANGED marked
  <2>1. Broken
    BY <1>1, <1>3, FailForm
  <2> QED
    BY <1>1, <1>3, <2>1 DEF Check, device
<1> QED
  BY <1>2, <1>3 DEF Check

LEMMA MarkForm ==
  ASSUME SmsTypes, MarkSubmission
  PROVE  /\ worker.place = "Mark" /\ worker' \in Workers /\ worker'.step = worker.step
         /\ worker.step = "Body" /\ worker'.place = "Write" /\ marked'
         /\ UNCHANGED <<job, module, stopped, restoration, running, line, memory, result, proofs,
                        waiting>>
<1>1. worker.place = "Mark" /\ worker \in Workers /\ worker.step = "Body"
  BY Types DEF MarkSubmission, SmsTypes
<1>2. worker' = [worker EXCEPT !.place = "Write"] /\ "Write" \in Place
  BY DEF MarkSubmission, Place
<1>3. worker' \in Workers /\ worker'.step = worker.step /\ worker'.place = "Write"
  BY <1>1, <1>2 DEF Workers
<1> QED
  BY <1>1, <1>3 DEF MarkSubmission, device, session

LEMMA WritingForm ==
  ASSUME SmsTypes, SendInv, StorageInv, line \in Seq(Answer), Write
  PROVE  /\ worker.place = "Write" /\ Written(worker.step)
         /\ UNCHANGED <<job, stopped, marked, memory, waiting>>
         /\ proofs' = (IF worker.step \in {"Body", "Delete"}
                       THEN Append(proofs, <<"Effect", job.kind>>) ELSE proofs)
         /\ \/ /\ worker' \in Workers /\ worker'.step = worker.step /\ worker'.place = "Read"
               /\ UNCHANGED <<restoration, result, running>>
            \/ Broken /\ (result' \in {"Refused", "Rejected"} => UNCHANGED result)
<1>1. worker.place = "Write" /\ worker \in Workers /\ ModuleTakes(worker.step)
  BY Types DEF Write
<1>2. Written(worker.step)
  BY <1>1, WriteForm
<1>3. CASE worker' = [worker EXCEPT !.place = "Read"] /\ UNCHANGED <<restoration, result, running>>
  <2>1. "Read" \in Place
    BY DEF Place
  <2>2. worker' \in Workers /\ worker'.step = worker.step /\ worker'.place = "Read"
    BY <1>1, <1>3, <2>1 DEF Workers
  <2> QED
    BY <1>1, <1>2, <1>3, <2>2 DEF Write
<1>4. CASE Fail("Broken")
  <2>1. Broken /\ (Restores \/ result' \in {"Broken", "RestoreUnknown"})
    BY <1>1, <1>4, FailForm
  <2> QED
    BY <1>1, <1>2, <1>4, <2>1 DEF Write, Restores
<1> QED
  BY <1>3, <1>4 DEF Write

LEMMA ReadFailsForm ==
  ASSUME SmsTypes, StorageInv, ReadFails
  PROVE  /\ worker.place = "Read" /\ Broken
         /\ result' \in {"Refused", "Rejected"} => UNCHANGED result
         /\ UNCHANGED <<job, module, stopped, marked, line, memory, proofs, waiting>>
<1>1. worker.place = "Read" /\ Fail("Broken")
  BY DEF ReadFails
<1>2. Broken /\ (Restores \/ result' \in {"Broken", "RestoreUnknown"})
  BY <1>1, FailForm
<1> QED
  BY <1>1, <1>2 DEF ReadFails, device, Restores

-----------------------------------------------------------------------------
(* Types *)

LEMMA WorkerTypes ==
  ASSUME SmsTypes, worker.place # "Left", Moves, UNCHANGED <<job, stopped, waiting>>,
         module' \in Modules, marked' \in BOOLEAN,
         restoration' \in {"NotNeeded", "Restored", "Unknown"},
         memory'.original \in Holder \cup Known \cup {NoTarget}, memory'.listed \in BOOLEAN
  PROVE  SmsTypes'
<1>1. /\ job \in [kind : Kinds, target : Target \cup {NoTarget}] /\ stopped \in BOOLEAN
      /\ cleanup \in BOOLEAN /\ receipt \in Receipt /\ running \in BOOLEAN
      /\ caller \in {"Waiting", "Noticed", "Closing", "Done"} /\ result = "None"
      /\ receipt # "None" => caller \in {"Closing", "Done"} /\ ~running
      /\ receipt = "None" => caller \in {"Waiting", "Noticed"}
  BY DEF SmsTypes, SmsTypeOK
<1>2. /\ worker' \in Workers /\ worker'.step \in StepsOf(job.kind)
      /\ worker'.place = "Mark" => worker'.step = "Body"
  BY DEF Moves
<1>3. /\ result' \in Outcome /\ running' \in BOOLEAN
      /\ result' # "None" <=> worker'.place = "Left"
      /\ result' # "None" => ~running'
      /\ receipt # "None" => ~running'
  <2>1. CASE worker'.place # "Left" /\ UNCHANGED <<result, running>>
    BY <1>1, <2>1 DEF Outcome
  <2>2. CASE /\ worker'.place = "Left" /\ running' = FALSE
             /\ result' \in {"Ok", "Refused", "Rejected", "Broken", "RestoreUnknown"}
    BY <1>1, <2>2 DEF Outcome
  <2> QED
    BY <2>1, <2>2 DEF Moves
<1>4. SmsTypeOK'
  BY <1>1, <1>2, <1>3 DEF SmsTypeOK, Modules, Workers, waiting
<1> QED
  BY <1>1, <1>2, <1>3, <1>4 DEF SmsTypes, waiting

LEMMA AnswerValue ==
  ASSUME NEW a \in Answer
  PROVE  /\ a.form = "CPMS" => a.value \in Holder \cup Known \cup {NoTarget}
         /\ a.form \in {"QCCID", "CMGF", "CPMS", "CMGR", "CMGL", "Text", "Prompt", "CMGS", "Bare",
                        "Error"}
BY DEF Answer

LEMMA TypeStep ==
  ASSUME SmsTypes, SendInv, StorageInv, line \in Seq(Answer), Next
  PROVE  SmsTypes' /\ line' \in Seq(Answer)
<1>1. /\ module \in Modules /\ worker \in Workers /\ worker.step \in StepsOf(job.kind)
      /\ memory.original \in Holder \cup Known \cup {NoTarget} /\ memory.listed \in BOOLEAN
  BY Types
<1>2. /\ job \in [kind : Kinds, target : Target \cup {NoTarget}]
      /\ stopped \in BOOLEAN /\ marked \in BOOLEAN /\ running \in BOOLEAN /\ cleanup \in BOOLEAN
      /\ restoration \in {"NotNeeded", "Restored", "Unknown"}
      /\ result \in Outcome /\ receipt \in Receipt
      /\ caller \in {"Waiting", "Noticed", "Closing", "Done"}
      /\ worker.place = "Mark" => worker.step = "Body"
      /\ result # "None" <=> worker.place = "Left"
      /\ result # "None" => ~running
      /\ receipt # "None" => caller \in {"Closing", "Done"} /\ ~running
      /\ receipt = "None" => caller \in {"Waiting", "Noticed"}
  BY DEF SmsTypes, SmsTypeOK
<1>3. CASE Stop \/ (\E c \in Card : SwapCard(c)) \/ Caller
  <2>1. Outside
    BY <1>3, OutsideForm
  <2>2. running' \in BOOLEAN /\ (~running => ~running')
    <3>1. running' = running \/ running' = FALSE
      BY <2>1 DEF Outside
    <3>2. running \in BOOLEAN
      BY <1>2
    <3>3. running' \in BOOLEAN
      BY <3>1, <3>2
    <3>4. ~running => ~running'
      <4>1. CASE running' = running
        BY <4>1, Zenon
      <4>2. CASE running' = FALSE
        BY <4>2
      <4> QED
        BY <3>1, <4>1, <4>2
    <3> QED
      BY <3>3, <3>4
  <2>3. /\ caller' \in {"Waiting", "Noticed", "Closing", "Done"} /\ cleanup' \in BOOLEAN
        /\ stopped' \in BOOLEAN /\ receipt' \in Receipt
        /\ receipt' # "None" => caller' \in {"Closing", "Done"} /\ ~running'
        /\ receipt' = "None" => caller' \in {"Waiting", "Noticed"}
    <3>1. CASE Reporting /\ UNCHANGED stopped
      <4>1. PICK o \in Outcome \ {"None"} : receipt' = Classify(o)
        BY <3>1 DEF Reporting
      <4>2. Classify(o) \in Receipt \ {"None"}
        <5>1. job.kind \in {"Send", "History", "Delete"}
          BY Types
        <5> QED
          BY <5>1 DEF Classify, Receipt
      <4> QED
        BY <1>2, <3>1, <4>1, <4>2 DEF Reporting
    <3>2. CASE /\ UNCHANGED receipt /\ stopped' \in BOOLEAN /\ running' = running
               /\ \/ caller' = caller /\ cleanup' = cleanup
                  \/ caller = "Waiting" /\ caller' = "Noticed" /\ cleanup' = cleanup
                  \/ caller = "Closing" /\ caller' = "Done" /\ worker.place = "Left" /\ ~cleanup'
      <4>1. cleanup' \in BOOLEAN
        BY <1>2, <1>3, <3>2 DEF Stop, SwapCard, Caller, Reply, GiveUp, Notice, Finish, Reports,
                                 Closing, waiting
      <4> QED
        BY <1>2, <3>2, <4>1
    <3> QED
      BY <1>3, <3>1, <3>2, OutsideForm
  <2>4. SmsTypeOK'
    BY <1>2, <2>1, <2>2, <2>3 DEF SmsTypeOK, Outside, Modules, Workers
  <2>5. SmsTypes'
    BY <1>1, <1>2, <2>1, <2>2, <2>3, <2>4 DEF SmsTypes, Outside
  <2>6. line' = line
    BY <2>1 DEF Outside
  <2> QED
    BY <2>5, <2>6
<1>4. ASSUME Broken PROVE Moves \/ worker.place = "Left"
  BY <1>4, BrokenMoves
<1>5. ASSUME Broken PROVE restoration' = restoration
  BY <1>5 DEF Broken, Restores
<1>6. ASSUME worker' \in Workers, worker'.step = worker.step, worker'.place # "Left",
             worker'.place = "Mark" => worker'.step = "Body", UNCHANGED <<result, running>>
      PROVE  Moves
  BY <1>1, <1>6 DEF Moves
<1>7. CASE Check
  <2>1. /\ worker.place # "Left" /\ stopped' = stopped
        /\ UNCHANGED <<job, module, line, memory, waiting>>
    BY <1>7, CheckForm
  <2>2. Moves
    BY <1>4, <1>6, <1>7, <2>1, CheckForm
  <2>3. marked' \in BOOLEAN /\ restoration' = restoration
    BY <1>2, <1>5, <1>7, CheckForm
  <2> QED
    BY <1>1, <1>2, <2>1, <2>2, <2>3, WorkerTypes
<1>8. CASE MarkSubmission
  <2>1. /\ worker.place # "Left"
        /\ UNCHANGED <<job, module, stopped, restoration, line, memory, waiting>> /\ Moves
    BY <1>6, <1>8, MarkForm
  <2>2. marked' \in BOOLEAN
    BY <1>8 DEF MarkSubmission
  <2> QED
    BY <1>1, <1>2, <2>1, <2>2, WorkerTypes
<1>9. CASE Write
  <2>1. /\ worker.place # "Left" /\ Written(worker.step)
        /\ UNCHANGED <<job, stopped, marked, memory, waiting>>
    BY <1>9, WritingForm
  <2>2. Moves /\ restoration' = restoration
    BY <1>4, <1>5, <1>6, <1>9, <2>1, WritingForm
  <2>3. module' \in Modules /\ line' \in Seq(Answer)
    BY <2>1 DEF Written
  <2>4. SmsTypes'
    BY <1>1, <1>2, <2>1, <2>2, <2>3, WorkerTypes
  <2> QED
    BY <2>3, <2>4
<1>10. CASE Read
  <2>1. /\ worker.place # "Left" /\ line[1] \in Answer /\ line' \in Seq(Answer)
        /\ UNCHANGED <<job, device, stopped, marked, waiting>>
    BY <1>10, ReadForm
  <2>2. CASE Broken /\ UNCHANGED <<memory, proofs>>
    <3>1. SmsTypes'
      BY <1>1, <1>2, <1>4, <1>5, <2>1, <2>2, WorkerTypes DEF device
    <3> QED
      BY <2>1, <3>1
  <2>3. ASSUME NEW n, Fits(worker.step, line[1]), Continues(line[1], n)
        PROVE  SmsTypes'
    <3>1. Moves
      BY <2>3, ContinuesMoves
    <3>2. restoration' \in {"NotNeeded", "Restored", "Unknown"} /\ memory'.listed \in BOOLEAN
      BY <1>2, <2>3 DEF Continues
    <3>3. memory'.original \in Holder \cup Known \cup {NoTarget}
      <4>1. worker.step = "Storage" => line[1].form = "CPMS"
        BY <2>3 DEF Fits
      <4>2. memory'.original = (IF worker.step = "Storage" THEN line[1].value ELSE memory.original)
        BY <2>3 DEF Continues
      <4> QED
        BY <1>1, <2>1, <4>1, <4>2, AnswerValue
    <3> QED
      BY <1>1, <1>2, <2>1, <3>1, <3>2, <3>3, WorkerTypes DEF device
  <2> QED
    BY <1>10, <2>1, <2>2, <2>3, ReadForm
<1>11. CASE ReadFails
  <2>1. /\ worker.place # "Left" /\ Broken
        /\ UNCHANGED <<job, module, stopped, marked, line, memory, waiting>>
    BY <1>11, ReadFailsForm
  <2> QED
    BY <1>1, <1>2, <1>4, <1>5, <2>1, WorkerTypes
<1> QED
  BY <1>3, <1>7, <1>8, <1>9, <1>10, <1>11 DEF Next, Worker

-----------------------------------------------------------------------------
(* Proofs before effects *)

LEMMA FirstProofs ==
  ASSUME job.kind \in {"Send", "Delete"}
  PROVE  /\ job.kind = "Send" => /\ Len(ProvenFirst) = 2 /\ ProvenFirst[1] = <<"Sim", Own>>
                                 /\ ProvenFirst[2] = <<"SimAgain", Own>>
         /\ job.kind = "Delete" =>
              /\ Len(ProvenFirst) = 4 /\ ProvenFirst[1] = <<"Storage", job.target>>
              /\ ProvenFirst[2] = <<"Sim", Own>> /\ ProvenFirst[3] = <<"Record", "Expected">>
              /\ ProvenFirst[4] = <<"SimAgain", Own>>
BY DEF ProvenFirst

\* The invariant gives the order of the proofs.
LEMMA ProofsInOrder ==
  ASSUME SmsTypes, ProofInv
  PROVE  ProvenBeforeEffect
<1> SUFFICES ASSUME NEW i \in 1..Len(proofs), proofs[i][1] = "Effect"
             PROVE  /\ i = Len(proofs) /\ i = Len(ProvenFirst) + 1
                    /\ \A k \in 1..i - 1 : proofs[k] = ProvenFirst[k]
  BY DEF ProvenBeforeEffect
<1>1. job.kind \in {"Send", "Delete"} /\ worker.step \in StepsOf(job.kind)
  BY Types DEF ProofInv
<1>2. /\ Len(proofs) \in Nat /\ \A k \in 1..Needed : proofs[k] = ProvenFirst[k]
      /\ \/ Len(proofs) = Needed
         \/ Len(proofs) = Needed + 1 /\ worker.step \in {"Body", "Delete"}
  BY <1>1 DEF ProofInv
<1>3. Needed \in 0..Len(ProvenFirst) /\ Len(ProvenFirst) \in {2, 4}
  BY <1>1, FirstProofs DEF Needed
<1>4. \A k \in 1..Len(ProvenFirst) : ProvenFirst[k][1] # "Effect"
  BY <1>1, FirstProofs
<1>5. i \notin 1..Needed
  BY <1>2, <1>3, <1>4
<1>6. i = Needed + 1 /\ i = Len(proofs) /\ worker.step \in {"Body", "Delete"}
  BY <1>2, <1>3, <1>5
<1>7. Needed = Len(ProvenFirst)
  <2>1. worker.step = "Body" => job.kind = "Send"
    BY <1>1 DEF StepsOf, Early
  <2>2. worker.step = "Delete" => job.kind = "Delete"
    BY <1>1 DEF StepsOf, Early
  <2> QED
    BY <1>1, <1>6, <2>1, <2>2, FirstProofs DEF Needed
<1> QED
  BY <1>2, <1>3, <1>6, <1>7

\* Nothing is noted: what was needed for the step is still there.
LEMMA ProofKept ==
  ASSUME SmsTypes, ProofInv, UNCHANGED <<job, proofs>>,
         \/ /\ worker'.step = worker.step
            /\ worker.place \in {"Read", "Left"} => worker'.place \in {"Read", "Left"}
         \/ worker'.step = "Restore" /\ job.kind = "History"
  PROVE  ProofInv'
<1>1. CASE job.kind = "History"
  BY <1>1 DEF ProofInv
<1>2. CASE job.kind # "History"
  <2>1. worker'.step = worker.step
    BY <1>2
  <2>2. Needed' = Needed /\ ProvenFirst' = ProvenFirst
    BY <2>1 DEF Needed, ProvenFirst
  <2> QED
    BY <1>2, <2>1, <2>2 DEF ProofInv
<1> QED
  BY <1>1, <1>2

\* One more fact at the end.
LEMMA FactNoted ==
  ASSUME proofs \in Seq(Fact), NEW e \in Fact, proofs' = Append(proofs, e)
  PROVE  /\ proofs' \in Seq(Fact) /\ Len(proofs) \in Nat /\ Len(proofs') = Len(proofs) + 1
         /\ proofs'[Len(proofs) + 1] = e /\ \A i \in 1..Len(proofs) : proofs'[i] = proofs[i]
BY AppendProperties, LenProperties

LEMMA BrokenStep ==
  ASSUME SmsTypes, Broken
  PROVE  \/ worker'.step = worker.step /\ worker'.place = "Left"
         \/ /\ worker'.step = "Restore" /\ worker'.place = "Check" /\ job.kind = "History"
            /\ worker.step \in Switched
BY QuitsMoves DEF Broken, Restores

LEMMA ProofStep ==
  ASSUME SmsTypes, SendInv, StorageInv, line \in Seq(Answer), ProofInv, Next
  PROVE  ProofInv'
<1>1. CASE Stop \/ (\E c \in Card : SwapCard(c)) \/ Caller
  BY <1>1, OutsideForm, ProofKept DEF Outside
<1>2. CASE Check
  <2>1. worker.place = "Check" /\ UNCHANGED <<job, proofs>> /\ (worker'.step = worker.step \/ Broken)
    BY <1>2, CheckForm
  <2> QED
    BY <2>1, BrokenStep, ProofKept
<1>3. CASE MarkSubmission
  BY <1>3, MarkForm, ProofKept
<1>4. CASE Write
  <2>1. /\ UNCHANGED job /\ worker.place = "Write"
        /\ (worker'.step = worker.step /\ worker'.place = "Read") \/ Broken
        /\ proofs' = (IF worker.step \in {"Body", "Delete"}
                      THEN Append(proofs, <<"Effect", job.kind>>) ELSE proofs)
    BY <1>4, WritingForm
  <2>2. CASE worker.step \notin {"Body", "Delete"}
    <3>1. UNCHANGED proofs
      BY <2>1, <2>2
    <3> QED
      BY <2>1, <3>1, BrokenStep, ProofKept
  <2>3. CASE worker.step \in {"Body", "Delete"}
    <3>1. job.kind \in {"Send", "Delete"}
      BY <2>3, Types DEF StepsOf, Early
    <3>2. worker'.step = worker.step /\ worker'.place \in {"Read", "Left"}
      BY <2>1, <2>3, BrokenStep DEF Switched
    <3>3. Needed' = Needed /\ ProvenFirst' = ProvenFirst /\ Needed \in Nat
      BY <2>1, <3>2 DEF Needed, ProvenFirst
    <3>4. proofs \in Seq(Fact) /\ Len(proofs) = Needed
          /\ \A k \in 1..Needed : proofs[k] = ProvenFirst[k]
      BY <2>1, <3>1 DEF ProofInv
    <3>5. <<"Effect", job.kind>> \in Fact /\ proofs' = Append(proofs, <<"Effect", job.kind>>)
      BY <2>1, <2>3, <3>1 DEF Fact
    <3>6. /\ proofs' \in Seq(Fact) /\ Len(proofs') = Needed' + 1
          /\ \A k \in 1..Needed' : proofs'[k] = ProvenFirst'[k]
      BY <3>3, <3>4, <3>5, FactNoted
    <3> QED
      BY <2>1, <2>3, <3>1, <3>2, <3>6 DEF ProofInv
  <2> QED
    BY <2>2, <2>3
<1>5. CASE ReadFails
  <2>1. UNCHANGED <<job, proofs>> /\ Broken
    BY <1>5, ReadFailsForm
  <2> QED
    BY <2>1, BrokenStep, ProofKept
<1>6. CASE Read
  <2>1. UNCHANGED job /\ worker.place = "Read"
    BY <1>6, ReadForm
  <2>2. CASE Broken /\ UNCHANGED <<memory, proofs>>
    BY <2>1, <2>2, BrokenStep, ProofKept
  <2>3. ASSUME NEW a \in Answer, NEW n, Fits(worker.step, a), Proves(worker.step, a),
               Continues(a, n)
        PROVE  ProofInv'
    <3>1. proofs' = Observed(a) /\ Follows(n)
          /\ \/ worker'.step = n /\ n # "End"
             \/ worker'.step = worker.step /\ worker'.place = "Left" /\ n = "End"
      BY <2>3, ContinuesMoves, QuitsMoves DEF Continues, Advances
    <3>2. /\ job.kind \in {"Send", "History", "Delete"} /\ worker.step \in StepsOf(job.kind)
          /\ worker.step \in Step /\ proofs \in Seq(Fact)
      BY Types DEF ProofInv
    <3>3. CASE worker.step \notin {"Sim", "SimAgain", "Record", "Storage"}
      <4>1. UNCHANGED proofs
        BY <3>1, <3>3 DEF Observed
      <4>2. CASE job.kind = "History"
        BY <2>1, <4>1, <4>2 DEF ProofInv
      <4>3. CASE job.kind # "History" /\ n = "End"
        BY <2>1, <3>1, <4>1, <4>3, ProofKept DEF Follows
      <4>4. CASE job.kind # "History" /\ n # "End"
        <5>1. worker'.step = n /\ worker.step \notin {"Body", "Delete"}
          BY <3>1, <4>4 DEF Follows
        <5>2. Needed' = Needed /\ ProvenFirst' = ProvenFirst
          BY <2>1, <3>1, <3>2, <3>3, <4>4, <5>1 DEF Needed, ProvenFirst, Follows, StepsOf, Early
        <5> QED
          BY <2>1, <4>1, <4>4, <5>1, <5>2 DEF ProofInv
      <4> QED
        BY <4>2, <4>3, <4>4
    <3>4. CASE worker.step \in {"Sim", "SimAgain", "Record", "Storage"}
      <4> DEFINE e == <<worker.step, a.value>>
      <4>1. proofs' = Append(proofs, e)
        BY <3>1, <3>4 DEF Observed
      <4>2. a.value \in Card \cup Holder \cup Known \cup {NoTarget, "Expected", "Other", "Gone"}
        <5>1. a.form \in {"QCCID", "CPMS", "CMGR"}
          BY <2>3, <3>4 DEF Fits
        <5> QED
          BY <2>3, <5>1 DEF Answer
      <4>3. e \in Fact /\ e[1] = worker.step
        BY <3>2, <4>2 DEF Fact
      <4>4. /\ worker.step \in {"Sim", "SimAgain"} => e = <<worker.step, Own>>
            /\ worker.step = "Record" => e = <<"Record", "Expected">>
            /\ worker.step = "Storage" /\ job.kind = "Delete" => e = <<"Storage", job.target>>
        BY <2>3 DEF Proves
      <4> HIDE DEF e
      <4>5. /\ proofs' \in Seq(Fact) /\ Len(proofs) \in Nat /\ Len(proofs') = Len(proofs) + 1
            /\ proofs'[Len(proofs) + 1] = e
            /\ \A i \in 1..Len(proofs) : proofs'[i] = proofs[i]
        BY <3>2, <4>1, <4>3, FactNoted
      <4>6. CASE job.kind = "History"
        <5>1. \A i \in 1..Len(proofs') : i \in 1..Len(proofs) \/ i = Len(proofs) + 1
          BY <4>5
        <5>2. \A i \in 1..Len(proofs') : proofs'[i][1] # "Effect"
          BY <3>4, <4>3, <4>5, <4>6, <5>1 DEF ProofInv
        <5> QED
          BY <2>1, <4>5, <4>6, <5>2 DEF ProofInv
      <4>7. CASE job.kind # "History"
        <5>1. Len(proofs) = Needed /\ \A k \in 1..Needed : proofs[k] = ProvenFirst[k]
          BY <3>4, <4>7 DEF ProofInv
        <5>2. worker'.step = n /\ ProvenFirst' = ProvenFirst
          BY <2>1, <3>1, <3>2, <3>4, <4>7 DEF Follows, ProvenFirst, StepsOf, Early
        <5>3. Needed' = Needed + 1 /\ e = ProvenFirst[Needed + 1]
          <6>1. CASE job.kind = "Send"
            <7>1. worker.step \in {"Sim", "SimAgain"}
              BY <3>2, <3>4, <6>1 DEF StepsOf, Early
            <7> QED
              BY <2>1, <3>1, <4>4, <5>2, <6>1, <7>1, FirstProofs DEF Needed, Follows
          <6>2. CASE job.kind = "Delete"
            BY <2>1, <3>1, <3>4, <4>4, <5>2, <6>2, FirstProofs DEF Needed, Follows
          <6> QED
            BY <3>2, <4>7, <6>1, <6>2
        <5>4. \A k \in 1..Needed' : proofs'[k] = ProvenFirst'[k]
          <6>1. \A k \in 1..Needed' : k \in 1..Needed \/ k = Needed + 1
            BY <4>5, <5>1, <5>3
          <6> QED
            BY <4>5, <5>1, <5>2, <5>3, <6>1
        <5> QED
          BY <2>1, <4>5, <4>7, <5>1, <5>3, <5>4 DEF ProofInv
      <4> QED
        BY <4>6, <4>7
    <3> QED
      BY <3>3, <3>4
  <2> QED
    BY <1>6, <2>2, <2>3, ReadForm
<1> QED
  BY <1>1, <1>2, <1>3, <1>4, <1>5, <1>6 DEF Next, Worker

-----------------------------------------------------------------------------
(* Reports *)

LEMMA ClassifyForm ==
  ASSUME NEW o \in Outcome \ {"None"}, job.kind \in {"Send", "History", "Delete"}
  PROVE  /\ job.kind = "Send" /\ Classify(o) = "Submitted" => o = "Ok"
         /\ job.kind = "Delete" /\ Classify(o) = "Deleted" => o = "Ok"
         /\ job.kind = "Delete" /\ Classify(o) \in {"Failed", "NotAttempted"} =>
              o \in {"Refused", "Rejected"} \/ (o = "Broken" /\ ~marked)
         /\ job.kind = "History" /\ Classify(o) # "Unknown" =>
              o \in {"Ok", "Refused", "Rejected"} \/ (o = "Broken" /\ restoration # "Unknown")
<1>1. CASE o = "Ok"
  <2>1. /\ job.kind = "Send" => Classify(o) = "Submitted"
        /\ job.kind = "History" => Classify(o) = "Listed"
        /\ job.kind = "Delete" => Classify(o) = "Deleted"
    BY <1>1 DEF Classify
  <2> QED
    BY <1>1, <2>1
<1>2. CASE o = "Rejected"
  <2>1. Classify(o) = "Failed"
    BY <1>2 DEF Classify
  <2> QED
    BY <1>2, <2>1
<1>3. CASE o = "RestoreUnknown"
  <2>1. Classify(o) = "Unknown"
    BY <1>3 DEF Classify
  <2> QED
    BY <1>3, <2>1
<1>4. CASE o = "Refused"
  <2>1. Classify(o) = IF job.kind = "Delete" THEN "NotAttempted" ELSE "Failed"
    BY <1>4 DEF Classify
  <2> QED
    BY <1>4, <2>1
<1>5. CASE o = "Broken"
  <2>1. CASE marked \/ restoration = "Unknown"
    <3>1. Classify(o) = "Unknown"
      BY <1>5, <2>1 DEF Classify
    <3> QED
      BY <1>5, <3>1
  <2>2. CASE ~(marked \/ restoration = "Unknown")
    <3>1. Classify(o) = IF job.kind = "Delete" THEN "NotAttempted" ELSE "Failed"
      BY <1>5, <2>2 DEF Classify
    <3> QED
      BY <1>5, <2>2, <3>1
  <2> QED
    BY <2>1, <2>2
<1> QED
  BY <1>1, <1>2, <1>3, <1>4, <1>5 DEF Outcome

-----------------------------------------------------------------------------
(* The line *)

LEMMA LinesForm ==
  /\ worker.step = "Storage" => Lines(worker.step).value = module.holder
  /\ worker.step = "RestoreCheck" => Lines(worker.step).value = module.holder
  /\ worker.step = "Delete" => Lines(worker.step).form = "Bare"
  /\ worker.step = "Restore" => Lines(worker.step).form = "Bare"
  /\ Rejection.form = "Error"
BY DEF Lines, Rejection

LEMMA LineLength ==
  ASSUME line \in Seq(Answer)
  PROVE  Len(line) \in Nat
OBVIOUS

\* Outside the restoration there is at most one answer to read.
LEMMA AtMostOne ==
  ASSUME SmsTypes, LineInv, line \in Seq(Answer), worker.place # "Left", ~InCleanup
  PROVE  Len(line) \in 0..1 /\ (worker.place # "Read" => Len(line) = 0)
<1> DEFINE k == Len(line)
<1>1. k \in Nat
  BY LineLength
<1>2. worker.place = "Read" => k <= 1
  BY DEF LineInv
<1>3. worker.place # "Read" => k = 0
  BY DEF LineInv
<1> HIDE DEF k
<1>4. k \in 0..1 /\ (worker.place # "Read" => k = 0)
  BY <1>1, <1>2, <1>3
<1> QED
  BY <1>4 DEF k

\* A session that begins to restore finds at most one late answer.
LEMMA LateAnswer ==
  ASSUME worker'.step = "Restore", Len(line') \in 0..1
  PROVE  LineInv'
<1>1. InCleanup' /\ worker'.step # "RestoreCheck"
  BY DEF InCleanup
<1>2. \A k \in 0..1 : \A i \in 1..k : ~(i > 1)
  OBVIOUS
<1>3. \A i \in 1..Len(line') : ~(i > 1)
  BY <1>2
<1> QED
  BY <1>1, <1>3 DEF LineInv

LEMMA NoLine ==
  ASSUME worker'.place = "Left" \/ (worker'.place # "Read" /\ Len(line') = 0)
  PROVE  LineInv'
<1>1. CASE worker'.place = "Left"
  BY <1>1 DEF LineInv
<1>2. CASE worker'.place # "Read" /\ Len(line') = 0
  <2>1. 1..Len(line') = {}
    BY <1>2
  <2> QED
    BY <1>2, <2>1 DEF LineInv
<1> QED
  BY <1>1, <1>2

\* The line and what it speaks of stay.
LEMMA SameLine ==
  ASSUME LineInv, worker.place # "Left" \/ worker'.place = "Left", line' = line,
         worker'.step = worker.step, (worker.place = "Read") <=> (worker'.place = "Read"),
         module'.holder = module.holder, module'.record = module.record,
         module'.accepted = module.accepted
  PROVE  LineInv'
<1>1. \A i : Says(line[i]) => Says(line[i])'
  BY DEF Says
<1> QED
  BY <1>1 DEF LineInv, InCleanup

LEMMA LineStep ==
  ASSUME SmsTypes, SendInv, DeleteInv, StorageInv, LineInv, line \in Seq(Answer), Next
  PROVE  LineInv'
<1>1. Len(line) \in Nat
  BY LineLength
<1>2. CASE Stop \/ (\E c \in Card : SwapCard(c)) \/ Caller
  BY <1>2, OutsideForm, SameLine DEF Outside
<1>3. ASSUME Broken, worker.place # "Left", UNCHANGED line PROVE LineInv'
  <2>1. CASE worker'.place = "Left"
    BY <2>1, NoLine
  <2>2. CASE worker'.step = "Restore" /\ worker.step \in Switched
    <3>1. ~InCleanup
      BY <2>2 DEF InCleanup, Switched
    <3>2. Len(line') \in 0..1
      BY <1>3, <3>1, AtMostOne
    <3> QED
      BY <2>2, <3>2, LateAnswer
  <2> QED
    BY <1>3, <2>1, <2>2, BrokenStep
<1>4. CASE Check
  <2>1. worker.place = "Check" /\ UNCHANGED <<module, line>>
        /\ (Broken \/ (worker'.step = worker.step /\ worker'.place \in {"Mark", "Write"}))
    BY <1>4, CheckForm
  <2> QED
    BY <1>3, <2>1, SameLine
<1>5. CASE MarkSubmission
  <2>1. worker.place = "Mark" /\ UNCHANGED <<module, line>> /\ worker'.step = worker.step
        /\ worker'.place = "Write"
    BY <1>5, MarkForm
  <2> QED
    BY <2>1, SameLine
<1>6. CASE ReadFails
  <2>1. worker.place = "Read" /\ Broken /\ UNCHANGED line
    BY <1>6, ReadFailsForm
  <2> QED
    BY <1>3, <2>1
<1>7. CASE Read
  <2>1. /\ worker.place = "Read" /\ 1 \in 1..Len(line) /\ Len(line') = Len(line) - 1
        /\ line \in Seq(Answer) /\ \A i \in 1..Len(line') : line'[i] = line[i + 1]
        /\ UNCHANGED device
    BY <1>7, ReadForm
  <2>2. ~InCleanup => Len(line') = 0
    BY <1>1, <2>1, AtMostOne
  <2>3. CASE Broken
    <3>1. CASE worker'.place = "Left"
      BY <3>1, NoLine
    <3>2. CASE worker'.step = "Restore" /\ worker.step \in Switched
      <4>1. Len(line') \in 0..1
        BY <2>2, <3>2 DEF InCleanup, Switched
      <4> QED
        BY <3>2, <4>1, LateAnswer
    <3> QED
      BY <2>3, <3>1, <3>2, BrokenStep
  <2>4. ASSUME NEW a, NEW n, Continues(a, n) PROVE LineInv'
    <3>1. Follows(n)
          /\ \/ worker'.place = "Check" /\ worker'.step = n /\ n # "End"
             \/ worker'.place = "Left" /\ worker'.step = worker.step
      BY <2>4, ContinuesMoves DEF Continues
    <3>2. CASE worker'.place = "Left"
      BY <3>2, NoLine
    <3>3. CASE worker'.place = "Check" /\ ~InCleanup
      BY <2>2, <3>3, NoLine
    <3>4. CASE worker'.place = "Check" /\ worker'.step = n /\ n # "End" /\ InCleanup
      <4>1. worker.step = "Restore" /\ n = "RestoreCheck"
        BY <3>1, <3>4 DEF InCleanup, Follows
      <4>2. ASSUME NEW i \in 1..Len(line') PROVE line'[i].form # "CPMS"
        <5> DEFINE j == i + 1
        <5>1. j \in 1..Len(line) /\ j > 1 /\ line'[i] = line[j]
          BY <1>1, <2>1
        <5> HIDE DEF j
        <5>2. line[j].form \in {"Bare", "Error"}
          BY <2>1, <4>1, <5>1 DEF LineInv
        <5> QED
          BY <5>1, <5>2
      <4>3. InCleanup' /\ worker'.step = "RestoreCheck"
        BY <3>4, <4>1 DEF InCleanup
      <4> QED
        BY <4>2, <4>3 DEF LineInv
    <3> QED
      BY <3>1, <3>2, <3>3, <3>4
  <2> QED
    BY <1>7, <2>3, <2>4, ReadForm
<1>8. CASE Write
  <2>1. worker.place = "Write" /\ Written(worker.step)
        /\ (Broken \/ (worker'.step = worker.step /\ worker'.place = "Read"))
    BY <1>8, WritingForm
  <2>2. /\ ~InCleanup => Len(line) = 0
        /\ worker.step = "Restore" => \A i \in 1..Len(line) : i > 1 => line[i].form \in {"Bare", "Error"}
        /\ worker.step = "RestoreCheck" =>
             \A i \in 1..Len(line) : line[i].form = "CPMS" => line[i].value = module.holder
    BY <2>1 DEF LineInv
  <2>3. worker.step \notin {"Select", "Restore"} => module'.holder = module.holder
    BY <2>1 DEF Written
  <2>4. worker.step = "Delete" => module.record # "Gone"
    BY <2>1 DEF DeleteInv
  <2>5. CASE line' = line
    <3>1. CASE Broken
      BY <1>3, <2>1, <2>5, <3>1
    <3>2. CASE worker'.step = worker.step /\ worker'.place = "Read"
      <4>1. CASE ~InCleanup
        <5>1. ~InCleanup' /\ 1..Len(line') = {} /\ Len(line') = 0
          BY <2>2, <2>5, <3>2, <4>1 DEF InCleanup
        <5> QED
          BY <3>2, <5>1 DEF LineInv, InCleanup
      <4>2. CASE InCleanup
        <5>1. InCleanup'
          BY <3>2, <4>2 DEF InCleanup
        <5> QED
          BY <2>2, <2>3, <2>5, <3>2, <5>1 DEF LineInv
      <4> QED
        BY <4>1, <4>2
    <3> QED
      BY <2>1, <3>1, <3>2
  <2>6. ASSUME NEW e \in Answer, line' = Append(line, e), e \in {Lines(worker.step), Rejection},
               worker.step = "Delete" /\ e = Lines(worker.step) => module'.record = "Gone",
               worker.step = "Body" /\ e = Lines(worker.step) => module'.accepted = 1,
               e = Rejection => module' = module
        PROVE  LineInv'
    <3>1. /\ Len(line') = Len(line) + 1 /\ line'[Len(line) + 1] = e
          /\ \A i \in 1..Len(line) : line'[i] = line[i]
      BY <2>6
    <3>2. CASE worker'.place = "Left"
      BY <3>2, NoLine
    <3>3. CASE worker'.step = "Restore" /\ worker.step \in Switched
      <4>1. Len(line') \in 0..1
        BY <2>2, <3>1, <3>3 DEF InCleanup, Switched
      <4> QED
        BY <3>3, <4>1, LateAnswer
    <3>4. CASE worker'.step = worker.step /\ worker'.place = "Read" /\ ~InCleanup
      <4>1. Len(line') = 1 /\ line'[1] = e /\ ~InCleanup'
        BY <2>2, <3>1, <3>4 DEF InCleanup
      <4>2. Says(e)'
        <5>1. worker.step = "Storage" /\ e.form = "CPMS" => e.value = module'.holder
          BY <2>3, <2>6, LinesForm
        <5>2. worker.step = "Body" /\ e.form = "CMGS" => module'.accepted = 1
          BY <2>6, LinesForm
        <5>3. worker.step = "Delete" => /\ e.form = "Bare" => module'.record = "Gone"
                                        /\ e.form = "Error" => module'.record # "Gone"
          BY <2>4, <2>6, LinesForm
        <5> QED
          BY <3>4, <5>1, <5>2, <5>3 DEF Says
      <4>3. \A i \in 1..Len(line') : line'[i] = e
        BY <4>1
      <4>4. worker'.step \notin {"Restore", "RestoreCheck"}
        BY <4>1 DEF InCleanup
      <4>5. Len(line') <= 1
        BY <4>1
      <4>6. \A i \in 1..Len(line') :
              /\ worker'.step = "Storage" /\ line'[i].form = "CPMS" => line'[i].value = module'.holder
              /\ worker'.step = "Body" /\ line'[i].form = "CMGS" => module'.accepted = 1
              /\ worker'.step = "Delete" =>
                   /\ line'[i].form = "Bare" => module'.record = "Gone"
                   /\ line'[i].form = "Error" => module'.record # "Gone"
        BY <4>2, <4>3 DEF Says
      <4> QED
        BY <3>4, <4>4, <4>5, <4>6 DEF LineInv, Says
    <3>5. CASE worker'.step = worker.step /\ worker'.place = "Read" /\ InCleanup
      <4>1. InCleanup'
        BY <3>5 DEF InCleanup
      <4>2. ASSUME NEW i \in 1..Len(line')
            PROVE  (i \in 1..Len(line) /\ line'[i] = line[i]) \/ line'[i] = e
        BY <1>1, <3>1
      <4>3. worker.step = "Restore" => e.form \in {"Bare", "Error"}
        BY <2>6, LinesForm
      <4>4. worker.step = "RestoreCheck" /\ e.form = "CPMS" => e.value = module.holder
        BY <2>6, LinesForm
      <4> QED
        BY <2>2, <2>3, <3>5, <4>1, <4>2, <4>3, <4>4 DEF LineInv
    <3> QED
      BY <2>1, <3>2, <3>3, <3>4, <3>5, BrokenStep
  <2> QED
    BY <2>1, <2>5, <2>6 DEF Written
<1> QED
  BY <1>2, <1>4, <1>5, <1>6, <1>7, <1>8 DEF Next, Worker

-----------------------------------------------------------------------------
(* The submission *)

LEMMA SendKept ==
  ASSUME SendInv, SubmittedIsReal, UNCHANGED <<job, receipt>>,
         \/ module'.accepted = module.accepted
         \/ /\ worker.step = "Body" /\ worker'.place \in {"Read", "Left"} /\ module'.accepted = 1,
         worker'.step = worker.step \/ worker.step # "Body",
         worker.place \in {"Read", "Left"} /\ worker'.step = "Body" /\ worker.step = "Body" =>
           worker'.place \in {"Read", "Left"},
         job.kind = "Send" /\ result' = "Ok" => result = "Ok" \/ module'.accepted = 1
  PROVE  SendInv' /\ SubmittedIsReal'
<1>1. module.accepted = 1 => module'.accepted = 1
  OBVIOUS
<1>2. SubmittedIsReal'
  BY <1>1 DEF SubmittedIsReal
<1>3. worker'.step # "Body" \/ worker'.place \notin {"Read", "Left"} => module'.accepted = 0
  BY DEF SendInv
<1>4. job.kind = "Send" /\ result' = "Ok" => module'.accepted = 1
  BY <1>1 DEF SendInv
<1> QED
  BY <1>2, <1>3, <1>4 DEF SendInv

LEMMA SendStep ==
  ASSUME SmsTypes, LineInv, SendInv, SubmittedIsReal, StorageInv, line \in Seq(Answer), Next
  PROVE  SendInv' /\ SubmittedIsReal'
<1>1. CASE Stop \/ (\E c \in Card : SwapCard(c)) \/ Caller
  <2>1. Outside
    BY <1>1, OutsideForm
  <2>2. SendInv'
    BY <2>1 DEF Outside, SendInv
  <2>3. CASE Reporting
    <3>1. PICK o \in Outcome \ {"None"} :
            receipt' = Classify(o) /\ (result = o \/ o = "Broken")
      BY <2>3 DEF Reporting
    <3>2. job.kind \in {"Send", "History", "Delete"}
      BY Types
    <3>3. job.kind = "Send" /\ Classify(o) = "Submitted" => o = "Ok"
      BY <3>2, ClassifyForm
    <3>4. SubmittedIsReal'
      BY <2>1, <3>1, <3>3 DEF Outside, SendInv, SubmittedIsReal
    <3> QED
      BY <2>2, <3>4
  <2>4. CASE UNCHANGED receipt
    BY <2>1, <2>2, <2>4 DEF Outside, SubmittedIsReal
  <2> QED
    BY <1>1, <2>3, <2>4, OutsideForm
<1>2. ASSUME Broken
      PROVE  /\ result' = "Ok" => result = "Ok"
             /\ worker'.step = worker.step \/ worker.step # "Body"
             /\ worker'.step = "Body" => worker'.place = "Left"
  <2>1. result' = "Ok" => result = "Ok"
    BY <1>2 DEF Broken, Restores
  <2> QED
    BY <1>2, <2>1, BrokenStep DEF Switched
<1>3. CASE Check
  <2>1. worker.place = "Check" /\ UNCHANGED <<job, module, receipt>>
        /\ (Broken \/ (worker'.step = worker.step /\ UNCHANGED result))
    BY <1>3, CheckForm DEF waiting
  <2> QED
    BY <1>2, <2>1, SendKept
<1>4. CASE MarkSubmission
  <2>1. worker.place = "Mark" /\ UNCHANGED <<job, module, receipt, result>>
        /\ worker'.step = worker.step
    BY <1>4, MarkForm DEF waiting
  <2> QED
    BY <2>1, SendKept
<1>5. CASE ReadFails
  <2>1. UNCHANGED <<job, module, receipt>> /\ Broken
    BY <1>5, ReadFailsForm DEF waiting
  <2> QED
    BY <1>2, <2>1, SendKept
<1>6. CASE Write
  <2>1. /\ Written(worker.step) /\ UNCHANGED <<job, receipt>> /\ worker.place = "Write"
        /\ \/ worker'.step = worker.step /\ worker'.place = "Read" /\ UNCHANGED result
           \/ Broken
    BY <1>6, WritingForm DEF waiting
  <2>2. module'.accepted = module.accepted \/ (worker.step = "Body" /\ module'.accepted = 1)
    BY <2>1 DEF Written
  <2>3. worker.step = "Body" => worker'.place \in {"Read", "Left"}
    BY <1>2, <2>1, BrokenStep DEF Switched
  <2> QED
    BY <1>2, <2>1, <2>2, <2>3, SendKept
<1>7. CASE Read
  <2>1. /\ worker.place = "Read" /\ 1 \in 1..Len(line)
        /\ UNCHANGED <<job, module, receipt>>
    BY <1>7, ReadForm DEF device, waiting
  <2>2. CASE Broken
    BY <1>2, <2>1, <2>2, SendKept
  <2>3. ASSUME NEW n, Continues(line[1], n)
        PROVE  SendInv' /\ SubmittedIsReal'
    <3>1. worker.step = "Body" => worker'.step = "Body" /\ worker'.place = "Left"
      BY <2>3, ContinuesMoves DEF Continues, Follows
    <3>2. job.kind = "Send" /\ result' = "Ok" => result = "Ok" \/ module.accepted = 1
      <4> SUFFICES ASSUME job.kind = "Send", result' = "Ok", result # "Ok"
                   PROVE  module.accepted = 1
        OBVIOUS
      <4>1. n = "End" /\ (worker.step = "Body" => line[1].form = "CMGS") /\ Follows(n)
        BY <2>3 DEF Continues, Advances
      <4>2. worker.step \in Early \cup {"SimAgain", "Prompt", "Body"}
        BY Types DEF StepsOf
      <4>3. worker.step = "Body"
        BY <4>1, <4>2 DEF Follows, Early
      <4>4. Says(line[1])
        BY <2>1, <4>3 DEF LineInv, InCleanup
      <4> QED
        BY <4>1, <4>3, <4>4 DEF Says
    <3> QED
      BY <2>1, <3>1, <3>2, SendKept
  <2> QED
    BY <1>7, <2>2, <2>3, ReadForm
<1> QED
  BY <1>1, <1>3, <1>4, <1>5, <1>6, <1>7 DEF Next, Worker

-----------------------------------------------------------------------------
(* The deletion *)

LEMMA DeleteKept ==
  ASSUME SmsTypes, DeleteInv, DeleteReportIsTrue, UNCHANGED <<job, receipt>>,
         worker.place # "Left",
         \/ module'.record = module.record
         \/ worker.step = "Delete" /\ worker.place = "Write" /\ module'.record = "Gone",
         marked => marked', job.kind = "Delete" /\ marked' => marked \/ running,
         worker'.step = worker.step \/ worker.step # "Delete",
         worker'.step = "Delete" =>
           \/ worker'.place = "Left"
           \/ worker'.place = "Check" /\ worker.step # "Delete"
           \/ worker.place = "Check" /\ worker'.place = "Write" /\ marked'
           \/ worker.step = "Delete" /\ worker.place = "Write" /\ worker'.place = "Read",
         job.kind = "Delete" /\ result' = "Ok" => module'.record = "Gone",
         job.kind = "Delete" /\ result' \in {"Refused", "Rejected"} => module'.record # "Gone"
  PROVE  DeleteInv' /\ DeleteReportIsTrue'
<1>1. worker'.step # "Delete" \/ worker'.place \notin {"Read", "Left"} => module'.record # "Gone"
  BY DEF DeleteInv
<1>2. ~marked' => /\ worker'.step = "Delete" => worker'.place \in {"Check", "Left"}
                  /\ module'.record # "Gone"
  BY DEF DeleteInv
<1>3. job.kind = "Delete" /\ receipt \in {"Failed", "NotAttempted"} => ~marked'
  BY DEF DeleteInv, SmsTypes
<1>4. DeleteInv'
  BY <1>1, <1>2, <1>3 DEF DeleteInv
<1>5. DeleteReportIsTrue'
  BY <1>2, <1>3 DEF DeleteReportIsTrue
<1> QED
  BY <1>4, <1>5

LEMMA DeleteStep ==
  ASSUME SmsTypes, LineInv, SendInv, DeleteInv, DeleteReportIsTrue, StorageInv,
         line \in Seq(Answer), Next
  PROVE  DeleteInv' /\ DeleteReportIsTrue'
<1>1. worker.place # "Left" => result = "None"
  BY DEF SmsTypes
<1>2. worker.step = "Body" => job.kind = "Send"
  BY Types DEF StepsOf, Early
<1>3. CASE Stop \/ (\E c \in Card : SwapCard(c)) \/ Caller
  <2>1. Outside
    BY <1>3, OutsideForm
  <2>2. /\ worker'.step # "Delete" \/ worker'.place \notin {"Read", "Left"} => module'.record # "Gone"
        /\ ~marked' => /\ worker'.step = "Delete" => worker'.place \in {"Check", "Left"}
                       /\ module'.record # "Gone"
        /\ job'.kind = "Delete" => /\ result' = "Ok" => module'.record = "Gone"
                                   /\ result' \in {"Refused", "Rejected"} => module'.record # "Gone"
    BY <2>1 DEF Outside, DeleteInv
  <2>3. CASE Reporting
    <3>1. PICK o \in Outcome \ {"None"} :
            receipt' = Classify(o) /\ (result = o \/ o = "Broken")
      BY <2>3 DEF Reporting
    <3>2. job.kind \in {"Send", "History", "Delete"}
      BY Types
    <3>3. /\ job.kind = "Delete" /\ Classify(o) = "Deleted" => o = "Ok"
          /\ job.kind = "Delete" /\ Classify(o) \in {"Failed", "NotAttempted"} =>
               o \in {"Refused", "Rejected"} \/ (o = "Broken" /\ ~marked)
      BY <3>2, ClassifyForm
    <3>4. job.kind = "Delete" /\ receipt' \in {"Failed", "NotAttempted"} =>
            module.record # "Gone" /\ (worker.place = "Left" \/ ~marked)
      BY <1>1, <3>1, <3>3 DEF DeleteInv
    <3>5. job.kind = "Delete" /\ receipt' = "Deleted" => module.record = "Gone"
      BY <3>1, <3>3 DEF DeleteInv
    <3>6. DeleteReportIsTrue'
      BY <2>1, <3>4, <3>5 DEF Outside, DeleteReportIsTrue
    <3>7. DeleteInv'
      BY <2>1, <2>2, <3>4 DEF Outside, DeleteInv
    <3> QED
      BY <3>6, <3>7
  <2>4. CASE UNCHANGED receipt
    BY <2>1, <2>2, <2>4 DEF Outside, DeleteInv, DeleteReportIsTrue
  <2> QED
    BY <1>3, <2>3, <2>4, OutsideForm
<1>4. ASSUME Broken
      PROVE  /\ result' = "Ok" => result = "Ok"
             /\ worker'.step = worker.step \/ worker.step # "Delete"
             /\ worker'.step = "Delete" => worker'.place = "Left"
  <2>1. result' = "Ok" => result = "Ok"
    BY <1>4 DEF Broken, Restores
  <2> QED
    BY <1>4, <2>1, BrokenStep DEF Switched
<1>5. CASE Check
  <2>1. /\ worker.place = "Check" /\ UNCHANGED <<job, module, receipt>>
        /\ \/ Broken /\ UNCHANGED marked
           \/ /\ worker'.step = worker.step /\ UNCHANGED result /\ running
              /\ worker'.place = (IF worker.step = "Body" THEN "Mark" ELSE "Write")
              /\ marked' = (marked \/ worker.step = "Delete")
    BY <1>5, CheckForm DEF waiting
  <2>2. module.record # "Gone" /\ result = "None"
    BY <1>1, <2>1 DEF DeleteInv
  <2>3. CASE Broken /\ UNCHANGED marked
    BY <1>4, <2>1, <2>2, <2>3, DeleteKept
  <2>4. CASE /\ worker'.step = worker.step /\ UNCHANGED result /\ running
             /\ worker'.place = (IF worker.step = "Body" THEN "Mark" ELSE "Write")
             /\ marked' = (marked \/ worker.step = "Delete")
    BY <2>1, <2>2, <2>4, DeleteKept
  <2> QED
    BY <2>1, <2>3, <2>4
<1>6. CASE MarkSubmission
  <2>1. worker.place = "Mark" /\ UNCHANGED <<job, module, receipt, result>>
        /\ worker'.step = worker.step /\ marked' /\ worker.step = "Body"
    BY <1>6, MarkForm DEF waiting
  <2> QED
    BY <1>1, <1>2, <2>1, DeleteKept
<1>7. CASE ReadFails
  <2>1. UNCHANGED <<job, module, receipt, marked>> /\ Broken /\ worker.place = "Read"
        /\ (result' \in {"Refused", "Rejected"} => UNCHANGED result)
    BY <1>7, ReadFailsForm DEF waiting
  <2> QED
    BY <1>1, <1>4, <2>1, DeleteKept
<1>8. CASE Write
  <2>1. /\ Written(worker.step) /\ UNCHANGED <<job, receipt, marked>> /\ worker.place = "Write"
        /\ \/ worker'.step = worker.step /\ worker'.place = "Read" /\ UNCHANGED result
           \/ Broken /\ (result' \in {"Refused", "Rejected"} => UNCHANGED result)
    BY <1>8, WritingForm DEF waiting
  <2>2. module'.record = module.record \/ (worker.step = "Delete" /\ module'.record = "Gone")
    BY <2>1 DEF Written
  <2> QED
    BY <1>1, <1>4, <2>1, <2>2, DeleteKept
<1>9. CASE Read
  <2>1. /\ worker.place = "Read" /\ 1 \in 1..Len(line)
        /\ UNCHANGED <<job, module, receipt, marked>>
    BY <1>9, ReadForm DEF device, waiting
  <2>2. worker.step = "Delete" => Says(line[1])
    BY <2>1 DEF LineInv, InCleanup
  <2>3. CASE /\ Broken
             /\ result' = "Rejected" => line[1].form = "Error" \/ UNCHANGED result
             /\ result' = "Refused" => worker.step # "Delete" \/ UNCHANGED result
    <3>1. result' \in {"Refused", "Rejected"} => module.record # "Gone"
      BY <1>1, <2>1, <2>2, <2>3 DEF DeleteInv, Says
    <3> QED
      BY <1>1, <1>4, <2>1, <2>3, <3>1, DeleteKept
  <2>4. ASSUME NEW n, Continues(line[1], n), Fits(worker.step, line[1])
        PROVE  DeleteInv' /\ DeleteReportIsTrue'
    <3>1. /\ Follows(n)
          /\ \/ worker'.place = "Check" /\ worker'.step = n /\ n # "End"
             \/ worker'.place = "Left" /\ worker'.step = worker.step
      BY <2>4, ContinuesMoves DEF Continues
    <3>2. worker'.step # worker.step => worker.step # "Delete"
      BY <3>1 DEF Follows
    <3>3. worker'.place = "Check" => worker.step # "Delete"
      BY <3>1 DEF Follows
    <3>4. result' \notin {"Refused", "Rejected"}
      BY <1>1, <2>1, <2>4 DEF Continues, Advances
    <3>5. job.kind = "Delete" /\ result' = "Ok" => module.record = "Gone"
      <4> SUFFICES ASSUME job.kind = "Delete", result' = "Ok" PROVE module.record = "Gone"
        OBVIOUS
      <4>1. n = "End"
        BY <1>1, <2>1, <2>4 DEF Continues, Advances
      <4>2. worker.step \in Early \cup {"Storage", "Record", "SimAgain", "Delete"}
        BY Types DEF StepsOf
      <4>3. worker.step = "Delete"
        BY <3>1, <4>1, <4>2 DEF Follows, Early
      <4>4. line[1].form = "Bare"
        BY <2>4, <4>3 DEF Fits
      <4> QED
        BY <2>2, <4>3, <4>4 DEF Says
    <3> QED
      BY <2>1, <3>1, <3>2, <3>3, <3>4, <3>5, DeleteKept
  <2> QED
    BY <1>9, <2>3, <2>4, ReadForm
<1> QED
  BY <1>3, <1>5, <1>6, <1>7, <1>8, <1>9 DEF Next, Worker

-----------------------------------------------------------------------------
(* The storage *)

\* A step that goes on with its command, or fails.
LEMMA StorageKept ==
  ASSUME SmsTypes, StorageInv, worker.place # "Left", UNCHANGED <<job, memory, receipt>>,
         module'.holder = module.holder \/ worker.step \in {"Select", "Restore"},
         Broken \/ (worker'.step = worker.step /\ UNCHANGED <<restoration, result>>)
  PROVE  StorageInv'
<1>1. restoration' = restoration /\ restoration # "Restored" /\ result = "None"
  BY DEF Broken, Restores, StorageInv, SmsTypes
<1>2. \/ worker'.step = worker.step
      \/ worker'.step = "Restore" /\ restoration = "Unknown"
  <2>1. CASE Restores
    BY <2>1 DEF Restores
  <2>2. CASE Quits
    BY <2>2, QuitsMoves
  <2> QED
    BY <2>1, <2>2 DEF Broken
<1>3. Switching' = Switching
  BY DEF Switching, Asked
<1>4. result' # "Ok" /\ (job.kind = "History" /\ result' \in {"Refused", "Rejected"}
                           => restoration = "NotNeeded")
  BY <1>1 DEF Broken, Restores
<1>5. worker'.step \in Early \cup {"Storage", "Capabilities"} => restoration' = "NotNeeded"
  BY <1>1, <1>2 DEF StorageInv, Early
<1>6. restoration = "NotNeeded" => module'.holder = module.holder /\ worker'.step = worker.step
  BY <1>2 DEF StorageInv, InCleanup
<1>7. restoration' = "NotNeeded" =>
        /\ job'.kind = "History" /\ memory'.original # NoTarget => module'.holder = memory'.original
        /\ worker'.step \notin {"Select", "Verify"} /\ ~InCleanup'
        /\ worker'.step \in {"List", "SimAgain"} /\ job'.kind = "History" => ~Switching'
  BY <1>1, <1>3, <1>6 DEF StorageInv, InCleanup
<1>8. restoration' # "NotNeeded" \/ worker'.step = "Capabilities" => memory'.original # NoTarget
  BY <1>1, <1>2 DEF StorageInv
<1>9. restoration' = "Unknown" => Switching'
  BY <1>1, <1>3 DEF StorageInv
<1>10. job'.kind # "History" => restoration' = "NotNeeded"
  BY <1>1 DEF StorageInv
<1>11. job'.kind = "History" =>
         /\ result' = "Ok" => restoration' # "Unknown"
         /\ result' \in {"Refused", "Rejected"} => restoration' = "NotNeeded"
         /\ receipt' \notin {"None", "Unknown"} => restoration' # "Unknown"
  BY <1>1, <1>4 DEF StorageInv
<1> QED
  BY <1>1, <1>5, <1>7, <1>8, <1>9, <1>10, <1>11 DEF StorageInv

\* An answer is taken: the storage is remembered, switched, or restored.
LEMMA StorageContinues ==
  ASSUME SmsTypes, LineInv, StorageInv, worker.place = "Read", running,
         1 \in 1..Len(line), UNCHANGED <<job, module, receipt>>,
         Fits(worker.step, line[1]), Proves(worker.step, line[1]),
         NEW n, Continues(line[1], n)
  PROVE  StorageInv'
<1>1. /\ Follows(n)
      /\ memory'.original = (IF worker.step = "Storage" THEN line[1].value ELSE memory.original)
      /\ restoration' = IF n = "Select" THEN "Unknown"
                        ELSE IF worker.step = "RestoreCheck" THEN "Restored" ELSE restoration
      /\ \/ worker'.place = "Check" /\ worker'.step = n /\ n # "End" /\ result' = "None"
         \/ /\ worker'.place = "Left" /\ worker'.step = worker.step /\ n = "End"
            /\ result' \in {"Ok", "Broken"}
  <2>1. result = "None"
    BY DEF SmsTypes
  <2>2. CASE Advances(n)
    BY <2>1, <2>2 DEF Continues, Advances
  <2>3. CASE n = "End" /\ Quits /\ result' \in {"Ok", "Broken"}
    <3>1. worker'.place = "Left" /\ worker'.step = worker.step
      BY <2>3, QuitsMoves
    <3> QED
      BY <2>3, <3>1 DEF Continues
  <2> QED
    BY <2>2, <2>3 DEF Continues
<1>2. /\ job.kind \in {"Send", "History", "Delete"} /\ worker.step \in StepsOf(job.kind)
      /\ module.holder \in Holder \cup Known
  BY Types DEF Modules
<1>3. restoration \in {"NotNeeded", "Unknown"} /\ receipt = "None"
  BY DEF SmsTypes, SmsTypeOK, StorageInv
<1>4. /\ worker.step \in Early \cup {"Storage", "Capabilities"} => restoration = "NotNeeded"
      /\ job.kind # "History" => restoration = "NotNeeded"
      /\ restoration = "NotNeeded" =>
           /\ job.kind = "History" /\ memory.original # NoTarget => module.holder = memory.original
           /\ worker.step \notin {"Select", "Verify", "Restore", "RestoreCheck"}
           /\ worker.step \in {"List", "SimAgain"} /\ job.kind = "History" => ~Switching
      /\ restoration = "Unknown" => Switching
      /\ restoration # "NotNeeded" \/ worker.step = "Capabilities" => memory.original # NoTarget
  BY DEF StorageInv, InCleanup
<1>5. ASSUME /\ worker'.step \in Early \cup {"Storage", "Capabilities"} => restoration' = "NotNeeded"
             /\ job.kind # "History" => restoration' = "NotNeeded"
             /\ restoration' = "NotNeeded" =>
                  /\ job.kind = "History" /\ memory'.original # NoTarget
                       => module.holder = memory'.original
                  /\ worker'.step \notin {"Select", "Verify", "Restore", "RestoreCheck"}
                  /\ worker'.step \in {"List", "SimAgain"} /\ job.kind = "History" => ~Switching'
             /\ restoration' = "Restored" => worker'.place = "Left" /\ module.holder = memory'.original
             /\ restoration' = "Unknown" => Switching'
             /\ restoration' # "NotNeeded" \/ worker'.step = "Capabilities" => memory'.original # NoTarget
             /\ job.kind = "History" /\ result' = "Ok" => restoration' # "Unknown"
      PROVE  StorageInv'
  BY <1>1, <1>3, <1>5 DEF StorageInv, InCleanup
<1>6. CASE worker.step = "Storage"
  <2>1. line[1].form = "CPMS"
    BY <1>6 DEF Fits
  <2>2. Says(line[1])
    BY <1>6 DEF LineInv, InCleanup
  <2>3. memory'.original = module.holder /\ module.holder # NoTarget
    BY <1>1, <1>2, <1>6, <2>1, <2>2, SmsAssumption DEF Says, SmsAssumption
  <2>4. n \in {"Sim", "Capabilities"}
    BY <1>1, <1>6 DEF Follows
  <2>5. restoration' = "NotNeeded" /\ worker'.step = n
    BY <1>1, <1>4, <1>6, <2>4
  <2> QED
    BY <1>5, <2>3, <2>4, <2>5
<1>7. ASSUME worker.step # "Storage"
      PROVE  memory'.original = memory.original /\ Switching' = Switching
  <2>1. memory'.original = memory.original
    BY <1>1, <1>7
  <2> QED
    BY <2>1 DEF Switching, Asked
<1>8. CASE worker.step = "Capabilities"
  <2>1. /\ n = IF Switching THEN "Select" ELSE "List"
        /\ restoration = "NotNeeded" /\ memory.original # NoTarget
    BY <1>1, <1>4, <1>8 DEF Follows
  <2>2. memory'.original = memory.original /\ Switching' = Switching /\ job.kind = "History"
    BY <1>2, <1>7, <1>8 DEF StepsOf, Early
  <2>3. worker'.step = n /\ result' = "None"
        /\ restoration' = IF Switching THEN "Unknown" ELSE "NotNeeded"
    BY <1>1, <1>8, <2>1
  <2>4. n \notin Early \cup {"Storage", "Capabilities"}
    BY <2>1 DEF Early
  <2> QED
    BY <1>4, <1>5, <2>1, <2>2, <2>3, <2>4
<1>9. CASE worker.step \in {"Select", "Verify", "Restore"}
  <2>1. restoration = "Unknown" /\ n \in {"Verify", "List", "RestoreCheck"}
    BY <1>1, <1>3, <1>4, <1>9 DEF Follows
  <2>2. restoration' = "Unknown" /\ worker'.step = n /\ result' = "None"
    BY <1>1, <1>9, <2>1
  <2>3. job.kind = "History" /\ n \notin Early \cup {"Storage", "Capabilities"}
    BY <1>4, <2>1 DEF Early
  <2> QED
    BY <1>4, <1>5, <1>7, <1>9, <2>1, <2>2, <2>3
<1>10. CASE worker.step \in {"List", "SimAgain"}
  <2>1. n \in {"SimAgain", "Prompt", "Delete", "Restore", "End"}
    BY <1>1, <1>2, <1>10 DEF Follows
  <2>2. restoration' = restoration /\ worker'.step \notin Early \cup {"Storage", "Capabilities"}
    BY <1>1, <1>10, <2>1 DEF Early
  <2>3. job.kind = "History" =>
          n = IF worker.step = "List" THEN "SimAgain" ELSE IF Switching THEN "Restore" ELSE "End"
    BY <1>1, <1>10 DEF Follows
  <2>4. job.kind # "History" => n \in {"SimAgain", "Prompt", "Delete"}
    BY <1>1, <1>2, <1>10 DEF Follows
  <2>5. restoration = "NotNeeded" => worker'.step \in {"SimAgain", "Prompt", "Delete", "List"}
    BY <1>1, <1>2, <1>4, <1>10, <2>3, <2>4
  <2>6. job.kind = "History" /\ result' = "Ok" => restoration' # "Unknown"
    BY <1>1, <1>4, <2>2, <2>3
  <2>7. memory'.original = memory.original /\ Switching' = Switching
    BY <1>7, <1>10
  <2>8. restoration = "NotNeeded" /\ job.kind = "History" => ~Switching
    BY <1>4, <1>10
  <2> QED
    BY <1>3, <1>4, <1>5, <2>2, <2>5, <2>6, <2>7, <2>8
<1>11. CASE worker.step = "RestoreCheck"
  <2>1. n = "End" /\ restoration = "Unknown" /\ memory.original # NoTarget
    BY <1>1, <1>3, <1>4, <1>11 DEF Follows
  <2>2. line[1].form = "CPMS" /\ line[1].value = memory.original
    BY <1>11 DEF Fits, Proves
  <2>3. module.holder = memory.original
    BY <1>11, <2>2 DEF LineInv
  <2>4. restoration' = "Restored" /\ worker'.place = "Left" /\ worker'.step = "RestoreCheck"
    BY <1>1, <1>11, <2>1
  <2>5. job.kind = "History"
    BY <1>4, <2>1
  <2>6. worker'.step \notin Early \cup {"Storage", "Capabilities"}
    BY <2>4 DEF Early
  <2> QED
    BY <1>5, <1>7, <1>11, <2>1, <2>3, <2>4, <2>5, <2>6
<1>12. CASE worker.step \in Early \cup {"Record", "Prompt", "Body", "Delete"} /\ worker.step # "SimAgain"
  <2>1. /\ n \in Early \cup {"Record", "Storage", "SimAgain", "Prompt", "Body", "End"}
        /\ n = "End" => worker.step \in {"Body", "Delete"}
        /\ n = "SimAgain" => worker.step = "Record" \/ job.kind = "Send"
    BY <1>1, <1>2, <1>12 DEF Follows, Early
  <2>2. /\ worker.step \in {"Record", "Delete"} => job.kind = "Delete"
        /\ worker.step \in {"Prompt", "Body"} => job.kind = "Send"
    BY <1>2 DEF StepsOf, Early
  <2>3. restoration = "NotNeeded"
    BY <1>4, <1>12, <2>2
  <2>4. restoration' = "NotNeeded"
    BY <1>1, <1>12, <2>1, <2>3 DEF Early
  <2>5. /\ worker'.step \notin {"Select", "Verify", "Restore", "RestoreCheck", "Capabilities"}
        /\ ~(worker'.step \in {"List", "SimAgain"} /\ job.kind = "History")
    BY <1>1, <1>12, <2>1, <2>2 DEF Early
  <2>6. memory'.original = memory.original
    BY <1>7, <1>12 DEF Early
  <2> QED
    BY <1>4, <1>5, <2>3, <2>4, <2>5, <2>6
<1> QED
  BY <1>2, <1>6, <1>8, <1>9, <1>10, <1>11, <1>12, Types DEF Step, Early

LEMMA StorageStep ==
  ASSUME SmsTypes, LineInv, SendInv, StorageInv, line \in Seq(Answer), Next
  PROVE  StorageInv'
<1>1. CASE Stop \/ (\E c \in Card : SwapCard(c)) \/ Caller
  <2>1. Outside
    BY <1>1, OutsideForm
  <2>2. Switching' = Switching /\ InCleanup' = InCleanup
    BY <2>1 DEF Outside, Switching, Asked, InCleanup
  <2>3. job.kind = "History" /\ receipt' \notin {"None", "Unknown"} => restoration # "Unknown"
    <3>1. CASE Reporting
      <4>1. PICK o \in Outcome \ {"None"} :
              receipt' = Classify(o) /\ (result = o \/ o = "Broken")
        BY <3>1 DEF Reporting
      <4>2. job.kind \in {"Send", "History", "Delete"}
        BY Types
      <4>3. job.kind = "History" /\ Classify(o) # "Unknown" =>
              o \in {"Ok", "Refused", "Rejected"} \/ (o = "Broken" /\ restoration # "Unknown")
        BY <4>2, ClassifyForm
      <4> QED
        BY <4>1, <4>3 DEF StorageInv
    <3>2. CASE UNCHANGED receipt
      BY <3>2 DEF StorageInv
    <3> QED
      BY <1>1, <3>1, <3>2, OutsideForm
  <2> QED
    BY <2>1, <2>2, <2>3 DEF Outside, StorageInv
<1>2. CASE Check
  <2>1. worker.place # "Left" /\ UNCHANGED <<job, module, memory, receipt>>
        /\ (Broken \/ (worker'.step = worker.step /\ UNCHANGED <<restoration, result>>))
    BY <1>2, CheckForm DEF waiting
  <2> QED
    BY <2>1, StorageKept
<1>3. CASE MarkSubmission
  <2>1. worker.place # "Left" /\ UNCHANGED <<job, module, memory, receipt, restoration, result>>
        /\ worker'.step = worker.step
    BY <1>3, MarkForm DEF waiting
  <2> QED
    BY <2>1, StorageKept
<1>4. CASE Write
  <2>1. worker.place # "Left" /\ UNCHANGED <<job, memory, receipt>> /\ Written(worker.step)
        /\ (Broken \/ (worker'.step = worker.step /\ UNCHANGED <<restoration, result>>))
    BY <1>4, WritingForm DEF waiting
  <2>2. module'.holder = module.holder \/ worker.step \in {"Select", "Restore"}
    BY <2>1 DEF Written
  <2> QED
    BY <2>1, <2>2, StorageKept
<1>5. CASE ReadFails
  <2>1. worker.place # "Left" /\ UNCHANGED <<job, module, memory, receipt>> /\ Broken
    BY <1>5, ReadFailsForm DEF waiting
  <2> QED
    BY <2>1, StorageKept
<1>6. CASE Read
  <2>1. /\ worker.place = "Read" /\ running /\ 1 \in 1..Len(line)
        /\ UNCHANGED <<job, module, receipt>>
    BY <1>6, ReadForm DEF device, waiting
  <2>2. CASE Broken /\ UNCHANGED memory
    BY <2>1, <2>2, StorageKept
  <2>3. CASE /\ Fits(worker.step, line[1]) /\ Proves(worker.step, line[1])
             /\ Continues(line[1], NextStep(worker.step, line[1]))
    BY <2>1, <2>3, StorageContinues
  <2> QED
    BY <1>6, <2>2, <2>3, ReadForm
<1> QED
  BY <1>1, <1>2, <1>3, <1>4, <1>5, <1>6 DEF Next, Worker

-----------------------------------------------------------------------------
(* The end of it *)

LEMMA QuietStep ==
  ASSUME SmsTypes, FreeMeansQuiet, SendInv, StorageInv, line \in Seq(Answer), Next
  PROVE  FreeMeansQuiet'
<1>1. CASE Stop \/ (\E c \in Card : SwapCard(c)) \/ Caller
  <2>1. worker'.place = worker.place
    BY <1>1, OutsideForm DEF Outside
  <2>2. CASE Reporting
    <3>1. cleanup' = (worker.place # "Left")
      BY <2>2 DEF Reporting
    <3> QED
      BY <2>1, <3>1 DEF FreeMeansQuiet
  <2>3. CASE UNCHANGED <<receipt, cleanup>>
    BY <2>1, <2>3 DEF FreeMeansQuiet
  <2>4. CASE worker.place = "Left"
    BY <2>1, <2>4 DEF FreeMeansQuiet
  <2> QED
    BY <1>1, <2>2, <2>3, <2>4, OutsideForm
<1>2. CASE Worker
  <2>1. worker.place # "Left" /\ UNCHANGED waiting
    BY <1>2, CheckForm, MarkForm, WritingForm, ReadForm, ReadFailsForm DEF Worker
  <2> QED
    BY <2>1 DEF FreeMeansQuiet, waiting
<1> QED
  BY <1>1, <1>2 DEF Next

-----------------------------------------------------------------------------
(* The invariant holds in every behaviour *)

LEMMA InitInvariant ==
  ASSUME Init
  PROVE  SmsInv
<1>1. /\ job \in [kind : Kinds, target : Target \cup {NoTarget}]
      /\ job.kind = "Send" => job.target = NoTarget
      /\ job.kind = "Delete" => job.target # NoTarget
      /\ module \in [card : Card, pdu : BOOLEAN, holder : Holder, record : {"Expected", "Other"},
                     accepted : {0}]
      /\ line = <<>> /\ stopped = FALSE /\ marked = FALSE /\ restoration = "NotNeeded"
      /\ running = TRUE /\ worker = [step |-> "AT", place |-> "Check", aborted |-> FALSE]
      /\ memory = [original |-> NoTarget, listed |-> FALSE] /\ proofs = <<>>
      /\ result = "None" /\ caller = "Waiting" /\ receipt = "None" /\ cleanup = FALSE
  BY DEF Init
<1>2. /\ module \in Modules /\ module.accepted = 0 /\ module.record # "Gone"
  <2>1. 0 \in 0..1
    OBVIOUS
  <2> QED
    BY <1>1, <2>1 DEF Modules
<1>3. /\ worker \in Workers /\ worker.step = "AT" /\ worker.place = "Check"
      /\ worker.step \in StepsOf(job.kind)
  <2>1. "AT" \in Step /\ "Check" \in Place /\ FALSE \in BOOLEAN
    BY DEF Step, Place
  <2> QED
    BY <1>1, <2>1 DEF Workers, StepsOf, Early
<1>4. memory.original = NoTarget /\ memory.listed = FALSE
  BY <1>1
<1>5. SmsTypeOK
  BY <1>1, <1>2, <1>3 DEF SmsTypeOK, Modules, Workers, Outcome, Receipt
<1>6. SmsTypes
  BY <1>1, <1>3, <1>4, <1>5 DEF SmsTypes
<1>7. line \in Seq(Answer) /\ LineInv
  <2>1. line \in Seq(Answer) /\ Len(line) = 0
    BY <1>1
  <2>2. 1..Len(line) = {}
    BY <2>1
  <2> QED
    BY <1>3, <2>1, <2>2 DEF LineInv, InCleanup
<1>8. ProofInv
  <2>1. proofs \in Seq(Fact) /\ Len(proofs) = 0
    BY <1>1
  <2>2. Needed = 0
    BY <1>3 DEF Needed
  <2> QED
    BY <2>1, <2>2 DEF ProofInv
<1>9. SendInv /\ SubmittedIsReal /\ DeleteInv /\ DeleteReportIsTrue
  BY <1>1, <1>2, <1>3 DEF SendInv, SubmittedIsReal, DeleteInv, DeleteReportIsTrue
<1>10. StorageInv /\ FreeMeansQuiet
  BY <1>1, <1>3, <1>4 DEF StorageInv, FreeMeansQuiet, InCleanup
<1> QED
  BY <1>6, <1>7, <1>8, <1>9, <1>10 DEF SmsInv

LEMMA StutterInvariant ==
  ASSUME SmsInv, UNCHANGED vars
  PROVE  SmsInv'
<1>1. UNCHANGED <<job, module, line, stopped, marked, restoration, running, worker, memory, result,
                  caller, receipt, cleanup, swaps, proofs>>
  BY DEF vars, device, control, session, script, waiting
<1>2. SmsTypes' /\ (line \in Seq(Answer))'
  BY <1>1 DEF SmsInv, SmsTypes, SmsTypeOK
<1>3. LineInv'
  BY <1>1 DEF SmsInv, LineInv, Says, InCleanup
<1>4. ProofInv'
  BY <1>1 DEF SmsInv, ProofInv, Needed, ProvenFirst
<1>5. SendInv' /\ SubmittedIsReal' /\ DeleteInv' /\ DeleteReportIsTrue'
  BY <1>1 DEF SmsInv, SendInv, SubmittedIsReal, DeleteInv, DeleteReportIsTrue
<1>6. StorageInv' /\ FreeMeansQuiet'
  BY <1>1 DEF SmsInv, StorageInv, FreeMeansQuiet, InCleanup, Switching, Asked
<1> QED
  BY <1>2, <1>3, <1>4, <1>5, <1>6 DEF SmsInv

LEMMA StepInvariant ==
  ASSUME SmsInv, Next
  PROVE  SmsInv'
<1>1. /\ SmsTypes /\ line \in Seq(Answer) /\ LineInv /\ ProofInv
      /\ SendInv /\ SubmittedIsReal /\ DeleteInv /\ DeleteReportIsTrue
      /\ StorageInv /\ FreeMeansQuiet
  BY DEF SmsInv
<1>2. SmsTypes' /\ (line \in Seq(Answer))'
  BY <1>1, TypeStep
<1>3. LineInv'
  BY <1>1, LineStep
<1>4. ProofInv'
  BY <1>1, ProofStep
<1>5. SendInv' /\ SubmittedIsReal'
  BY <1>1, SendStep
<1>6. DeleteInv' /\ DeleteReportIsTrue'
  BY <1>1, DeleteStep
<1>7. StorageInv' /\ FreeMeansQuiet'
  BY <1>1, StorageStep, QuietStep
<1> QED
  BY <1>2, <1>3, <1>4, <1>5, <1>6, <1>7 DEF SmsInv

LEMMA Invariance == Spec => []SmsInv
<1>1. Init => SmsInv
  BY InitInvariant
<1>2. SmsInv /\ [Next]_vars => SmsInv'
  BY StepInvariant, StutterInvariant
<1> QED
  BY <1>1, <1>2, PTL DEF Spec

-----------------------------------------------------------------------------

\* Every state of a transaction has its types: the module has taken at most one
\* submission, and the script is at one of its steps.
THEOREM SmsTypeCorrect == Spec => []SmsTypeOK
<1>1. SmsInv => SmsTypeOK
  BY DEF SmsInv, SmsTypes
<1> QED
  BY <1>1, Invariance, PTL

\* verify_sim runs twice, the second time as the last thing before the prompt or
\* AT+CMGD; a deletion has also matched the record in its storage (delete_in_session).
THEOREM CardIsProvenFirst == Spec => []ProvenBeforeEffect
<1>1. SmsInv => ProvenBeforeEffect
  BY ProofsInOrder DEF SmsInv
<1> QED
  BY <1>1, Invariance, PTL

\* A submission is reported as made only on +CMGS, which only the accepted body draws
\* (run_prompt_transaction, execute_prompt_controlled).
THEOREM SubmittedWasTaken == Spec => []SubmittedIsReal
<1>1. SmsInv => SubmittedIsReal
  BY DEF SmsInv
<1> QED
  BY <1>1, Invariance, PTL

\* What close_delete_and_wait reports of the record is so, and stays so: with the
\* attempt marked in the same critical section as the check, a caller that finds it
\* unmarked knows that it will not be made.
THEOREM DeletionIsToldTruly == Spec => []DeleteReportIsTrue
<1>1. SmsInv => DeleteReportIsTrue
  BY DEF SmsInv
<1> QED
  BY <1>1, Invariance, PTL

\* A history read that does not report an uncertain restoration has left the module on
\* the storage it found (list_in_session, restore_storage).
THEOREM StorageIsToldTruly == Spec => []StorageReportIsTrue
<1>1. SmsInv => StorageReportIsTrue
  <2> SUFFICES ASSUME SmsInv, job.kind = "History", receipt \notin {"None", "Unknown"},
                      memory.original # NoTarget
               PROVE  module.holder = memory.original
    BY DEF StorageReportIsTrue
  <2>1. StorageInv /\ restoration \in {"NotNeeded", "Restored", "Unknown"}
    BY DEF SmsInv, SmsTypes, SmsTypeOK
  <2> QED
    BY <2>1 DEF StorageInv
<1> QED
  BY <1>1, Invariance, PTL

\* cleanup_pending is dropped only when the worker has left the port
\* (WorkerCompletion::drop), so the next session meets nothing of this one.
THEOREM PortIsGivenBack == Spec => []FreeMeansQuiet
<1>1. SmsInv => FreeMeansQuiet
  BY DEF SmsInv
<1> QED
  BY <1>1, Invariance, PTL

=============================================================================
