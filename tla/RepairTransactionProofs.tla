---------------------- MODULE RepairTransactionProofs ----------------------
(***************************************************************************)
(* What one confirmed repair guarantees for any number of modules, values  *)
(* and exchanges of the module.  The argument is about the queue of what   *)
(* the port still holds: answers that nobody has read, then commands that  *)
(* nobody has answered.  A session that passes its handshake has read      *)
(* every earlier query out of that queue.                                  *)
(***************************************************************************)
EXTENDS RepairTransaction, SequenceTheorems, TLAPS

-----------------------------------------------------------------------------
(* What the port still holds: the answers nobody has read, then the commands *)
(* nobody has answered, as one queue.                                        *)

Total == Len(outbox) + Len(inbox)
To(i) == IF i <= Len(outbox) THEN outbox[i].to ELSE inbox[i - Len(outbox)].to
OwnAt(i) == IF i <= Len(outbox) THEN outbox[i].own ELSE inbox[i - Len(outbox)].own
Places == 1..Total

\* How often the command in hand was written.
Sent == IF host.sent THEN host.attempt ELSE host.attempt - 1

Early == {"Prepare", "Current", "Rescan"}

-----------------------------------------------------------------------------
(* The inductive invariant *)

PlaceInv ==
  /\ host.phase \in Early \cup {"After"} => host.step # "Write"
  /\ host.phase = "Write" => host.step \in {"AT", "ATI", "Write", "End"}
  /\ host.phase = "Done" => host.step = "End"
  /\ host.step \in {"Query", "Contexts", "Activation"} => host.seen.at
  /\ host.phase \in Early /\ host.step \in {"Scan", "AT", "ATI"} => ~host.seen.at
  /\ InExchange => host.seen.target \in Device
  /\ host.step = "Write" => host.attempt = 1
  /\ device = Absent => inbox = <<>> /\ outbox = <<>>

TargetInv ==
  /\ host.phase \in {"Current", "Rescan", "Write", "After"} => plan.target \in Device
  /\ host.phase = "Rescan" => current.target = plan.target
  /\ host.phase = "Write" => host.seen.target = plan.target
  /\ outcome # "None" => host.phase = "Done"

\* No query waits behind a handshake or a write, but for the one just written in the
\* last session of all: so no late one can pass for the query of another session.
NoQueryBehind ==
  \A i, j \in Places : i < j /\ To(i) \in {"AT", "Write"} /\ To(j) = "Query" =>
    host.phase \in {"After", "Done"} /\ host.step # "Scan" /\ OwnAt(j)

OnlyOwnQueries ==
  host.step \in {"ATI", "Query"} => \A j \in Places : To(j) = "Query" => OwnAt(j)

\* What the handshakes of the first three sessions may leave behind.
HandshakeInv ==
  host.phase \in Early =>
    /\ host.step = "AT" => \A i \in Places : To(i) = "AT" => i > Total - Sent
    /\ host.step = "ATI" => \A i \in Places : To(i) = "AT" => i = 1
    /\ host.step = "Scan" \/ host.seen.at => \A i \in Places : To(i) # "AT"

\* Once the line is out, the write session is over or waits for its answer;
LineOutInv ==
  lineOut => /\ plan.target \in Device /\ host.phase \in {"Write", "After", "Done"}
             /\ host.phase = "Write" => host.step = "End" \/ (host.step = "Write" /\ host.sent)

\* before, there is no write anywhere;
NoLineInv ==
  ~lineOut => (\A d \in Device : writes[d] = 0) /\ (\A i \in Places : To(i) # "Write")

\* and the module has at most the one still to carry out.
PendingInv ==
  /\ \A i \in 1..Len(inbox) : inbox[i].to = "Write" =>
       device = plan.target /\ writes[plan.target] = 0
  /\ \A i, j \in 1..Len(inbox) : inbox[i].to = "Write" /\ inbox[j].to = "Write" => i = j

WriteInv == WrittenOnceOnTarget /\ LineOutInv /\ NoLineInv /\ PendingInv

\* A setting read from a module is the stored one, unless the write came between;
ReadInv ==
  \A i \in 1..Len(outbox) : outbox[i].to = "Query" =>
    outbox[i].value = setting[device] \/ writes[device] = 1

\* the plan's value is the one the module has;
PreparedInv ==
  host.phase = "Prepare" /\ host.seen.value # Unread =>
    host.seen.target \in Device /\ host.seen.value = setting[host.seen.target]

\* the plan's module has the wanted value exactly when the write was carried out,
SettingInv ==
  action = "SetUsbNetProfile" /\ plan.target \in Device =>
    IF writes[plan.target] = 0 THEN setting[plan.target] # Want ELSE setting[plan.target] = Want

\* so that the wanted value, read back, and an outcome of applied show the write.
ReadbackInv ==
  /\ host.phase = "After" /\ action = "SetUsbNetProfile" /\ host.seen.value = Want
  /\ host.seen.target = plan.target
  => writes[plan.target] = 1

AppliedInv ==
  outcome = "Applied" /\ action = "SetUsbNetProfile" =>
    plan.target \in Device /\ writes[plan.target] = 1

ValueInv == ReadInv /\ PreparedInv /\ SettingInv /\ ReadbackInv /\ AppliedInv

IInv ==
  /\ TypeOK /\ ReadbackIsOwn /\ PlaceInv /\ TargetInv /\ NoQueryBehind /\ OnlyOwnQueries
  /\ HandshakeInv /\ WriteInv /\ ValueInv

-----------------------------------------------------------------------------
(* Steps seen from the queue *)

Asked == [to : Step, own : BOOLEAN]
Answered == [to : Step, own : BOOLEAN, ok : BOOLEAN, value : Value \cup {Unread}]

\* The queue stays as it is,
QueueStays ==
  /\ Total' = Total
  /\ \A i \in Places : To(i)' = To(i) /\ OwnAt(i)' = OwnAt(i)

\* loses what was first,
QueueLoses(k) ==
  /\ k \in 0..Total /\ Total' = Total - k
  /\ \A i \in 1..Total - k : i + k \in Places /\ To(i)' = To(i + k)

\* or has another command at its end.
QueueGains(step) ==
  /\ Total' = Total + 1
  /\ \A i \in Places : To(i)' = To(i) /\ OwnAt(i)' = OwnAt(i)
  /\ \A i \in 1..Total + 1 : i \notin Places => To(i)' = step /\ OwnAt(i)'

LEMMA QueueType ==
  ASSUME TypeOK
  PROVE  /\ Len(outbox) \in Nat /\ Len(inbox) \in Nat /\ Total \in Nat
         /\ inbox \in Seq(Asked) /\ outbox \in Seq(Answered)
<1>1. inbox \in Seq(Asked) /\ outbox \in Seq(Answered)
  BY DEF TypeOK, Asked, Answered
<1> QED
  BY <1>1, LenProperties DEF Total

LEMMA SameQueue ==
  ASSUME UNCHANGED <<inbox, outbox>>
  PROVE  QueueStays
BY DEF QueueStays, Total, To, OwnAt

\* The oldest command becomes the newest answer: the queue is the same.
LEMMA AnswersStay ==
  ASSUME TypeOK, ModuleAnswers
  PROVE  QueueStays
<1> DEFINE a == outbox
           q == inbox
           h == Head(q)
           e == outbox'[Len(outbox) + 1]
<1>1. /\ Len(a) \in Nat /\ Len(q) \in Nat /\ a \in Seq(Answered) /\ q \in Seq(Asked)
  BY QueueType
<1>2. q # <<>> /\ inbox' = Tail(q)
  BY DEF ModuleAnswers
<1>3. h = q[1] /\ Len(q) >= 1 /\ Len(inbox') = Len(q) - 1
      /\ \A i \in 1..Len(q) - 1 : inbox'[i] = q[i + 1]
  <2> HIDE DEF a, q
  <2> QED
    BY <1>1, <1>2
<1>4. Len(outbox') = Len(a) + 1 /\ e.to = h.to /\ e.own = h.own
      /\ \A i \in 1..Len(a) : outbox'[i] = a[i]
  <2>1. PICK ok \in BOOLEAN :
          outbox' = Append(a, [to |-> h.to, own |-> h.own, ok |-> ok,
                               value |-> IF h.to = "Query" THEN setting[device] ELSE Unread])
    BY DEF ModuleAnswers
  <2> DEFINE r == [to |-> h.to, own |-> h.own, ok |-> ok,
                   value |-> IF h.to = "Query" THEN setting[device] ELSE Unread]
  <2>2. r.to = h.to /\ r.own = h.own
    OBVIOUS
  <2>3. outbox' = Append(a, r)
    BY <2>1
  <2> HIDE DEF r, a, h
  <2> QED
    BY <1>1, <2>2, <2>3 DEF a
<1>5. Total = Len(a) + Len(q) /\ Total' = Len(outbox') + Len(inbox')
  BY DEF Total
<1>6. Total' = Total
  BY <1>1, <1>3, <1>4, <1>5
<1>7. ASSUME NEW i \in Places PROVE To(i)' = To(i) /\ OwnAt(i)' = OwnAt(i)
  <2>1. i \in 1..Len(a) + Len(q)
    BY <1>5 DEF Places
  <2>2. /\ To(i) = IF i <= Len(a) THEN a[i].to ELSE q[i - Len(a)].to
        /\ OwnAt(i) = IF i <= Len(a) THEN a[i].own ELSE q[i - Len(a)].own
        /\ To(i)' = IF i <= Len(outbox') THEN outbox'[i].to ELSE inbox'[i - Len(outbox')].to
        /\ OwnAt(i)' = IF i <= Len(outbox') THEN outbox'[i].own ELSE inbox'[i - Len(outbox')].own
    BY DEF To, OwnAt
  <2>3. CASE i \in 1..Len(a)
    BY <2>2, <2>3, <1>1, <1>4
  <2>4. CASE i = Len(a) + 1
    <3>1. i - Len(a) = 1 /\ ~(i <= Len(a)) /\ i <= Len(outbox')
      BY <2>4, <1>1, <1>4
    <3> QED
      BY <2>2, <2>4, <3>1, <1>3, <1>4
  <2>5. CASE i \in Len(a) + 2..Len(a) + Len(q)
    <3>1. /\ ~(i <= Len(a)) /\ ~(i <= Len(outbox')) /\ i - Len(outbox') \in 1..Len(q) - 1
          /\ (i - Len(outbox')) + 1 = i - Len(a)
      BY <2>5, <1>1, <1>4
    <3> QED
      BY <2>2, <3>1, <1>3
  <2> QED
    BY <2>1, <2>3, <2>4, <2>5, <1>1
<1> QED
  BY <1>6, <1>7 DEF QueueStays

LEMMA SendGains ==
  ASSUME TypeOK, Send
  PROVE  QueueGains(host.step)
<1> DEFINE a == outbox
           q == inbox
           r == [to |-> host.step, own |-> TRUE]
<1>1. /\ Len(a) \in Nat /\ Len(q) \in Nat /\ q \in Seq(Asked)
  BY QueueType
<1>2. inbox' = Append(q, r) /\ outbox' = a /\ r.to = host.step /\ r.own
  BY DEF Send
<1>3. Len(inbox') = Len(q) + 1 /\ inbox'[Len(q) + 1] = r
      /\ \A i \in 1..Len(q) : inbox'[i] = q[i]
  <2> HIDE DEF r, q
  <2> QED
    BY <1>1, <1>2
<1> HIDE DEF r
<1>4. Total = Len(a) + Len(q) /\ Total' = Len(a) + Len(inbox')
  BY <1>2 DEF Total
<1>5. ASSUME NEW i \in 1..Len(a) + Len(q) + 1
      PROVE  /\ To(i) = IF i <= Len(a) THEN a[i].to ELSE q[i - Len(a)].to
             /\ OwnAt(i) = IF i <= Len(a) THEN a[i].own ELSE q[i - Len(a)].own
             /\ To(i)' = IF i <= Len(a) THEN a[i].to ELSE inbox'[i - Len(a)].to
             /\ OwnAt(i)' = IF i <= Len(a) THEN a[i].own ELSE inbox'[i - Len(a)].own
  BY <1>2 DEF To, OwnAt
<1>6. ASSUME NEW i \in Places PROVE To(i)' = To(i) /\ OwnAt(i)' = OwnAt(i)
  <2>1. i \in 1..Len(a) + Len(q) /\ i \in 1..Len(a) + Len(q) + 1
    BY <1>1, <1>4 DEF Places
  <2>2. CASE i <= Len(a)
    BY <2>1, <2>2, <1>5
  <2>3. CASE ~(i <= Len(a))
    <3>1. i - Len(a) \in 1..Len(q)
      BY <2>1, <2>3, <1>1
    <3>2. inbox'[i - Len(a)] = q[i - Len(a)]
      BY <3>1, <1>3
    <3> QED
      BY <2>1, <2>3, <3>2, <1>5
  <2> QED
    BY <2>2, <2>3
<1>7. ASSUME NEW k \in 1..Total + 1, k \notin Places PROVE To(k)' = host.step /\ OwnAt(k)'
  <2>1. k \in 1..Len(a) + Len(q) + 1 /\ ~(k <= Len(a)) /\ k - Len(a) = Len(q) + 1
    BY <1>1, <1>4, <1>7 DEF Places
  <2>2. To(k)' = inbox'[k - Len(a)].to /\ OwnAt(k)' = inbox'[k - Len(a)].own
    BY <2>1, <1>5
  <2> QED
    BY <2>1, <2>2, <1>2, <1>3
<1> QED
  BY <1>1, <1>3, <1>4, <1>6, <1>7 DEF QueueGains

LEMMA ReceiveLoses ==
  ASSUME TypeOK, Receive
  PROVE  /\ QueueLoses(1) /\ \A i \in 1..Total - 1 : OwnAt(i)' = OwnAt(i + 1)
         /\ 1 \in Places /\ To(1) = Head(outbox).to /\ OwnAt(1) = Head(outbox).own
         /\ Head(outbox) = outbox[1] /\ 1 \in 1..Len(outbox) /\ Head(outbox) \in Answered
         /\ Len(outbox') = Len(outbox) - 1
         /\ \A i \in 1..Len(outbox') : outbox'[i] = outbox[i + 1]
<1> DEFINE a == outbox
           q == inbox
<1>1. /\ Len(a) \in Nat /\ Len(q) \in Nat /\ a \in Seq(Answered)
  BY QueueType
<1>2. a # <<>> /\ outbox' = Tail(a) /\ inbox' = q
  BY DEF Receive
<1>3. /\ Head(a) = a[1] /\ 1 \in 1..Len(a) /\ Head(a) \in Answered /\ Len(outbox') = Len(a) - 1
      /\ \A i \in 1..Len(a) - 1 : outbox'[i] = a[i + 1]
  <2> HIDE DEF a
  <2> QED
    BY <1>1, <1>2
<1>4. Total = Len(a) + Len(q) /\ Total' = Len(outbox') + Len(q)
  BY <1>2 DEF Total
<1>5. ASSUME NEW i \in 1..Len(a) + Len(q)
      PROVE  /\ To(i) = IF i <= Len(a) THEN a[i].to ELSE q[i - Len(a)].to
             /\ OwnAt(i) = IF i <= Len(a) THEN a[i].own ELSE q[i - Len(a)].own
             /\ To(i)' = IF i <= Len(outbox') THEN outbox'[i].to ELSE q[i - Len(outbox')].to
             /\ OwnAt(i)' = IF i <= Len(outbox') THEN outbox'[i].own ELSE q[i - Len(outbox')].own
  BY <1>2 DEF To, OwnAt
<1>6. ASSUME NEW i \in 1..Total - 1
      PROVE  i + 1 \in Places /\ To(i)' = To(i + 1) /\ OwnAt(i)' = OwnAt(i + 1)
  <2>1. i \in 1..Len(a) + Len(q) /\ i + 1 \in 1..Len(a) + Len(q) /\ i + 1 \in Places
    BY <1>1, <1>4 DEF Places
  <2> DEFINE j == i + 1
  <2>2. j \in 1..Len(a) + Len(q)
    BY <2>1
  <2>3. CASE i <= Len(outbox')
    <3>1. j <= Len(a) /\ i \in 1..Len(a) - 1
      BY <2>1, <2>3, <1>1, <1>3
    <3>2. outbox'[i] = a[j]
      BY <3>1, <1>3
    <3> HIDE DEF j
    <3> QED
      BY <2>1, <2>2, <2>3, <3>1, <3>2, <1>5 DEF j
  <2>4. CASE ~(i <= Len(outbox'))
    <3>1. ~(j <= Len(a)) /\ i - Len(outbox') = j - Len(a)
      BY <2>1, <2>4, <1>1, <1>3
    <3> HIDE DEF j
    <3> QED
      BY <2>1, <2>2, <2>4, <3>1, <1>5 DEF j
  <2> QED
    BY <2>3, <2>4
<1>7. 1 \in Places /\ To(1) = a[1].to /\ OwnAt(1) = a[1].own
  <2>1. 1 \in 1..Len(a) + Len(q) /\ 1 <= Len(a)
    BY <1>1, <1>3
  <2> QED
    BY <2>1, <1>4, <1>5 DEF Places
<1>8. QueueLoses(1)
  <2>1. 1 \in 0..Total /\ Total' = Total - 1
    BY <1>1, <1>3, <1>4
  <2>2. \A i \in 1..Total - 1 : i + 1 \in Places /\ To(i)' = To(i + 1)
    BY <1>6
  <2> QED
    BY <2>1, <2>2 DEF QueueLoses
<1> QED
  BY <1>3, <1>6, <1>7, <1>8

LEMMA OpensLoses ==
  ASSUME TypeOK, OpensSession
  PROVE  \E k \in 0..Total : QueueLoses(k)
<1> DEFINE a == outbox
           q == inbox
<1>1. /\ Len(a) \in Nat /\ Len(q) \in Nat /\ a \in Seq(Answered) /\ q \in Seq(Asked)
  BY QueueType
<1>2. /\ Len(Aged(q)) = Len(q) /\ \A i \in 1..Len(q) : Aged(q)[i].to = q[i].to
  <2>1. DOMAIN q = 1..Len(q) /\ \A i \in 1..Len(q) : q[i] \in Asked
    <3> HIDE DEF q
    <3> QED
      BY <1>1
  <2>2. \A i \in 1..Len(q) : Aged(q)[i] = [q[i] EXCEPT !.own = FALSE]
    BY <2>1 DEF Aged
  <2>3. DOMAIN Aged(q) = 1..Len(q) /\ Aged(q) = [i \in 1..Len(q) |-> [q[i] EXCEPT !.own = FALSE]]
    BY <2>1 DEF Aged
  <2>4. Len(Aged(q)) = Len(q)
    <3> HIDE DEF q
    <3> QED
      BY <1>1, <2>3
  <2>5. ASSUME NEW i \in 1..Len(q) PROVE Aged(q)[i].to = q[i].to
    BY <2>1, <2>2 DEF Asked
  <2> QED
    BY <2>4, <2>5
<1>3. /\ Len(Aged(a)) = Len(a) /\ \A i \in 1..Len(a) : Aged(a)[i].to = a[i].to
  <2>1. DOMAIN a = 1..Len(a) /\ \A i \in 1..Len(a) : a[i] \in Answered
    <3> HIDE DEF a
    <3> QED
      BY <1>1
  <2>2. \A i \in 1..Len(a) : Aged(a)[i] = [a[i] EXCEPT !.own = FALSE]
    BY <2>1 DEF Aged
  <2>3. DOMAIN Aged(a) = 1..Len(a) /\ Aged(a) = [i \in 1..Len(a) |-> [a[i] EXCEPT !.own = FALSE]]
    BY <2>1 DEF Aged
  <2>4. Len(Aged(a)) = Len(a)
    <3> HIDE DEF a
    <3> QED
      BY <1>1, <2>3
  <2>5. ASSUME NEW i \in 1..Len(a) PROVE Aged(a)[i].to = a[i].to
    BY <2>1, <2>2 DEF Answered
  <2> QED
    BY <2>4, <2>5
<1>4. Total = Len(a) + Len(q) /\ inbox' = Aged(q) /\ outbox' \in {Aged(a), <<>>}
  BY DEF Total, OpensSession
<1>5. ASSUME NEW i \in 1..Len(a) + Len(q)
      PROVE  /\ To(i) = IF i <= Len(a) THEN a[i].to ELSE q[i - Len(a)].to
             /\ To(i)' = IF i <= Len(outbox') THEN outbox'[i].to ELSE inbox'[i - Len(outbox')].to
  BY DEF To
<1> HIDE DEF a, q
<1>6. CASE outbox' = Aged(a)
  <2>1. Len(outbox') = Len(a) /\ Total' = Total
    BY <1>1, <1>2, <1>3, <1>4, <1>6 DEF Total
  <2>2. ASSUME NEW i \in 1..Total - 0 PROVE i + 0 \in Places /\ To(i)' = To(i + 0)
    <3>1. i \in 1..Len(a) + Len(q) /\ i + 0 = i
      BY <1>1, <1>4
    <3>2. CASE i <= Len(a)
      <4>1. i \in 1..Len(a)
        BY <3>1, <3>2, <1>1
      <4> QED
        BY <3>1, <4>1, <2>1, <1>3, <1>4, <1>5, <1>6 DEF Places
    <3>3. CASE ~(i <= Len(a))
      <4>1. i - Len(a) \in 1..Len(q)
        BY <3>1, <3>3, <1>1
      <4>2. inbox'[i - Len(a)].to = q[i - Len(a)].to
        BY <4>1, <1>2, <1>4
      <4> QED
        BY <3>1, <3>3, <4>2, <2>1, <1>4, <1>5 DEF Places
    <3> QED
      BY <3>2, <3>3
  <2>3. 0 \in 0..Total /\ Total - 0 = Total
    BY <1>1, <1>4
  <2>4. QueueLoses(0)
    BY <2>1, <2>2, <2>3 DEF QueueLoses
  <2> QED
    BY <2>3, <2>4
<1>7. CASE outbox' = <<>>
  <2> DEFINE k == Len(a)
  <2>1. Len(outbox') = 0 /\ Len(inbox') = Len(q)
    BY <1>2, <1>4, <1>7
  <2>2. Total' = Len(q) /\ k \in 0..Total /\ Total - k = Len(q)
    BY <2>1, <1>1, <1>4 DEF Total
  <2>3. ASSUME NEW i \in 1..Total - k PROVE i + k \in Places /\ To(i)' = To(i + k)
    <3>1. i \in 1..Len(q) /\ i \in 1..Len(a) + Len(q) /\ i + k \in 1..Len(a) + Len(q)
          /\ (i + k) - Len(a) = i /\ ~(i + k <= Len(a)) /\ ~(i <= 0) /\ i - 0 = i
      BY <2>2, <1>1
    <3>2. To(i)' = inbox'[i].to
      BY <3>1, <2>1, <1>5
    <3>3. To(i + k) = q[i].to
      <4> DEFINE j == i + k
      <4>1. j \in 1..Len(a) + Len(q) /\ j - Len(a) = i /\ ~(j <= Len(a))
        BY <3>1
      <4> HIDE DEF j
      <4>2. To(j) = q[i].to
        BY <4>1, <1>5
      <4> QED
        BY <4>2 DEF j
    <3> QED
      BY <3>1, <3>2, <3>3, <1>2, <1>4 DEF Places
  <2>4. QueueLoses(k)
    BY <2>2, <2>3 DEF QueueLoses
  <2> QED
    BY <2>2, <2>4
<1> QED
  BY <1>4, <1>6, <1>7

-----------------------------------------------------------------------------
(* Types *)

Hosts == [phase : Phase, step : Step, attempt : 1..2, sent : BOOLEAN, failure : Failure,
          seen : Observation]

LEMMA AgedType ==
  ASSUME TypeOK
  PROVE  Aged(inbox) \in Seq(Asked) /\ Aged(outbox) \in Seq(Answered)
<1>1. inbox \in Seq(Asked) /\ outbox \in Seq(Answered) /\ Len(inbox) \in Nat /\ Len(outbox) \in Nat
  BY QueueType
<1>2. \A r \in Asked : [r EXCEPT !.own = FALSE] \in Asked
  BY DEF Asked
<1>3. \A r \in Answered : [r EXCEPT !.own = FALSE] \in Answered
  BY DEF Answered
<1>4. Aged(inbox) \in Seq(Asked)
  <2>1. DOMAIN inbox = 1..Len(inbox) /\ \A i \in 1..Len(inbox) : inbox[i] \in Asked
    BY <1>1
  <2>2. Aged(inbox) \in [1..Len(inbox) -> Asked]
    BY <2>1, <1>2 DEF Aged
  <2> QED
    BY <2>2, <1>1, SeqDef
<1>5. Aged(outbox) \in Seq(Answered)
  <2>1. DOMAIN outbox = 1..Len(outbox) /\ \A i \in 1..Len(outbox) : outbox[i] \in Answered
    BY <1>1
  <2>2. Aged(outbox) \in [1..Len(outbox) -> Answered]
    BY <2>1, <1>3 DEF Aged
  <2> QED
    BY <2>2, <1>1, SeqDef
<1> QED
  BY <1>4, <1>5

LEMMA OpensType ==
  ASSUME TypeOK, OpensSession
  PROVE  inbox' \in Seq(Asked) /\ outbox' \in Seq(Answered)
<1>1. Aged(inbox) \in Seq(Asked) /\ Aged(outbox) \in Seq(Answered)
  BY AgedType
<1>2. <<>> \in Seq(Answered)
  BY EmptySeq
<1>3. inbox' = Aged(inbox) /\ (outbox' = Aged(outbox) \/ outbox' = <<>>)
  BY DEF OpensSession
<1> QED
  BY <1>1, <1>2, <1>3

LEMMA GotoType ==
  ASSUME NEW phase \in Phase, NEW step \in Step, NEW seen \in Observation, Goto(phase, step, seen)
  PROVE  /\ host' \in Hosts /\ host'.phase = phase /\ host'.step = step /\ host'.seen = seen
         /\ host'.attempt = 1 /\ ~host'.sent
<1>1. 1 \in 1..2 /\ FALSE \in BOOLEAN /\ "None" \in Failure
  BY DEF Failure
<1> QED
  BY <1>1 DEF Goto, Hosts

LEMMA EndsType ==
  ASSUME host \in Hosts, NEW failure \in Failure, Ends(failure)
  PROVE  /\ host' \in Hosts /\ host'.phase = host.phase /\ host'.step = "End"
         /\ host'.seen = host.seen /\ host'.attempt = host.attempt /\ host'.sent = host.sent
BY DEF Ends, Hosts, Step

\* A failure ends the session or goes on to the next read.
LEMMA FailsForm ==
  ASSUME TypeOK, InExchange, NEW failure \in Failure, Fails(failure) \/ Ends(failure)
  PROVE  /\ host' \in Hosts /\ host'.phase = host.phase /\ host'.seen = host.seen
         /\ \/ host'.step = "End"
            \/ /\ host.step \in {"Query", "Contexts"}
               /\ host'.step \in {"Contexts", "Activation"}
<1>1. host \in Hosts /\ host.phase \in Phase /\ host.seen \in Observation
  BY DEF TypeOK, Hosts
<1>2. CASE Ends(failure)
  BY <1>1, <1>2, EndsType
<1>3. CASE /\ host.step \in {"Query", "Contexts"}
           /\ Goto(host.phase, NextStep(host.step), host.seen)
  <2>1. NextStep(host.step) \in {"Contexts", "Activation"} /\ NextStep(host.step) \in Step
    BY <1>3 DEF NextStep, Step
  <2>2. host' \in Hosts
    BY <1>1, <1>3, <2>1, GotoType
  <2>3. host'.phase = host.phase /\ host'.seen = host.seen /\ host'.step = NextStep(host.step)
    BY <1>3 DEF Goto
  <2> QED
    BY <1>3, <2>1, <2>2, <2>3
<1> QED
  BY <1>2, <1>3 DEF Fails

LEMMA NoObservationType == NoObservation \in Observation /\ ~NoObservation.at
                           /\ NoObservation.target = Absent /\ NoObservation.value = Unread
BY DEF NoObservation, Observation

\* The types of what stays are the types they had.
Frame ==
  /\ device' \in Device \cup {Absent} /\ setting' \in [Device -> Value]
  /\ inbox' \in Seq(Asked) /\ outbox' \in Seq(Answered)
  /\ action' \in Actions /\ echo' \in BOOLEAN /\ unplugs' \in 0..MaxUnplugs
  /\ host' \in Hosts
  /\ plan' \in Observation /\ current' \in Observation
  /\ dispatch' \in {"None", "Applied", "Failed", "Unknown"}
  /\ outcome' \in {"None", "Applied", "Failed", "OutcomeUnknown"}
  /\ lineOut' \in BOOLEAN /\ misread' \in BOOLEAN /\ writes' \in [Device -> Nat]

LEMMA TypeStep ==
  ASSUME TypeOK, PlaceInv, Next
  PROVE  TypeOK'
<1> SUFFICES Frame
  BY DEF Frame, TypeOK, Asked, Answered, Hosts
<1>1. /\ device \in Device \cup {Absent} /\ setting \in [Device -> Value]
      /\ inbox \in Seq(Asked) /\ outbox \in Seq(Answered)
      /\ action \in Actions /\ echo \in BOOLEAN /\ unplugs \in 0..MaxUnplugs
      /\ host \in Hosts
      /\ plan \in Observation /\ current \in Observation
      /\ dispatch \in {"None", "Applied", "Failed", "Unknown"}
      /\ outcome \in {"None", "Applied", "Failed", "OutcomeUnknown"}
      /\ lineOut \in BOOLEAN /\ misread \in BOOLEAN /\ writes \in [Device -> Nat]
  BY DEF TypeOK, Asked, Answered, Hosts
<1>2. /\ host.phase \in Phase /\ host.step \in Step /\ host.seen \in Observation
      /\ host.attempt \in 1..2 /\ host.sent \in BOOLEAN
  BY <1>1 DEF Hosts
<1>3. RepairAssumption
  BY RepairAssumption
<1>4. CASE ModuleAnswers
  <2>1. inbox # <<>> /\ device \in Device /\ inbox' = Tail(inbox)
    BY <1>1, <1>4 DEF ModuleAnswers
  <2>2. inbox' \in Seq(Asked) /\ Head(inbox) \in Asked
    BY <1>1, <2>1, HeadTailProperties
  <2>3. PICK ok \in BOOLEAN :
          /\ outbox' = Append(outbox,
               [to |-> Head(inbox).to, own |-> Head(inbox).own, ok |-> ok,
                value |-> IF Head(inbox).to = "Query" THEN setting[device] ELSE Unread])
          /\ IF Head(inbox).to = "Write" /\ ok
             THEN /\ writes' = [writes EXCEPT ![device] = @ + 1]
                  /\ setting' = IF action = "SetUsbNetProfile"
                                THEN [setting EXCEPT ![device] = Want] ELSE setting
             ELSE UNCHANGED <<writes, setting>>
    BY <1>4 DEF ModuleAnswers
  <2>4. outbox' \in Seq(Answered)
    <3> DEFINE r == [to |-> Head(inbox).to, own |-> Head(inbox).own, ok |-> ok,
                     value |-> IF Head(inbox).to = "Query" THEN setting[device] ELSE Unread]
    <3>1. Head(inbox).to \in Step /\ Head(inbox).own \in BOOLEAN
      BY <2>2 DEF Asked
    <3>2. setting[device] \in Value
      BY <1>1, <2>1
    <3>3. r \in Answered
      BY <3>1, <3>2 DEF Answered
    <3> HIDE DEF r
    <3>4. Append(outbox, r) \in Seq(Answered)
      BY <1>1, <3>3, AppendProperties
    <3> QED
      BY <2>3, <3>4 DEF r
  <2>5. writes' \in [Device -> Nat] /\ setting' \in [Device -> Value]
    <3>1. Want \in Value
      BY <1>3 DEF RepairAssumption
    <3>2. CASE Head(inbox).to = "Write" /\ ok
      <4>1. writes' = [writes EXCEPT ![device] = @ + 1]
            /\ (setting' = [setting EXCEPT ![device] = Want] \/ setting' = setting)
        BY <2>3, <3>2
      <4>2. writes' \in [Device -> Nat]
        BY <1>1, <2>1, <4>1
      <4>3. setting' \in [Device -> Value]
        BY <1>1, <2>1, <3>1, <4>1
      <4> QED
        BY <4>2, <4>3
    <3>3. CASE ~(Head(inbox).to = "Write" /\ ok)
      <4>1. writes' = writes /\ setting' = setting
        BY <2>3, <3>3
      <4> QED
        BY <4>1, <1>1
    <3> QED
      BY <3>2, <3>3
  <2> QED
    BY <1>1, <1>4, <2>2, <2>4, <2>5 DEF Frame, ModuleAnswers, results
<1>5. CASE Unplug
  <2>1. <<>> \in Seq(Asked) /\ <<>> \in Seq(Answered)
    BY EmptySeq
  <2>2. unplugs' \in 0..MaxUnplugs
    BY <1>1, <1>3, <1>5 DEF Unplug, RepairAssumption
  <2> QED
    BY <1>1, <1>5, <2>1, <2>2 DEF Frame, Unplug, results
<1>6. ASSUME NEW d \in Device, Plug(d) PROVE Frame
  BY <1>1, <1>6 DEF Frame, Plug, results
<1>7. CASE Scan
  <2> DEFINE seen == [NoObservation EXCEPT !.target = device]
  <2>1. seen \in Observation
    BY <1>1, NoObservationType DEF Observation
  <2> HIDE DEF seen
  <2>2. Goto(host.phase, "AT", seen) /\ "AT" \in Step
    BY <1>7 DEF Scan, seen, Step
  <2>3. host' \in Hosts
    BY <1>2, <2>1, <2>2, GotoType
  <2>4. inbox' \in Seq(Asked) /\ outbox' \in Seq(Answered)
    BY <1>7, OpensType DEF Scan
  <2> QED
    BY <1>1, <1>7, <2>3, <2>4 DEF Frame, Scan, results
<1>8. CASE ScanFindsNone
  <2>1. host' \in Hosts
    BY <1>1, <1>8, NoObservationType DEF ScanFindsNone, Hosts, Step, Failure
  <2> QED
    BY <1>1, <1>8, <2>1 DEF Frame, ScanFindsNone, results, module
<1>9. CASE PortUnavailable \/ PortGone \/ TimedOut
  <2>1. InExchange /\ \E failure \in Failure : Fails(failure) \/ Ends(failure)
    BY <1>9 DEF PortUnavailable, PortGone, TimedOut, Failure, InExchange
  <2>2. host' \in Hosts
    BY <2>1, FailsForm
  <2> QED
    BY <1>1, <1>9, <2>2 DEF Frame, PortUnavailable, PortGone, TimedOut, results, module
<1>10. CASE Send
  <2>1. host' \in Hosts /\ lineOut' \in BOOLEAN
    BY <1>1, <1>10 DEF Send, Hosts
  <2>2. inbox' \in Seq(Asked)
    <3> DEFINE r == [to |-> host.step, own |-> TRUE]
    <3>1. r \in Asked
      BY <1>2 DEF Asked
    <3>2. inbox' = Append(inbox, r)
      BY <1>10 DEF Send
    <3> HIDE DEF r
    <3> QED
      BY <1>1, <3>1, <3>2, AppendProperties
  <2> QED
    BY <1>1, <1>10, <2>1, <2>2 DEF Frame, Send, results
<1>11. CASE Receive
  <2>1. Head(outbox) \in Answered /\ outbox' \in Seq(Answered)
    <3>1. outbox # <<>> /\ outbox' = Tail(outbox)
      BY <1>11 DEF Receive
    <3> QED
      BY <1>1, <3>1, HeadTailProperties
  <2>2. host' \in Hosts /\ misread' \in BOOLEAN
    <3>1. CASE \E failure \in {"Refused", "Garbled"} : Fails(failure) /\ UNCHANGED misread
      <4>1. InExchange /\ \E failure \in Failure : Fails(failure) /\ UNCHANGED misread
        BY <1>11, <3>1 DEF Failure, Receive
      <4>2. host' \in Hosts
        BY <4>1, FailsForm
      <4> QED
        BY <1>1, <4>1, <4>2
    <3>2. ASSUME Goto(host.phase, NextStep(host.step),
                    [target |-> host.seen.target,
                     at |-> host.seen.at \/ host.step = "ATI",
                     value |-> IF host.step = "Query" THEN Head(outbox).value
                               ELSE host.seen.value]),
                 misread' = (misread \/ (host.step = "Query" /\ ~Head(outbox).own))
          PROVE  host' \in Hosts /\ misread' \in BOOLEAN
      <4> DEFINE seen == [target |-> host.seen.target,
                          at |-> host.seen.at \/ host.step = "ATI",
                          value |-> IF host.step = "Query" THEN Head(outbox).value
                                    ELSE host.seen.value]
      <4>1. seen \in Observation
        BY <1>2, <2>1 DEF Observation, Answered
      <4>2. NextStep(host.step) \in Step
        BY <1>2 DEF NextStep, Step
      <4>3. Goto(host.phase, NextStep(host.step), seen)
        BY <3>2
      <4> HIDE DEF seen
      <4>4. host' \in Hosts
        BY <1>2, <4>1, <4>2, <4>3, GotoType
      <4>5. misread' \in BOOLEAN
        BY <3>2
      <4> QED
        BY <4>4, <4>5
    <3> QED
      BY <1>11, <3>1, <3>2 DEF Receive
  <2> QED
    BY <1>1, <1>11, <2>1, <2>2 DEF Frame, Receive, results
<1>12. CASE RetryRead
  <2>1. host' \in Hosts
    <3>1. 2 \in 1..2 /\ FALSE \in BOOLEAN
      OBVIOUS
    <3>2. host' = [host EXCEPT !.attempt = 2, !.sent = FALSE]
      BY <1>12 DEF RetryRead
    <3> QED
      BY <1>1, <3>1, <3>2 DEF Hosts
  <2> QED
    BY <1>1, <1>12, <2>1 DEF Frame, RetryRead, results, module
<1>13. ASSUME NEW result \in {"Applied", "Failed", "OutcomeUnknown"}, Finish(result)
       PROVE  host' \in Hosts /\ outcome' \in {"None", "Applied", "Failed", "OutcomeUnknown"}
  BY <1>1, <1>13 DEF Finish, Hosts, Phase
<1>14. ASSUME NEW phase \in {"Current", "Rescan", "After"}, Goto(phase, "Scan", NoObservation)
       PROVE  host' \in Hosts
  BY <1>14, GotoType, NoObservationType DEF Phase, Step
<1>15. CASE ConcludePrepare
  <2>1. host' \in Hosts /\ outcome' \in {"None", "Applied", "Failed", "OutcomeUnknown"}
    BY <1>1, <1>13, <1>14, <1>15 DEF ConcludePrepare
  <2>2. plan' \in Observation
    BY <1>1, <1>2, <1>15 DEF ConcludePrepare
  <2> QED
    BY <1>1, <1>15, <2>1, <2>2 DEF Frame, ConcludePrepare, module
<1>16. CASE ConcludeCurrent
  <2>1. host' \in Hosts /\ outcome' \in {"None", "Applied", "Failed", "OutcomeUnknown"}
    BY <1>1, <1>13, <1>14, <1>16 DEF ConcludeCurrent
  <2>2. current' \in Observation
    BY <1>1, <1>2, <1>16 DEF ConcludeCurrent
  <2> QED
    BY <1>1, <1>16, <2>1, <2>2 DEF Frame, ConcludeCurrent, module
<1>17. CASE ConcludeRescan
  <2>1. CASE Dispatched("Unknown") /\ UNCHANGED <<inbox, outbox, outcome>>
    BY <1>1, <1>14, <1>17, <2>1 DEF Frame, ConcludeRescan, Dispatched
  <2>2. CASE Finish("Failed") /\ UNCHANGED <<inbox, outbox, dispatch>>
    BY <1>1, <1>13, <1>17, <2>2 DEF Frame, ConcludeRescan
  <2>3. CASE Goto("Write", "AT", host.seen) /\ OpensSession /\ UNCHANGED <<dispatch, outcome>>
    <3>1. host' \in Hosts
      BY <1>2, <2>3, GotoType DEF Phase, Step
    <3>2. inbox' \in Seq(Asked) /\ outbox' \in Seq(Answered)
      BY <2>3, OpensType
    <3> QED
      BY <1>1, <1>17, <2>3, <3>1, <3>2 DEF Frame, ConcludeRescan
  <2> QED
    BY <1>17, <2>1, <2>2, <2>3 DEF ConcludeRescan
<1>18. CASE ConcludeWrite
  <2>1. CASE Finish("Failed") /\ UNCHANGED dispatch
    BY <1>1, <1>13, <1>18, <2>1 DEF Frame, ConcludeWrite, module
  <2>2. ASSUME NEW result \in {"Applied", "Unknown", "Failed"}, Dispatched(result),
               UNCHANGED outcome
        PROVE  Frame
    BY <1>1, <1>14, <1>18, <2>2 DEF Frame, ConcludeWrite, Dispatched, module
  <2> QED
    BY <1>18, <2>1, <2>2 DEF ConcludeWrite
<1>19. CASE ConcludeAfter
  <2>1. Judgement \in {"Applied", "Failed", "OutcomeUnknown"}
    BY DEF Judgement
  <2> QED
    BY <1>1, <1>13, <1>19, <2>1 DEF Frame, ConcludeAfter, module
<1> QED
  BY <1>4, <1>5, <1>6, <1>7, <1>8, <1>9, <1>10, <1>11, <1>12, <1>15, <1>16, <1>17, <1>18, <1>19
     DEF Next, Executor, Exchange, Module

-----------------------------------------------------------------------------
(* Where the executor goes *)

\* What a session that ends before its time, or a read that fails, leaves.
Broken == /\ host'.phase = host.phase /\ host.phase # "Done"
          /\ \/ host'.step = "End"
             \/ /\ host.step \in {"Query", "Contexts"}
                /\ host'.step \in {"Contexts", "Activation"}
          /\ \/ InExchange /\ host'.seen = host.seen
             \/ host.step = "Scan" /\ host'.seen = NoObservation

\* What an accepted answer leaves.
Accepted(reply) ==
  /\ Fits(host.step, reply)
  /\ host'.phase = host.phase /\ host'.step = NextStep(host.step)
  /\ host'.attempt = 1 /\ ~host'.sent
  /\ host'.seen.target = host.seen.target
  /\ host'.seen.at = (host.seen.at \/ host.step = "ATI")
  /\ host'.seen.value = IF host.step = "Query" THEN reply.value ELSE host.seen.value
  /\ misread' = (misread \/ (host.step = "Query" /\ ~reply.own))

LEMMA HostType ==
  ASSUME TypeOK
  PROVE  /\ host \in Hosts /\ host.phase \in Phase /\ host.step \in Step
         /\ host.attempt \in 1..2 /\ host.sent \in BOOLEAN /\ host.seen \in Observation
         /\ plan \in Observation /\ current \in Observation
BY DEF TypeOK, Hosts

LEMMA BrokenForm ==
  ASSUME TypeOK, PlaceInv, ScanFindsNone \/ PortUnavailable \/ PortGone \/ TimedOut
  PROVE  Broken /\ UNCHANGED <<module, action, results, lineOut, writes, misread>>
<1>1. host \in Hosts
  BY HostType
<1>2. CASE ScanFindsNone
  BY <1>1, <1>2 DEF ScanFindsNone, Broken, Hosts, PlaceInv
<1>3. CASE PortUnavailable \/ PortGone \/ TimedOut
  <2>1. \E failure \in Failure : Fails(failure) \/ Ends(failure)
    BY <1>3 DEF PortUnavailable, PortGone, TimedOut, Failure
  <2>2. InExchange
    BY <1>3 DEF PortUnavailable, PortGone, TimedOut, InExchange
  <2>3. host.phase # "Done"
    BY <2>2 DEF PlaceInv, InExchange
  <2>4. Broken
    BY <2>1, <2>2, <2>3, FailsForm DEF Broken
  <2> QED
    BY <1>3, <2>4 DEF PortUnavailable, PortGone, TimedOut
<1> QED
  BY <1>2, <1>3 DEF ScanFindsNone

LEMMA ReceiveForm ==
  ASSUME TypeOK, PlaceInv, Receive
  PROVE  \/ Broken /\ UNCHANGED misread
         \/ Head(outbox).ok /\ Accepted(Head(outbox))
<1> DEFINE reply == Head(outbox)
           seen == [target |-> host.seen.target, at |-> host.seen.at \/ host.step = "ATI",
                    value |-> IF host.step = "Query" THEN reply.value ELSE host.seen.value]
<1>1. host \in Hosts /\ host.phase # "Done"
  BY HostType DEF Receive, PlaceInv, InExchange
<1>2. InExchange
  BY DEF Receive
<1>3. CASE \E failure \in {"Refused", "Garbled"} : Fails(failure) /\ UNCHANGED misread
  <2>1. \E failure \in Failure : Fails(failure) /\ UNCHANGED misread
    BY <1>3 DEF Failure
  <2>2. Broken
    BY <1>1, <1>2, <2>1, FailsForm DEF Broken
  <2> QED
    BY <2>1, <2>2
<1>4. CASE /\ reply.ok /\ Fits(host.step, reply)
           /\ Goto(host.phase, NextStep(host.step), seen)
           /\ misread' = (misread \/ (host.step = "Query" /\ ~reply.own))
  <2>1. /\ seen.target = host.seen.target /\ seen.at = (host.seen.at \/ host.step = "ATI")
        /\ seen.value = IF host.step = "Query" THEN reply.value ELSE host.seen.value
    OBVIOUS
  <2> HIDE DEF seen, reply
  <2>2. /\ host'.phase = host.phase /\ host'.step = NextStep(host.step) /\ host'.attempt = 1
        /\ ~host'.sent /\ host'.seen = seen
    BY <1>4 DEF Goto
  <2>3. Accepted(reply)
    BY <1>4, <2>1, <2>2 DEF Accepted
  <2> QED
    BY <1>4, <2>3 DEF reply
<1> QED
  BY <1>3, <1>4 DEF Receive

\* Scan begins a session with the module that is there.
LEMMA ScanForm ==
  ASSUME TypeOK, Scan
  PROVE  /\ host'.phase = host.phase /\ host'.step = "AT" /\ host'.attempt = 1 /\ ~host'.sent
         /\ host'.seen.target = device /\ ~host'.seen.at /\ host'.seen.value = Unread
         /\ device \in Device /\ host.step = "Scan" /\ device' = device
         /\ \E k \in 0..Total : QueueLoses(k)
<1> DEFINE seen == [NoObservation EXCEPT !.target = device]
<1>1. seen.target = device /\ ~seen.at /\ seen.value = Unread
  BY DEF NoObservation
<1> HIDE DEF seen
<1>2. Goto(host.phase, "AT", seen) /\ host.step = "Scan" /\ OpensSession /\ device # Absent
      /\ device' = device
  BY DEF Scan, seen
<1>3. host'.phase = host.phase /\ host'.step = "AT" /\ host'.attempt = 1 /\ ~host'.sent
      /\ host'.seen = seen
  BY <1>2 DEF Goto
<1>4. device \in Device
  BY <1>2 DEF TypeOK
<1> QED
  BY <1>1, <1>2, <1>3, <1>4, OpensLoses

\* The executor begins the next session or is done.
LEMMA GotoForm ==
  ASSUME NEW phase, NEW step, NEW seen, Goto(phase, step, seen)
  PROVE  host'.phase = phase /\ host'.step = step /\ host'.attempt = 1 /\ ~host'.sent
         /\ host'.seen = seen
BY DEF Goto

LEMMA FinishForm ==
  ASSUME TypeOK, NEW result, Finish(result)
  PROVE  /\ host'.phase = "Done" /\ host'.step = host.step /\ host'.seen = host.seen
         /\ host'.attempt = host.attempt /\ host'.sent = host.sent /\ outcome' = result
<1>1. host \in Hosts
  BY HostType
<1> QED
  BY <1>1 DEF Finish, Hosts

LEMMA PlaceStep ==
  ASSUME TypeOK, TypeOK', PlaceInv, TargetInv, Next
  PROVE  PlaceInv' /\ TargetInv'
<1>1. /\ host \in Hosts /\ host.phase \in Phase /\ host.step \in Step
      /\ host.attempt \in 1..2 /\ host.seen \in Observation
  BY HostType
<1>2. Absent \notin Device
  BY RepairAssumption DEF RepairAssumption
<1>3. ASSUME UNCHANGED <<host, plan, current, outcome>>,
             device' = Absent => inbox' = <<>> /\ outbox' = <<>>
      PROVE  PlaceInv' /\ TargetInv'
  BY <1>3 DEF PlaceInv, TargetInv, InExchange
<1>4. CASE ModuleAnswers
  BY <1>3, <1>4 DEF ModuleAnswers, results
<1>5. CASE Unplug
  BY <1>3, <1>5 DEF Unplug, results
<1>6. ASSUME NEW d \in Device, Plug(d) PROVE PlaceInv' /\ TargetInv'
  BY <1>2, <1>3, <1>6 DEF Plug, results
<1>7. CASE Scan
  <2>1. /\ host'.phase = host.phase /\ host'.step = "AT" /\ host'.attempt = 1
        /\ host'.seen.target = device /\ ~host'.seen.at /\ device \in Device
        /\ host.step = "Scan" /\ device' = device
    BY <1>7, ScanForm
  <2>2. UNCHANGED <<plan, current, outcome>>
    BY <1>7 DEF Scan, results
  <2>3. host.phase \in Early \cup {"After"}
    BY <1>1, <2>1 DEF PlaceInv, Phase, Early
  <2>4. PlaceInv'
    BY <1>2, <2>1, <2>3 DEF PlaceInv, Early
  <2>5. TargetInv'
    BY <2>1, <2>2, <2>3 DEF TargetInv, Early
  <2> QED
    BY <2>4, <2>5
<1>8. ASSUME Broken, UNCHANGED <<plan, current, outcome>>,
             device' = Absent => inbox' = <<>> /\ outbox' = <<>>
      PROVE  PlaceInv' /\ TargetInv'
  <2>1. PlaceInv'
    BY <1>8 DEF PlaceInv, InExchange, Broken, Early
  <2>2. host.phase = "Write" => host'.seen = host.seen
    BY <1>8 DEF Broken, PlaceInv
  <2>3. TargetInv'
    BY <1>8, <2>2 DEF TargetInv, Broken
  <2> QED
    BY <2>1, <2>3
<1>9. CASE ScanFindsNone \/ PortUnavailable \/ PortGone \/ TimedOut
  <2>1. Broken /\ UNCHANGED <<module, action, results, lineOut, writes, misread>>
    BY <1>9, BrokenForm
  <2>2. device' = Absent => inbox' = <<>> /\ outbox' = <<>>
    BY <2>1 DEF PlaceInv, module
  <2> QED
    BY <1>8, <2>1, <2>2 DEF results
<1>10. CASE Send
  <2>1. host' = [host EXCEPT !.sent = TRUE] /\ InExchange /\ device = host.seen.target
        /\ device' = device
    BY <1>10 DEF Send
  <2>2. /\ host'.phase = host.phase /\ host'.step = host.step /\ host'.seen = host.seen
        /\ host'.attempt = host.attempt
    BY <1>1, <2>1 DEF Hosts
  <2>3. device' # Absent
    BY <1>2, <2>1 DEF PlaceInv
  <2> QED
    BY <1>10, <2>2, <2>3 DEF Send, PlaceInv, TargetInv, InExchange, results
<1>11. CASE Receive
  <2>1. device' # Absent /\ UNCHANGED <<plan, current, outcome>>
    BY <1>2, <1>11 DEF Receive, PlaceInv, results
  <2>2. CASE Broken
    BY <1>8, <2>1, <2>2
  <2>3. CASE Accepted(Head(outbox))
    <3>1. /\ host'.phase = host.phase /\ host'.step = NextStep(host.step) /\ host'.attempt = 1
          /\ host'.seen.target = host.seen.target
          /\ host'.seen.at = (host.seen.at \/ host.step = "ATI")
      BY <2>3 DEF Accepted
    <3>2. InExchange /\ host.seen.target \in Device
      BY <1>11 DEF Receive, PlaceInv
    <3>3. NextStep(host.step) = IF host.step = "AT" THEN "ATI"
                                ELSE IF host.step = "ATI"
                                THEN (IF host.phase = "Write" THEN "Write" ELSE "Query")
                                ELSE IF host.step = "Query" THEN "Contexts"
                                ELSE IF host.step = "Contexts" THEN "Activation"
                                ELSE "End"
      BY DEF NextStep
    <3>4. PlaceInv'
      BY <2>1, <3>1, <3>2, <3>3 DEF PlaceInv, InExchange, Early
    <3>5. TargetInv'
      BY <2>1, <3>1 DEF TargetInv
    <3> QED
      BY <3>4, <3>5
  <2> QED
    BY <1>11, <2>2, <2>3, ReceiveForm
<1>12. CASE RetryRead
  <2>1. host' = [host EXCEPT !.attempt = 2, !.sent = FALSE] /\ host.step # "Write"
    BY <1>12 DEF RetryRead
  <2>2. /\ host'.phase = host.phase /\ host'.step = host.step /\ host'.seen = host.seen
    BY <1>1, <2>1 DEF Hosts
  <2> QED
    BY <1>12, <2>1, <2>2 DEF RetryRead, PlaceInv, TargetInv, InExchange, results, module
\* The executor concludes a session.
<1>13. ASSUME NEW result, Finish(result), host.step = "End", UNCHANGED <<plan, current>>,
              device' = Absent => inbox' = <<>> /\ outbox' = <<>>
       PROVE  PlaceInv' /\ TargetInv'
  <2>1. /\ host'.phase = "Done" /\ host'.step = "End"
    BY <1>13, FinishForm
  <2> QED
    BY <1>13, <2>1 DEF PlaceInv, TargetInv, InExchange, Early
<1>14. ASSUME NEW phase \in {"Current", "Rescan", "After"}, Goto(phase, "Scan", NoObservation),
              plan'.target \in Device, phase = "Rescan" => current'.target = plan'.target,
              outcome' = outcome, host.phase # "Done",
              device' = Absent => inbox' = <<>> /\ outbox' = <<>>
       PROVE  PlaceInv' /\ TargetInv'
  <2>1. /\ host'.phase = phase /\ host'.step = "Scan" /\ host'.seen = NoObservation
    BY <1>14, GotoForm
  <2>2. PlaceInv'
    BY <1>14, <2>1, NoObservationType DEF PlaceInv, InExchange, Early
  <2>3. TargetInv'
    BY <1>14, <2>1 DEF TargetInv
  <2> QED
    BY <2>2, <2>3
<1>15. CASE ConcludePrepare
  <2>1. UNCHANGED module /\ host.phase = "Prepare" /\ host.step = "End" /\ current' = current
    BY <1>15 DEF ConcludePrepare
  <2>2. device' = Absent => inbox' = <<>> /\ outbox' = <<>>
    BY <2>1 DEF module, PlaceInv
  <2>3. CASE /\ Valid(host.seen) /\ plan' = host.seen /\ Goto("Current", "Scan", NoObservation)
             /\ UNCHANGED outcome
    <3>1. plan'.target \in Device
      BY <1>1, <2>3 DEF Valid, Observation
    <3> QED
      BY <1>14, <2>1, <2>2, <2>3, <3>1
  <2>4. CASE Finish("Failed") /\ UNCHANGED plan
    BY <1>13, <2>1, <2>2, <2>4
  <2> QED
    BY <1>15, <2>3, <2>4 DEF ConcludePrepare
<1>16. CASE ConcludeCurrent
  <2>1. UNCHANGED module /\ host.phase = "Current" /\ host.step = "End" /\ plan' = plan
    BY <1>16 DEF ConcludeCurrent
  <2>2. device' = Absent => inbox' = <<>> /\ outbox' = <<>>
    BY <2>1 DEF module, PlaceInv
  <2>3. CASE /\ SameState(host.seen, plan) /\ current' = host.seen
             /\ Goto("Rescan", "Scan", NoObservation) /\ UNCHANGED outcome
    <3>1. plan'.target \in Device /\ current'.target = plan'.target
      BY <2>1, <2>3 DEF SameState, TargetInv
    <3> QED
      BY <1>14, <2>1, <2>2, <2>3, <3>1
  <2>4. CASE Finish("Failed") /\ UNCHANGED current
    BY <1>13, <2>1, <2>2, <2>4
  <2> QED
    BY <1>16, <2>3, <2>4 DEF ConcludeCurrent
<1>17. CASE ConcludeRescan
  <2>1. /\ host.phase = "Rescan" /\ host.step = "End" /\ UNCHANGED <<plan, current, device>>
        /\ plan.target \in Device /\ current.target = plan.target
    BY <1>17 DEF ConcludeRescan, TargetInv
  <2>2. CASE Dispatched("Unknown") /\ UNCHANGED <<inbox, outbox, outcome>>
    <3>1. device' = Absent => inbox' = <<>> /\ outbox' = <<>>
      BY <2>1, <2>2 DEF PlaceInv
    <3> QED
      BY <1>14, <2>1, <2>2, <3>1 DEF Dispatched
  <2>3. CASE Finish("Failed") /\ UNCHANGED <<inbox, outbox, dispatch>>
    <3>1. device' = Absent => inbox' = <<>> /\ outbox' = <<>>
      BY <2>1, <2>3 DEF PlaceInv
    <3> QED
      BY <1>13, <2>1, <2>3, <3>1
  <2>4. CASE /\ SameState(host.seen, current) /\ Goto("Write", "AT", host.seen) /\ OpensSession
             /\ UNCHANGED <<dispatch, outcome>>
    <3>1. /\ host'.phase = "Write" /\ host'.step = "AT" /\ host'.seen = host.seen
          /\ host'.attempt = 1
      BY <2>4, GotoForm
    <3>2. host.seen.target = plan.target
      BY <2>1, <2>4 DEF SameState
    <3>3. device = Absent => inbox' = <<>> /\ outbox' = <<>>
      <4> SUFFICES ASSUME device = Absent PROVE inbox' = <<>> /\ outbox' = <<>>
        OBVIOUS
      <4>1. inbox = <<>> /\ outbox = <<>>
        BY DEF PlaceInv
      <4>2. Aged(<<>>) = <<>>
        BY DEF Aged
      <4> QED
        BY <2>4, <4>1, <4>2 DEF OpensSession
    <3>4. PlaceInv'
      BY <2>1, <3>1, <3>2, <3>3 DEF PlaceInv, Early
    <3>5. TargetInv'
      BY <2>1, <2>4, <3>1, <3>2 DEF TargetInv
    <3> QED
      BY <3>4, <3>5
  <2> QED
    BY <1>17, <2>2, <2>3, <2>4 DEF ConcludeRescan
<1>18. CASE ConcludeWrite
  <2>1. /\ UNCHANGED module /\ host.phase = "Write" /\ host.step = "End"
        /\ UNCHANGED <<plan, current>> /\ plan.target \in Device
    BY <1>18 DEF ConcludeWrite, TargetInv
  <2>2. device' = Absent => inbox' = <<>> /\ outbox' = <<>>
    BY <2>1 DEF module, PlaceInv
  <2>3. CASE Finish("Failed") /\ UNCHANGED dispatch
    BY <1>13, <2>1, <2>2, <2>3
  <2>4. CASE (\E result : Dispatched(result)) /\ UNCHANGED outcome
    BY <1>14, <2>1, <2>2, <2>4 DEF Dispatched
  <2> QED
    BY <1>18, <2>3, <2>4 DEF ConcludeWrite
<1>19. CASE ConcludeAfter
  <2>1. UNCHANGED module /\ host.step = "End" /\ UNCHANGED <<plan, current>> /\ Finish(Judgement)
    BY <1>19 DEF ConcludeAfter
  <2>2. device' = Absent => inbox' = <<>> /\ outbox' = <<>>
    BY <2>1 DEF module, PlaceInv
  <2> QED
    BY <1>13, <2>1, <2>2
<1> QED
  BY <1>4, <1>5, <1>6, <1>7, <1>9, <1>10, <1>11, <1>12, <1>15, <1>16, <1>17, <1>18, <1>19
     DEF Next, Executor, Exchange, Module


-----------------------------------------------------------------------------
(* Late answers *)

\* The three invariants of the queue.
QueueInv == NoQueryBehind /\ OnlyOwnQueries /\ HandshakeInv

\* The queue as it was, without its first k places.
QueueShifts(k) ==
  /\ Total' = Total - k
  /\ \A i \in Places' : i + k \in Places /\ To(i)' = To(i + k) /\ OwnAt(i)' = OwnAt(i + k)

LEMMA StaysShifts ==
  ASSUME TypeOK, QueueStays
  PROVE  QueueShifts(0)
<1>1. Total \in Nat
  BY QueueType
<1>2. Total' = Total - 0 /\ Places' = Places /\ Places = 1..Total
  BY <1>1 DEF QueueStays, Places
<1>3. ASSUME NEW i \in Places'
      PROVE  i + 0 \in Places /\ To(i)' = To(i + 0) /\ OwnAt(i)' = OwnAt(i + 0)
  <2>1. i \in Places /\ i + 0 = i
    BY <1>1, <1>2
  <2> QED
    BY <2>1 DEF QueueStays
<1> QED
  BY <1>2, <1>3 DEF QueueShifts

LEMMA ReceiveShifts ==
  ASSUME TypeOK, Receive
  PROVE  QueueShifts(1) /\ Total \in Nat \ {0}
<1>1. Total \in Nat
  BY QueueType
<1>2. /\ QueueLoses(1) /\ \A i \in 1..Total - 1 : OwnAt(i)' = OwnAt(i + 1)
      /\ 1 \in Places
  BY ReceiveLoses
<1>3. Total' = Total - 1 /\ Places' = 1..Total - 1
  BY <1>2 DEF QueueLoses, Places
<1>4. ASSUME NEW i \in Places'
      PROVE  i + 1 \in Places /\ To(i)' = To(i + 1) /\ OwnAt(i)' = OwnAt(i + 1)
  BY <1>2, <1>3 DEF QueueLoses
<1>5. Total # 0
  BY <1>1, <1>2 DEF Places
<1> QED
  BY <1>1, <1>3, <1>4, <1>5 DEF QueueShifts

LEMMA EmptyQueue ==
  ASSUME inbox' = <<>>, outbox' = <<>>
  PROVE  Total' = 0 /\ Places' = {} /\ QueueInv'
<1>1. Total' = 0
  BY DEF Total
<1>2. Places' = {}
  BY <1>1 DEF Places
<1> QED
  BY <1>1, <1>2 DEF QueueInv, NoQueryBehind, OnlyOwnQueries, HandshakeInv

LEMMA PlacesAre ==
  ASSUME TypeOK
  PROVE  Total \in Nat /\ \A i : i \in Places <=> i \in Int /\ 1 <= i /\ i <= Total
BY QueueType DEF Places

\* A session that goes on, or ends, has behind its handshake what it had.
LEMMA ShiftedBehind ==
  ASSUME TypeOK, NoQueryBehind, NEW k \in {0, 1}, QueueShifts(k), host'.phase = host.phase,
         host'.step = host.step \/ host'.step # "Scan"
  PROVE  NoQueryBehind'
<1> SUFFICES ASSUME NEW i \in Places', NEW j \in Places', i < j, To(i)' \in {"AT", "Write"},
                    To(j)' = "Query"
             PROVE  host'.phase \in {"After", "Done"} /\ host'.step # "Scan" /\ OwnAt(j)'
  BY DEF NoQueryBehind
<1> DEFINE m == i + k
           n == j + k
<1>1. /\ m \in Places /\ To(i)' = To(m) /\ n \in Places /\ To(j)' = To(n)
      /\ OwnAt(j)' = OwnAt(n)
  BY DEF QueueShifts
<1>2. i \in Int /\ j \in Int
  <2>1. k \in Int /\ Total \in Int /\ Total' = Total - k
    BY PlacesAre DEF QueueShifts
  <2>2. Places' = 1..Total'
    BY DEF Places
  <2> QED
    BY <2>1, <2>2
<1>3. m < n
  BY <1>2
<1> HIDE DEF m, n
<1>4. host.phase \in {"After", "Done"} /\ host.step # "Scan" /\ OwnAt(n)
  BY <1>1, <1>3 DEF NoQueryBehind
<1> QED
  BY <1>1, <1>4

\* The queue stays and the executor stays in its exchange.
LEMMA StayingQueue ==
  ASSUME TypeOK, QueueStays, QueueInv, host'.phase = host.phase, host'.step = host.step,
         host'.seen = host.seen, host.step = "AT" => Sent' = Sent
  PROVE  QueueInv'
<1>1. Total' = Total /\ Places' = Places
      /\ \A i \in Places : To(i)' = To(i) /\ OwnAt(i)' = OwnAt(i)
  BY DEF QueueStays, Places
<1>2. NoQueryBehind'
  BY <1>1 DEF QueueInv, NoQueryBehind
<1>3. OnlyOwnQueries'
  BY <1>1 DEF QueueInv, OnlyOwnQueries
<1>4. HandshakeInv'
  BY <1>1 DEF QueueInv, HandshakeInv
<1> QED
  BY <1>2, <1>3, <1>4 DEF QueueInv

\* The executor ends its session with what it has, or reads on.
LEMMA EndingQueue ==
  ASSUME TypeOK, PlaceInv, QueueInv, Broken, NEW k \in {0, 1}, QueueShifts(k)
  PROVE  QueueInv'
<1>1. /\ host'.phase = host.phase /\ host'.step \in {"Contexts", "Activation", "End"}
      /\ host'.seen = host.seen \/ (host.step = "Scan" /\ ~host'.seen.at)
  BY NoObservationType DEF Broken
<1>2. NoQueryBehind'
  BY <1>1, ShiftedBehind DEF QueueInv
<1>3. OnlyOwnQueries'
  BY <1>1 DEF OnlyOwnQueries
<1>4. HandshakeInv'
  <2> SUFFICES ASSUME host.phase \in Early, host'.seen.at, NEW i \in Places'
               PROVE  To(i)' # "AT"
    BY <1>1 DEF HandshakeInv
  <2>1. i + k \in Places /\ To(i)' = To(i + k)
    BY DEF QueueShifts
  <2>2. host.seen.at
    BY <1>1
  <2> QED
    BY <2>1, <2>2 DEF QueueInv, HandshakeInv
<1> QED
  BY <1>2, <1>3, <1>4 DEF QueueInv

\* An accepted answer: a handshake's answer has no late query behind it.
LEMMA AcceptingQueue ==
  ASSUME TypeOK, PlaceInv, QueueInv, WriteInv, Receive, Accepted(Head(outbox))
  PROVE  QueueInv'
<1>1. /\ host'.phase = host.phase /\ host'.step = NextStep(host.step)
      /\ host'.seen.at = (host.seen.at \/ host.step = "ATI")
      /\ Fits(host.step, Head(outbox))
  BY DEF Accepted
<1>2. /\ QueueShifts(1) /\ Total \in Nat \ {0} /\ 1 \in Places /\ To(1) = Head(outbox).to
  BY ReceiveShifts, ReceiveLoses
<1>3. /\ host.step \in {"AT", "ATI", "Query", "Contexts", "Activation", "Write"}
      /\ host.sent /\ host.attempt \in 1..2
  BY HostType DEF Receive, InExchange
<1>4. NextStep(host.step) = IF host.step = "AT" THEN "ATI"
                            ELSE IF host.step = "ATI"
                            THEN (IF host.phase = "Write" THEN "Write" ELSE "Query")
                            ELSE IF host.step = "Query" THEN "Contexts"
                            ELSE IF host.step = "Contexts" THEN "Activation" ELSE "End"
  BY DEF NextStep
<1>5. NoQueryBehind'
  <2>1. host'.step # "Scan"
    BY <1>1, <1>4
  <2> QED
    BY <1>1, <1>2, <2>1, ShiftedBehind DEF QueueInv
<1>6. host.step = "AT" => To(1) \in {"AT", "Write"}
  BY <1>1, <1>2 DEF Fits, Bare
<1>7. ASSUME NEW i \in Places'
      PROVE  /\ i \in Int /\ 1 <= i /\ i <= Total - 1 /\ i + 1 \in Places
             /\ To(i)' = To(i + 1) /\ OwnAt(i)' = OwnAt(i + 1)
  <2>1. Places' = 1..Total' /\ Total' = Total - 1
    BY <1>2 DEF Places, QueueShifts
  <2> QED
    BY <1>2, <2>1 DEF QueueShifts
<1>8. OnlyOwnQueries'
  <2> SUFFICES ASSUME host'.step \in {"ATI", "Query"}, NEW i \in Places', To(i)' = "Query"
               PROVE  OwnAt(i)'
    BY DEF OnlyOwnQueries
  <2> DEFINE j == i + 1
  <2>1. j \in Places /\ 1 < j /\ To(j) = "Query" /\ OwnAt(i)' = OwnAt(j)
    BY <1>7
  <2> HIDE DEF j
  <2>2. host.step \in {"AT", "ATI"}
    BY <1>1, <1>3, <1>4
  <2>3. CASE host.step = "AT"
    BY <1>2, <1>6, <2>1, <2>3 DEF QueueInv, NoQueryBehind
  <2>4. CASE host.step = "ATI"
    BY <2>1, <2>4 DEF QueueInv, OnlyOwnQueries
  <2> QED
    BY <2>1, <2>2, <2>3, <2>4
<1>9. HandshakeInv'
  <2> SUFFICES ASSUME host.phase \in Early, NEW i \in Places', To(i)' = "AT"
               PROVE  host'.step = "ATI" /\ i = 1 /\ ~host'.seen.at
    BY <1>1, <1>4 DEF HandshakeInv
  <2> DEFINE j == i + 1
  <2>1. j \in Places /\ j # 1 /\ To(j) = "AT" /\ i \in Int /\ 1 <= i /\ i <= Total - 1
    BY <1>7
  <2> HIDE DEF j
  <2>2. host.step # "ATI" /\ ~host.seen.at
    BY <2>1 DEF QueueInv, HandshakeInv
  <2>3. host.step = "AT"
    BY <1>3, <2>2 DEF PlaceInv
  <2>4. To(1) = "AT"
    <3>1. ~lineOut
      BY DEF WriteInv, LineOutInv, Early
    <3> QED
      BY <1>2, <1>6, <2>3, <3>1 DEF WriteInv, NoLineInv
  <2>5. 1 > Total - Sent /\ Sent = host.attempt
    BY <1>2, <1>3, <2>3, <2>4 DEF QueueInv, HandshakeInv, Sent
  <2>6. i = 1
    BY <1>2, <1>3, <2>1, <2>5
  <2> QED
    BY <1>1, <1>4, <2>2, <2>3, <2>6
<1> QED
  BY <1>5, <1>8, <1>9 DEF QueueInv

\* A command is written: a query only behind a handshake that nobody waits for.
LEMMA SendingQueue ==
  ASSUME TypeOK, PlaceInv, QueueInv, WriteInv, Send
  PROVE  QueueInv'
<1>1. host' = [host EXCEPT !.sent = TRUE] /\ InExchange /\ ~host.sent
  BY DEF Send
<1>2. /\ host \in Hosts /\ host.attempt \in 1..2
      /\ host.step \in {"AT", "ATI", "Query", "Contexts", "Activation", "Write"}
  BY <1>1, HostType DEF InExchange
<1>3. /\ host'.phase = host.phase /\ host'.step = host.step /\ host'.seen = host.seen
      /\ host'.attempt = host.attempt /\ host'.sent
  BY <1>1, <1>2 DEF Hosts
<1>4. Sent = host.attempt - 1 /\ Sent' = host.attempt
  BY <1>1, <1>3 DEF Sent
<1>5. QueueGains(host.step) /\ Total \in Nat
  BY SendGains, PlacesAre
<1>6. ASSUME NEW i \in Places'
      PROVE  /\ i \in Int /\ 1 <= i /\ i <= Total + 1 /\ Total' = Total + 1
             /\ \/ i \in Places /\ To(i)' = To(i) /\ OwnAt(i)' = OwnAt(i)
                \/ i = Total + 1 /\ To(i)' = host.step /\ OwnAt(i)'
  <2>1. Places' = 1..Total' /\ Total' = Total + 1 /\ Places = 1..Total
    BY <1>5 DEF Places, QueueGains
  <2>2. i \in 1..Total + 1
    BY <2>1
  <2>3. CASE i \in Places
    BY <1>5, <2>1, <2>2, <2>3 DEF QueueGains
  <2>4. CASE i \notin Places
    <3>1. i = Total + 1
      BY <1>5, <2>1, <2>2, <2>4
    <3>2. To(i)' = host.step /\ OwnAt(i)'
      BY <1>5, <2>2, <2>4 DEF QueueGains
    <3> QED
      BY <1>5, <2>1, <3>1, <3>2
  <2> QED
    BY <2>3, <2>4
<1>7. NoQueryBehind'
  <2> SUFFICES ASSUME NEW i \in Places', NEW j \in Places', i < j, To(i)' \in {"AT", "Write"},
                      To(j)' = "Query"
               PROVE  host'.phase \in {"After", "Done"} /\ host'.step # "Scan" /\ OwnAt(j)'
    BY DEF NoQueryBehind
  <2>1. i \in Places /\ To(i)' = To(i)
    <3>1. i # Total + 1
      BY <1>5, <1>6
    <3> QED
      BY <1>6, <3>1
  <2>2. CASE j \in Places /\ To(j)' = To(j) /\ OwnAt(j)' = OwnAt(j)
    BY <1>3, <2>1, <2>2 DEF QueueInv, NoQueryBehind
  <2>3. CASE j = Total + 1 /\ To(j)' = host.step /\ OwnAt(j)'
    <3>1. host.step = "Query" /\ host.seen.at
      BY <2>3 DEF PlaceInv
    <3>2. host.phase \notin Early
      <4> SUFFICES ASSUME host.phase \in Early PROVE FALSE
        OBVIOUS
      <4>1. To(i) = "Write"
        BY <2>1, <3>1 DEF QueueInv, HandshakeInv
      <4>2. ~lineOut
        BY DEF WriteInv, LineOutInv, Early
      <4> QED
        BY <2>1, <4>1, <4>2 DEF WriteInv, NoLineInv
    <3>3. host.phase \in Phase /\ host.phase # "Write"
      BY <3>1, HostType DEF PlaceInv
    <3> QED
      BY <1>3, <2>3, <3>1, <3>2, <3>3 DEF Early, Phase
  <2> QED
    BY <1>6, <2>2, <2>3
<1>8. OnlyOwnQueries'
  <2> SUFFICES ASSUME host.step \in {"ATI", "Query"}, NEW i \in Places', To(i)' = "Query"
               PROVE  OwnAt(i)'
    BY <1>3 DEF OnlyOwnQueries
  <2> QED
    BY <1>6 DEF QueueInv, OnlyOwnQueries
<1>9. HandshakeInv'
  <2> SUFFICES ASSUME host.phase \in Early, NEW i \in Places', To(i)' = "AT"
               PROVE  /\ host.step = "AT" => i > Total' - Sent'
                      /\ host.step = "ATI" => i = 1
                      /\ host.step # "Scan" /\ ~host.seen.at
    BY <1>3 DEF HandshakeInv
  <2>1. CASE i \in Places /\ To(i)' = To(i)
    <3>1. host.step = "AT" => i > Total - Sent
      BY <2>1 DEF QueueInv, HandshakeInv
    <3>2. host.step = "ATI" => i = 1
      BY <2>1 DEF QueueInv, HandshakeInv
    <3>3. host.step # "Scan" /\ ~host.seen.at
      BY <2>1 DEF QueueInv, HandshakeInv
    <3>4. Total' - Sent' = Total - Sent
      BY <1>2, <1>4, <1>5, <1>6
    <3> QED
      BY <3>1, <3>2, <3>3, <3>4
  <2>2. CASE i = Total + 1 /\ To(i)' = host.step
    <3>1. host.step = "AT"
      BY <2>2
    <3>2. ~host.seen.at
      BY <3>1 DEF PlaceInv
    <3>3. i > Total' - Sent'
      BY <1>2, <1>4, <1>5, <1>6, <2>2
    <3> QED
      BY <3>1, <3>2, <3>3
  <2> QED
    BY <1>6, <2>1, <2>2
<1> QED
  BY <1>7, <1>8, <1>9 DEF QueueInv

\* A new session opens: every answer still to come is late now.
LEMMA OpeningQueue ==
  ASSUME TypeOK, QueueInv, host.step = "Scan" \/ host.phase \notin {"After", "Done"},
         NEW k \in 0..Total, QueueLoses(k), host'.step = "AT",
         host'.phase \in Early => host.step = "Scan" /\ host.phase = host'.phase /\ ~host'.seen.at
  PROVE  QueueInv'
<1>1. Total \in Nat /\ k \in Int /\ Total' = Total - k
  BY PlacesAre DEF QueueLoses
<1>2. ASSUME NEW i \in Places' PROVE i \in Int /\ i + k \in Places /\ To(i)' = To(i + k)
  <2>1. Places' = 1..Total - k
    BY <1>1 DEF Places
  <2> QED
    BY <1>1, <2>1 DEF QueueLoses
<1>3. NoQueryBehind'
  <2> SUFFICES ASSUME NEW i \in Places', NEW j \in Places', i < j, To(i)' \in {"AT", "Write"},
                      To(j)' = "Query"
               PROVE  FALSE
    BY DEF NoQueryBehind
  <2> DEFINE m == i + k
             n == j + k
  <2>1. m \in Places /\ n \in Places /\ To(m) \in {"AT", "Write"} /\ To(n) = "Query" /\ m < n
    BY <1>1, <1>2
  <2> HIDE DEF m, n
  <2> QED
    BY <2>1 DEF QueueInv, NoQueryBehind
<1>4. OnlyOwnQueries'
  BY DEF OnlyOwnQueries
<1>5. HandshakeInv'
  <2> SUFFICES ASSUME host'.phase \in Early, NEW i \in Places' PROVE To(i)' # "AT"
    BY DEF HandshakeInv
  <2>1. host.phase \in Early /\ host.step = "Scan"
    OBVIOUS
  <2> QED
    BY <1>2, <2>1 DEF QueueInv, HandshakeInv
<1> QED
  BY <1>3, <1>4, <1>5 DEF QueueInv

\* The executor is between two sessions, or done.
LEMMA BetweenQueue ==
  ASSUME TypeOK, PlaceInv, QueueInv, QueueStays,
         \/ /\ host'.step = "Scan" /\ host.phase \in Early \cup {"Write"} /\ ~host'.seen.at
            /\ host'.phase \in Early => host.phase \in Early /\ host.seen.at
         \/ host'.step = "End" /\ host'.phase = "Done" /\ host.step = "End"
  PROVE  QueueInv'
<1>1. Total' = Total /\ Places' = Places
      /\ \A i \in Places : To(i)' = To(i) /\ OwnAt(i)' = OwnAt(i)
  BY DEF QueueStays, Places
<1>2. NoQueryBehind'
  BY <1>1 DEF QueueInv, NoQueryBehind, Early
<1>3. OnlyOwnQueries'
  BY DEF OnlyOwnQueries
<1>4. HandshakeInv'
  BY <1>1 DEF QueueInv, HandshakeInv, Early
<1> QED
  BY <1>2, <1>3, <1>4 DEF QueueInv

LEMMA QueueStep ==
  ASSUME TypeOK, PlaceInv, TargetInv, QueueInv, WriteInv, Next
  PROVE  QueueInv'
<1>1. /\ host \in Hosts /\ host.phase \in Phase /\ host.step \in Step
      /\ host.attempt \in 1..2 /\ host.seen \in Observation
  BY HostType
<1>2. CASE ModuleAnswers
  <2>1. host' = host
    BY <1>2 DEF ModuleAnswers
  <2> QED
    BY <1>2, <2>1, AnswersStay, StayingQueue DEF Sent
<1>3. CASE Unplug
  BY <1>3, EmptyQueue DEF Unplug
<1>4. ASSUME NEW d \in Device, Plug(d) PROVE QueueInv'
  <2>1. host' = host /\ QueueStays
    BY <1>4, SameQueue DEF Plug
  <2> QED
    BY <2>1, StayingQueue DEF Sent
<1>5. CASE Scan
  <2>1. /\ host'.phase = host.phase /\ host'.step = "AT" /\ ~host'.seen.at /\ host.step = "Scan"
        /\ \E k \in 0..Total : QueueLoses(k)
    BY <1>5, ScanForm
  <2> QED
    BY <2>1, OpeningQueue
<1>6. CASE ScanFindsNone \/ PortUnavailable \/ PortGone \/ TimedOut
  <2>1. Broken /\ UNCHANGED <<inbox, outbox>>
    BY <1>6, BrokenForm DEF module
  <2>2. QueueShifts(0)
    BY <2>1, SameQueue, StaysShifts
  <2> QED
    BY <2>1, <2>2, EndingQueue
<1>7. CASE Send
  BY <1>7, SendingQueue
<1>8. CASE Receive
  <2>1. QueueShifts(1)
    BY <1>8, ReceiveShifts
  <2> QED
    BY <1>8, <2>1, ReceiveForm, EndingQueue, AcceptingQueue
<1>9. CASE RetryRead
  <2>1. /\ host' = [host EXCEPT !.attempt = 2, !.sent = FALSE] /\ host.sent /\ host.attempt = 1
        /\ QueueStays
    BY <1>9, SameQueue DEF RetryRead, module
  <2>2. /\ host'.phase = host.phase /\ host'.step = host.step /\ host'.seen = host.seen
        /\ host'.attempt = 2 /\ ~host'.sent
    BY <1>1, <2>1 DEF Hosts
  <2>3. Sent' = Sent
    BY <2>1, <2>2 DEF Sent
  <2> QED
    BY <2>1, <2>2, <2>3, StayingQueue
\* The executor concludes a session.
<1>10. ASSUME NEW result, Finish(result), host.step = "End", UNCHANGED <<inbox, outbox>>
       PROVE  QueueInv'
  <2>1. host'.phase = "Done" /\ host'.step = "End"
    BY <1>10, FinishForm
  <2> QED
    BY <1>10, <2>1, SameQueue, BetweenQueue
<1>11. ASSUME NEW phase \in {"Current", "Rescan", "After"}, Goto(phase, "Scan", NoObservation),
              UNCHANGED <<inbox, outbox>>, host.phase \in Early \cup {"Write"},
              phase # "After" => host.phase \in Early /\ host.seen.at
       PROVE  QueueInv'
  <2>1. host'.phase = phase /\ host'.step = "Scan" /\ ~host'.seen.at
    BY <1>11, GotoForm, NoObservationType
  <2>2. phase \in Early => host.phase \in Early /\ host.seen.at
    BY <1>11 DEF Early
  <2> QED
    BY <1>11, <2>1, <2>2, SameQueue, BetweenQueue
<1>12. CASE ConcludePrepare
  BY <1>10, <1>11, <1>12 DEF ConcludePrepare, module, Valid, Early
<1>13. CASE ConcludeCurrent
  BY <1>10, <1>11, <1>13 DEF ConcludeCurrent, module, Valid, Early
<1>14. CASE ConcludeRescan
  <2>1. host.phase = "Rescan" /\ host.step = "End"
    BY <1>14 DEF ConcludeRescan
  <2>2. CASE Dispatched("Unknown") /\ UNCHANGED <<inbox, outbox, outcome>>
    BY <1>11, <2>1, <2>2 DEF Dispatched, Early
  <2>3. CASE Finish("Failed") /\ UNCHANGED <<inbox, outbox, dispatch>>
    BY <1>10, <2>1, <2>3
  <2>4. CASE Goto("Write", "AT", host.seen) /\ OpensSession
    <3>1. host'.phase = "Write" /\ host'.step = "AT" /\ "Write" \notin Early
      BY <2>4, GotoForm DEF Early
    <3>2. \E k \in 0..Total : QueueLoses(k)
      BY <2>4, OpensLoses
    <3> QED
      BY <2>1, <3>1, <3>2, OpeningQueue
  <2> QED
    BY <1>14, <2>2, <2>3, <2>4 DEF ConcludeRescan
<1>15. CASE ConcludeWrite
  <2>1. host.phase = "Write" /\ host.step = "End" /\ UNCHANGED <<inbox, outbox>>
    BY <1>15 DEF ConcludeWrite, module
  <2>2. (\E result : Dispatched(result)) \/ Finish("Failed")
    BY <1>15 DEF ConcludeWrite
  <2> QED
    BY <1>10, <1>11, <2>1, <2>2 DEF Dispatched
<1>16. CASE ConcludeAfter
  BY <1>10, <1>16 DEF ConcludeAfter, module
<1> QED
  BY <1>2, <1>3, <1>4, <1>5, <1>6, <1>7, <1>8, <1>9, <1>12, <1>13, <1>14, <1>15, <1>16
     DEF Next, Executor, Exchange, Module

\* A query takes an answer of its own session.
LEMMA ReadbackStep ==
  ASSUME TypeOK, PlaceInv, OnlyOwnQueries, ReadbackIsOwn, Next
  PROVE  ReadbackIsOwn'
<1>1. CASE Receive
  <2>1. 1 \in Places /\ To(1) = Head(outbox).to /\ OwnAt(1) = Head(outbox).own
    BY <1>1, ReceiveLoses
  <2>2. CASE Accepted(Head(outbox))
    <3>1. /\ Fits(host.step, Head(outbox))
          /\ misread' = (misread \/ (host.step = "Query" /\ ~Head(outbox).own))
      BY <2>2 DEF Accepted
    <3>2. host.step = "Query" => Head(outbox).own
      BY <2>1, <3>1 DEF Fits, OnlyOwnQueries
    <3> QED
      BY <3>1, <3>2 DEF ReadbackIsOwn
  <2> QED
    BY <1>1, <2>2, ReceiveForm DEF ReadbackIsOwn
<1>2. CASE ~Receive
  <2>1. misread' = misread
    BY <1>2 DEF Next, Executor, Exchange, Module, ModuleAnswers, Unplug, Plug, Scan,
                ScanFindsNone, PortUnavailable, Send, PortGone, RetryRead, TimedOut,
                ConcludePrepare, ConcludeCurrent, ConcludeRescan, ConcludeWrite, ConcludeAfter
  <2> QED
    BY <2>1 DEF ReadbackIsOwn
<1> QED
  BY <1>1, <1>2

-----------------------------------------------------------------------------
(* The write *)

\* Nothing is added to what the port holds.
InboxKept ==
  \E k \in {0, 1} : \A i \in 1..Len(inbox)' :
    i + k \in 1..Len(inbox) /\ inbox'[i].to = inbox[i + k].to
OutboxKept ==
  \E k \in {0, 1} : \A i \in 1..Len(outbox)' :
    /\ i + k \in 1..Len(outbox)
    /\ outbox'[i].to = outbox[i + k].to /\ outbox'[i].value = outbox[i + k].value
NoWriteAdded ==
  \A i \in Places' : To(i)' = "Write" => \E j \in Places : To(j) = "Write"

LEMMA InboxStays ==
  ASSUME TypeOK, UNCHANGED inbox
  PROVE  InboxKept
<1>1. Len(inbox) \in Nat
  BY QueueType
<1>2. \A i \in 1..Len(inbox)' : i + 0 \in 1..Len(inbox) /\ inbox'[i].to = inbox[i + 0].to
  BY <1>1
<1> QED
  BY <1>2 DEF InboxKept

LEMMA OutboxStays ==
  ASSUME TypeOK, UNCHANGED outbox
  PROVE  OutboxKept
<1>1. Len(outbox) \in Nat
  BY QueueType
<1>2. \A i \in 1..Len(outbox)' :
        /\ i + 0 \in 1..Len(outbox)
        /\ outbox'[i].to = outbox[i + 0].to /\ outbox'[i].value = outbox[i + 0].value
  BY <1>1
<1> QED
  BY <1>2 DEF OutboxKept

LEMMA StaysAddsNone ==
  ASSUME QueueStays
  PROVE  NoWriteAdded
BY DEF QueueStays, NoWriteAdded, Places

LEMMA LosesAddsNone ==
  ASSUME TypeOK, NEW k \in 0..Total, QueueLoses(k)
  PROVE  NoWriteAdded
<1>1. Places' = 1..Total - k
  BY DEF QueueLoses, Places
<1> QED
  BY <1>1 DEF QueueLoses, NoWriteAdded

LEMMA OpensKeeps ==
  ASSUME TypeOK, OpensSession
  PROVE  InboxKept /\ OutboxKept /\ NoWriteAdded
<1>1. /\ Len(outbox) \in Nat /\ Len(inbox) \in Nat
      /\ inbox \in Seq(Asked) /\ outbox \in Seq(Answered)
  BY QueueType
<1>2. InboxKept
  <2>1. DOMAIN inbox = 1..Len(inbox) /\ \A i \in 1..Len(inbox) : inbox[i] \in Asked
    BY <1>1
  <2>2. inbox' = [i \in 1..Len(inbox) |-> [inbox[i] EXCEPT !.own = FALSE]]
    BY <2>1 DEF OpensSession, Aged
  <2>3. Len(inbox)' = Len(inbox)
    BY <1>1, <2>2
  <2>4. ASSUME NEW i \in 1..Len(inbox) PROVE inbox'[i].to = inbox[i].to
    BY <2>1, <2>2 DEF Asked
  <2>5. \A i \in 1..Len(inbox)' : i + 0 \in 1..Len(inbox) /\ inbox'[i].to = inbox[i + 0].to
    BY <1>1, <2>3, <2>4
  <2> QED
    BY <2>5 DEF InboxKept
<1>3. OutboxKept
  <2>1. DOMAIN outbox = 1..Len(outbox) /\ \A i \in 1..Len(outbox) : outbox[i] \in Answered
    BY <1>1
  <2>2. CASE outbox' = Aged(outbox)
    <3>1. outbox' = [i \in 1..Len(outbox) |-> [outbox[i] EXCEPT !.own = FALSE]]
      BY <2>1, <2>2 DEF Aged
    <3>2. Len(outbox)' = Len(outbox)
      BY <1>1, <3>1
    <3>3. ASSUME NEW i \in 1..Len(outbox)
          PROVE  outbox'[i].to = outbox[i].to /\ outbox'[i].value = outbox[i].value
      BY <2>1, <3>1 DEF Answered
    <3>4. \A i \in 1..Len(outbox)' :
            /\ i + 0 \in 1..Len(outbox)
            /\ outbox'[i].to = outbox[i + 0].to /\ outbox'[i].value = outbox[i + 0].value
      BY <1>1, <3>2, <3>3
    <3> QED
      BY <3>4 DEF OutboxKept
  <2>3. CASE outbox' = <<>>
    BY <2>3 DEF OutboxKept
  <2> QED
    BY <2>2, <2>3 DEF OpensSession
<1>4. NoWriteAdded
  BY OpensLoses, LosesAddsNone
<1> QED
  BY <1>2, <1>3, <1>4

LEMMA ReceiveKeeps ==
  ASSUME TypeOK, Receive
  PROVE  InboxKept /\ OutboxKept /\ NoWriteAdded
<1>1. InboxKept
  BY InboxStays DEF Receive
<1>2. OutboxKept
  <2>1. Len(outbox') = Len(outbox) - 1 /\ Len(outbox) \in Nat
        /\ \A i \in 1..Len(outbox') : outbox'[i] = outbox[i + 1]
    BY ReceiveLoses, QueueType
  <2>2. \A i \in 1..Len(outbox)' :
          /\ i + 1 \in 1..Len(outbox)
          /\ outbox'[i].to = outbox[i + 1].to /\ outbox'[i].value = outbox[i + 1].value
    BY <2>1
  <2> QED
    BY <2>2 DEF OutboxKept
<1>3. NoWriteAdded
  BY ReceiveLoses, LosesAddsNone DEF QueueLoses
<1> QED
  BY <1>1, <1>2, <1>3

LEMMA EmptyKeeps ==
  ASSUME inbox' = <<>>, outbox' = <<>>
  PROVE  InboxKept /\ OutboxKept /\ NoWriteAdded
<1>1. Len(inbox)' = 0 /\ Len(outbox)' = 0 /\ Places' = {}
  BY EmptyQueue
<1> QED
  BY <1>1 DEF InboxKept, OutboxKept, NoWriteAdded

\* The module's answer, seen from the front of the inbox.
LEMMA AnswersKeeps ==
  ASSUME TypeOK, ModuleAnswers
  PROVE  /\ InboxKept /\ NoWriteAdded /\ 1 \in 1..Len(inbox) /\ device \in Device
         /\ \A i \in 1..Len(inbox)' : i + 1 \in 1..Len(inbox) /\ inbox'[i].to = inbox[i + 1].to
         /\ \/ UNCHANGED <<writes, setting>>
            \/ /\ inbox[1].to = "Write"
               /\ writes' = [writes EXCEPT ![device] = @ + 1]
               /\ setting' = IF action = "SetUsbNetProfile"
                             THEN [setting EXCEPT ![device] = Want] ELSE setting
         /\ Len(outbox)' = Len(outbox) + 1
         /\ \A i \in 1..Len(outbox) : outbox'[i] = outbox[i]
         /\ \A i \in 1..Len(outbox)' : i \notin 1..Len(outbox) /\ outbox'[i].to = "Query" =>
              UNCHANGED <<writes, setting>> /\ outbox'[i].value = setting[device]
<1> DEFINE a == outbox
           q == inbox
           h == Head(inbox)
<1>1. /\ Len(a) \in Nat /\ Len(q) \in Nat /\ a \in Seq(Answered) /\ q \in Seq(Asked)
  BY QueueType
<1>2. q # <<>> /\ inbox' = Tail(q) /\ device \in Device
  BY DEF ModuleAnswers, TypeOK
<1>3. h = q[1] /\ 1 \in 1..Len(q) /\ Len(inbox') = Len(q) - 1
      /\ \A i \in 1..Len(q) - 1 : inbox'[i] = q[i + 1]
  <2> HIDE DEF a, q
  <2> QED
    BY <1>1, <1>2 DEF q
<1>4. PICK ok \in BOOLEAN :
        /\ outbox' = Append(a, [to |-> h.to, own |-> h.own, ok |-> ok,
                                value |-> IF h.to = "Query" THEN setting[device] ELSE Unread])
        /\ IF h.to = "Write" /\ ok
           THEN /\ writes' = [writes EXCEPT ![device] = @ + 1]
                /\ setting' = IF action = "SetUsbNetProfile"
                              THEN [setting EXCEPT ![device] = Want] ELSE setting
           ELSE UNCHANGED <<writes, setting>>
  BY DEF ModuleAnswers
<1>5. /\ Len(outbox') = Len(a) + 1 /\ \A i \in 1..Len(a) : outbox'[i] = a[i]
      /\ outbox'[Len(a) + 1].to = h.to
      /\ h.to = "Query" => outbox'[Len(a) + 1].value = setting[device]
  <2> DEFINE r == [to |-> h.to, own |-> h.own, ok |-> ok,
                   value |-> IF h.to = "Query" THEN setting[device] ELSE Unread]
  <2>1. r.to = h.to /\ (h.to = "Query" => r.value = setting[device])
    OBVIOUS
  <2>2. outbox' = Append(a, r)
    BY <1>4
  <2> HIDE DEF r, a, h
  <2> QED
    BY <1>1, <2>1, <2>2 DEF a
<1>6. \A i \in 1..Len(inbox)' : i + 1 \in 1..Len(q) /\ inbox'[i].to = q[i + 1].to
  BY <1>1, <1>3
<1>7. InboxKept
  BY <1>6 DEF InboxKept
<1>8. NoWriteAdded
  BY AnswersStay, StaysAddsNone
<1>9. \/ UNCHANGED <<writes, setting>>
      \/ /\ q[1].to = "Write"
         /\ writes' = [writes EXCEPT ![device] = @ + 1]
         /\ setting' = IF action = "SetUsbNetProfile"
                       THEN [setting EXCEPT ![device] = Want] ELSE setting
  BY <1>3, <1>4
<1>10. ASSUME NEW i \in 1..Len(outbox)', i \notin 1..Len(a), outbox'[i].to = "Query"
       PROVE  UNCHANGED <<writes, setting>> /\ outbox'[i].value = setting[device]
  <2>1. i = Len(a) + 1
    BY <1>1, <1>5, <1>10
  <2>2. h.to = "Query"
    BY <1>5, <1>10, <2>1
  <2> QED
    BY <1>4, <1>5, <2>1, <2>2
<1> QED
  BY <1>2, <1>3, <1>5, <1>6, <1>7, <1>8, <1>9, <1>10

\* What the other steps leave of the write: the module stays or has an empty port.
LEMMA WriteKept ==
  ASSUME TypeOK, WriteInv, InboxKept, NoWriteAdded, UNCHANGED <<lineOut, writes>>,
         plan' = plan \/ ~lineOut, device' = device \/ inbox' = <<>>,
         lineOut => /\ host'.phase \in {"Write", "After", "Done"}
                    /\ host'.phase = "Write" =>
                         host'.step = "End" \/ (host'.step = "Write" /\ host'.sent)
  PROVE  WriteInv'
<1>1. writes \in [Device -> Nat]
  BY DEF TypeOK
<1>2. WrittenOnceOnTarget'
  BY <1>1 DEF WriteInv, NoLineInv, WrittenOnceOnTarget
<1>3. LineOutInv'
  BY DEF WriteInv, LineOutInv
<1>4. NoLineInv'
  BY DEF WriteInv, NoLineInv, NoWriteAdded
<1>5. PICK k \in {0, 1} : \A i \in 1..Len(inbox)' :
        i + k \in 1..Len(inbox) /\ inbox'[i].to = inbox[i + k].to
  BY DEF InboxKept
<1>6. ASSUME NEW i \in 1..Len(inbox)', inbox'[i].to = "Write"
      PROVE  device' = plan'.target /\ writes'[plan'.target] = 0
  <2>1. inbox[i + k].to = "Write" /\ i + k \in 1..Len(inbox)
    BY <1>5, <1>6
  <2>2. device = plan.target /\ writes[plan.target] = 0
    BY <2>1 DEF WriteInv, PendingInv
  <2>3. lineOut
    <3> SUFFICES ASSUME ~lineOut PROVE FALSE
      OBVIOUS
    <3> DEFINE m == Len(outbox) + (i + k)
    <3>1. m \in Places /\ ~(m <= Len(outbox)) /\ m - Len(outbox) = i + k
      BY <2>1, QueueType DEF Places, Total
    <3>2. To(m) = "Write"
      BY <2>1, <3>1 DEF To
    <3> HIDE DEF m
    <3> QED
      BY <3>1, <3>2 DEF WriteInv, NoLineInv
  <2>4. inbox' # <<>>
    <3> SUFFICES ASSUME inbox' = <<>> PROVE FALSE
      OBVIOUS
    <3>1. Len(inbox)' = 0
      OBVIOUS
    <3> QED
      BY <3>1
  <2> QED
    BY <2>2, <2>3, <2>4
<1>7. ASSUME NEW i \in 1..Len(inbox)', NEW j \in 1..Len(inbox)', inbox'[i].to = "Write",
             inbox'[j].to = "Write"
      PROVE  i = j
  <2> DEFINE m == i + k
             n == j + k
  <2>1. m \in 1..Len(inbox) /\ n \in 1..Len(inbox) /\ inbox[m].to = "Write" /\ inbox[n].to = "Write"
    BY <1>5, <1>7
  <2>2. m = n => i = j
    <3>1. i \in Int /\ j \in Int
      OBVIOUS
    <3> QED
      BY <3>1
  <2> HIDE DEF m, n
  <2> QED
    BY <2>1, <2>2 DEF WriteInv, PendingInv
<1>8. PendingInv'
  BY <1>6, <1>7 DEF PendingInv
<1> QED
  BY <1>2, <1>3, <1>4, <1>8 DEF WriteInv

\* The module carries the write out.
LEMMA WriteCarriedOut ==
  ASSUME TypeOK, WriteInv, ModuleAnswers, inbox[1].to = "Write",
         writes' = [writes EXCEPT ![device] = @ + 1]
  PROVE  WriteInv' /\ lineOut /\ device = plan.target /\ writes[device] = 0 /\ writes'[device] = 1
         /\ plan' = plan
<1>1. /\ 1 \in 1..Len(inbox) /\ device \in Device
      /\ \A i \in 1..Len(inbox)' : i + 1 \in 1..Len(inbox) /\ inbox'[i].to = inbox[i + 1].to
  BY AnswersKeeps
<1>2. UNCHANGED <<host, plan, lineOut, device>>
  BY DEF ModuleAnswers, results
<1>3. device = plan.target /\ writes[device] = 0
  BY <1>1 DEF WriteInv, PendingInv
<1>4. lineOut
  <2> SUFFICES ASSUME ~lineOut PROVE FALSE
    OBVIOUS
  <2> DEFINE m == Len(outbox) + 1
  <2>1. m \in Places /\ ~(m <= Len(outbox)) /\ m - Len(outbox) = 1
    BY <1>1, QueueType DEF Places, Total
  <2>2. To(m) = "Write"
    BY <2>1 DEF To
  <2> HIDE DEF m
  <2> QED
    BY <2>1, <2>2 DEF WriteInv, NoLineInv
<1>5. writes \in [Device -> Nat]
  BY DEF TypeOK
<1>6. writes'[device] = 1 /\ \A d \in Device : d # device => writes'[d] = writes[d]
  BY <1>1, <1>3, <1>5
<1>7. WrittenOnceOnTarget'
  BY <1>2, <1>3, <1>6 DEF WriteInv, WrittenOnceOnTarget
<1>8. LineOutInv'
  BY <1>2 DEF WriteInv, LineOutInv
<1>9. NoLineInv'
  BY <1>2, <1>4 DEF NoLineInv
<1>10. \A i \in 1..Len(inbox)' : inbox'[i].to # "Write"
  <2> SUFFICES ASSUME NEW i \in 1..Len(inbox)', inbox'[i].to = "Write" PROVE FALSE
    OBVIOUS
  <2> DEFINE m == i + 1
  <2>1. m \in 1..Len(inbox) /\ inbox[m].to = "Write" /\ m # 1
    BY <1>1
  <2> HIDE DEF m
  <2> QED
    BY <1>1, <2>1 DEF WriteInv, PendingInv
<1>11. PendingInv'
  BY <1>10 DEF PendingInv
<1> QED
  BY <1>2, <1>3, <1>4, <1>6, <1>7, <1>8, <1>9, <1>11 DEF WriteInv

\* The write is sent, once; the other commands are no writes.
LEMMA SendingWrite ==
  ASSUME TypeOK, PlaceInv, TargetInv, WriteInv, Send
  PROVE  WriteInv'
<1>1. /\ host' = [host EXCEPT !.sent = TRUE] /\ InExchange /\ ~host.sent
      /\ device = host.seen.target /\ device' = device
      /\ inbox' = Append(inbox, [to |-> host.step, own |-> TRUE])
      /\ lineOut' = (lineOut \/ host.step = "Write")
      /\ UNCHANGED <<plan, writes>>
  BY DEF Send, results
<1>2. /\ host \in Hosts /\ host.phase \in Phase
      /\ host.step \in {"AT", "ATI", "Query", "Contexts", "Activation", "Write"}
  BY <1>1, HostType DEF InExchange
<1>3. host'.phase = host.phase /\ host'.step = host.step /\ host'.sent
  BY <1>1, <1>2 DEF Hosts
<1>4. /\ Len(inbox)' = Len(inbox) + 1 /\ Len(inbox) \in Nat
      /\ \A i \in 1..Len(inbox) : inbox'[i] = inbox[i]
      /\ inbox'[Len(inbox) + 1].to = host.step
  <2> DEFINE q == inbox
             r == [to |-> host.step, own |-> TRUE]
  <2>1. q \in Seq(Asked) /\ Len(q) \in Nat /\ r.to = host.step
    BY QueueType
  <2>2. inbox' = Append(q, r)
    BY <1>1
  <2> HIDE DEF q, r
  <2> QED
    BY <2>1, <2>2 DEF q
<1>5. ASSUME NEW i \in 1..Len(inbox)', inbox'[i].to = "Write"
      PROVE  \/ i \in 1..Len(inbox) /\ inbox[i].to = "Write"
             \/ i = Len(inbox) + 1 /\ host.step = "Write"
  BY <1>4, <1>5
<1>6. \A i \in Places' : To(i)' = "Write" =>
        host.step = "Write" \/ \E j \in Places : To(j) = "Write"
  <2>1. QueueGains(host.step) /\ Places' = 1..Total'
    BY SendGains DEF Places
  <2> QED
    BY <2>1 DEF QueueGains
<1>7. CASE host.step # "Write"
  <2>1. WrittenOnceOnTarget'
    BY <1>1 DEF WriteInv, WrittenOnceOnTarget
  <2>2. LineOutInv'
    BY <1>1, <1>2, <1>3, <1>7 DEF WriteInv, LineOutInv
  <2>3. NoLineInv'
    BY <1>1, <1>6, <1>7 DEF WriteInv, NoLineInv
  <2>4. PendingInv'
    <3>1. \A i \in 1..Len(inbox)' : inbox'[i].to = "Write" =>
            device' = plan'.target /\ writes'[plan'.target] = 0
      BY <1>1, <1>5, <1>7 DEF WriteInv, PendingInv
    <3>2. \A i, j \in 1..Len(inbox)' : inbox'[i].to = "Write" /\ inbox'[j].to = "Write" => i = j
      BY <1>5, <1>7 DEF WriteInv, PendingInv
    <3> QED
      BY <3>1, <3>2 DEF PendingInv
  <2> QED
    BY <2>1, <2>2, <2>3, <2>4 DEF WriteInv
<1>8. CASE host.step = "Write"
  <2>1. host.phase = "Write"
    BY <1>2, <1>8 DEF PlaceInv, Early, Phase
  <2>2. plan.target \in Device /\ host.seen.target = plan.target
    BY <2>1 DEF TargetInv
  <2>3. ~lineOut
    BY <1>1, <1>8, <2>1 DEF WriteInv, LineOutInv
  <2>4. (\A d \in Device : writes[d] = 0) /\ (\A i \in Places : To(i) # "Write")
    BY <2>3 DEF WriteInv, NoLineInv
  <2>5. \A i \in 1..Len(inbox) : inbox[i].to # "Write"
    <3> SUFFICES ASSUME NEW i \in 1..Len(inbox), inbox[i].to = "Write" PROVE FALSE
      OBVIOUS
    <3> DEFINE m == Len(outbox) + i
    <3>1. m \in Places /\ ~(m <= Len(outbox)) /\ m - Len(outbox) = i
      BY QueueType DEF Places, Total
    <3>2. To(m) = "Write"
      BY <3>1 DEF To
    <3> HIDE DEF m
    <3> QED
      BY <2>4, <3>1, <3>2
  <2>6. WrittenOnceOnTarget'
    BY <1>1 DEF WriteInv, WrittenOnceOnTarget
  <2>7. LineOutInv'
    BY <1>1, <1>3, <1>8, <2>1, <2>2 DEF LineOutInv
  <2>8. NoLineInv'
    BY <1>1, <1>8 DEF NoLineInv
  <2>9. PendingInv'
    <3>1. \A i \in 1..Len(inbox)' : inbox'[i].to = "Write" =>
            device' = plan'.target /\ writes'[plan'.target] = 0
      BY <1>1, <2>2, <2>4
    <3>2. \A i, j \in 1..Len(inbox)' : inbox'[i].to = "Write" /\ inbox'[j].to = "Write" => i = j
      BY <1>5, <2>5
    <3> QED
      BY <3>1, <3>2 DEF PendingInv
  <2> QED
    BY <2>6, <2>7, <2>8, <2>9 DEF WriteInv
<1> QED
  BY <1>7, <1>8

LEMMA WriteStep ==
  ASSUME TypeOK, PlaceInv, TargetInv, WriteInv, Next
  PROVE  WriteInv'
<1>1. host \in Hosts /\ host.phase \in Phase /\ host.step \in Step
  BY HostType
<1>2. CASE ModuleAnswers
  <2>1. UNCHANGED <<host, plan, lineOut, device>>
    BY <1>2 DEF ModuleAnswers, results
  <2>2. InboxKept /\ NoWriteAdded
    BY <1>2, AnswersKeeps
  <2>3. CASE UNCHANGED writes
    BY <2>1, <2>2, <2>3, WriteKept DEF WriteInv, LineOutInv
  <2>4. CASE inbox[1].to = "Write" /\ writes' = [writes EXCEPT ![device] = @ + 1]
    BY <1>2, <2>4, WriteCarriedOut
  <2> QED
    BY <1>2, <2>3, <2>4, AnswersKeeps
<1>3. CASE Unplug
  <2>1. UNCHANGED <<host, plan, lineOut, writes>> /\ inbox' = <<>> /\ outbox' = <<>>
    BY <1>3 DEF Unplug, results
  <2> QED
    BY <2>1, EmptyKeeps, WriteKept DEF WriteInv, LineOutInv
<1>4. ASSUME NEW d \in Device, Plug(d) PROVE WriteInv'
  <2>1. UNCHANGED <<host, plan, lineOut, writes>> /\ inbox' = <<>> /\ outbox' = <<>>
    BY <1>4 DEF Plug, results, PlaceInv
  <2> QED
    BY <2>1, EmptyKeeps, WriteKept DEF WriteInv, LineOutInv
<1>5. CASE Scan
  <2>1. host'.phase = host.phase /\ host.step = "Scan"
    BY <1>5, ScanForm
  <2>2. UNCHANGED <<plan, lineOut, writes, device>> /\ OpensSession
    BY <1>5 DEF Scan, results
  <2> QED
    BY <2>1, <2>2, OpensKeeps, WriteKept DEF WriteInv, LineOutInv
<1>6. ASSUME Broken, InboxKept, NoWriteAdded, UNCHANGED <<plan, lineOut, writes, device>>
      PROVE  WriteInv'
  BY <1>6, WriteKept DEF WriteInv, LineOutInv, Broken
<1>7. CASE ScanFindsNone \/ PortUnavailable \/ PortGone \/ TimedOut
  <2>1. Broken /\ UNCHANGED <<plan, lineOut, writes, device, inbox, outbox>>
    BY <1>7, BrokenForm DEF module, results
  <2> QED
    BY <1>6, <2>1, InboxStays, SameQueue, StaysAddsNone
<1>8. CASE Send
  BY <1>8, SendingWrite
<1>9. CASE Receive
  <2>1. InboxKept /\ NoWriteAdded /\ UNCHANGED <<plan, lineOut, writes, device>>
    BY <1>9, ReceiveKeeps DEF Receive, results
  <2>2. CASE Accepted(Head(outbox))
    <3>1. host'.phase = host.phase /\ host'.step = NextStep(host.step) /\ InExchange
      BY <1>9, <2>2 DEF Accepted, Receive
    <3>2. host.step = "Write" => NextStep(host.step) = "End"
      BY DEF NextStep
    <3>3. lineOut => host'.phase \in {"Write", "After", "Done"}
                     /\ (host'.phase = "Write" => host'.step = "End")
      BY <3>1, <3>2 DEF WriteInv, LineOutInv, InExchange
    <3> QED
      BY <2>1, <3>3, WriteKept
  <2> QED
    BY <1>6, <1>9, <2>1, <2>2, ReceiveForm
<1>10. CASE RetryRead
  <2>1. host' = [host EXCEPT !.attempt = 2, !.sent = FALSE] /\ host.step # "Write" /\ InExchange
        /\ UNCHANGED <<plan, lineOut, writes, device, inbox, outbox>>
    BY <1>10 DEF RetryRead, module, results
  <2>2. host'.phase = host.phase
    BY <1>1, <2>1 DEF Hosts
  <2>3. lineOut => host'.phase \in {"After", "Done"}
    BY <2>1, <2>2 DEF WriteInv, LineOutInv, InExchange
  <2> QED
    BY <2>1, <2>3, InboxStays, SameQueue, StaysAddsNone, WriteKept
\* The executor concludes a session.
<1>11. ASSUME host'.phase \in {"After", "Done"} \/ ~lineOut, plan' = plan \/ ~lineOut,
              InboxKept, NoWriteAdded, UNCHANGED <<lineOut, writes, device>>
       PROVE  WriteInv'
  BY <1>11, WriteKept
<1>12. ASSUME NEW result, Finish(result), plan' = plan \/ ~lineOut,
              UNCHANGED <<lineOut, writes, device, inbox, outbox>>
       PROVE  WriteInv'
  <2>1. host'.phase = "Done"
    BY <1>12, FinishForm
  <2> QED
    BY <1>11, <1>12, <2>1, InboxStays, SameQueue, StaysAddsNone
<1>13. ASSUME NEW phase, NEW step, NEW seen, Goto(phase, step, seen), phase = "After" \/ ~lineOut,
              plan' = plan \/ ~lineOut, UNCHANGED <<lineOut, writes, device, inbox, outbox>>
       PROVE  WriteInv'
  <2>1. host'.phase = phase
    BY <1>13, GotoForm
  <2> QED
    BY <1>11, <1>13, <2>1, InboxStays, SameQueue, StaysAddsNone
<1>14. host.phase \in Early => ~lineOut
  BY DEF WriteInv, LineOutInv, Early
<1>15. CASE ConcludePrepare
  <2>1. ~lineOut /\ UNCHANGED <<lineOut, writes, device, inbox, outbox>>
    BY <1>14, <1>15 DEF ConcludePrepare, module, Early
  <2> QED
    BY <1>12, <1>13, <1>15, <2>1 DEF ConcludePrepare
<1>16. CASE ConcludeCurrent
  <2>1. ~lineOut /\ UNCHANGED <<lineOut, writes, device, inbox, outbox>>
    BY <1>14, <1>16 DEF ConcludeCurrent, module, Early
  <2> QED
    BY <1>12, <1>13, <1>16, <2>1 DEF ConcludeCurrent
<1>17. CASE ConcludeRescan
  <2>1. ~lineOut /\ UNCHANGED <<lineOut, writes, device>>
    BY <1>14, <1>17 DEF ConcludeRescan, Early
  <2>2. CASE Dispatched("Unknown") /\ UNCHANGED <<inbox, outbox, outcome>>
    BY <1>13, <2>1, <2>2 DEF Dispatched
  <2>3. CASE Finish("Failed") /\ UNCHANGED <<inbox, outbox, dispatch>>
    BY <1>12, <2>1, <2>3
  <2>4. CASE OpensSession
    BY <1>11, <2>1, <2>4, OpensKeeps
  <2> QED
    BY <1>17, <2>2, <2>3, <2>4 DEF ConcludeRescan
<1>18. CASE ConcludeWrite
  <2>1. UNCHANGED <<plan, lineOut, writes, device, inbox, outbox>>
    BY <1>18 DEF ConcludeWrite, module
  <2>2. (\E result : Dispatched(result)) \/ Finish("Failed")
    BY <1>18 DEF ConcludeWrite
  <2> QED
    BY <1>12, <1>13, <2>1, <2>2 DEF Dispatched
<1>19. CASE ConcludeAfter
  <2>1. UNCHANGED <<plan, lineOut, writes, device, inbox, outbox>> /\ Finish(Judgement)
    BY <1>19 DEF ConcludeAfter, module
  <2> QED
    BY <1>12, <2>1
<1> QED
  BY <1>2, <1>3, <1>4, <1>5, <1>7, <1>8, <1>9, <1>10, <1>15, <1>16, <1>17, <1>18, <1>19
     DEF Next, Executor, Exchange, Module

-----------------------------------------------------------------------------
(* What is read and what is stored *)

\* Steps in which no module writes and none comes.
LEMMA ReadKept ==
  ASSUME ReadInv, OutboxKept, UNCHANGED <<setting, writes, device>>
  PROVE  ReadInv'
<1>1. PICK k \in {0, 1} : \A i \in 1..Len(outbox)' :
        /\ i + k \in 1..Len(outbox)
        /\ outbox'[i].to = outbox[i + k].to /\ outbox'[i].value = outbox[i + k].value
  BY DEF OutboxKept
<1>2. ASSUME NEW i \in 1..Len(outbox)', outbox'[i].to = "Query"
      PROVE  outbox'[i].value = setting[device] \/ writes[device] = 1
  <2> DEFINE m == i + k
  <2>1. /\ m \in 1..Len(outbox) /\ outbox[m].to = "Query" /\ outbox'[i].value = outbox[m].value
    BY <1>1, <1>2
  <2> HIDE DEF m
  <2> QED
    BY <2>1 DEF ReadInv
<1> QED
  BY <1>2 DEF ReadInv

\* The executor's steps that take no value from an answer.
LEMMA ValueKept ==
  ASSUME ValueInv, OutboxKept, UNCHANGED <<setting, writes, device, plan, outcome, action>>,
         \/ host'.seen = host.seen /\ (host'.phase = host.phase \/ host'.phase \notin {"Prepare", "After"})
         \/ host'.seen.value = Unread
         \/ host'.phase = host.phase /\ host'.seen.target = host.seen.target
            /\ host'.seen.value = host.seen.value
  PROVE  ValueInv'
<1>1. ReadInv'
  BY ReadKept DEF ValueInv
<1>2. PreparedInv'
  BY DEF ValueInv, PreparedInv
<1>3. SettingInv'
  BY DEF ValueInv, SettingInv
<1>4. ReadbackInv'
  BY RepairAssumption DEF ValueInv, ReadbackInv, RepairAssumption
<1>5. AppliedInv'
  BY DEF ValueInv, AppliedInv
<1> QED
  BY <1>1, <1>2, <1>3, <1>4, <1>5 DEF ValueInv

\* The module answers: a write that it carries out makes every earlier answer stale.
LEMMA ValueAnswered ==
  ASSUME TypeOK, WriteInv, ValueInv, ModuleAnswers
  PROVE  ValueInv'
<1>1. UNCHANGED <<host, plan, outcome, action, device, lineOut>>
  BY DEF ModuleAnswers, results
<1>2. /\ device \in Device
      /\ \/ UNCHANGED <<writes, setting>>
         \/ /\ inbox[1].to = "Write"
            /\ writes' = [writes EXCEPT ![device] = @ + 1]
            /\ setting' = IF action = "SetUsbNetProfile"
                          THEN [setting EXCEPT ![device] = Want] ELSE setting
      /\ Len(outbox)' = Len(outbox) + 1
      /\ \A i \in 1..Len(outbox) : outbox'[i] = outbox[i]
      /\ \A i \in 1..Len(outbox)' : i \notin 1..Len(outbox) /\ outbox'[i].to = "Query" =>
           UNCHANGED <<writes, setting>> /\ outbox'[i].value = setting[device]
  BY AnswersKeeps
<1>3. setting \in [Device -> Value] /\ writes \in [Device -> Nat]
  BY DEF TypeOK
<1>4. CASE UNCHANGED <<writes, setting>>
  <2>1. ReadInv'
    <3> SUFFICES ASSUME NEW i \in 1..Len(outbox)', outbox'[i].to = "Query"
                 PROVE  outbox'[i].value = setting[device] \/ writes[device] = 1
      BY <1>1, <1>4 DEF ReadInv
    <3>1. CASE i \in 1..Len(outbox)
      BY <1>2, <3>1 DEF ValueInv, ReadInv
    <3>2. CASE i \notin 1..Len(outbox)
      BY <1>2, <3>2
    <3> QED
      BY <3>1, <3>2
  <2> QED
    BY <1>1, <1>4, <2>1 DEF ValueInv, PreparedInv, SettingInv, ReadbackInv, AppliedInv
<1>5. ASSUME inbox[1].to = "Write", writes' = [writes EXCEPT ![device] = @ + 1],
             setting' = IF action = "SetUsbNetProfile"
                        THEN [setting EXCEPT ![device] = Want] ELSE setting
      PROVE  ValueInv'
  <2>1. /\ lineOut /\ device = plan.target /\ writes[device] = 0 /\ writes'[device] = 1
    BY <1>5, WriteCarriedOut
  <2>2. ReadInv'
    BY <1>1, <2>1 DEF ReadInv
  <2>3. PreparedInv'
    BY <1>1, <2>1 DEF PreparedInv, WriteInv, LineOutInv
  <2>4. SettingInv'
    BY <1>1, <1>2, <1>3, <1>5, <2>1 DEF SettingInv
  <2>5. ReadbackInv'
    BY <1>1, <2>1 DEF ReadbackInv
  <2>6. AppliedInv'
    BY <1>1, <2>1 DEF ValueInv, AppliedInv
  <2> QED
    BY <2>2, <2>3, <2>4, <2>5, <2>6 DEF ValueInv
<1> QED
  BY <1>2, <1>4, <1>5

\* An accepted answer: the value of a query is the module's own.
LEMMA ValueAccepted ==
  ASSUME TypeOK, PlaceInv, TargetInv, WriteInv, ValueInv, Receive, Accepted(Head(outbox))
  PROVE  ValueInv'
<1>1. /\ host'.phase = host.phase /\ host'.seen.target = host.seen.target
      /\ host'.seen.value = IF host.step = "Query" THEN Head(outbox).value ELSE host.seen.value
      /\ Fits(host.step, Head(outbox))
  BY DEF Accepted
<1>2. /\ UNCHANGED <<setting, writes, device, plan, outcome, action>>
      /\ InExchange /\ device = host.seen.target
  BY DEF Receive, results
<1>3. OutboxKept
  BY ReceiveKeeps
<1>4. CASE host.step # "Query"
  BY <1>1, <1>2, <1>3, <1>4, ValueKept
<1>5. CASE host.step = "Query"
  <2>1. Head(outbox) = outbox[1] /\ 1 \in 1..Len(outbox) /\ Head(outbox).to = "Query"
    BY <1>1, <1>5, ReceiveLoses DEF Fits
  <2>2. host'.seen.value = setting[device] \/ writes[device] = 1
    BY <1>1, <1>5, <2>1 DEF ValueInv, ReadInv
  <2>3. device \in Device
    BY <1>2 DEF PlaceInv
  <2>4. ReadInv'
    BY <1>2, <1>3, ReadKept DEF ValueInv
  <2>5. PreparedInv'
    <3> SUFFICES ASSUME host.phase = "Prepare"
                 PROVE  host.seen.target \in Device /\ host'.seen.value = setting[host.seen.target]
      BY <1>1, <1>2 DEF PreparedInv
    <3>1. writes[device] = 0
      BY <2>3 DEF WriteInv, LineOutInv, NoLineInv
    <3> QED
      BY <1>2, <2>2, <2>3, <3>1
  <2>6. SettingInv'
    BY <1>2 DEF ValueInv, SettingInv
  <2>7. ReadbackInv'
    <3> SUFFICES ASSUME host.phase = "After", action = "SetUsbNetProfile",
                        host'.seen.value = Want, host.seen.target = plan.target
                 PROVE  writes[plan.target] = 1
      BY <1>1, <1>2 DEF ReadbackInv
    <3>1. device = plan.target
      BY <1>2
    <3>2. writes[device] = 1 \/ setting[plan.target] = Want
      BY <2>2, <3>1
    <3>3. writes[device] \in Nat /\ writes[device] <= 1
      BY <2>3, <3>1 DEF WriteInv, WrittenOnceOnTarget, TypeOK
    <3> QED
      BY <2>3, <3>1, <3>2, <3>3 DEF ValueInv, SettingInv
  <2>8. AppliedInv'
    BY <1>2 DEF ValueInv, AppliedInv
  <2> QED
    BY <2>4, <2>5, <2>6, <2>7, <2>8 DEF ValueInv
<1> QED
  BY <1>4, <1>5

LEMMA ValueStep ==
  ASSUME TypeOK, PlaceInv, TargetInv, WriteInv, ValueInv, Next
  PROVE  ValueInv'
<1>1. host \in Hosts /\ host.phase \in Phase /\ host.step \in Step
  BY HostType
<1>2. CASE ModuleAnswers
  BY <1>2, ValueAnswered
<1>3. ASSUME outbox' = <<>>, UNCHANGED <<host, setting, writes, plan, outcome, action>>
      PROVE  ValueInv'
  <2>1. ReadInv'
    BY <1>3 DEF ReadInv
  <2> QED
    BY <1>3, <2>1 DEF ValueInv, PreparedInv, SettingInv, ReadbackInv, AppliedInv
<1>4. CASE Unplug
  BY <1>3, <1>4 DEF Unplug, results
<1>5. ASSUME NEW d \in Device, Plug(d) PROVE ValueInv'
  BY <1>3, <1>5 DEF Plug, results, PlaceInv
<1>6. CASE Scan
  BY <1>6, ScanForm, OpensKeeps, ValueKept DEF Scan, results
<1>7. CASE ScanFindsNone \/ PortUnavailable \/ PortGone \/ TimedOut
  <2>1. Broken /\ UNCHANGED <<setting, writes, device, plan, outcome, action, outbox>>
    BY <1>7, BrokenForm DEF module, results
  <2>2. host'.phase = host.phase /\ (host'.seen = host.seen \/ host'.seen.value = Unread)
    BY <2>1, NoObservationType DEF Broken
  <2> QED
    BY <2>1, <2>2, OutboxStays, ValueKept
<1>8. CASE Send
  <2>1. host' = [host EXCEPT !.sent = TRUE]
        /\ UNCHANGED <<setting, writes, device, plan, outcome, action, outbox>>
    BY <1>8 DEF Send, results
  <2>2. host'.phase = host.phase /\ host'.seen = host.seen
    BY <1>1, <2>1 DEF Hosts
  <2> QED
    BY <2>1, <2>2, OutboxStays, ValueKept
<1>9. CASE Receive
  <2>1. CASE Broken
    <3>1. UNCHANGED <<setting, writes, device, plan, outcome, action>> /\ OutboxKept
      BY <1>9, ReceiveKeeps DEF Receive, results
    <3>2. host'.phase = host.phase /\ (host'.seen = host.seen \/ host'.seen.value = Unread)
      BY <2>1, NoObservationType DEF Broken
    <3> QED
      BY <3>1, <3>2, ValueKept
  <2> QED
    BY <1>9, <2>1, ReceiveForm, ValueAccepted
<1>10. CASE RetryRead
  <2>1. host' = [host EXCEPT !.attempt = 2, !.sent = FALSE]
        /\ UNCHANGED <<setting, writes, device, plan, outcome, action, outbox>>
    BY <1>10 DEF RetryRead, module, results
  <2>2. host'.phase = host.phase /\ host'.seen = host.seen
    BY <1>1, <2>1 DEF Hosts
  <2> QED
    BY <2>1, <2>2, OutboxStays, ValueKept
\* The executor concludes a session.
<1>11. ASSUME NEW result, Finish(result), host.phase # "Done",
              UNCHANGED <<setting, writes, device, plan, action, outbox>>,
              result = "Applied" /\ action = "SetUsbNetProfile" =>
                plan.target \in Device /\ writes[plan.target] = 1
       PROVE  ValueInv'
  <2>1. host'.phase = "Done" /\ host'.seen = host.seen /\ outcome' = result
    BY <1>11, FinishForm
  <2>2. ReadInv'
    BY <1>11, OutboxStays, ReadKept DEF ValueInv
  <2> QED
    BY <1>11, <2>1, <2>2 DEF ValueInv, PreparedInv, SettingInv, ReadbackInv, AppliedInv
<1>12. ASSUME NEW phase, Goto(phase, "Scan", NoObservation),
              UNCHANGED <<setting, writes, device, plan, outcome, action, outbox>>
       PROVE  ValueInv'
  <2>1. host'.seen.value = Unread
    BY <1>12, GotoForm, NoObservationType
  <2> QED
    BY <1>12, <2>1, OutboxStays, ValueKept
<1>13. CASE ConcludePrepare
  <2>1. UNCHANGED <<setting, writes, device, action, outbox>> /\ host.phase = "Prepare"
    BY <1>13 DEF ConcludePrepare, module
  <2>2. CASE /\ Valid(host.seen) /\ plan' = host.seen /\ Goto("Current", "Scan", NoObservation)
             /\ UNCHANGED outcome
    <3>1. host'.seen.value = Unread /\ host'.phase = "Current"
      BY <2>2, GotoForm, NoObservationType
    <3>2. ReadInv'
      BY <2>1, OutboxStays, ReadKept DEF ValueInv
    <3>3. PreparedInv' /\ ReadbackInv'
      BY <3>1 DEF PreparedInv, ReadbackInv
    <3>4. outcome = "None"
      BY <2>1 DEF TargetInv
    <3>5. AppliedInv'
      BY <2>2, <3>4 DEF AppliedInv
    <3>6. SettingInv'
      <4> SUFFICES ASSUME action = "SetUsbNetProfile", host.seen.target \in Device
                   PROVE  writes[host.seen.target] = 0 /\ setting[host.seen.target] # Want
        BY <2>1, <2>2 DEF SettingInv
      <4>1. host.seen.value \notin {Unread, Want}
        BY <2>2 DEF Valid
      <4>2. host.seen.value = setting[host.seen.target]
        BY <2>1, <4>1 DEF ValueInv, PreparedInv
      <4> QED
        BY <2>1, <4>1, <4>2 DEF WriteInv, LineOutInv, NoLineInv
    <3> QED
      BY <3>2, <3>3, <3>5, <3>6 DEF ValueInv
  <2>3. CASE Finish("Failed") /\ UNCHANGED plan
    BY <1>11, <2>1, <2>3
  <2> QED
    BY <1>13, <2>2, <2>3 DEF ConcludePrepare
<1>14. CASE ConcludeCurrent
  <2>1. UNCHANGED <<setting, writes, device, plan, action, outbox>> /\ host.phase = "Current"
    BY <1>14 DEF ConcludeCurrent, module
  <2> QED
    BY <1>11, <1>12, <1>14, <2>1 DEF ConcludeCurrent
<1>15. CASE ConcludeRescan
  <2>1. UNCHANGED <<setting, writes, device, plan, action>> /\ host.phase = "Rescan"
    BY <1>15 DEF ConcludeRescan
  <2>2. CASE Dispatched("Unknown") /\ UNCHANGED <<inbox, outbox, outcome>>
    BY <1>12, <2>1, <2>2 DEF Dispatched
  <2>3. CASE Finish("Failed") /\ UNCHANGED <<inbox, outbox, dispatch>>
    BY <1>11, <2>1, <2>3
  <2>4. CASE Goto("Write", "AT", host.seen) /\ OpensSession /\ UNCHANGED outcome
    <3>1. host'.phase = "Write" /\ host'.seen = host.seen
      BY <2>4, GotoForm
    <3> QED
      BY <2>1, <2>4, <3>1, OpensKeeps, ValueKept
  <2> QED
    BY <1>15, <2>2, <2>3, <2>4 DEF ConcludeRescan
<1>16. CASE ConcludeWrite
  <2>1. UNCHANGED <<setting, writes, device, plan, action, outbox>> /\ host.phase = "Write"
    BY <1>16 DEF ConcludeWrite, module
  <2>2. ((\E result : Dispatched(result)) /\ UNCHANGED outcome) \/ Finish("Failed")
    BY <1>16 DEF ConcludeWrite
  <2> QED
    BY <1>11, <1>12, <2>1, <2>2 DEF Dispatched
<1>17. CASE ConcludeAfter
  <2>1. /\ UNCHANGED <<setting, writes, device, plan, action, outbox>> /\ host.phase = "After"
        /\ Finish(Judgement)
    BY <1>17 DEF ConcludeAfter, module
  <2>2. ASSUME Judgement = "Applied", action = "SetUsbNetProfile"
        PROVE  plan.target \in Device /\ writes[plan.target] = 1
    <3>1. host.seen.target = plan.target /\ host.seen.value = Want
      BY <2>2 DEF Judgement, Verified
    <3>2. plan.target \in Device
      BY <2>1 DEF TargetInv
    <3> QED
      BY <2>1, <2>2, <3>1, <3>2 DEF ValueInv, ReadbackInv
  <2> QED
    BY <1>11, <2>1, <2>2
<1> QED
  BY <1>2, <1>4, <1>5, <1>6, <1>7, <1>8, <1>9, <1>10, <1>13, <1>14, <1>15, <1>16, <1>17
     DEF Next, Executor, Exchange, Module

-----------------------------------------------------------------------------
(* The theorems *)

LEMMA InitHolds ==
  ASSUME Init
  PROVE  IInv
<1>1. RepairAssumption
  BY RepairAssumption
<1>2. host = [phase |-> "Prepare", step |-> "Scan", attempt |-> 1, sent |-> FALSE,
              failure |-> "None", seen |-> NoObservation]
  BY DEF Init
<1>3. /\ host.phase = "Prepare" /\ host.step = "Scan" /\ host.seen = NoObservation
      /\ host.attempt = 1 /\ ~host.sent
  BY <1>2
<1>4. host \in Hosts
  <2>1. 1 \in 1..2 /\ FALSE \in BOOLEAN
    OBVIOUS
  <2> QED
    BY <1>2, <2>1, NoObservationType DEF Hosts, Phase, Step, Failure
<1>5. writes = [d \in Device |-> 0] /\ writes \in [Device -> Nat]
  BY DEF Init
<1>6. TypeOK
  <2>1. inbox \in Seq(Asked) /\ outbox \in Seq(Answered)
    BY EmptySeq DEF Init
  <2>2. unplugs \in 0..MaxUnplugs
    BY <1>1 DEF Init, RepairAssumption
  <2> QED
    BY <1>4, <1>5, <2>1, <2>2, NoObservationType DEF Init, TypeOK, Asked, Answered, Hosts
<1>7. Total = 0 /\ Places = {} /\ Len(inbox) = 0 /\ Len(outbox) = 0
  BY DEF Init, Total, Places
<1>8. NoQueryBehind /\ OnlyOwnQueries /\ HandshakeInv
  BY <1>7 DEF NoQueryBehind, OnlyOwnQueries, HandshakeInv
<1>9. PlaceInv
  BY <1>1, <1>3, NoObservationType DEF Init, PlaceInv, InExchange, RepairAssumption
<1>10. TargetInv
  BY <1>3 DEF Init, TargetInv
<1>11. WriteInv
  <2>1. WrittenOnceOnTarget
    <3> SUFFICES ASSUME NEW d \in Device
                 PROVE  writes[d] <= (IF d = plan.target THEN 1 ELSE 0)
      BY DEF WrittenOnceOnTarget
    <3>1. writes[d] = 0
      BY <1>5
    <3>2. 0 <= 0 /\ 0 <= 1
      OBVIOUS
    <3> QED
      BY <3>1, <3>2
  <2>2. LineOutInv /\ NoLineInv /\ PendingInv
    BY <1>5, <1>7 DEF Init, LineOutInv, NoLineInv, PendingInv
  <2> QED
    BY <2>1, <2>2 DEF WriteInv
<1>12. ValueInv
  <2>1. plan.target \notin Device
    BY <1>1, NoObservationType DEF Init, RepairAssumption
  <2> QED
    BY <1>3, <1>7, <2>1, NoObservationType
       DEF Init, ValueInv, ReadInv, PreparedInv, SettingInv, ReadbackInv, AppliedInv
<1> QED
  BY <1>6, <1>8, <1>9, <1>10, <1>11, <1>12 DEF Init, IInv, ReadbackIsOwn

LEMMA StepHolds ==
  ASSUME IInv, [Next]_vars
  PROVE  IInv'
<1>1. CASE Next
  <2>1. /\ TypeOK /\ ReadbackIsOwn /\ PlaceInv /\ TargetInv /\ QueueInv /\ WriteInv /\ ValueInv
        /\ OnlyOwnQueries
    BY DEF IInv, QueueInv
  <2>2. TypeOK'
    BY <1>1, <2>1, TypeStep
  <2>3. PlaceInv' /\ TargetInv'
    BY <1>1, <2>1, <2>2, PlaceStep
  <2>4. QueueInv'
    BY <1>1, <2>1, QueueStep
  <2>5. ReadbackIsOwn'
    BY <1>1, <2>1, ReadbackStep
  <2>6. WriteInv'
    BY <1>1, <2>1, WriteStep
  <2>7. ValueInv'
    BY <1>1, <2>1, ValueStep
  <2> QED
    BY <2>2, <2>3, <2>4, <2>5, <2>6, <2>7 DEF IInv, QueueInv
<1>2. CASE UNCHANGED vars
  <2>1. UNCHANGED <<device, echo, setting, inbox, outbox, unplugs, action, host, plan, current,
                    dispatch, outcome, lineOut, writes, misread>>
    BY <1>2 DEF vars, module, results
  <2>2. TypeOK' /\ ReadbackIsOwn' /\ PlaceInv' /\ TargetInv'
    BY <2>1 DEF IInv, TypeOK, ReadbackIsOwn, PlaceInv, TargetInv, InExchange
  <2>3. Places' = Places /\ Total' = Total /\ Sent' = Sent
        /\ \A i \in Places : To(i)' = To(i) /\ OwnAt(i)' = OwnAt(i)
    BY <2>1 DEF Places, Total, Sent, To, OwnAt
  <2>4. NoQueryBehind' /\ OnlyOwnQueries' /\ HandshakeInv'
    BY <2>1, <2>3 DEF IInv, NoQueryBehind, OnlyOwnQueries, HandshakeInv
  <2>5. WriteInv'
    BY <2>1, <2>3 DEF IInv, WriteInv, WrittenOnceOnTarget, LineOutInv, NoLineInv, PendingInv
  <2>6. ValueInv'
    BY <2>1 DEF IInv, ValueInv, ReadInv, PreparedInv, SettingInv, ReadbackInv, AppliedInv
  <2> QED
    BY <2>2, <2>4, <2>5, <2>6 DEF IInv
<1> QED
  BY <1>1, <1>2

LEMMA Invariance == Spec => []IInv
<1>1. Init => IInv
  BY InitHolds
<1>2. IInv /\ [Next]_vars => IInv'
  BY StepHolds
<1> QED
  BY <1>1, <1>2, PTL DEF Spec

\* The state of the executor, the module and the port keeps its types.
THEOREM RepairTypeCorrect == Spec => []TypeOK
<1>1. IInv => TypeOK
  BY DEF IInv
<1> QED
  BY <1>1, Invariance, PTL

\* However many late answers the port delivers, and whichever module is exchanged
\* for which, a setting that the executor reads was read in the session that asked.
THEOREM LateAnswersAreNotRead == Spec => []ReadbackIsOwn
<1>1. IInv => ReadbackIsOwn
  BY DEF IInv
<1> QED
  BY <1>1, Invariance, PTL

\* A confirmed write is carried out at most once, and only by the module it was
\* confirmed for.
THEOREM OneWriteOnTarget == Spec => []WrittenOnceOnTarget
<1>1. IInv => WrittenOnceOnTarget
  BY DEF IInv, WriteInv
<1> QED
  BY <1>1, Invariance, PTL

\* A setting that is reported as applied was written by this plan to its module, and
\* the module still has it.
THEOREM AppliedMeansStored == Spec => []AppliedIsReal
<1>1. IInv => AppliedIsReal
  <2> SUFFICES ASSUME IInv, outcome = "Applied", action = "SetUsbNetProfile"
               PROVE  writes[plan.target] = 1 /\ setting[plan.target] = Want
    BY DEF AppliedIsReal
  <2>1. plan.target \in Device /\ writes[plan.target] = 1
    BY DEF IInv, ValueInv, AppliedInv
  <2>2. setting[plan.target] = Want
    BY <2>1 DEF IInv, ValueInv, SettingInv
  <2> QED
    BY <2>1, <2>2
<1> QED
  BY <1>1, Invariance, PTL
=============================================================================
