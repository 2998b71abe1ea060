------------------------- MODULE SerialActorProofs -------------------------
(***************************************************************************)
(* What the AT session actor guarantees for any number of sessions,        *)
(* requests and slots.  The argument follows one value: Pending(n), the    *)
(* requests a session has accepted and not answered, in order.  Every step *)
(* of the worker or of a holder keeps it, appends to it or takes a prefix  *)
(* away, and it is always the end of the log of accepted requests.         *)
(***************************************************************************)
EXTENDS SerialActor, FiniteSetTheorems, SequenceTheorems, TLAPS

-----------------------------------------------------------------------------
(* Sequences *)

\* Three sequences joined from the right are the same joined from the left.
LEMMA JoinFromLeft ==
  ASSUME NEW S, NEW a \in Seq(S), NEW b \in Seq(S), NEW c \in Seq(S)
  PROVE  (a \o b) \o c = a \o (b \o c)
BY ConcatAssociative

\* Taking a run from behind the first element, and cutting what is left in two,
\* loses nothing and reorders nothing.
LEMMA CutAndJoin ==
  ASSUME NEW S, NEW s \in Seq(S), s # <<>>, NEW k \in 0..Len(Tail(s)),
         NEW m \in 0..Len(SubSeq(Tail(s), k + 1, Len(Tail(s))))
  PROVE  LET left == SubSeq(Tail(s), k + 1, Len(Tail(s)))
         IN  /\ <<Head(s)>> \o SubSeq(Tail(s), 1, k) \in Seq(S)
             /\ SubSeq(left, 1, m) \in Seq(S) /\ SubSeq(left, m + 1, Len(left)) \in Seq(S)
             /\ SubSeq(left, 1, m) \o SubSeq(left, m + 1, Len(left)) = left
             /\ (<<Head(s)>> \o SubSeq(Tail(s), 1, k)) \o left = s
<1> DEFINE t == Tail(s)
           left == SubSeq(t, k + 1, Len(t))
<1>1. Head(s) \in S /\ t \in Seq(S) /\ Len(t) = Len(s) - 1 /\ Len(s) \in Nat
      /\ \A i \in 1..Len(t) : t[i] = s[i + 1]
  BY HeadTailProperties, LenProperties
<1>2. Len(t) \in Nat /\ k \in Nat
  BY <1>1, LenProperties
<1>3. <<Head(s)>> \in Seq(S) /\ Len(<<Head(s)>>) = 1 /\ <<Head(s)>>[1] = Head(s)
  BY <1>1
<1> HIDE DEF t
<1>4. SubSeq(t, 1, k) \in Seq(S) /\ left \in Seq(S)
  <2>1. \A i \in 1..Len(t) : t[i] \in S
    BY <1>1, ElementOfSeq
  <2>2. \A i \in 1..k : t[i] \in S
    BY <2>1, <1>2 DEF t
  <2>3. \A i \in k + 1..Len(t) : t[i] \in S
    BY <2>1, <1>2 DEF t
  <2>4. SubSeq(t, 1, k) \in Seq(S)
    BY <2>2, <1>2, SubSeqProperties
  <2>5. SubSeq(t, k + 1, Len(t)) \in Seq(S)
    BY <2>3, <1>2, SubSeqProperties
  <2> QED
    BY <2>4, <2>5 DEF t
<1>5. Len(left) \in Nat /\ m \in 0..Len(left)
  BY <1>4, LenProperties DEF t
<1> HIDE DEF left
<1>6. SubSeq(left, 1, m) \in Seq(S) /\ SubSeq(left, m + 1, Len(left)) \in Seq(S)
  <2>1. \A i \in 1..Len(left) : left[i] \in S
    BY <1>4, ElementOfSeq
  <2>2. (\A i \in 1..m : left[i] \in S) /\ (\A i \in m + 1..Len(left) : left[i] \in S)
    BY <2>1, <1>5
  <2> QED
    BY <2>2, <1>5, SubSeqProperties
<1>7. SubSeq(left, 1, m) \o SubSeq(left, m + 1, Len(left)) = left
  <2>1. 1 \in 1..Len(left) + 1 /\ m \in 1 - 1..Len(left) /\ Len(left) \in m..Len(left)
    BY <1>5
  <2>2. SubSeq(left, 1, m) \o SubSeq(left, m + 1, Len(left)) = SubSeq(left, 1, Len(left))
    BY <2>1, <1>4, ConcatAdjacentSubSeq
  <2> QED
    BY <2>2, <1>4, SubSeqFull
<1>8. SubSeq(t, 1, k) \o left = t
  <2>1. 1 \in 1..Len(t) + 1 /\ k \in 1 - 1..Len(t) /\ Len(t) \in k..Len(t)
    BY <1>2 DEF t
  <2>2. SubSeq(t, 1, k) \o SubSeq(t, k + 1, Len(t)) = SubSeq(t, 1, Len(t))
    BY <2>1, <1>1, ConcatAdjacentSubSeq
  <2> QED
    BY <2>2, <1>1, SubSeqFull DEF left
<1>9. <<Head(s)>> \o t = s
  <2>1. <<Head(s)>> \o t \in Seq(S) /\ Len(<<Head(s)>> \o t) = Len(s)
    BY <1>1, <1>3, ConcatProperties
  <2>2. ASSUME NEW i \in 1..Len(s) PROVE (<<Head(s)>> \o t)[i] = s[i]
    <3>1. (<<Head(s)>> \o t)[i] = IF i <= 1 THEN <<Head(s)>>[i] ELSE t[i - 1]
      BY <1>1, <1>3, ConcatProperties
    <3>2. CASE i = 1
      BY <3>1, <3>2, <1>3
    <3>3. CASE i # 1
      BY <3>1, <3>3, <1>1
    <3> QED
      BY <3>2, <3>3
  <2> QED
    BY <2>1, <2>2, SeqEqual
<1>10. (<<Head(s)>> \o SubSeq(t, 1, k)) \o left = s
  <2>1. (<<Head(s)>> \o SubSeq(t, 1, k)) \o left = <<Head(s)>> \o (SubSeq(t, 1, k) \o left)
    BY <1>3, <1>4, JoinFromLeft
  <2> QED
    BY <2>1, <1>8, <1>9
<1>11. <<Head(s)>> \o SubSeq(t, 1, k) \in Seq(S)
  BY <1>3, <1>4, ConcatProperties
<1> QED
  BY <1>6, <1>7, <1>10, <1>11 DEF t, left

\* A sequence that names nothing twice has as many elements as it is long.
LEMMA DistinctElements ==
  ASSUME NEW S, NEW s \in Seq(S)
  PROVE  /\ IsFiniteSet({s[i] : i \in 1..Len(s)})
         /\ (\A i, j \in 1..Len(s) : s[i] = s[j] => i = j)
              => Cardinality({s[i] : i \in 1..Len(s)}) = Len(s)
<1> DEFINE T == {s[i] : i \in 1..Len(s)}
<1>1. Len(s) \in Nat /\ s \in [1..Len(s) -> S]
  BY LenProperties
<1>2. IsFiniteSet(1..Len(s)) /\ Cardinality(1..Len(s)) = Len(s)
  BY <1>1, FS_Interval
<1>3. s \in [1..Len(s) -> T]
  BY <1>1
<1>4. s \in Surjection(1..Len(s), T)
  BY <1>3 DEF Surjection
<1>5. IsFiniteSet(T) /\ (Cardinality(T) = Cardinality(1..Len(s)) <=> s \in Injection(1..Len(s), T))
  BY <1>2, <1>4, FS_Surjection
<1>6. ASSUME \A i, j \in 1..Len(s) : s[i] = s[j] => i = j PROVE Cardinality(T) = Len(s)
  <2>1. s \in Injection(1..Len(s), T)
    BY <1>3, <1>6 DEF Injection, IsInjective
  <2> QED
    BY <2>1, <1>5, <1>2
<1> QED
  BY <1>5, <1>6

\* The part that stays when the first of two joined sequences is taken away.
LEMMA WithoutFirst ==
  ASSUME NEW S, NEW a \in Seq(S), NEW b \in Seq(S)
  PROVE  /\ a \o b \in Seq(S) /\ Len(a) \in Nat /\ Len(b) \in Nat
         /\ Len(a \o b) = Len(a) + Len(b)
         /\ \A i \in 1..Len(a) : (a \o b)[i] = a[i]
         /\ \A i \in 1..Len(b) : (a \o b)[Len(a) + i] = b[i]
<1>1. Len(a) \in Nat /\ Len(b) \in Nat
  BY LenProperties
<1>2. /\ a \o b \in Seq(S) /\ Len(a \o b) = Len(a) + Len(b)
      /\ \A i \in 1..Len(a) + Len(b) :
           (a \o b)[i] = IF i <= Len(a) THEN a[i] ELSE b[i - Len(a)]
  BY ConcatProperties
<1>3. ASSUME NEW i \in 1..Len(a) PROVE (a \o b)[i] = a[i]
  <2>1. i \in 1..Len(a) + Len(b) /\ i <= Len(a)
    BY <1>1
  <2> QED
    BY <2>1, <1>2
<1>4. ASSUME NEW i \in 1..Len(b) PROVE (a \o b)[Len(a) + i] = b[i]
  <2>1. Len(a) + i \in 1..Len(a) + Len(b) /\ ~(Len(a) + i <= Len(a))
        /\ (Len(a) + i) - Len(a) = i
    BY <1>1
  <2> QED
    BY <2>1, <1>2
<1> QED
  BY <1>1, <1>2, <1>3, <1>4

\* An element before the first k of a sequence.
LEMMA BeforeRun ==
  ASSUME NEW S, NEW h \in S, NEW t \in Seq(S), NEW k \in 0..Len(t)
  PROVE  /\ Len(<<h>> \o SubSeq(t, 1, k)) = k + 1
         /\ (<<h>> \o SubSeq(t, 1, k))[1] = h
         /\ \A i \in 1..k : (<<h>> \o SubSeq(t, 1, k))[i + 1] = t[i]
         /\ <<h>> \o SubSeq(t, 1, k) # <<>>
<1> DEFINE f == <<h>>
           g == SubSeq(t, 1, k)
<1>1. k \in Nat /\ 1 \in Int /\ k \in Int /\ Len(t) \in Nat
  BY LenProperties
<1>2. \A i \in 1..k : t[i] \in S
  BY <1>1, ElementOfSeq
<1>3. g \in Seq(S)
  BY <1>1, <1>2, SubSeqProperties
<1>4. Len(g) = k /\ \A i \in 1..k : g[i] = t[i]
  <2>1. /\ Len(g) = IF 1 <= k THEN k - 1 + 1 ELSE 0
        /\ \A i \in 1..k - 1 + 1 : g[i] = t[1 + i - 1]
    BY <1>1, <1>2, SubSeqProperties
  <2> HIDE DEF g
  <2> QED
    BY <1>1, <2>1
<1>5. Len(f) = 1 /\ f[1] = h
  OBVIOUS
<1>6. f \in Seq(S)
  OBVIOUS
<1>7. /\ Len(f \o g) = Len(f) + Len(g)
      /\ \A i \in 1..Len(f) : (f \o g)[i] = f[i]
      /\ \A i \in 1..Len(g) : (f \o g)[Len(f) + i] = g[i]
  <2> HIDE DEF f, g
  <2> QED
    BY <1>3, <1>6, WithoutFirst
<1> HIDE DEF f, g
<1>8. Len(f \o g) = k + 1 /\ (f \o g)[1] = h /\ \A i \in 1..k : (f \o g)[i + 1] = t[i]
  BY <1>1, <1>4, <1>5, <1>7
<1>9. f \o g # <<>>
  <2>1. Len(f \o g) # 0
    BY <1>1, <1>8
  <2> QED
    BY <2>1
<1> QED
  BY <1>8, <1>9 DEF f, g

-----------------------------------------------------------------------------
(* The inductive invariant *)

Busy == {"Check", "Write", "Read", "Finish"}
Owning == Busy \cup {"Poll", "Receive", "Retire", "PortDrop"}

\* The accepted requests of a session that wait, in order: those of the exchange
\* under way and those still in the channel.
Pending(n) == job[n].requests \o Held(n)

\* How many accepted requests have been answered.
Done(n) == Len(log[n]) - Len(Pending(n))

\* The exchange the worker is in has begun, and may end in a success.
Begun(n) == worker[n] = "Read" \/ (worker[n] = "Finish" /\ job[n].result = "Ok")

FullJob ==
  [requests : Seq(Request) \ {<<>>}, left : 1..2, attempt : 1..2, number : Nat,
   result : {"None", "Ok", "Failed", "Removed"}]

BaseType ==
  /\ lease \in Session \cup {NoSession} /\ port \subseteq Session
  /\ handle \in [Session -> {"None", "Open", "Closing", "Gone"}]
  /\ terminal \in [Session -> {"Running", "Removed", "Closed"}]
  /\ outstanding \in [Session -> Int]
  /\ queue \in [Session -> Seq(Request)] /\ backlog \in [Session -> Seq(Request)]
  /\ worker \in [Session -> Place] /\ job \in [Session -> {NoJob} \cup FullJob]
  /\ answer \in [Request -> Answer] /\ answers \in [Request -> Nat]
  /\ log \in [Session -> Seq(Request)] /\ exchanges \in Nat
  /\ since \in [Request -> Nat] /\ served \in [Request -> Nat]
  /\ wire \in [Request -> Nat]

WorkerInv(n) ==
  /\ worker[n] \in Busy <=> job[n] # NoJob
  /\ handle[n] = "None" => worker[n] = "None"
  /\ n \in port <=> worker[n] \in Owning
  /\ lease = n <=> worker[n] \in Owning \cup {"LeaseDrop"}

\* An exchange that is over has a result.
ResultInv(n) == worker[n] = "Finish" => job[n].result # "None"

\* What the exchange under way can be.
JobInv(n) ==
  worker[n] \in Busy =>
    /\ job[n].left <= Rounds(Lead(n))
    /\ job[n].attempt <= Attempts(Lead(n))
    /\ \A i, j \in 1..Len(job[n].requests) :
         i # j => Duplicate(job[n].requests[i], job[n].requests[j])

\* The log names every accepted request once.
LogInv ==
  /\ \A m, n \in Session : \A i \in 1..Len(log[m]), j \in 1..Len(log[n]) :
       log[m][i] = log[n][j] => m = n /\ i = j
  /\ \A r \in Request : answer[r] \in {"None", "Refused"} =>
       \A n \in Session : \A i \in 1..Len(log[n]) : log[n][i] # r

\* What waits is the end of the log, and holds the slots.
SuffixInv(n) ==
  /\ Len(Pending(n)) <= Len(log[n])
  /\ \A i \in 1..Len(Pending(n)) : Pending(n)[i] = log[n][Done(n) + i]
  /\ \A i \in 1..Len(log[n]) : answer[log[n][i]] = "Waiting" <=> i > Done(n)
  /\ outstanding[n] = Len(Pending(n)) /\ outstanding[n] <= Capacity

AnswerInv ==
  \A r \in Request :
    /\ answers[r] <= 1
    /\ answer[r] \in {"None", "Refused", "Waiting"} => answers[r] = 0

\* The exchange under way is younger than what it will answer and than every answer.
FreshInv(n) ==
  Begun(n) => /\ job[n].number <= exchanges
              /\ \A r \in Requests(n) : since[r] < job[n].number
              /\ \A i \in 1..Done(n) : served[log[n][i]] < job[n].number

OrderInv(n) ==
  \A i, j \in 1..Len(log[n]) :
    i < j /\ answer[log[n][i]] = "Ok" /\ answer[log[n][j]] = "Ok" =>
      \/ served[log[n][i]] < served[log[n][j]]
      \/ served[log[n][i]] = served[log[n][j]] /\ Duplicate(log[n][i], log[n][j])

ClockInv ==
  \A r \in Request : /\ since[r] <= exchanges /\ served[r] <= exchanges
                     /\ answer[r] = "Ok" => served[r] > since[r]

Exclusive(r) == Kind[r] \in {"Write", "Prompt", "Tool"}

\* How often the line of the request at the head of the exchange went out.
LeadOut(n) ==
  /\ worker[n] \in {"Check", "Write"} \/ (worker[n] = "Read" /\ job[n].left = 2)
       => wire[Lead(n)] = 0
  /\ worker[n] = "Read" /\ job[n].left = 1 => wire[Lead(n)] = 1
  /\ worker[n] = "Finish" =>
       /\ wire[Lead(n)] <= 1
       /\ job[n].result = "Ok" /\ Kind[Lead(n)] # "Prompt" => wire[Lead(n)] = 1

RequestWire ==
  \A r \in Request : Exclusive(r) =>
    /\ wire[r] <= 1
    /\ answer[r] \in {"None", "Refused"} => wire[r] = 0
    /\ Kind[r] # "Prompt" /\ answer[r] = "Ok" => wire[r] = 1

\* Nothing of what is still in the channel has gone out.
ChannelWire(n) ==
  \A i \in 1..Len(Held(n)) : Exclusive(Held(n)[i]) => wire[Held(n)[i]] = 0

LeadWire(n) == worker[n] \in Busy /\ Exclusive(Lead(n)) => LeadOut(n)

IInv ==
  /\ BaseType /\ LogInv /\ AnswerInv /\ ClockInv /\ RequestWire
  /\ \A n \in Session :
       /\ WorkerInv(n) /\ ResultInv(n) /\ JobInv(n) /\ SuffixInv(n) /\ FreshInv(n)
       /\ OrderInv(n) /\ ChannelWire(n) /\ LeadWire(n)

-----------------------------------------------------------------------------
(* What a step does to the requests that wait *)

\* It leaves them alone,
Keeps(n) ==
  /\ Pending(n)' = Pending(n)
  /\ UNCHANGED <<answer, answers, outstanding, log, since, served>>

\* accepts another one or refuses it,
Accepts(n, r) ==
  /\ answer[r] = "None" /\ outstanding[n] < Capacity
  /\ Pending(n)' = Pending(n) \o <<r>>
  /\ log' = [log EXCEPT ![n] = Append(@, r)]
  /\ answer' = [answer EXCEPT ![r] = "Waiting"]
  /\ outstanding' = [outstanding EXCEPT ![n] = @ + 1]
  /\ since' = [since EXCEPT ![r] = exchanges]
  /\ UNCHANGED <<answers, served, exchanges>>

Refuses(n, r) ==
  /\ answer[r] = "None" /\ answer' = [answer EXCEPT ![r] = "Refused"]
  /\ Pending(n)' = Pending(n)
  /\ UNCHANGED <<answers, outstanding, log, since, served, exchanges>>

\* or answers the first of them, with a success only when the exchange had one.
Tells(n, first, told) ==
  /\ Pending(n) = first \o Pending(n)'
  /\ Reply(n, told, {first[i] : i \in 1..Len(first)})
  /\ served' = [r \in Request |->
                  IF r \in {first[i] : i \in 1..Len(first)} /\ told = "Ok"
                  THEN job[n].number ELSE served[r]]
  /\ worker'[n] \in {"Poll", "Retire", "PortDrop"}
  /\ told = "Ok" => /\ worker[n] = "Finish" /\ job[n].result = "Ok"
                    /\ first = job[n].requests
                    /\ terminal[n] = "Running" \/ Kind[Lead(n)] = "Session"
  /\ UNCHANGED <<log, since, exchanges>>

\* The other sessions keep what is theirs.
Apart(n) ==
  \A m \in Session \ {n} :
    /\ queue'[m] = queue[m] /\ backlog'[m] = backlog[m] /\ job'[m] = job[m]
    /\ worker'[m] = worker[m] /\ handle'[m] = handle[m] /\ terminal'[m] = terminal[m]
    /\ outstanding'[m] = outstanding[m] /\ log'[m] = log[m]

Step(n) ==
  \/ Keeps(n)
  \/ \E r \in Request : Accepts(n, r) \/ Refuses(n, r)
  \/ \E first \in Seq(Request), told \in {"Ok", "Failed", "Terminal"} : Tells(n, first, told)

LEMMA PendingType ==
  ASSUME BaseType, NEW n \in Session
  PROVE  /\ job[n].requests \in Seq(Request) /\ backlog[n] \in Seq(Request)
         /\ queue[n] \in Seq(Request) /\ Held(n) \in Seq(Request)
         /\ Pending(n) \in Seq(Request)
         /\ Len(Pending(n)) \in Nat /\ Len(log[n]) \in Nat /\ log[n] \in Seq(Request)
<1>1. backlog[n] \in Seq(Request) /\ queue[n] \in Seq(Request) /\ log[n] \in Seq(Request)
  BY DEF BaseType
<1>2. job[n].requests \in Seq(Request)
  <2>1. job[n] \in {NoJob} \cup FullJob
    BY DEF BaseType
  <2>2. CASE job[n] = NoJob
    BY <2>2, EmptySeq DEF NoJob
  <2>3. CASE job[n] \in FullJob
    BY <2>3 DEF FullJob
  <2> QED
    BY <2>1, <2>2, <2>3
<1>3. Held(n) \in Seq(Request)
  BY <1>1, ConcatProperties DEF Held
<1>4. Pending(n) \in Seq(Request)
  BY <1>2, <1>3, ConcatProperties DEF Pending
<1> QED
  BY <1>1, <1>2, <1>3, <1>4, LenProperties

\* Nothing in the channel or under way, once it is not touched, changes what waits.
LEMMA SamePending ==
  ASSUME NEW n \in Session, job'[n].requests = job[n].requests,
         queue'[n] = queue[n], backlog'[n] = backlog[n]
  PROVE  Pending(n)' = Pending(n) /\ Held(n)' = Held(n) /\ Requests(n)' = Requests(n)
BY DEF Pending, Held, Requests

\* Each worker and each holder touches its own session only.
LEMMA StepsApart ==
  ASSUME BaseType, NEW n \in Session, Worker(n) \/ Holder(n)
  PROVE  Apart(n)
<1> USE DEF BaseType, Apart
<1>1. CASE Open(n)
  BY <1>1 DEF Open, channel, replies, history, exchange
<1>2. ASSUME NEW r \in Request, Submit(n, r) PROVE Apart(n)
  BY <1>2 DEF Submit, ownership, exchange
<1>3. CASE InvalidateEpoch(n)
  BY <1>3 DEF InvalidateEpoch, Transition, ownership, channel, replies, history, exchange
<1>4. CASE Close(n)
  BY <1>4 DEF Close, Transition, channel, replies, history, exchange
<1>5. CASE Joined(n)
  BY <1>5 DEF Joined, channel, replies, history, exchange
<1>6. CASE CloseTimesOut(n)
  BY <1>6 DEF CloseTimesOut, channel, replies, history, exchange
<1>7. CASE Poll(n)
  BY <1>7 DEF Poll, ownership, channel, replies, history, exchange
<1>8. CASE Receive(n)
  BY <1>8 DEF Receive, Begin, ownership, replies, history, exchange
<1>9. CASE CheckBeforeWrite(n)
  BY <1>9 DEF CheckBeforeWrite, EndExchange, ownership, channel, replies, history, exchange
<1>10. CASE WriteLine(n)
  BY <1>10 DEF WriteLine, TimedOut, EndExchange, ownership, channel, replies, history
<1>11. CASE ReadOk(n)
  BY <1>11 DEF ReadOk, EndExchange, ownership, channel, replies, history, exchange
<1>12. CASE ReadTimeout(n)
  BY <1>12 DEF ReadTimeout, TimedOut, EndExchange, ownership, channel, replies, history, exchange
<1>13. CASE ReadFails(n)
  BY <1>13 DEF ReadFails, EndExchange, ownership, channel, replies, history, exchange
<1>14. CASE Finish(n)
  BY <1>14 DEF Finish, Reply, Transition, ownership, history, exchange
<1>15. CASE FinishSession(n)
  BY <1>15 DEF FinishSession, Reply, ownership, history, exchange
<1>16. CASE Retire(n)
  BY <1>16 DEF Retire, Transition, ownership, channel, replies, history, exchange
<1>17. CASE Abandon(n)
  BY <1>17 DEF Abandon, Reply, ownership, history, exchange
<1>18. CASE DropPort(n)
  BY <1>18 DEF DropPort, channel, replies, history, exchange
<1>19. CASE DropLease(n)
  BY <1>19 DEF DropLease, channel, replies, history, exchange
<1> QED
  BY <1>1, <1>2, <1>3, <1>4, <1>5, <1>6, <1>7, <1>8, <1>9, <1>10, <1>11, <1>12, <1>13,
     <1>14, <1>15, <1>16, <1>17, <1>18, <1>19 DEF Worker, Holder

LEMMA LeadType ==
  ASSUME NEW n \in Session, job[n] \in FullJob
  PROVE  /\ Lead(n) \in Request /\ Lead(n) = job[n].requests[1]
         /\ 1 \in 1..Len(job[n].requests) /\ Lead(n) \in Requests(n)
<1>1. job[n].requests \in Seq(Request) /\ job[n].requests # <<>>
  BY DEF FullJob
<1>2. 1 \in 1..Len(job[n].requests)
  BY <1>1, EmptySeq
<1> QED
  BY <1>1, <1>2, HeadTailProperties DEF Lead, Requests

LEMMA NoJobPending ==
  ASSUME BaseType, NEW n \in Session, job[n] = NoJob
  PROVE  Pending(n) = Held(n)
<1>1. Held(n) \in Seq(Request)
  BY PendingType
<1>2. Pending(n) = <<>> \o Held(n)
  BY DEF Pending, NoJob
<1> QED
  BY <1>1, <1>2, ConcatEmptySeq

\* What Receive does to the worker's session when something is queued.
LEMMA BeginForm ==
  ASSUME BaseType, NEW n \in Session, job[n] = NoJob, Held(n) # <<>>,
         Begin(n, Head(Held(n)), Tail(Held(n)))
  PROVE  /\ Pending(n)' = Pending(n)
         /\ \E run \in Drained(Tail(Held(n)), Head(Held(n))) :
              /\ job'[n] = [requests |-> <<Head(Held(n))>> \o SubSeq(Tail(Held(n)), 1, run),
                            left |-> Rounds(Head(Held(n))), attempt |-> 1, number |-> 0,
                            result |-> "None"]
              /\ <<Head(Held(n))>> \o SubSeq(Tail(Held(n)), 1, run) \in Seq(Request) \ {<<>>}
              /\ Len(<<Head(Held(n))>> \o SubSeq(Tail(Held(n)), 1, run)) = run + 1
              /\ (<<Head(Held(n))>> \o SubSeq(Tail(Held(n)), 1, run))[1] = Head(Held(n))
              /\ \A i \in 1..run : (<<Head(Held(n))>> \o SubSeq(Tail(Held(n)), 1, run))[i + 1]
                                      = Tail(Held(n))[i]
              /\ Held(n)' = SubSeq(Tail(Held(n)), run + 1, Len(Tail(Held(n))))
         /\ queue'[n] \in Seq(Request) /\ backlog'[n] \in Seq(Request)
<1> DEFINE h == Head(Held(n))
           t == Tail(Held(n))
<1>1. Held(n) \in Seq(Request) /\ Pending(n) = Held(n)
  BY PendingType, NoJobPending
<1>2. h \in Request /\ t \in Seq(Request) /\ Len(t) \in Nat
  <2>1. h \in Request /\ t \in Seq(Request)
    BY <1>1, HeadTailProperties
  <2> QED
    BY <2>1, LenProperties
<1>3. PICK run \in Drained(t, h) :
        LET left == SubSeq(t, run + 1, Len(t))
            out == IF Kind[h] = "Read" /\ left # <<>> THEN 1 ELSE 0
        IN  /\ job' = [job EXCEPT ![n] =
                         [requests |-> <<h>> \o SubSeq(t, 1, run),
                          left |-> Rounds(h), attempt |-> 1, number |-> 0,
                          result |-> "None"]]
            /\ backlog' = [backlog EXCEPT ![n] = SubSeq(left, 1, out)]
            /\ queue' = [queue EXCEPT ![n] = SubSeq(left, out + 1, Len(left))]
  BY DEF Begin
<1> DEFINE left == SubSeq(t, run + 1, Len(t))
           out == IF Kind[h] = "Read" /\ left # <<>> THEN 1 ELSE 0
           R == <<h>> \o SubSeq(t, 1, run)
           J == [requests |-> R, left |-> Rounds(h), attempt |-> 1, number |-> 0,
                 result |-> "None"]
<1>4. run \in 0..Len(t)
  BY DEF Drained
<1>5. left \in Seq(Request) /\ Len(left) \in Nat
  <2>1. \A i \in 1..Len(t) : t[i] \in Request
    BY <1>2, ElementOfSeq
  <2>2. run + 1 \in Int /\ Len(t) \in Int /\ \A i \in run + 1..Len(t) : t[i] \in Request
    BY <2>1, <1>2, <1>4
  <2>3. SubSeq(t, run + 1, Len(t)) \in Seq(Request)
    BY <2>2, SubSeqProperties
  <2> QED
    BY <2>3, LenProperties
<1>6. out \in 0..Len(left)
  <2>1. left # <<>> => Len(left) \in Nat \ {0}
    BY <1>5, EmptySeq
  <2> QED
    BY <2>1, <1>5
<1>7. /\ R \in Seq(Request)
      /\ SubSeq(left, 1, out) \in Seq(Request)
      /\ SubSeq(left, out + 1, Len(left)) \in Seq(Request)
      /\ SubSeq(left, 1, out) \o SubSeq(left, out + 1, Len(left)) = left
      /\ R \o left = Held(n)
  <2> HIDE DEF out
  <2> QED
    BY <1>1, <1>4, <1>6, CutAndJoin
<1>8. /\ job'[n] = J /\ backlog'[n] = SubSeq(left, 1, out)
      /\ queue'[n] = SubSeq(left, out + 1, Len(left))
  <2> HIDE DEF J, out, left
  <2>1. /\ job' = [job EXCEPT ![n] = J] /\ backlog' = [backlog EXCEPT ![n] = SubSeq(left, 1, out)]
        /\ queue' = [queue EXCEPT ![n] = SubSeq(left, out + 1, Len(left))]
    BY <1>3 DEF J, out, left
  <2> QED
    BY <2>1 DEF BaseType
<1>9. Held(n)' = left
  BY <1>7, <1>8 DEF Held
<1>10. Pending(n)' = R \o left
  <2>1. job'[n].requests = R
    <3> HIDE DEF R
    <3> QED
      BY <1>8
  <2> QED
    BY <2>1, <1>9 DEF Pending
<1>11. queue'[n] \in Seq(Request) /\ backlog'[n] \in Seq(Request)
  <2> HIDE DEF out, left
  <2> QED
    BY <1>7, <1>8
<1>12. Pending(n)' = Pending(n)
  BY <1>10, <1>7, <1>1
<1>14. /\ Len(R) = run + 1 /\ R[1] = h /\ R # <<>>
       /\ \A i \in 1..run : R[i + 1] = t[i]
  <2> HIDE DEF h, t
  <2> QED
    BY <1>2, <1>4, BeforeRun
<1> HIDE DEF h, t
<1>13. /\ job'[n] = [requests |-> <<h>> \o SubSeq(t, 1, run),
                            left |-> Rounds(h), attempt |-> 1, number |-> 0,
                            result |-> "None"]
       /\ <<h>> \o SubSeq(t, 1, run) \in Seq(Request) \ {<<>>}
       /\ Len(R) = run + 1 /\ R[1] = h
       /\ \A i \in 1..run : R[i + 1] = t[i]
       /\ Held(n)' = SubSeq(t, run + 1, Len(t))
       /\ run \in Drained(t, h)
  BY <1>7, <1>8, <1>9, <1>3, <1>14
<1> QED
  BY <1>11, <1>12, <1>13 DEF h, t

\* Told is never a wait.
LEMMA ToldType ==
  ASSUME BaseType, NEW n \in Session, job[n] \in FullJob, worker[n] = "Finish",
         job[n].result # "None"
  PROVE  Told(n) \in {"Ok", "Failed", "Terminal"}
BY DEF Told, FullJob

\* A worker in an exchange that ends with this result still waits for the same ones.
LEMMA EndKeepsRequests ==
  ASSUME BaseType, NEW n \in Session, job[n] \in FullJob, NEW result, EndExchange(n, result)
  PROVE  job'[n].requests = job[n].requests
BY DEF BaseType, EndExchange, FullJob

\* An attempt that timed out: the next one, of the same requests, or the end.
LEMMA TimedOutForm ==
  ASSUME BaseType, NEW n \in Session, job[n] \in FullJob, TimedOut(n)
  PROVE  \/ EndExchange(n, "Failed")
         \/ /\ job[n].attempt < Attempts(Lead(n))
            /\ job' \in [Session -> {NoJob} \cup FullJob] /\ worker' \in [Session -> Place]
            /\ job'[n] \in FullJob /\ worker'[n] = "Check"
            /\ job'[n].requests = job[n].requests /\ job'[n].left = job[n].left
            /\ job'[n].attempt = job[n].attempt + 1
<1>1. CASE EndExchange(n, "Failed")
  BY <1>1
<1>2. CASE /\ job[n].attempt < Attempts(Lead(n))
           /\ job' = [job EXCEPT ![n].attempt = @ + 1]
           /\ worker' = [worker EXCEPT ![n] = "Check"]
  <2> DEFINE J == [job[n] EXCEPT !.attempt = @ + 1]
  <2>1. J \in FullJob
    <3>1. job[n].attempt + 1 \in 1..2
      BY <1>2 DEF FullJob, Attempts
    <3> QED
      BY <3>1 DEF FullJob
  <2>2. J.requests = job[n].requests /\ J.left = job[n].left /\ J.attempt = job[n].attempt + 1
    BY DEF FullJob
  <2>3. job' = [job EXCEPT ![n] = J]
    BY <1>2 DEF BaseType
  <2> HIDE DEF J
  <2>4. job' \in [Session -> {NoJob} \cup FullJob] /\ job'[n] = J
    BY <2>1, <2>3 DEF BaseType
  <2>5. worker' \in [Session -> Place] /\ worker'[n] = "Check"
    BY <1>2 DEF BaseType, Place
  <2> QED
    BY <1>2, <2>1, <2>2, <2>4, <2>5
<1> QED
  BY <1>1, <1>2 DEF TimedOut

LEMMA StepForm ==
  ASSUME BaseType, NEW n \in Session, WorkerInv(n), ResultInv(n), Worker(n) \/ Holder(n)
  PROVE  Step(n)
<1>1. /\ job \in [Session -> {NoJob} \cup FullJob]
      /\ worker[n] \in Busy => job[n] \in FullJob
      /\ worker[n] \notin Busy => job[n] = NoJob
  BY DEF BaseType, WorkerInv
<1>2. Held(n) \in Seq(Request) /\ Pending(n) \in Seq(Request) /\ backlog[n] \in Seq(Request)
      /\ queue[n] \in Seq(Request) /\ job[n].requests \in Seq(Request)
  BY PendingType
<1>3. CASE Open(n)
  <2>1. Keeps(n)
    BY <1>3, SamePending DEF Open, Keeps, channel, replies, history, exchange
  <2> QED
    BY <2>1 DEF Step
<1>4. ASSUME NEW r \in Request, Submit(n, r) PROVE Step(n)
  <2>1. CASE terminal[n] = "Running" /\ outstanding[n] < Capacity
    <3>1. job'[n] = job[n] /\ backlog'[n] = backlog[n] /\ queue'[n] = Append(queue[n], r)
      BY <1>4, <2>1 DEF Submit, ownership, exchange, BaseType
    <3>2. queue'[n] = queue[n] \o <<r>> /\ <<r>> \in Seq(Request)
      BY <3>1, <1>2, AppendIsConcat
    <3>3. Pending(n)' = Pending(n) \o <<r>>
      <4>1. Pending(n)' = job[n].requests \o (backlog[n] \o (queue[n] \o <<r>>))
        BY <3>1, <3>2 DEF Pending, Held
      <4>2. job[n].requests \o (backlog[n] \o (queue[n] \o <<r>>))
              = (job[n].requests \o (backlog[n] \o queue[n])) \o <<r>>
        <5> DEFINE a == job[n].requests
                   b == backlog[n]
                   c == queue[n]
                   d == <<r>>
        <5>1. a \in Seq(Request)
          BY <1>2
        <5>2. b \in Seq(Request) /\ c \in Seq(Request)
          BY <1>2
        <5>3. d \in Seq(Request)
          BY <3>2
        <5> HIDE DEF a, b, c, d
        <5>4. b \o (c \o d) = (b \o c) \o d
          BY <5>2, <5>3, ConcatAssociative
        <5>5. a \o ((b \o c) \o d) = (a \o (b \o c)) \o d
          <6> DEFINE bc == b \o c
          <6>1. bc \in Seq(Request)
            BY <5>2, ConcatProperties
          <6> HIDE DEF bc
          <6>2. a \o (bc \o d) = (a \o bc) \o d
            BY <5>1, <5>3, <6>1, ConcatAssociative
          <6> QED
            BY <6>2 DEF bc
        <5> QED
          BY <5>4, <5>5 DEF a, b, c, d
      <4> QED
        BY <4>1, <4>2 DEF Pending, Held
    <3>4. Accepts(n, r)
      BY <1>4, <2>1, <3>3 DEF Submit, Accepts, exchange
    <3> QED
      BY <3>4 DEF Step
  <2>2. CASE ~(terminal[n] = "Running" /\ outstanding[n] < Capacity)
    <3>1. Pending(n)' = Pending(n)
      BY <1>4, <2>2, SamePending DEF Submit
    <3>2. Refuses(n, r)
      BY <1>4, <2>2, <3>1 DEF Submit, Refuses, exchange
    <3> QED
      BY <3>2 DEF Step
  <2> QED
    BY <2>1, <2>2
<1>5. CASE InvalidateEpoch(n) \/ Poll(n) \/ Retire(n)
  <2>1. Keeps(n)
    BY <1>5, SamePending DEF InvalidateEpoch, Poll, Retire, Keeps, channel, replies, history
  <2> QED
    BY <2>1 DEF Step
<1>6. CASE Close(n) \/ Joined(n) \/ CloseTimesOut(n) \/ DropPort(n) \/ DropLease(n)
  <2>1. Keeps(n)
    BY <1>6, SamePending
       DEF Close, Joined, CloseTimesOut, DropPort, DropLease, Keeps, channel, replies, history
  <2> QED
    BY <2>1 DEF Step
<1>7. CASE Receive(n)
  <2>1. job[n] = NoJob
    BY <1>7, <1>1 DEF Receive, Busy
  <2>2. CASE Held(n) # <<>> /\ Begin(n, Head(Held(n)), Tail(Held(n)))
    <3>1. Pending(n)' = Pending(n)
      BY <2>1, <2>2, BeginForm
    <3>2. Keeps(n)
      BY <3>1, <1>7 DEF Receive, Keeps, replies, history
    <3> QED
      BY <3>2 DEF Step
  <2>3. CASE UNCHANGED <<job, queue, backlog>>
    <3>1. Keeps(n)
      BY <2>3, <1>7, SamePending DEF Receive, Keeps, replies, history
    <3> QED
      BY <3>1 DEF Step
  <2> QED
    BY <1>7, <2>2, <2>3 DEF Receive
<1>8. CASE CheckBeforeWrite(n)
  <2>1. job'[n].requests = job[n].requests
    <3>1. job[n] \in FullJob
      BY <1>8, <1>1 DEF CheckBeforeWrite, Busy
    <3> QED
      BY <1>8, <3>1, EndKeepsRequests DEF CheckBeforeWrite
  <2>2. Keeps(n)
    BY <1>8, <2>1, SamePending DEF CheckBeforeWrite, Keeps, channel, replies, history
  <2> QED
    BY <2>2 DEF Step
<1>9. CASE WriteLine(n)
  <2>1. job'[n].requests = job[n].requests
    <3>1. job[n] \in FullJob
      BY <1>9, <1>1 DEF WriteLine, Busy
    <3>2. CASE job' = [job EXCEPT ![n].number = exchanges + 1]
      BY <3>1, <3>2 DEF BaseType, FullJob
    <3> QED
      BY <1>9, <3>1, <3>2, EndKeepsRequests, TimedOutForm DEF WriteLine
  <2>2. Keeps(n)
    BY <1>9, <2>1, SamePending DEF WriteLine, Keeps, channel, replies, history
  <2> QED
    BY <2>2 DEF Step
<1>10. CASE ReadOk(n)
  <2>1. job'[n].requests = job[n].requests
    <3>1. job[n] \in FullJob
      BY <1>10, <1>1 DEF ReadOk, Busy
    <3>2. CASE job' = [job EXCEPT ![n].left = @ - 1, ![n].attempt = 1]
      BY <3>1, <3>2 DEF BaseType, FullJob
    <3> QED
      BY <1>10, <3>1, <3>2, EndKeepsRequests DEF ReadOk
  <2>2. Keeps(n)
    BY <1>10, <2>1, SamePending DEF ReadOk, Keeps, channel, replies, history
  <2> QED
    BY <2>2 DEF Step
<1>11. CASE ReadTimeout(n)
  <2>1. job'[n].requests = job[n].requests
    <3>1. job[n] \in FullJob
      BY <1>11, <1>1 DEF ReadTimeout, Busy
    <3> QED
      BY <1>11, <3>1, EndKeepsRequests, TimedOutForm DEF ReadTimeout
  <2>2. Keeps(n)
    BY <1>11, <2>1, SamePending DEF ReadTimeout, Keeps, channel, replies, history
  <2> QED
    BY <2>2 DEF Step
<1>12. CASE ReadFails(n)
  <2>1. job'[n].requests = job[n].requests
    <3>1. job[n] \in FullJob
      BY <1>12, <1>1 DEF ReadFails, Busy
    <3> QED
      BY <1>12, <3>1, EndKeepsRequests DEF ReadFails
  <2>2. Keeps(n)
    BY <1>12, <2>1, SamePending DEF ReadFails, Keeps, channel, replies, history
  <2> QED
    BY <2>2 DEF Step
<1>13. CASE Finish(n)
  <2>1. job'[n] = NoJob /\ queue'[n] = queue[n] /\ backlog'[n] = backlog[n]
    BY <1>13, <1>1 DEF Finish
  <2>2. Pending(n)' = Held(n)
    <3>1. Held(n)' = Held(n) /\ job'[n].requests = <<>>
      BY <2>1 DEF Held, NoJob
    <3>2. Pending(n)' = <<>> \o Held(n)
      BY <3>1 DEF Pending
    <3> QED
      BY <3>2, <1>2, ConcatEmptySeq
  <2>3. Pending(n) = job[n].requests \o Pending(n)'
    BY <2>2 DEF Pending
  <2>4. Told(n) \in {"Ok", "Failed", "Terminal"}
    BY <1>13, <1>1, ToldType DEF Finish, Busy, ResultInv
  <2>5. Told(n) = "Ok" => job[n].result = "Ok" /\ terminal[n] = "Running"
    BY DEF Told
  <2>6. Tells(n, job[n].requests, Told(n))
    BY <1>13, <2>3, <2>5 DEF Finish, Tells, Requests, history, exchange, BaseType
  <2> QED
    BY <2>4, <2>6, <1>2 DEF Step
<1>14. CASE FinishSession(n)
  <2> DEFINE told == IF job[n].result = "Ok" THEN "Ok" ELSE "Failed"
  <2>1. job'[n] = NoJob /\ queue'[n] = queue[n] /\ backlog'[n] = backlog[n]
    BY <1>14, <1>1 DEF FinishSession
  <2>2. Pending(n)' = Held(n)
    <3>1. Held(n)' = Held(n) /\ job'[n].requests = <<>>
      BY <2>1 DEF Held, NoJob
    <3>2. Pending(n)' = <<>> \o Held(n)
      BY <3>1 DEF Pending
    <3> QED
      BY <3>2, <1>2, ConcatEmptySeq
  <2>3. Pending(n) = job[n].requests \o Pending(n)'
    BY <2>2 DEF Pending
  <2>4. told \in {"Ok", "Failed", "Terminal"}
    OBVIOUS
  <2>5. told = "Ok" <=> job[n].result = "Ok"
    OBVIOUS
  <2>6. Tells(n, job[n].requests, told)
    <3>1. Reply(n, told, Requests(n))
      BY <1>14 DEF FinishSession
    <3> HIDE DEF told
    <3> QED
      BY <1>14, <2>3, <2>5, <3>1 DEF FinishSession, Tells, Requests, history,
              exchange, BaseType
  <2> HIDE DEF told
  <2> QED
    BY <2>4, <2>6, <1>2 DEF Step
<1>15. CASE Abandon(n)
  <2>1. job[n] = NoJob /\ job'[n] = NoJob /\ queue'[n] = <<>> /\ backlog'[n] = <<>>
    BY <1>15, <1>1 DEF Abandon, Busy, BaseType
  <2>2. Pending(n)' = <<>>
    <3>1. Pending(n)' = <<>> \o (<<>> \o <<>>)
      BY <2>1 DEF Pending, Held, NoJob
    <3>2. <<>> \in Seq(Request)
      OBVIOUS
    <3> QED
      BY <3>1, <3>2, ConcatEmptySeq
  <2>3. Pending(n) = Held(n) \o Pending(n)'
    BY <2>1, <2>2, <1>2, NoJobPending, ConcatEmptySeq
  <2>4. served' = [r \in Request |->
                    IF r \in {Held(n)[i] : i \in 1..Len(Held(n))} /\ "Terminal" = "Ok"
                    THEN job[n].number ELSE served[r]]
    BY <1>15 DEF Abandon, BaseType
  <2>5. Tells(n, Held(n), "Terminal")
    BY <1>15, <2>3, <2>4 DEF Abandon, Tells, history, exchange, BaseType
  <2> QED
    BY <2>5, <1>2 DEF Step
<1> QED
  BY <1>3, <1>4, <1>5, <1>6, <1>7, <1>8, <1>9, <1>10, <1>11, <1>12, <1>13, <1>14, <1>15
     DEF Worker, Holder

-----------------------------------------------------------------------------
(* Types *)

\* The answers, the log and the clocks keep their types.
LEMMA AnswersType ==
  ASSUME BaseType, NEW n \in Session, WorkerInv(n), Step(n)
  PROVE  /\ answer' \in [Request -> Answer] /\ answers' \in [Request -> Nat]
         /\ outstanding' \in [Session -> Int] /\ log' \in [Session -> Seq(Request)]
         /\ served' \in [Request -> Nat]
         /\ since' \in [Request -> Nat]
<1>1. CASE Keeps(n)
  BY <1>1 DEF Keeps, BaseType
<1>2. ASSUME NEW r \in Request, Accepts(n, r) PROVE log' \in [Session -> Seq(Request)]
  <2>1. Append(log[n], r) \in Seq(Request)
    BY AppendProperties DEF BaseType
  <2> QED
    BY <1>2, <2>1 DEF Accepts, BaseType
<1>3. ASSUME NEW r \in Request, Accepts(n, r)
      PROVE  /\ answer' \in [Request -> Answer] /\ answers' \in [Request -> Nat]
             /\ outstanding' \in [Session -> Int] /\ served' \in [Request -> Nat]
             /\ since' \in [Request -> Nat]
  <2>1. answer' \in [Request -> Answer]
    BY <1>3 DEF Accepts, BaseType, Answer
  <2>2. outstanding' \in [Session -> Int]
    BY <1>3 DEF Accepts, BaseType
  <2>3. since' \in [Request -> Nat]
    BY <1>3 DEF Accepts, BaseType
  <2> QED
    BY <1>3, <2>1, <2>2, <2>3 DEF Accepts, BaseType
<1>4. ASSUME NEW r \in Request, Refuses(n, r)
      PROVE  /\ answer' \in [Request -> Answer] /\ answers' \in [Request -> Nat]
             /\ outstanding' \in [Session -> Int] /\ log' \in [Session -> Seq(Request)]
             /\ served' \in [Request -> Nat] /\ since' \in [Request -> Nat]
  BY <1>4 DEF Refuses, BaseType, Answer
<1>5. ASSUME NEW first \in Seq(Request), NEW told \in {"Ok", "Failed", "Terminal"},
             Tells(n, first, told)
      PROVE  /\ answer' \in [Request -> Answer] /\ answers' \in [Request -> Nat]
             /\ outstanding' \in [Session -> Int] /\ log' \in [Session -> Seq(Request)]
             /\ served' \in [Request -> Nat] /\ since' \in [Request -> Nat]
  <2> DEFINE R == {first[i] : i \in 1..Len(first)}
  <2>1. Cardinality(R) \in Nat
    <3>1. IsFiniteSet(R)
      BY DistinctElements
    <3> QED
      BY <3>1, FS_CardinalityType
  <2>2. told = "Ok" => job[n].number \in Nat
    <3>1. told = "Ok" => job[n] \in FullJob
      BY <1>5 DEF Tells, WorkerInv, Busy, BaseType
    <3> QED
      BY <3>1 DEF FullJob
  <2>3. Reply(n, told, R)
    BY <1>5 DEF Tells
  <2>4. served' = [r \in Request |-> IF r \in R /\ told = "Ok" THEN job[n].number ELSE served[r]]
        /\ log' = log /\ since' = since
    BY <1>5 DEF Tells
  <2> HIDE DEF R
  <2>5. answer' \in [Request -> Answer] /\ answers' \in [Request -> Nat]
    BY <2>3 DEF Reply, BaseType, Answer
  <2>6. outstanding' \in [Session -> Int]
    BY <2>3, <2>1 DEF Reply, BaseType
  <2>7. served' \in [Request -> Nat]
    BY <2>2, <2>4 DEF BaseType
  <2> QED
    BY <2>4, <2>5, <2>6, <2>7 DEF BaseType
<1> QED
  BY <1>1, <1>2, <1>3, <1>4, <1>5 DEF Step

LEMMA EndType ==
  ASSUME BaseType, NEW n \in Session, job[n] \in FullJob,
         NEW result \in {"Ok", "Failed", "Removed"}, EndExchange(n, result)
  PROVE  /\ job' \in [Session -> {NoJob} \cup FullJob] /\ job'[n] \in FullJob
         /\ job' = [job EXCEPT ![n] = [job[n] EXCEPT !.result = result]]
         /\ worker' = [worker EXCEPT ![n] = "Finish"] /\ worker' \in [Session -> Place]
<1> DEFINE J == [job[n] EXCEPT !.result = result]
<1>1. J \in FullJob
  BY DEF FullJob
<1>2. job' = [job EXCEPT ![n] = J] /\ worker' = [worker EXCEPT ![n] = "Finish"]
  BY DEF EndExchange
<1> HIDE DEF J
<1>3. job' \in [Session -> {NoJob} \cup FullJob] /\ job'[n] \in FullJob
  BY <1>1, <1>2 DEF BaseType
<1> QED
  BY <1>2, <1>3 DEF J, BaseType, Place

LEMMA TypeStep ==
  ASSUME BaseType, NEW n \in Session, WorkerInv(n), Worker(n) \/ Holder(n), Step(n)
  PROVE  BaseType'
<1> DEFINE Rest ==
      /\ lease' \in Session \cup {NoSession} /\ port' \subseteq Session
      /\ handle' \in [Session -> {"None", "Open", "Closing", "Gone"}]
      /\ terminal' \in [Session -> {"Running", "Removed", "Closed"}]
      /\ queue' \in [Session -> Seq(Request)] /\ backlog' \in [Session -> Seq(Request)]
      /\ worker' \in [Session -> Place] /\ job' \in [Session -> {NoJob} \cup FullJob]
      /\ exchanges' \in Nat /\ wire' \in [Request -> Nat]
<1> SUFFICES Rest
  <2>1. /\ answer' \in [Request -> Answer] /\ answers' \in [Request -> Nat]
        /\ outstanding' \in [Session -> Int] /\ log' \in [Session -> Seq(Request)]
        /\ served' \in [Request -> Nat] /\ since' \in [Request -> Nat]
    BY AnswersType
  <2> QED
    BY <2>1 DEF BaseType
<1>1. worker[n] \in Busy => job[n] \in FullJob
  BY DEF BaseType, WorkerInv
<1>2. <<>> \in Seq(Request)
  OBVIOUS
<1>3. CASE Open(n)
  BY <1>3 DEF Open, channel, replies, history, exchange, BaseType, Place
<1>4. ASSUME NEW r \in Request, Submit(n, r) PROVE Rest
  <2>1. queue' \in [Session -> Seq(Request)]
    <3>1. Append(queue[n], r) \in Seq(Request)
      BY AppendProperties DEF BaseType
    <3> QED
      BY <1>4, <3>1 DEF Submit, BaseType
  <2> QED
    BY <1>4, <2>1 DEF Submit, ownership, exchange, BaseType
<1>5. CASE InvalidateEpoch(n) \/ Close(n) \/ Joined(n) \/ CloseTimesOut(n)
  BY <1>5 DEF InvalidateEpoch, Close, Joined, CloseTimesOut, Transition, ownership, channel,
              replies, history, exchange, BaseType
<1>6. CASE Poll(n) \/ Retire(n) \/ DropPort(n) \/ DropLease(n)
  BY <1>6 DEF Poll, Retire, DropPort, DropLease, Transition, ownership, channel,
              replies, history, exchange, BaseType, Place
<1>7. CASE Receive(n)
  <2>1. lease' \in Session \cup {NoSession} /\ port' \subseteq Session
        /\ handle' \in [Session -> {"None", "Open", "Closing", "Gone"}]
        /\ terminal' \in [Session -> {"Running", "Removed", "Closed"}]
        /\ exchanges' \in Nat /\ wire' \in [Request -> Nat]
        /\ worker' \in [Session -> Place]
    BY <1>7 DEF Receive, ownership, history, exchange, BaseType, Place
  <2>2. CASE UNCHANGED <<job, queue, backlog>>
    BY <2>1, <2>2 DEF BaseType
  <2>3. CASE Held(n) # <<>> /\ Begin(n, Head(Held(n)), Tail(Held(n)))
    <3>1. job[n] = NoJob
      BY <1>7 DEF Receive, WorkerInv, Busy
    <3>2. queue'[n] \in Seq(Request) /\ backlog'[n] \in Seq(Request) /\ job'[n] \in FullJob
      <4> DEFINE h == Head(Held(n))
      <4>1. PICK run :
              /\ job'[n] = [requests |-> <<h>> \o SubSeq(Tail(Held(n)), 1, run),
                            left |-> Rounds(h), attempt |-> 1, number |-> 0,
                            result |-> "None"]
              /\ <<h>> \o SubSeq(Tail(Held(n)), 1, run) \in Seq(Request) \ {<<>>}
        BY <2>3, <3>1, BeginForm
      <4> DEFINE R == <<h>> \o SubSeq(Tail(Held(n)), 1, run)
      <4>3. Rounds(h) \in 1..2 /\ 1 \in 1..2 /\ 0 \in Nat
        BY DEF Rounds
      <4>4. job'[n] \in FullJob
        <5>1. job'[n] = [requests |-> R, left |-> Rounds(h), attempt |-> 1, number |-> 0,
                         result |-> "None"]
          BY <4>1
        <5>2. R \in Seq(Request) \ {<<>>}
          BY <4>1
        <5> HIDE DEF R
        <5> QED
          BY <5>1, <5>2, <4>3 DEF FullJob
      <4> QED
        BY <2>3, <3>1, <4>4, BeginForm
    <3>3. queue' = [queue EXCEPT ![n] = queue'[n]] /\ backlog' = [backlog EXCEPT ![n] = backlog'[n]]
          /\ job' = [job EXCEPT ![n] = job'[n]]
      BY <2>3 DEF Begin, BaseType
    <3> QED
      BY <2>1, <3>2, <3>3 DEF BaseType
  <2> QED
    BY <1>7, <2>2, <2>3 DEF Receive
<1>8. CASE CheckBeforeWrite(n)
  <2>1. job[n] \in FullJob
    BY <1>8, <1>1 DEF CheckBeforeWrite, Busy
  <2>2. worker' \in [Session -> Place] /\ job' \in [Session -> {NoJob} \cup FullJob]
    BY <1>8, <2>1, EndType DEF CheckBeforeWrite, BaseType, Place
  <2> QED
    BY <1>8, <2>2 DEF CheckBeforeWrite, ownership, channel, exchange, BaseType
<1>9. CASE WriteLine(n)
  <2>1. job[n] \in FullJob
    BY <1>9, <1>1 DEF WriteLine, Busy
  <2>2. ASSUME job' = [job EXCEPT ![n].number = exchanges + 1],
               worker' = [worker EXCEPT ![n] = "Read"]
        PROVE  worker' \in [Session -> Place] /\ job' \in [Session -> {NoJob} \cup FullJob]
    <3>1. exchanges + 1 \in Nat
      BY DEF BaseType
    <3>2. [job[n] EXCEPT !.number = exchanges + 1] \in FullJob
      BY <2>1, <3>1 DEF FullJob
    <3>3. job' = [job EXCEPT ![n] = [job[n] EXCEPT !.number = exchanges + 1]]
      BY <2>2 DEF BaseType
    <3> QED
      BY <2>2, <3>2, <3>3 DEF BaseType, Place
  <2>3. worker' \in [Session -> Place] /\ job' \in [Session -> {NoJob} \cup FullJob]
    BY <1>9, <2>1, <2>2, EndType, TimedOutForm DEF WriteLine
  <2>4. exchanges' \in Nat /\ wire' \in [Request -> Nat]
    <3>1. exchanges' \in Nat
      BY <1>9 DEF WriteLine, BaseType
    <3>2. [wire EXCEPT ![Lead(n)] = @ + 1] \in [Request -> Nat]
      <4>1. Lead(n) \in Request
        BY <2>1, LeadType
      <4> QED
        BY <4>1 DEF BaseType
    <3> QED
      BY <1>9, <3>1, <3>2 DEF WriteLine, BaseType
  <2> QED
    BY <1>9, <2>3, <2>4 DEF WriteLine, ownership, channel, BaseType
<1>10. CASE ReadOk(n)
  <2>1. job[n] \in FullJob
    BY <1>10, <1>1 DEF ReadOk, Busy
  <2>2. ASSUME job[n].left # 1, job' = [job EXCEPT ![n].left = @ - 1, ![n].attempt = 1],
               worker' = [worker EXCEPT ![n] = "Check"]
        PROVE  worker' \in [Session -> Place] /\ job' \in [Session -> {NoJob} \cup FullJob]
    <3>1. [job[n] EXCEPT !.left = @ - 1, !.attempt = 1] \in FullJob
      <4>1. job[n].left - 1 \in 1..2 /\ 1 \in 1..2
        BY <2>1, <2>2 DEF FullJob
      <4> QED
        BY <2>1, <4>1 DEF FullJob
    <3>2. job' = [job EXCEPT ![n] = [job[n] EXCEPT !.left = @ - 1, !.attempt = 1]]
      BY <2>2 DEF BaseType
    <3> QED
      BY <2>2, <3>1, <3>2 DEF BaseType, Place
  <2>3. worker' \in [Session -> Place] /\ job' \in [Session -> {NoJob} \cup FullJob]
    BY <1>10, <2>1, <2>2, EndType DEF ReadOk
  <2> QED
    BY <1>10, <2>3 DEF ReadOk, ownership, channel, exchange, BaseType
<1>11. CASE ReadTimeout(n)
  <2>1. job[n] \in FullJob
    BY <1>11, <1>1 DEF ReadTimeout, Busy
  <2>2. worker' \in [Session -> Place] /\ job' \in [Session -> {NoJob} \cup FullJob]
    BY <1>11, <2>1, EndType, TimedOutForm DEF ReadTimeout
  <2> QED
    BY <1>11, <2>2 DEF ReadTimeout, ownership, channel, exchange, BaseType
<1>12. CASE ReadFails(n)
  <2>1. job[n] \in FullJob
    BY <1>12, <1>1 DEF ReadFails, Busy
  <2>2. worker' \in [Session -> Place] /\ job' \in [Session -> {NoJob} \cup FullJob]
    BY <1>12, <2>1, EndType DEF ReadFails
  <2> QED
    BY <1>12, <2>2 DEF ReadFails, ownership, channel, exchange, BaseType
<1>13. CASE Finish(n) \/ FinishSession(n)
  BY <1>13 DEF Finish, FinishSession, Transition, ownership, exchange, BaseType, Place
<1>14. CASE Abandon(n)
  BY <1>14, <1>2 DEF Abandon, ownership, exchange, BaseType, Place
<1> QED
  BY <1>3, <1>4, <1>5, <1>6, <1>7, <1>8, <1>9, <1>10, <1>11, <1>12, <1>13, <1>14
     DEF Worker, Holder

-----------------------------------------------------------------------------
(* The worker, its exchange and the port *)

\* Port and lease of the other sessions stay.
PortsApart(n) ==
  \A m \in Session \ {n} : (m \in port' <=> m \in port) /\ (lease' = m <=> lease = m)

LEMMA PortStep ==
  ASSUME BaseType, NEW n \in Session, WorkerInv(n), Worker(n) \/ Holder(n)
  PROVE  PortsApart(n)
<1>1. NoSession \notin Session
  BY SerialAssumption DEF NoSession
<1>2. CASE Open(n)
  BY <1>1, <1>2 DEF Open, PortsApart
<1>3. CASE DropPort(n)
  BY <1>3 DEF DropPort, PortsApart
<1>4. CASE DropLease(n)
  BY <1>1, <1>4 DEF DropLease, PortsApart, WorkerInv
<1>5. ASSUME ~Open(n), ~DropPort(n), ~DropLease(n) PROVE lease' = lease /\ port' = port
  <2>1. ASSUME NEW r \in Request, Submit(n, r) PROVE lease' = lease /\ port' = port
    BY <2>1 DEF Submit, ownership
  <2>2. CASE InvalidateEpoch(n) \/ Close(n) \/ Joined(n) \/ CloseTimesOut(n)
    BY <2>2 DEF InvalidateEpoch, Close, Joined, CloseTimesOut, ownership
  <2>3. CASE Poll(n) \/ Receive(n) \/ CheckBeforeWrite(n) \/ WriteLine(n) \/ ReadOk(n)
             \/ ReadTimeout(n) \/ ReadFails(n)
    BY <2>3 DEF Poll, Receive, CheckBeforeWrite, WriteLine, ReadOk, ReadTimeout, ReadFails,
                ownership
  <2>4. CASE Finish(n) \/ FinishSession(n) \/ Retire(n) \/ Abandon(n)
    BY <2>4 DEF Finish, FinishSession, Retire, Abandon, ownership
  <2> QED
    BY <1>5, <2>1, <2>2, <2>3, <2>4 DEF Worker, Holder
<1> QED
  BY <1>2, <1>3, <1>4, <1>5 DEF PortsApart

\* Every duplicate of a read is a read of the same command.
LEMMA DuplicatesAlike ==
  ASSUME NEW p, NEW q, NEW r, Duplicate(p, r), Duplicate(q, r)
  PROVE  Duplicate(p, q) /\ Duplicate(p, r) /\ Duplicate(r, p)
BY DEF Duplicate

LEMMA WorkerStep ==
  ASSUME BaseType, BaseType', NEW n \in Session, WorkerInv(n), ResultInv(n), JobInv(n),
         Worker(n) \/ Holder(n)
  PROVE  WorkerInv(n)' /\ ResultInv(n)' /\ JobInv(n)'
<1>1. worker[n] \in Busy => job[n] \in FullJob
  BY DEF BaseType, WorkerInv
<1>2. worker[n] \notin Busy => job[n] = NoJob
  BY DEF WorkerInv
<1>3. \A J \in FullJob : J # NoJob
  <2>1. \A J \in FullJob : J.requests # <<>>
    BY DEF FullJob
  <2> QED
    BY <2>1 DEF NoJob
<1> DEFINE Local == WorkerInv(n)' /\ ResultInv(n)' /\ JobInv(n)'
<1>4. CASE Open(n)
  <2>1. worker[n] = "None" /\ job[n] = NoJob /\ worker'[n] = "Poll" /\ handle'[n] = "Open"
        /\ job'[n] = NoJob /\ lease' = n /\ n \in port'
    BY <1>4, <1>2 DEF Open, WorkerInv, Busy, BaseType
  <2> QED
    BY <2>1 DEF WorkerInv, ResultInv, JobInv, Busy, Owning
<1>5. ASSUME NEW r \in Request, Submit(n, r) PROVE Local
  BY <1>5 DEF Submit, ownership, WorkerInv, ResultInv, JobInv, Lead
<1>6. CASE InvalidateEpoch(n)
  BY <1>6 DEF InvalidateEpoch, ownership, WorkerInv, ResultInv, JobInv, Lead
<1>7. CASE Close(n) \/ Joined(n) \/ CloseTimesOut(n)
  <2>1. handle'[n] # "None" /\ UNCHANGED <<lease, port, worker, job>>
    BY <1>7 DEF Close, Joined, CloseTimesOut, BaseType
  <2> QED
    BY <2>1 DEF WorkerInv, ResultInv, JobInv, Lead
<1>8. CASE Poll(n) \/ Retire(n)
  <2>1. worker[n] \in {"Poll", "Retire"} /\ worker'[n] \in {"Receive", "Poll"} /\ job' = job
        /\ UNCHANGED ownership
    BY <1>8 DEF Poll, Retire, BaseType
  <2> QED
    BY <2>1 DEF WorkerInv, ResultInv, JobInv, Busy, Owning, ownership
<1>9. CASE Receive(n)
  <2>1. job[n] = NoJob /\ worker[n] = "Receive" /\ UNCHANGED ownership
    BY <1>9, <1>2 DEF Receive, Busy
  <2>2. CASE Held(n) # <<>> /\ Begin(n, Head(Held(n)), Tail(Held(n)))
             /\ worker' = [worker EXCEPT ![n] = "Check"]
    <3> DEFINE h == Head(Held(n))
               t == Tail(Held(n))
    <3>1. PICK run \in Drained(t, h) :
            /\ job'[n] = [requests |-> <<h>> \o SubSeq(t, 1, run),
                          left |-> Rounds(h), attempt |-> 1, number |-> 0, result |-> "None"]
            /\ Len(<<h>> \o SubSeq(t, 1, run)) = run + 1
            /\ (<<h>> \o SubSeq(t, 1, run))[1] = h
            /\ \A i \in 1..run : (<<h>> \o SubSeq(t, 1, run))[i + 1] = t[i]
            /\ <<h>> \o SubSeq(t, 1, run) \in Seq(Request) \ {<<>>}
      BY <2>1, <2>2, BeginForm
    <3>2. Len(t) \in Nat
      <4>1. t \in Seq(Request)
        BY <2>2, PendingType, HeadTailProperties
      <4> QED
        BY <4>1, LenProperties
    <3>3. run \in 0..Len(t) /\ \A i \in 1..run : Duplicate(t[i], h)
      BY DEF Drained
    <3> DEFINE R == <<h>> \o SubSeq(t, 1, run)
    <3> HIDE DEF h, t
    <3>4. /\ job'[n] = [requests |-> R, left |-> Rounds(h), attempt |-> 1, number |-> 0,
                        result |-> "None"]
          /\ Len(R) = run + 1 /\ R[1] = h /\ R \in Seq(Request) \ {<<>>}
          /\ \A i \in 1..run : R[i + 1] = t[i]
      BY <3>1
    <3> HIDE DEF R
    <3>5. job'[n].requests = R /\ job'[n].left = Rounds(h) /\ job'[n].attempt = 1
      BY <3>4
    <3>6. Lead(n)' = h
      <4>1. Lead(n)' = Head(R)
        BY <3>5 DEF Lead
      <4> QED
        BY <4>1, <3>4, HeadTailProperties
    <3>7. \A i \in 2..Len(R) : Duplicate(R[i], h)
      <4> SUFFICES ASSUME NEW i \in 2..Len(R) PROVE Duplicate(R[i], h)
        OBVIOUS
      <4>1. i - 1 \in 1..run /\ (i - 1) + 1 = i
        BY <3>2, <3>3, <3>4
      <4>2. R[i] = t[i - 1]
        BY <3>4, <4>1
      <4> QED
        BY <3>3, <4>1, <4>2
    <3>8. \A i, j \in 1..Len(R) : i # j => Duplicate(R[i], R[j])
      <4> SUFFICES ASSUME NEW i \in 1..Len(R), NEW j \in 1..Len(R), i # j
                   PROVE  Duplicate(R[i], R[j])
        OBVIOUS
      <4>1. i = 1 \/ i \in 2..Len(R)
        BY <3>2, <3>3, <3>4
      <4>2. j = 1 \/ j \in 2..Len(R)
        BY <3>2, <3>3, <3>4
      <4> QED
        BY <4>1, <4>2, <3>4, <3>7, DuplicatesAlike DEF Duplicate
    <3>9. worker'[n] = "Check" /\ job'[n] # NoJob
      BY <2>2, <3>4, <3>5 DEF BaseType, NoJob
    <3>10. WorkerInv(n)' /\ ResultInv(n)'
      BY <3>9, <2>1 DEF WorkerInv, ResultInv, Busy, Owning, ownership
    <3>11. JobInv(n)'
      <4>1. 1 <= Attempts(h) /\ Rounds(h) <= Rounds(h)
        BY DEF Attempts, Rounds
      <4> QED
        BY <3>5, <3>6, <3>8, <4>1 DEF JobInv
    <3> QED
      BY <3>10, <3>11
  <2>3. CASE worker' = [worker EXCEPT ![n] = "Poll"] /\ UNCHANGED <<job, queue, backlog>>
    <3>1. worker'[n] = "Poll" /\ job'[n] = NoJob
      BY <2>1, <2>3 DEF BaseType
    <3> QED
      BY <2>1, <3>1 DEF WorkerInv, ResultInv, JobInv, Busy, Owning, ownership
  <2> QED
    BY <1>9, <2>2, <2>3 DEF Receive
\* Within an exchange the requests stay; its round and its attempt stay in range.
<1>10. ASSUME worker[n] \in Busy, worker'[n] \in Busy, UNCHANGED ownership,
              job'[n].requests = job[n].requests, job'[n] \in FullJob,
              job'[n].left <= job[n].left, job'[n].attempt <= Attempts(Lead(n)),
              worker'[n] = "Finish" => job'[n].result # "None"
       PROVE  Local
  <2>1. Lead(n)' = Lead(n)
    BY <1>10 DEF Lead
  <2>2. WorkerInv(n)' /\ ResultInv(n)'
    BY <1>10, <1>3 DEF WorkerInv, ResultInv, Busy, Owning, ownership
  <2>3. job'[n].left <= Rounds(Lead(n))
    <3>1. job[n].left <= Rounds(Lead(n))
      BY <1>10 DEF JobInv
    <3>2. job[n].left \in Int /\ job'[n].left \in Int /\ Rounds(Lead(n)) \in Int
      BY <1>10, <1>1 DEF FullJob, Rounds
    <3> QED
      BY <3>1, <3>2, <1>10
  <2>4. JobInv(n)'
    BY <1>10, <2>1, <2>3 DEF JobInv
  <2> QED
    BY <2>2, <2>4
<1>11. ASSUME NEW result \in {"Ok", "Failed", "Removed"}, worker[n] \in Busy,
              EndExchange(n, result), UNCHANGED ownership
       PROVE  Local
  <2>1. job[n] \in FullJob
    BY <1>1, <1>11
  <2>2. /\ job' = [job EXCEPT ![n] = [job[n] EXCEPT !.result = result]] /\ job'[n] \in FullJob
        /\ worker' = [worker EXCEPT ![n] = "Finish"]
    BY <2>1, <1>11, EndType
  <2>3. job'[n] = [job[n] EXCEPT !.result = result] /\ worker'[n] = "Finish"
    BY <2>2 DEF BaseType
  <2>4. job'[n].requests = job[n].requests /\ job'[n].left = job[n].left
        /\ job'[n].attempt = job[n].attempt /\ job'[n].result = result
    BY <2>1, <2>3 DEF FullJob
  <2>5. job[n].left \in Int /\ job[n].attempt <= Attempts(Lead(n))
    BY <2>1, <1>11 DEF FullJob, JobInv
  <2> QED
    BY <1>10, <1>11, <2>2, <2>3, <2>4, <2>5 DEF Busy
<1>11a. ASSUME worker[n] \in Busy, TimedOut(n), UNCHANGED ownership PROVE Local
  <2>1. job[n] \in FullJob
    BY <1>1, <1>11a
  <2>2. CASE EndExchange(n, "Failed")
    BY <1>11, <1>11a, <2>2
  <2>3. CASE /\ job[n].attempt < Attempts(Lead(n)) /\ job'[n] \in FullJob
             /\ worker'[n] = "Check" /\ job'[n].requests = job[n].requests
             /\ job'[n].left = job[n].left /\ job'[n].attempt = job[n].attempt + 1
    <3>1. job[n].left \in Int /\ job[n].attempt \in Int
      BY <2>1 DEF FullJob
    <3>2. job'[n].left <= job[n].left /\ job'[n].attempt <= Attempts(Lead(n))
      BY <2>3, <3>1 DEF Attempts
    <3> QED
      BY <1>10, <1>11a, <2>3, <3>2 DEF Busy
  <2> QED
    BY <1>11a, <2>1, <2>2, <2>3, TimedOutForm
<1>12. CASE CheckBeforeWrite(n)
  <2>1. worker[n] \in Busy /\ UNCHANGED ownership
    BY <1>12 DEF CheckBeforeWrite, Busy
  <2>2. CASE worker' = [worker EXCEPT ![n] = "Write"] /\ UNCHANGED job
    <3>1. worker'[n] = "Write" /\ job'[n] = job[n] /\ job[n] \in FullJob
          /\ job[n].left \in Int /\ job[n].attempt <= Attempts(Lead(n))
      BY <2>1, <2>2, <1>1 DEF BaseType, FullJob, JobInv
    <3> QED
      BY <1>10, <2>1, <3>1 DEF Busy
  <2> QED
    BY <1>12, <2>1, <2>2, <1>11 DEF CheckBeforeWrite
<1>13. CASE WriteLine(n)
  <2>1. worker[n] \in Busy /\ UNCHANGED ownership
    BY <1>13 DEF WriteLine, Busy
  <2>2. CASE /\ job' = [job EXCEPT ![n].number = exchanges + 1]
             /\ worker' = [worker EXCEPT ![n] = "Read"]
    <3>1. job[n] \in FullJob
      BY <2>1, <1>1
    <3>2. job'[n] = [job[n] EXCEPT !.number = exchanges + 1] /\ worker'[n] = "Read"
      BY <2>2 DEF BaseType
    <3>3. job'[n].requests = job[n].requests /\ job'[n].left = job[n].left
          /\ job'[n].attempt = job[n].attempt /\ job[n].left \in Int
      BY <3>1, <3>2 DEF FullJob
    <3>4. job'[n] \in FullJob
      <4>1. job'[n] # NoJob
        BY <3>1, <3>3 DEF FullJob, NoJob
      <4> QED
        BY <4>1 DEF BaseType
    <3>5. job[n].attempt <= Attempts(Lead(n))
      BY <2>1 DEF JobInv
    <3> QED
      BY <1>10, <2>1, <3>2, <3>3, <3>4, <3>5 DEF Busy
  <2> QED
    BY <1>13, <2>1, <2>2, <1>11, <1>11a DEF WriteLine
<1>14. CASE ReadOk(n)
  <2>1. worker[n] \in Busy /\ UNCHANGED ownership
    BY <1>14 DEF ReadOk, Busy
  <2>2. CASE /\ job' = [job EXCEPT ![n].left = @ - 1, ![n].attempt = 1]
             /\ worker' = [worker EXCEPT ![n] = "Check"]
    <3>1. job[n] \in FullJob
      BY <2>1, <1>1
    <3>2. job'[n] = [job[n] EXCEPT !.left = @ - 1, !.attempt = 1] /\ worker'[n] = "Check"
      BY <2>2 DEF BaseType
    <3>3. job'[n].requests = job[n].requests /\ job'[n].left = job[n].left - 1
          /\ job'[n].attempt = 1 /\ job[n].left \in Int
      BY <3>1, <3>2 DEF FullJob
    <3>4. job'[n] \in FullJob
      <4>1. job'[n] # NoJob
        BY <3>1, <3>3 DEF FullJob, NoJob
      <4> QED
        BY <4>1 DEF BaseType
    <3>5. job'[n].left <= job[n].left /\ 1 <= Attempts(Lead(n))
      BY <3>3 DEF Attempts
    <3> QED
      BY <1>10, <2>1, <3>2, <3>3, <3>4, <3>5 DEF Busy
  <2> QED
    BY <1>14, <2>1, <2>2, <1>11 DEF ReadOk
<1>15. CASE ReadTimeout(n)
  <2>1. worker[n] \in Busy /\ UNCHANGED ownership
    BY <1>15 DEF ReadTimeout, Busy
  <2> QED
    BY <1>15, <2>1, <1>11a DEF ReadTimeout
<1>16. CASE ReadFails(n)
  <2>1. worker[n] \in Busy /\ UNCHANGED ownership
    BY <1>16 DEF ReadFails, Busy
  <2> QED
    BY <1>16, <2>1, <1>11 DEF ReadFails
<1>17. CASE Finish(n) \/ FinishSession(n)
  <2>1. worker[n] = "Finish" /\ worker'[n] \in {"Poll", "Retire"} /\ job'[n] = NoJob
        /\ UNCHANGED ownership
    BY <1>17 DEF Finish, FinishSession, BaseType
  <2> QED
    BY <2>1 DEF WorkerInv, ResultInv, JobInv, Busy, Owning, ownership
<1>18. CASE Abandon(n)
  <2>1. worker[n] = "Poll" /\ worker'[n] = "PortDrop" /\ job' = job /\ UNCHANGED ownership
    BY <1>18 DEF Abandon, BaseType
  <2> QED
    BY <2>1 DEF WorkerInv, ResultInv, JobInv, Busy, Owning, ownership
<1>19. CASE DropPort(n)
  <2>1. worker[n] = "PortDrop" /\ worker'[n] = "LeaseDrop" /\ n \notin port'
        /\ UNCHANGED <<lease, handle, job>>
    BY <1>19 DEF DropPort, BaseType
  <2> QED
    BY <2>1 DEF WorkerInv, ResultInv, JobInv, Busy, Owning
<1>20. CASE DropLease(n)
  <2>1. worker[n] = "LeaseDrop" /\ worker'[n] = "Exited" /\ lease' # n
        /\ UNCHANGED <<port, handle, job>>
    BY <1>20, SerialAssumption DEF DropLease, BaseType, NoSession
  <2> QED
    BY <2>1 DEF WorkerInv, ResultInv, JobInv, Busy, Owning
<1> QED
  BY <1>4, <1>5, <1>6, <1>7, <1>8, <1>9, <1>12, <1>13, <1>14, <1>15, <1>16, <1>17, <1>18,
     <1>19, <1>20 DEF Worker, Holder

-----------------------------------------------------------------------------
(* What waits *)

LEMMA PendingTypeNext ==
  ASSUME BaseType', NEW n \in Session
  PROVE  Held(n)' \in Seq(Request) /\ Pending(n)' \in Seq(Request)
<1>1. backlog'[n] \in Seq(Request) /\ queue'[n] \in Seq(Request)
  BY DEF BaseType
<1>2. job'[n].requests \in Seq(Request)
  <2>1. job'[n] \in {NoJob} \cup FullJob
    BY DEF BaseType
  <2>2. CASE job'[n] = NoJob
    BY <2>2, EmptySeq DEF NoJob
  <2>3. CASE job'[n] \in FullJob
    BY <2>3 DEF FullJob
  <2> QED
    BY <2>1, <2>2, <2>3
<1>3. Held(n)' \in Seq(Request)
  BY <1>1, ConcatProperties DEF Held
<1>4. Pending(n)' \in Seq(Request)
  BY <1>2, <1>3, ConcatProperties DEF Pending
<1> QED
  BY <1>3, <1>4

\* A reply takes the front of what waits.
LEMMA TellsSplit ==
  ASSUME BaseType, BaseType', NEW n \in Session, NEW first \in Seq(Request), NEW told,
         Tells(n, first, told)
  PROVE  /\ Len(first) \in Nat /\ Len(Pending(n)') \in Nat
         /\ Len(Pending(n)) = Len(first) + Len(Pending(n)')
         /\ \A j \in 1..Len(first) : j \in 1..Len(Pending(n)) /\ first[j] = Pending(n)[j]
         /\ \A j \in 1..Len(Pending(n)') : Pending(n)'[j] = Pending(n)[Len(first) + j]
<1> DEFINE rest == Pending(n)'
<1>1. rest \in Seq(Request)
  BY PendingTypeNext
<1>2. Pending(n) = first \o rest
  BY DEF Tells
<1> HIDE DEF rest
<1>3. /\ Len(first) \in Nat /\ Len(rest) \in Nat
      /\ Len(first \o rest) = Len(first) + Len(rest)
      /\ \A j \in 1..Len(first) : (first \o rest)[j] = first[j]
      /\ \A j \in 1..Len(rest) : (first \o rest)[Len(first) + j] = rest[j]
  BY <1>1, WithoutFirst
<1>4. /\ Len(first) \in Nat /\ Len(rest) \in Nat
      /\ Len(Pending(n)) = Len(first) + Len(rest)
      /\ \A j \in 1..Len(first) : Pending(n)[j] = first[j]
      /\ \A j \in 1..Len(rest) : Pending(n)[Len(first) + j] = rest[j]
  BY <1>2, <1>3
<1> QED
  BY <1>4 DEF rest

LEMMA DoneBounds ==
  ASSUME BaseType, NEW n \in Session, SuffixInv(n)
  PROVE  /\ Done(n) \in Nat /\ Done(n) + Len(Pending(n)) = Len(log[n])
         /\ Len(log[n]) \in Nat /\ Len(Pending(n)) \in Nat
         /\ \A j \in 1..Len(Pending(n)) : Done(n) + j \in 1..Len(log[n])
<1>1. Len(log[n]) \in Nat /\ Len(Pending(n)) \in Nat
  BY PendingType
<1>2. Done(n) = Len(log[n]) - Len(Pending(n)) /\ Len(Pending(n)) <= Len(log[n])
  BY DEF Done, SuffixInv
<1> QED
  BY <1>1, <1>2

\* Only what waits in session n, or was never accepted, changes its answer.
LEMMA OnlyItsOwn ==
  ASSUME BaseType, BaseType', LogInv, NEW n \in Session, SuffixInv(n), Step(n),
         NEW m \in Session \ {n}, NEW i \in 1..Len(log[m])
  PROVE  /\ answer'[log[m][i]] = answer[log[m][i]] /\ served'[log[m][i]] = served[log[m][i]]
         /\ since'[log[m][i]] = since[log[m][i]]
<1>1. log[m][i] \in Request
  BY PendingType, ElementOfSeq
<1> DEFINE q == log[m][i]
<1>2. CASE Keeps(n)
  BY <1>2 DEF Keeps
<1>3. ASSUME NEW r \in Request, Accepts(n, r) \/ Refuses(n, r)
      PROVE  answer'[q] = answer[q] /\ served'[q] = served[q] /\ since'[q] = since[q]
  <2>1. q # r
    BY <1>3 DEF LogInv, Accepts, Refuses
  <2> HIDE DEF q
  <2> QED
    BY <1>3, <2>1, <1>1 DEF Accepts, Refuses, BaseType, q
<1>4. ASSUME NEW first \in Seq(Request), NEW told \in {"Ok", "Failed", "Terminal"},
             Tells(n, first, told)
      PROVE  answer'[q] = answer[q] /\ served'[q] = served[q] /\ since'[q] = since[q]
  <2>1. \A j \in 1..Len(first) : \E k \in 1..Len(log[n]) : first[j] = log[n][k]
    <3> SUFFICES ASSUME NEW j \in 1..Len(first)
                 PROVE  \E k \in 1..Len(log[n]) : first[j] = log[n][k]
      OBVIOUS
    <3>1. j \in 1..Len(Pending(n)) /\ first[j] = Pending(n)[j]
      BY <1>4, TellsSplit
    <3>2. Done(n) + j \in 1..Len(log[n])
      BY <3>1, DoneBounds
    <3> QED
      BY <3>1, <3>2 DEF SuffixInv
  <2>2. q \notin {first[j] : j \in 1..Len(first)}
    BY <2>1 DEF LogInv
  <2> HIDE DEF q
  <2> QED
    BY <1>4, <2>2, <1>1 DEF Tells, Reply, q
<1> QED
  BY <1>2, <1>3, <1>4 DEF Step

LEMMA PendingWaits ==
  ASSUME BaseType, NEW n \in Session, SuffixInv(n), NEW j \in 1..Len(Pending(n))
  PROVE  /\ Done(n) + j \in 1..Len(log[n]) /\ Pending(n)[j] = log[n][Done(n) + j]
         /\ answer[Pending(n)[j]] = "Waiting"
<1>1. Done(n) + j \in 1..Len(log[n]) /\ Done(n) + j > Done(n)
  BY DoneBounds
<1> QED
  BY <1>1 DEF SuffixInv

\* What a reply answers waited, and is named once.
LEMMA FirstDistinct ==
  ASSUME BaseType, BaseType', LogInv, NEW n \in Session, SuffixInv(n),
         NEW first \in Seq(Request), NEW told, Tells(n, first, told)
  PROVE  /\ \A j \in 1..Len(first) : /\ Done(n) + j \in 1..Len(log[n])
                                     /\ first[j] = log[n][Done(n) + j]
                                     /\ answer[first[j]] = "Waiting"
         /\ IsFiniteSet({first[j] : j \in 1..Len(first)})
         /\ Cardinality({first[j] : j \in 1..Len(first)}) = Len(first)
<1>1. ASSUME NEW j \in 1..Len(first)
      PROVE  /\ Done(n) + j \in 1..Len(log[n]) /\ first[j] = log[n][Done(n) + j]
             /\ answer[first[j]] = "Waiting"
  <2>1. j \in 1..Len(Pending(n)) /\ first[j] = Pending(n)[j]
    BY TellsSplit
  <2> QED
    BY <2>1, PendingWaits
<1>2. \A i, j \in 1..Len(first) : first[i] = first[j] => i = j
  <2> SUFFICES ASSUME NEW i \in 1..Len(first), NEW j \in 1..Len(first), first[i] = first[j]
               PROVE  i = j
    OBVIOUS
  <2>1. Done(n) + i \in 1..Len(log[n]) /\ first[i] = log[n][Done(n) + i]
    BY <1>1
  <2>2. Done(n) + j \in 1..Len(log[n]) /\ first[j] = log[n][Done(n) + j]
    BY <1>1
  <2>3. Done(n) + i = Done(n) + j
    <3> DEFINE k == Done(n) + i
               l == Done(n) + j
    <3>1. k \in 1..Len(log[n]) /\ l \in 1..Len(log[n]) /\ log[n][k] = log[n][l]
      BY <2>1, <2>2
    <3> HIDE DEF k, l
    <3>2. k = l
      BY <3>1 DEF LogInv
    <3> QED
      BY <3>2 DEF k, l
  <2>4. Done(n) \in Nat
    BY DoneBounds
  <2> QED
    BY <2>3, <2>4
<1> QED
  BY <1>1, <1>2, DistinctElements

LEMMA AppendedLog ==
  ASSUME BaseType, NEW n \in Session, NEW r \in Request,
         log' = [log EXCEPT ![n] = Append(@, r)]
  PROVE  /\ Len(log'[n]) = Len(log[n]) + 1 /\ log'[n][Len(log[n]) + 1] = r
         /\ \A i \in 1..Len(log[n]) : log'[n][i] = log[n][i]
         /\ \A m \in Session \ {n} : log'[m] = log[m]
<1>1. log[n] \in Seq(Request) /\ log'[n] = Append(log[n], r)
  BY DEF BaseType
<1>2. /\ Len(Append(log[n], r)) = Len(log[n]) + 1 /\ Append(log[n], r)[Len(log[n]) + 1] = r
      /\ \A i \in 1..Len(log[n]) : Append(log[n], r)[i] = log[n][i]
  BY <1>1, AppendProperties
<1> QED
  BY <1>1, <1>2 DEF BaseType

LEMMA LogStep ==
  ASSUME BaseType, BaseType', LogInv, AnswerInv, NEW n \in Session, SuffixInv(n), Step(n)
  PROVE  LogInv' /\ AnswerInv'
<1>1. CASE Keeps(n)
  BY <1>1 DEF Keeps, LogInv, AnswerInv
<1>2. ASSUME NEW r \in Request, Accepts(n, r) PROVE LogInv' /\ AnswerInv'
  <2>1. answer[r] = "None" /\ answer' = [answer EXCEPT ![r] = "Waiting"] /\ answers' = answers
    BY <1>2 DEF Accepts
  <2>2. \A m \in Session : \A i \in 1..Len(log[m]) : log[m][i] # r
    BY <2>1 DEF LogInv
  <2>3. /\ Len(log'[n]) = Len(log[n]) + 1 /\ log'[n][Len(log[n]) + 1] = r
        /\ \A i \in 1..Len(log[n]) : log'[n][i] = log[n][i]
        /\ \A m \in Session \ {n} : log'[m] = log[m]
        /\ Len(log[n]) \in Nat
    BY <1>2, AppendedLog, PendingType DEF Accepts
  <2>4. \A m \in Session : \A i \in 1..Len(log'[m]) :
          \/ i \in 1..Len(log[m]) /\ log'[m][i] = log[m][i]
          \/ m = n /\ i = Len(log[n]) + 1 /\ log'[m][i] = r
    BY <2>3
  <2>5. \A m, k \in Session : \A i \in 1..Len(log'[m]), j \in 1..Len(log'[k]) :
          log'[m][i] = log'[k][j] => m = k /\ i = j
    <3> SUFFICES ASSUME NEW m \in Session, NEW k \in Session, NEW i \in 1..Len(log'[m]),
                        NEW j \in 1..Len(log'[k]), log'[m][i] = log'[k][j]
                 PROVE  m = k /\ i = j
      OBVIOUS
    <3>1. \/ i \in 1..Len(log[m]) /\ log'[m][i] = log[m][i]
          \/ m = n /\ i = Len(log[n]) + 1 /\ log'[m][i] = r
      BY <2>4
    <3>2. \/ j \in 1..Len(log[k]) /\ log'[k][j] = log[k][j]
          \/ k = n /\ j = Len(log[n]) + 1 /\ log'[k][j] = r
      BY <2>4
    <3> QED
      BY <3>1, <3>2, <2>2 DEF LogInv
  <2>6. \A q \in Request : answer'[q] \in {"None", "Refused"} =>
          \A m \in Session : \A i \in 1..Len(log'[m]) : log'[m][i] # q
    <3> SUFFICES ASSUME NEW q \in Request, answer'[q] \in {"None", "Refused"},
                        NEW m \in Session, NEW i \in 1..Len(log'[m])
                 PROVE  log'[m][i] # q
      OBVIOUS
    <3>1. q # r /\ answer'[q] = answer[q]
      BY <2>1 DEF BaseType
    <3> QED
      BY <3>1, <2>4 DEF LogInv
  <2>7. AnswerInv'
    BY <2>1 DEF AnswerInv, BaseType
  <2> QED
    BY <2>5, <2>6, <2>7 DEF LogInv
<1>3. ASSUME NEW r \in Request, Refuses(n, r) PROVE LogInv' /\ AnswerInv'
  <2>1. /\ answer[r] = "None" /\ answer' = [answer EXCEPT ![r] = "Refused"]
        /\ answers' = answers /\ log' = log
    BY <1>3 DEF Refuses
  <2>2. AnswerInv'
    BY <2>1 DEF AnswerInv, BaseType
  <2>3. \A q \in Request : answer'[q] \in {"None", "Refused"} => answer[q] \in {"None", "Refused"}
    BY <2>1 DEF BaseType
  <2> QED
    BY <2>1, <2>2, <2>3 DEF LogInv
<1>4. ASSUME NEW first \in Seq(Request), NEW told \in {"Ok", "Failed", "Terminal"},
             Tells(n, first, told)
      PROVE  LogInv' /\ AnswerInv'
  <2> DEFINE R == {first[j] : j \in 1..Len(first)}
  <2>1. \A q \in R : q \in Request /\ answer[q] = "Waiting"
    <3>1. \A j \in 1..Len(first) : answer[first[j]] = "Waiting"
      BY <1>4, FirstDistinct
    <3>2. \A j \in 1..Len(first) : first[j] \in Request
      BY ElementOfSeq
    <3> QED
      BY <3>1, <3>2
  <2>2. Reply(n, told, R) /\ log' = log
    BY <1>4 DEF Tells
  <2> HIDE DEF R
  <2>3. AnswerInv'
    BY <2>1, <2>2 DEF Reply, AnswerInv, BaseType
  <2>4. \A q \in Request : answer'[q] \in {"None", "Refused"} => answer[q] \in {"None", "Refused"}
    BY <2>2 DEF Reply
  <2> QED
    BY <2>2, <2>3, <2>4 DEF LogInv
<1> QED
  BY <1>1, <1>2, <1>3, <1>4 DEF Step

LEMMA SuffixStep ==
  ASSUME BaseType, BaseType', LogInv, NEW n \in Session, SuffixInv(n), Step(n)
  PROVE  SuffixInv(n)'
<1>1. /\ Done(n) \in Nat /\ Done(n) + Len(Pending(n)) = Len(log[n])
      /\ Len(log[n]) \in Nat /\ Len(Pending(n)) \in Nat
      /\ \A j \in 1..Len(Pending(n)) : Done(n) + j \in 1..Len(log[n])
  BY DoneBounds
<1>2. CASE Keeps(n)
  BY <1>2 DEF Keeps, SuffixInv, Done
<1>3. ASSUME NEW r \in Request, Accepts(n, r) PROVE SuffixInv(n)'
  <2>1. /\ Len(log'[n]) = Len(log[n]) + 1 /\ log'[n][Len(log[n]) + 1] = r
        /\ \A i \in 1..Len(log[n]) : log'[n][i] = log[n][i]
    BY <1>3, AppendedLog DEF Accepts
  <2>2. /\ Len(Pending(n)') = Len(Pending(n)) + 1
        /\ \A i \in 1..Len(Pending(n)) : Pending(n)'[i] = Pending(n)[i]
        /\ Pending(n)'[Len(Pending(n)) + 1] = r
    <3> DEFINE p == Pending(n)
               l == <<r>>
    <3>1. p \in Seq(Request)
      BY PendingType
    <3>2. l \in Seq(Request)
      OBVIOUS
    <3>3. Len(l) = 1 /\ l[1] = r
      OBVIOUS
    <3>4. Pending(n)' = p \o l
      BY <1>3 DEF Accepts
    <3> HIDE DEF p, l
    <3>5. /\ Len(p \o l) = Len(p) + Len(l) /\ \A i \in 1..Len(p) : (p \o l)[i] = p[i]
          /\ \A i \in 1..Len(l) : (p \o l)[Len(p) + i] = l[i]
      BY <3>1, <3>2, WithoutFirst
    <3>6. /\ Len(p \o l) = Len(p) + 1 /\ \A i \in 1..Len(p) : (p \o l)[i] = p[i]
          /\ (p \o l)[Len(p) + 1] = r
      BY <3>3, <3>5
    <3> QED
      BY <3>4, <3>6 DEF p
  <2>3. Done(n)' = Done(n)
    BY <1>1, <2>1, <2>2 DEF Done
  <2>4. \A i \in 1..Len(Pending(n)') : Pending(n)'[i] = log'[n][Done(n) + i]
    <3> SUFFICES ASSUME NEW i \in 1..Len(Pending(n)')
                 PROVE  Pending(n)'[i] = log'[n][Done(n) + i]
      OBVIOUS
    <3>1. CASE i \in 1..Len(Pending(n))
      BY <3>1, <1>1, <2>1, <2>2 DEF SuffixInv
    <3>2. CASE i = Len(Pending(n)) + 1
      <4>1. Done(n) + i = Len(log[n]) + 1
        BY <3>2, <1>1
      <4> QED
        BY <3>2, <4>1, <2>1, <2>2
    <3> QED
      BY <3>1, <3>2, <1>1, <2>2
  <2>5. \A i \in 1..Len(log'[n]) : answer'[log'[n][i]] = "Waiting" <=> i > Done(n)
    <3> SUFFICES ASSUME NEW i \in 1..Len(log'[n])
                 PROVE  answer'[log'[n][i]] = "Waiting" <=> i > Done(n)
      OBVIOUS
    <3>1. CASE i \in 1..Len(log[n])
      <4>1. log'[n][i] = log[n][i] /\ log[n][i] \in Request /\ log[n][i] # r
        BY <3>1, <2>1, <1>3, PendingType, ElementOfSeq DEF LogInv, Accepts
      <4>2. answer'[log[n][i]] = answer[log[n][i]]
        BY <4>1, <1>3 DEF Accepts, BaseType
      <4> QED
        BY <3>1, <4>1, <4>2 DEF SuffixInv
    <3>2. CASE i = Len(log[n]) + 1
      <4>1. answer'[r] = "Waiting"
        BY <1>3 DEF Accepts, BaseType
      <4> QED
        BY <3>2, <4>1, <1>1, <2>1
    <3> QED
      BY <3>1, <3>2, <1>1, <2>1
  <2>6. outstanding'[n] = Len(Pending(n)') /\ outstanding'[n] <= Capacity
    <3>1. outstanding[n] \in Int /\ Capacity \in Int /\ outstanding[n] < Capacity
          /\ outstanding'[n] = outstanding[n] + 1
      BY <1>3, SerialAssumption DEF Accepts, BaseType
    <3> QED
      BY <3>1, <2>2, <1>1 DEF SuffixInv
  <2>7. Len(Pending(n)') <= Len(log'[n])
    BY <1>1, <2>1, <2>2
  <2> QED
    BY <2>3, <2>4, <2>5, <2>6, <2>7 DEF SuffixInv
<1>4. ASSUME NEW r \in Request, Refuses(n, r) PROVE SuffixInv(n)'
  <2>1. \A i \in 1..Len(log[n]) : log[n][i] \in Request /\ log[n][i] # r
    BY <1>4, PendingType, ElementOfSeq DEF LogInv, Refuses
  <2>2. \A i \in 1..Len(log[n]) : answer'[log[n][i]] = answer[log[n][i]]
    BY <1>4, <2>1 DEF Refuses, BaseType
  <2>3. Pending(n)' = Pending(n) /\ log' = log /\ outstanding' = outstanding /\ Done(n)' = Done(n)
    BY <1>4 DEF Refuses, Done
  <2> QED
    BY <2>2, <2>3 DEF SuffixInv
<1>5. ASSUME NEW first \in Seq(Request), NEW told \in {"Ok", "Failed", "Terminal"},
             Tells(n, first, told)
      PROVE  SuffixInv(n)'
  <2> DEFINE R == {first[j] : j \in 1..Len(first)}
  <2>1. /\ Len(first) \in Nat /\ Len(Pending(n)') \in Nat
        /\ Len(Pending(n)) = Len(first) + Len(Pending(n)')
        /\ \A j \in 1..Len(Pending(n)') : Pending(n)'[j] = Pending(n)[Len(first) + j]
    BY <1>5, TellsSplit
  <2>2. /\ \A j \in 1..Len(first) : /\ Done(n) + j \in 1..Len(log[n])
                                    /\ first[j] = log[n][Done(n) + j]
        /\ Cardinality(R) = Len(first)
    BY <1>5, FirstDistinct
  <2>3. Reply(n, told, R) /\ log' = log
    BY <1>5 DEF Tells
  <2>4. \A i \in 1..Len(log[n]) : log[n][i] \in R <=> Done(n) < i /\ i <= Done(n) + Len(first)
    <3> SUFFICES ASSUME NEW i \in 1..Len(log[n])
                 PROVE  log[n][i] \in R <=> Done(n) < i /\ i <= Done(n) + Len(first)
      OBVIOUS
    <3>1. ASSUME NEW j \in 1..Len(first), log[n][i] = first[j]
          PROVE  Done(n) < i /\ i <= Done(n) + Len(first)
      <4>1. i = Done(n) + j
        <5> DEFINE k == Done(n) + j
        <5>1. k \in 1..Len(log[n]) /\ log[n][k] = log[n][i]
          BY <2>2, <3>1
        <5> HIDE DEF k
        <5>2. i = k
          BY <5>1 DEF LogInv
        <5> QED
          BY <5>2 DEF k
      <4> QED
        BY <4>1, <1>1, <2>1
    <3>2. ASSUME Done(n) < i, i <= Done(n) + Len(first) PROVE log[n][i] \in R
      <4>1. i - Done(n) \in 1..Len(first) /\ Done(n) + (i - Done(n)) = i
        BY <3>2, <1>1, <2>1
      <4> QED
        BY <4>1, <2>2
    <3> QED
      BY <3>1, <3>2
  <2> HIDE DEF R
  <2>5. Done(n)' = Done(n) + Len(first)
    BY <2>1, <2>3, <1>1 DEF Done
  <2>6. \A i \in 1..Len(Pending(n)') : Pending(n)'[i] = log[n][Done(n)' + i]
    <3> SUFFICES ASSUME NEW i \in 1..Len(Pending(n)')
                 PROVE  Pending(n)'[i] = log[n][Done(n)' + i]
      OBVIOUS
    <3>1. Len(first) + i \in 1..Len(Pending(n)) /\ Done(n)' + i = Done(n) + (Len(first) + i)
      BY <2>1, <2>5, <1>1
    <3>2. Pending(n)[Len(first) + i] = log[n][Done(n) + (Len(first) + i)]
      BY <3>1 DEF SuffixInv
    <3> QED
      BY <3>1, <3>2, <2>1
  <2>7. \A i \in 1..Len(log[n]) : answer'[log[n][i]] = "Waiting" <=> i > Done(n)'
    <3> SUFFICES ASSUME NEW i \in 1..Len(log[n])
                 PROVE  answer'[log[n][i]] = "Waiting" <=> i > Done(n)'
      OBVIOUS
    <3>1. log[n][i] \in Request
      BY PendingType, ElementOfSeq
    <3>2. CASE log[n][i] \in R
      BY <3>1, <3>2, <2>3, <2>4, <2>5, <1>1, <2>1 DEF Reply
    <3>3. CASE log[n][i] \notin R
      <4>1. answer'[log[n][i]] = answer[log[n][i]]
        BY <3>1, <3>3, <2>3 DEF Reply
      <4>2. answer[log[n][i]] = "Waiting" <=> i > Done(n)
        BY DEF SuffixInv
      <4> QED
        BY <4>1, <4>2, <3>3, <2>4, <2>5, <1>1, <2>1
    <3> QED
      BY <3>2, <3>3
  <2>8. outstanding'[n] = Len(Pending(n)') /\ outstanding'[n] <= Capacity
    <3>1. outstanding'[n] = outstanding[n] - Cardinality(R)
      BY <2>3 DEF Reply, BaseType
    <3>2. Capacity \in Int
      BY SerialAssumption
    <3> QED
      BY <3>1, <3>2, <2>2, <2>1, <1>1 DEF SuffixInv
  <2> QED
    BY <2>3, <2>1, <1>1, <2>6, <2>7, <2>8 DEF SuffixInv
<1> QED
  BY <1>2, <1>3, <1>4, <1>5 DEF Step

LEMMA OthersWait ==
  ASSUME BaseType, BaseType', LogInv, NEW n \in Session, SuffixInv(n), Step(n), Apart(n),
         NEW m \in Session \ {n}, SuffixInv(m)
  PROVE  SuffixInv(m)' /\ Pending(m)' = Pending(m) /\ Held(m)' = Held(m) /\ Done(m)' = Done(m)
<1>1. Pending(m)' = Pending(m) /\ Held(m)' = Held(m) /\ log'[m] = log[m]
      /\ outstanding'[m] = outstanding[m]
  BY SamePending DEF Apart
<1>2. \A i \in 1..Len(log[m]) : answer'[log[m][i]] = answer[log[m][i]]
  BY OnlyItsOwn
<1>3. Done(m)' = Done(m)
  BY <1>1 DEF Done
<1> QED
  BY <1>1, <1>2, <1>3 DEF SuffixInv

-----------------------------------------------------------------------------
(* Exchanges and the order of the answers *)

\* The count of exchanges never falls, and only a written line raises it.
LEMMA ExchangesGrow ==
  ASSUME BaseType, NEW n \in Session, Worker(n) \/ Holder(n)
  PROVE  /\ exchanges \in Nat /\ exchanges' \in Nat /\ exchanges <= exchanges'
         /\ ~WriteLine(n) => exchanges' = exchanges /\ wire' = wire
<1>1. exchanges \in Nat
  BY DEF BaseType
<1>2. CASE WriteLine(n)
  BY <1>1, <1>2 DEF WriteLine
<1>3. ASSUME ~WriteLine(n) PROVE exchanges' = exchanges /\ wire' = wire
  <2>1. ASSUME NEW r \in Request, Submit(n, r) PROVE exchanges' = exchanges /\ wire' = wire
    BY <2>1 DEF Submit, exchange
  <2>2. CASE Open(n) \/ InvalidateEpoch(n) \/ Close(n) \/ Joined(n) \/ CloseTimesOut(n)
    BY <2>2 DEF Open, InvalidateEpoch, Close, Joined, CloseTimesOut, exchange
  <2>3. CASE Poll(n) \/ Receive(n) \/ CheckBeforeWrite(n) \/ ReadOk(n) \/ ReadTimeout(n)
             \/ ReadFails(n)
    BY <2>3 DEF Poll, Receive, CheckBeforeWrite, ReadOk, ReadTimeout, ReadFails, exchange
  <2>4. CASE Finish(n) \/ FinishSession(n) \/ Retire(n) \/ Abandon(n) \/ DropPort(n)
             \/ DropLease(n)
    BY <2>4 DEF Finish, FinishSession, Retire, Abandon, DropPort, DropLease, exchange
  <2> QED
    BY <1>3, <2>1, <2>2, <2>3, <2>4 DEF Worker, Holder
<1> QED
  BY <1>1, <1>2, <1>3

\* The requests of the exchange under way are the first that wait.
LEMMA RequestsWait ==
  ASSUME BaseType, NEW n \in Session, SuffixInv(n), NEW k \in 1..Len(job[n].requests)
  PROVE  /\ Done(n) + k \in 1..Len(log[n]) /\ job[n].requests[k] = log[n][Done(n) + k]
         /\ answer[job[n].requests[k]] = "Waiting" /\ job[n].requests[k] \in Request
<1> DEFINE a == job[n].requests
           b == Held(n)
<1>1. a \in Seq(Request) /\ b \in Seq(Request)
  BY PendingType
<1>2. Pending(n) = a \o b
  BY DEF Pending
<1>3. k \in 1..Len(a)
  OBVIOUS
<1> HIDE DEF a, b
<1>4. k \in 1..Len(Pending(n)) /\ Pending(n)[k] = a[k]
  <2>1. /\ Len(a) \in Nat /\ Len(b) \in Nat /\ Len(a \o b) = Len(a) + Len(b)
        /\ \A i \in 1..Len(a) : (a \o b)[i] = a[i]
    BY <1>1, WithoutFirst
  <2> QED
    BY <2>1, <1>2, <1>3
<1>5. a[k] \in Request
  BY <1>1, <1>3, ElementOfSeq
<1>6. /\ Done(n) + k \in 1..Len(log[n]) /\ Pending(n)[k] = log[n][Done(n) + k]
      /\ answer[Pending(n)[k]] = "Waiting"
  BY <1>4, PendingWaits
<1>7. /\ Done(n) + k \in 1..Len(log[n]) /\ a[k] = log[n][Done(n) + k]
      /\ answer[a[k]] = "Waiting"
  BY <1>4, <1>6
<1> QED
  BY <1>5, <1>7 DEF a

\* An exchange that has begun was begun before, or is the newest of all.
LEMMA BegunStep ==
  ASSUME BaseType, NEW n \in Session, WorkerInv(n), Worker(n) \/ Holder(n), Begun(n)'
  PROVE  /\ job'[n].requests = job[n].requests /\ Requests(n)' = Requests(n)
         /\ \/ Begun(n) /\ job'[n].number = job[n].number
            \/ job'[n].number = exchanges + 1 /\ exchanges' = exchanges + 1
<1>1. worker'[n] \in {"Read", "Finish"} /\ (worker'[n] = "Finish" => job'[n].result = "Ok")
  BY DEF Begun
<1>2. worker[n] \in Busy => job[n] \in FullJob
  BY DEF BaseType, WorkerInv
<1>3. SUFFICES /\ job'[n].requests = job[n].requests
               /\ \/ Begun(n) /\ job'[n].number = job[n].number
                  \/ job'[n].number = exchanges + 1 /\ exchanges' = exchanges + 1
  BY DEF Requests
<1>4. CASE worker'[n] = worker[n] /\ job'[n] = job[n]
  BY <1>1, <1>4 DEF Begun
<1>5. ASSUME NEW result \in {"Ok", "Failed", "Removed"}, worker[n] \in Busy, EndExchange(n, result)
      PROVE  result = "Ok" /\ job'[n].requests = job[n].requests
             /\ job'[n].number = job[n].number
  <2>1. job[n] \in FullJob
    BY <1>2, <1>5
  <2>2. job' = [job EXCEPT ![n] = [job[n] EXCEPT !.result = result]]
        /\ worker' = [worker EXCEPT ![n] = "Finish"]
    BY <2>1, <1>5, EndType
  <2>3. job'[n] = [job[n] EXCEPT !.result = result] /\ worker'[n] = "Finish"
    BY <2>2 DEF BaseType
  <2> QED
    BY <2>1, <2>3, <1>1 DEF FullJob
<1>6. CASE Open(n) \/ InvalidateEpoch(n) \/ Close(n) \/ Joined(n) \/ CloseTimesOut(n)
  BY <1>1, <1>4, <1>6 DEF Open, InvalidateEpoch, Close, Joined, CloseTimesOut, BaseType
<1>7. ASSUME NEW r \in Request, Submit(n, r)
      PROVE  worker'[n] = worker[n] /\ job'[n] = job[n]
  BY <1>7 DEF Submit
<1>8. CASE Poll(n) \/ Receive(n) \/ Finish(n) \/ FinishSession(n) \/ Retire(n) \/ Abandon(n)
           \/ DropPort(n) \/ DropLease(n)
  BY <1>1, <1>8 DEF Poll, Receive, Finish, FinishSession, Retire, Abandon, DropPort, DropLease,
                    BaseType
<1>9. CASE CheckBeforeWrite(n)
  <2>1. worker[n] \in Busy
    BY <1>9 DEF CheckBeforeWrite, Busy
  <2>2. CASE worker' = [worker EXCEPT ![n] = "Write"]
    BY <1>1, <2>2 DEF BaseType
  <2>3. ASSUME NEW result \in {"Removed", "Failed"}, EndExchange(n, result) PROVE FALSE
    BY <1>5, <2>1, <2>3
  <2> QED
    BY <1>9, <2>2, <2>3 DEF CheckBeforeWrite
<1>10. CASE WriteLine(n)
  <2>1. worker[n] \in Busy /\ job[n] \in FullJob
    BY <1>10, <1>2 DEF WriteLine, Busy
  <2>2. CASE job' = [job EXCEPT ![n].number = exchanges + 1]
    <3>1. job'[n] = [job[n] EXCEPT !.number = exchanges + 1]
      BY <2>2 DEF BaseType
    <3>2. job'[n].requests = job[n].requests /\ job'[n].number = exchanges + 1
      BY <3>1, <2>1 DEF FullJob
    <3> QED
      BY <1>10, <3>2 DEF WriteLine
  <2>3. ASSUME NEW result \in {"Removed", "Failed"}, EndExchange(n, result) PROVE FALSE
    BY <1>5, <2>1, <2>3
  <2>4. CASE TimedOut(n)
    BY <2>1, <2>3, <2>4, <1>1, TimedOutForm
  <2> QED
    BY <1>10, <2>2, <2>3, <2>4 DEF WriteLine
<1>11. CASE ReadOk(n)
  <2>1. worker[n] = "Read" /\ Begun(n) /\ worker[n] \in Busy
    BY <1>11 DEF ReadOk, Begun, Busy
  <2>2. CASE worker' = [worker EXCEPT ![n] = "Check"]
    BY <1>1, <2>2 DEF BaseType
  <2>3. CASE EndExchange(n, "Ok")
    BY <1>5, <2>1, <2>3
  <2> QED
    BY <1>11, <2>2, <2>3 DEF ReadOk
<1>12. CASE ReadTimeout(n)
  <2>1. worker[n] \in Busy
    BY <1>12 DEF ReadTimeout, Busy
  <2>2. CASE worker'[n] = "Check"
    BY <1>1, <2>2
  <2>3. CASE EndExchange(n, "Failed")
    BY <1>5, <2>1, <2>3
  <2> QED
    BY <1>2, <1>12, <2>1, <2>2, <2>3, TimedOutForm DEF ReadTimeout
<1>13. CASE ReadFails(n)
  <2>1. worker[n] \in Busy
    BY <1>13 DEF ReadFails, Busy
  <2>2. ASSUME NEW result \in {"Removed", "Failed"}, EndExchange(n, result) PROVE FALSE
    BY <1>5, <2>1, <2>2
  <2> QED
    BY <1>13, <2>2 DEF ReadFails
<1> QED
  BY <1>4, <1>6, <1>7, <1>8, <1>9, <1>10, <1>11, <1>12, <1>13 DEF Worker, Holder

LEMMA FreshStep ==
  ASSUME BaseType, BaseType', LogInv, ClockInv, NEW n \in Session, WorkerInv(n), SuffixInv(n),
         FreshInv(n), Worker(n) \/ Holder(n), Step(n)
  PROVE  FreshInv(n)'
<1> SUFFICES ASSUME Begun(n)'
             PROVE  /\ job'[n].number <= exchanges'
                    /\ \A r \in Requests(n) : since'[r] < job'[n].number
                    /\ \A i \in 1..Done(n) : served'[log'[n][i]] < job'[n].number
                    /\ Done(n)' = Done(n) /\ Requests(n)' = Requests(n)
  BY DEF FreshInv
<1>1. /\ job'[n].requests = job[n].requests /\ Requests(n)' = Requests(n)
      /\ \/ Begun(n) /\ job'[n].number = job[n].number
         \/ job'[n].number = exchanges + 1 /\ exchanges' = exchanges + 1
  BY BegunStep
<1>2. exchanges \in Nat /\ exchanges' \in Nat /\ exchanges <= exchanges'
  BY ExchangesGrow
<1>3. /\ Done(n) \in Nat /\ Done(n) + Len(Pending(n)) = Len(log[n])
      /\ Len(log[n]) \in Nat /\ Len(Pending(n)) \in Nat
  BY DoneBounds
<1>4. \A r \in Requests(n) : r \in Request /\ answer[r] = "Waiting"
  BY RequestsWait DEF Requests
<1>5. /\ Done(n)' = Done(n) /\ served' = served
      /\ \A r \in Requests(n) : since'[r] = since[r]
      /\ \A i \in 1..Done(n) : log'[n][i] = log[n][i] /\ log[n][i] \in Request
  <2>1. \A i \in 1..Done(n) : i \in 1..Len(log[n]) /\ log[n][i] \in Request
    <3>1. \A i \in 1..Done(n) : i \in 1..Len(log[n])
      BY <1>3
    <3>2. log[n] \in Seq(Request)
      BY DEF BaseType
    <3> QED
      BY <3>1, <3>2, ElementOfSeq
  <2>2. CASE Keeps(n)
    BY <2>1, <2>2 DEF Keeps, Done
  <2>3. ASSUME NEW r \in Request, Accepts(n, r)
        PROVE  /\ Done(n)' = Done(n) /\ served' = served
               /\ \A q \in Requests(n) : since'[q] = since[q]
               /\ \A i \in 1..Done(n) : log'[n][i] = log[n][i]
    <3>1. Len(log'[n]) = Len(log[n]) + 1 /\ \A i \in 1..Len(log[n]) : log'[n][i] = log[n][i]
      BY <2>3, AppendedLog DEF Accepts
    <3>2. Len(Pending(n)') = Len(Pending(n)) + 1
      <4> DEFINE p == Pending(n)
                 l == <<r>>
      <4>1. p \in Seq(Request)
        BY PendingType
      <4>2. l \in Seq(Request)
        OBVIOUS
      <4>3. Len(l) = 1
        OBVIOUS
      <4>4. Pending(n)' = p \o l
        BY <2>3 DEF Accepts
      <4> HIDE DEF p, l
      <4>5. Len(p \o l) = Len(p) + Len(l)
        BY <4>1, <4>2, WithoutFirst
      <4> QED
        BY <4>3, <4>4, <4>5 DEF p
    <3>3. Done(n)' = Done(n)
      BY <1>3, <3>1, <3>2 DEF Done
    <3>4. \A q \in Requests(n) : q # r
      BY <1>4, <2>3 DEF Accepts
    <3> QED
      BY <2>1, <2>3, <3>1, <3>3, <3>4, <1>4 DEF Accepts, BaseType
  <2>4. ASSUME NEW r \in Request, Refuses(n, r)
        PROVE  Done(n)' = Done(n) /\ served' = served /\ since' = since /\ log' = log
    BY <2>4 DEF Refuses, Done
  <2>5. ASSUME NEW first \in Seq(Request), NEW told, Tells(n, first, told) PROVE FALSE
    BY <2>5 DEF Tells, Begun
  <2> QED
    BY <2>1, <2>2, <2>3, <2>4, <2>5 DEF Step
<1>6. CASE Begun(n) /\ job'[n].number = job[n].number
  <2>1. job[n].number \in Nat
    BY <1>6 DEF Begun, WorkerInv, Busy, BaseType, FullJob
  <2> QED
    BY <1>1, <1>2, <1>5, <1>6, <2>1 DEF FreshInv
<1>7. CASE job'[n].number = exchanges + 1 /\ exchanges' = exchanges + 1
  <2>1. \A r \in Requests(n) : since[r] \in Nat /\ since[r] <= exchanges
    BY <1>4 DEF ClockInv, BaseType
  <2>2. \A i \in 1..Done(n) : served[log[n][i]] \in Nat /\ served[log[n][i]] <= exchanges
    BY <1>5 DEF ClockInv, BaseType
  <2> QED
    BY <1>1, <1>2, <1>5, <1>7, <2>1, <2>2
<1> QED
  BY <1>1, <1>6, <1>7

LEMMA ClockStep ==
  ASSUME BaseType, BaseType', LogInv, ClockInv, NEW n \in Session, WorkerInv(n), SuffixInv(n),
         FreshInv(n), Worker(n) \/ Holder(n), Step(n)
  PROVE  ClockInv'
<1>1. exchanges \in Nat /\ exchanges' \in Nat /\ exchanges <= exchanges'
  BY ExchangesGrow
<1>2. since \in [Request -> Nat] /\ served \in [Request -> Nat]
  BY DEF BaseType
<1>3. CASE Keeps(n)
  BY <1>1, <1>2, <1>3 DEF Keeps, ClockInv
<1>4. ASSUME NEW r \in Request, Accepts(n, r) PROVE ClockInv'
  BY <1>1, <1>2, <1>4 DEF Accepts, ClockInv, BaseType
<1>5. ASSUME NEW r \in Request, Refuses(n, r) PROVE ClockInv'
  BY <1>1, <1>2, <1>5 DEF Refuses, ClockInv, BaseType
<1>6. ASSUME NEW first \in Seq(Request), NEW told \in {"Ok", "Failed", "Terminal"},
             Tells(n, first, told)
      PROVE  ClockInv'
  <2> DEFINE R == {first[j] : j \in 1..Len(first)}
  <2>1. told = "Ok" => /\ Begun(n) /\ R = Requests(n) /\ job[n].number \in Nat
    <3>1. told = "Ok" => Begun(n) /\ R = Requests(n) /\ worker[n] \in Busy
      BY <1>6 DEF Tells, Begun, Requests, Busy
    <3>2. worker[n] \in Busy => job[n].number \in Nat
      BY DEF WorkerInv, BaseType, FullJob
    <3> QED
      BY <3>1, <3>2
  <2>2. told = "Ok" => /\ job[n].number <= exchanges
                       /\ \A r \in R : since[r] < job[n].number
    BY <2>1 DEF FreshInv
  <2>3. /\ Reply(n, told, R) /\ since' = since
        /\ served' = [r \in Request |-> IF r \in R /\ told = "Ok" THEN job[n].number ELSE served[r]]
    BY <1>6 DEF Tells
  <2> HIDE DEF R
  <2> SUFFICES ASSUME NEW r \in Request
               PROVE  /\ since'[r] <= exchanges' /\ served'[r] <= exchanges'
                      /\ answer'[r] = "Ok" => served'[r] > since'[r]
    BY DEF ClockInv
  <2>4. since[r] \in Nat /\ served[r] \in Nat /\ since[r] <= exchanges /\ served[r] <= exchanges
        /\ (answer[r] = "Ok" => served[r] > since[r])
    BY <1>2 DEF ClockInv
  <2>5. CASE r \in R /\ told = "Ok"
    BY <2>1, <2>2, <2>3, <2>4, <2>5, <1>1
  <2>6. CASE ~(r \in R /\ told = "Ok")
    BY <2>3, <2>4, <2>6, <1>1 DEF Reply
  <2> QED
    BY <2>5, <2>6
<1> QED
  BY <1>3, <1>4, <1>5, <1>6 DEF Step

LEMMA OrderStep ==
  ASSUME BaseType, BaseType', LogInv, NEW n \in Session, WorkerInv(n), JobInv(n), SuffixInv(n),
         FreshInv(n), OrderInv(n), Step(n)
  PROVE  OrderInv(n)'
<1>1. /\ Done(n) \in Nat /\ Done(n) + Len(Pending(n)) = Len(log[n])
      /\ Len(log[n]) \in Nat /\ Len(Pending(n)) \in Nat
  BY DoneBounds
<1>2. \A i \in 1..Len(log[n]) : log[n][i] \in Request
  BY PendingType, ElementOfSeq
<1>3. CASE Keeps(n)
  BY <1>3 DEF Keeps, OrderInv
<1>4. ASSUME NEW r \in Request, Accepts(n, r) PROVE OrderInv(n)'
  <2>1. /\ Len(log'[n]) = Len(log[n]) + 1 /\ log'[n][Len(log[n]) + 1] = r
        /\ \A i \in 1..Len(log[n]) : log'[n][i] = log[n][i]
    BY <1>4, AppendedLog DEF Accepts
  <2>2. answer'[r] = "Waiting" /\ served' = served
    BY <1>4 DEF Accepts, BaseType
  <2>3. \A i \in 1..Len(log'[n]) : answer'[log'[n][i]] = "Ok" =>
          i \in 1..Len(log[n]) /\ log'[n][i] = log[n][i] /\ answer[log[n][i]] = "Ok"
    <3> SUFFICES ASSUME NEW i \in 1..Len(log'[n]), answer'[log'[n][i]] = "Ok"
                 PROVE  i \in 1..Len(log[n]) /\ log'[n][i] = log[n][i]
                        /\ answer[log[n][i]] = "Ok"
      OBVIOUS
    <3>1. i \in 1..Len(log[n]) /\ log'[n][i] = log[n][i]
      BY <1>1, <2>1, <2>2
    <3>2. log[n][i] # r
      BY <3>1, <2>2
    <3> QED
      BY <3>1, <3>2, <1>2, <1>4 DEF Accepts, BaseType
  <2> QED
    BY <2>2, <2>3 DEF OrderInv
<1>5. ASSUME NEW r \in Request, Refuses(n, r) PROVE OrderInv(n)'
  <2>1. \A i \in 1..Len(log[n]) : log[n][i] # r
    BY <1>5 DEF Refuses, LogInv
  <2>2. \A i \in 1..Len(log[n]) : answer'[log[n][i]] = answer[log[n][i]]
    BY <1>2, <1>5, <2>1 DEF Refuses, BaseType
  <2>3. log' = log /\ served' = served
    BY <1>5 DEF Refuses
  <2> QED
    BY <2>2, <2>3 DEF OrderInv
<1>6. ASSUME NEW first \in Seq(Request), NEW told \in {"Ok", "Failed", "Terminal"},
             Tells(n, first, told)
      PROVE  OrderInv(n)'
  <2> DEFINE R == {first[j] : j \in 1..Len(first)}
  <2>1. /\ Reply(n, told, R) /\ log' = log
        /\ served' = [r \in Request |-> IF r \in R /\ told = "Ok" THEN job[n].number ELSE served[r]]
    BY <1>6 DEF Tells
  <2>2. \A q \in R : answer[q] = "Waiting"
    BY <1>6, FirstDistinct
  <2>3. CASE told # "Ok"
    <3> HIDE DEF R
    <3>1. \A i \in 1..Len(log[n]) : answer'[log[n][i]] = "Ok" => answer[log[n][i]] = "Ok"
      BY <1>2, <2>1, <2>3 DEF Reply
    <3>2. \A i \in 1..Len(log[n]) : served'[log[n][i]] = served[log[n][i]]
      BY <1>2, <2>1, <2>3
    <3> QED
      BY <2>1, <3>1, <3>2 DEF OrderInv
  <2>4. CASE told = "Ok"
    <3>1. /\ Begun(n) /\ first = job[n].requests /\ worker[n] \in Busy
      BY <1>6, <2>4 DEF Tells, Begun, Busy
    <3>2. job[n].number \in Nat
      BY <3>1 DEF WorkerInv, BaseType, FullJob
    <3>3. \A i \in 1..Len(log[n]) :
            \/ /\ i \in 1..Done(n) /\ answer'[log[n][i]] = answer[log[n][i]]
               /\ served'[log[n][i]] = served[log[n][i]] /\ served[log[n][i]] < job[n].number
            \/ /\ i > Done(n) /\ served'[log[n][i]] = job[n].number
               /\ \E j \in 1..Len(first) : i = Done(n) + j /\ log[n][i] = first[j]
            \/ /\ i > Done(n) /\ answer'[log[n][i]] # "Ok"
      <4> SUFFICES ASSUME NEW i \in 1..Len(log[n])
                   PROVE
            \/ /\ i \in 1..Done(n) /\ answer'[log[n][i]] = answer[log[n][i]]
               /\ served'[log[n][i]] = served[log[n][i]] /\ served[log[n][i]] < job[n].number
            \/ /\ i > Done(n) /\ served'[log[n][i]] = job[n].number
               /\ \E j \in 1..Len(first) : i = Done(n) + j /\ log[n][i] = first[j]
            \/ /\ i > Done(n) /\ answer'[log[n][i]] # "Ok"
        OBVIOUS
      <4>1. log[n][i] \in Request /\ (answer[log[n][i]] = "Waiting" <=> i > Done(n))
        BY <1>2 DEF SuffixInv
      <4>2. CASE log[n][i] \in R
        <5>1. i > Done(n)
          BY <4>1, <4>2, <2>2
        <5>2. PICK j \in 1..Len(first) : log[n][i] = first[j]
          BY <4>2
        <5>3. Done(n) + j \in 1..Len(log[n]) /\ first[j] = log[n][Done(n) + j]
          BY <1>6, FirstDistinct
        <5>4. i = Done(n) + j
          <6> DEFINE k == Done(n) + j
          <6>1. k \in 1..Len(log[n]) /\ log[n][k] = log[n][i]
            BY <5>2, <5>3
          <6> HIDE DEF k
          <6>2. i = k
            BY <6>1 DEF LogInv
          <6> QED
            BY <6>2 DEF k
        <5>5. served'[log[n][i]] = job[n].number
          <6> HIDE DEF R
          <6> QED
            BY <4>1, <4>2, <2>1, <2>4
        <5> QED
          BY <5>1, <5>2, <5>4, <5>5
      <4>3. CASE log[n][i] \notin R
        <5>1. answer'[log[n][i]] = answer[log[n][i]] /\ served'[log[n][i]] = served[log[n][i]]
          <6> HIDE DEF R
          <6> QED
            BY <4>1, <4>3, <2>1 DEF Reply
        <5>2. CASE i > Done(n)
          BY <4>1, <5>1, <5>2
        <5>3. CASE ~(i > Done(n))
          <6>1. i \in 1..Done(n)
            BY <5>3, <1>1
          <6>2. served[log[n][i]] < job[n].number
            BY <6>1, <3>1 DEF FreshInv
          <6> QED
            BY <5>1, <6>1, <6>2
        <5> QED
          BY <5>2, <5>3
      <4> QED
        BY <4>2, <4>3
    <3> HIDE DEF R
    <3>4. ASSUME NEW k \in 1..Len(log[n]), k \in 1..Done(n)
          PROVE  /\ answer'[log[n][k]] = answer[log[n][k]]
                 /\ served'[log[n][k]] = served[log[n][k]]
                 /\ served[log[n][k]] < job[n].number
      <4>1. ~(k > Done(n))
        BY <3>4, <1>1
      <4> QED
        BY <3>3, <4>1
    <3>5. ASSUME NEW k \in 1..Len(log[n]), k > Done(n), answer'[log[n][k]] = "Ok"
          PROVE  /\ served'[log[n][k]] = job[n].number
                 /\ \E l \in 1..Len(first) : k = Done(n) + l /\ log[n][k] = first[l]
      <4>1. k \notin 1..Done(n)
        BY <3>5, <1>1
      <4> QED
        BY <3>3, <3>5, <4>1
    <3>6. ASSUME NEW i \in 1..Len(log[n]), NEW j \in 1..Len(log[n]), i < j,
                 answer'[log[n][i]] = "Ok", answer'[log[n][j]] = "Ok"
          PROVE  \/ served'[log[n][i]] < served'[log[n][j]]
                 \/ /\ served'[log[n][i]] = served'[log[n][j]]
                    /\ Duplicate(log[n][i], log[n][j])
      <4>1. CASE j \in 1..Done(n)
        <5>1. i \in 1..Done(n)
          BY <4>1, <3>6, <1>1
        <5>2. /\ answer[log[n][i]] = "Ok" /\ served'[log[n][i]] = served[log[n][i]]
          BY <3>4, <3>6, <5>1
        <5>3. /\ answer[log[n][j]] = "Ok" /\ served'[log[n][j]] = served[log[n][j]]
          BY <3>4, <3>6, <4>1
        <5> QED
          BY <5>2, <5>3, <3>6 DEF OrderInv
      <4>2. CASE j > Done(n) /\ i \in 1..Done(n)
        <5>1. served'[log[n][i]] < job[n].number
          BY <3>4, <4>2
        <5>2. served'[log[n][j]] = job[n].number
          BY <3>5, <3>6, <4>2
        <5> QED
          BY <5>1, <5>2
      <4>3. CASE j > Done(n) /\ i > Done(n)
        <5>1. /\ served'[log[n][i]] = job[n].number
              /\ \E k \in 1..Len(first) : i = Done(n) + k /\ log[n][i] = first[k]
          BY <3>5, <3>6, <4>3
        <5>2. /\ served'[log[n][j]] = job[n].number
              /\ \E l \in 1..Len(first) : j = Done(n) + l /\ log[n][j] = first[l]
          BY <3>5, <3>6, <4>3
        <5>3. PICK k \in 1..Len(first) : i = Done(n) + k /\ log[n][i] = first[k]
          BY <5>1
        <5>4. PICK l \in 1..Len(first) : j = Done(n) + l /\ log[n][j] = first[l]
          BY <5>2
        <5>5. k # l
          BY <5>3, <5>4, <3>6
        <5>6. Duplicate(first[k], first[l])
          BY <3>1, <5>5 DEF JobInv
        <5> QED
          BY <5>1, <5>2, <5>3, <5>4, <5>6
      <4> QED
        BY <4>1, <4>2, <4>3, <1>1
    <3> QED
      BY <2>1, <3>6 DEF OrderInv
  <2> QED
    BY <2>3, <2>4
<1> QED
  BY <1>3, <1>4, <1>5, <1>6 DEF Step

LEMMA OthersOrder ==
  ASSUME BaseType, BaseType', LogInv, NEW n \in Session, SuffixInv(n), Worker(n) \/ Holder(n),
         Step(n), Apart(n), NEW m \in Session \ {n}, WorkerInv(m), SuffixInv(m), FreshInv(m),
         OrderInv(m)
  PROVE  FreshInv(m)' /\ OrderInv(m)'
<1>1. log'[m] = log[m] /\ job'[m] = job[m] /\ worker'[m] = worker[m]
  BY DEF Apart
<1>2. \A i \in 1..Len(log[m]) :
        /\ answer'[log[m][i]] = answer[log[m][i]] /\ served'[log[m][i]] = served[log[m][i]]
        /\ since'[log[m][i]] = since[log[m][i]]
  BY OnlyItsOwn
<1>3. Done(m)' = Done(m)
  BY OthersWait
<1>4. exchanges \in Nat /\ exchanges' \in Nat /\ exchanges <= exchanges'
  BY ExchangesGrow
<1>5. OrderInv(m)'
  BY <1>1, <1>2 DEF OrderInv
<1>6. FreshInv(m)'
  <2>1. Requests(m)' = Requests(m) /\ Begun(m)' = Begun(m)
    BY <1>1 DEF Requests, Begun
  <2>2. \A r \in Requests(m) : since'[r] = since[r]
    <3> SUFFICES ASSUME NEW k \in 1..Len(job[m].requests)
                 PROVE  since'[job[m].requests[k]] = since[job[m].requests[k]]
      BY DEF Requests
    <3>1. Done(m) + k \in 1..Len(log[m]) /\ job[m].requests[k] = log[m][Done(m) + k]
      BY RequestsWait
    <3> QED
      BY <3>1, <1>2
  <2>3. \A i \in 1..Done(m) : i \in 1..Len(log[m])
    BY DoneBounds
  <2>4. Begun(m) => job[m].number \in Nat
    BY DEF Begun, WorkerInv, Busy, BaseType, FullJob
  <2>5. CASE Begun(m)
    <3>1. /\ job[m].number <= exchanges
          /\ \A r \in Requests(m) : since[r] < job[m].number
          /\ \A i \in 1..Done(m) : served[log[m][i]] < job[m].number
      BY <2>5 DEF FreshInv
    <3>2. job'[m].number <= exchanges'
      BY <3>1, <1>1, <1>4, <2>4, <2>5
    <3>3. \A r \in Requests(m) : since'[r] < job'[m].number
      BY <3>1, <1>1, <2>2
    <3>4. \A i \in 1..Done(m) : served'[log'[m][i]] < job'[m].number
      BY <3>1, <1>1, <1>2, <2>3
    <3> QED
      BY <3>2, <3>3, <3>4, <2>1, <1>3 DEF FreshInv
  <2> QED
    BY <2>1, <2>5 DEF FreshInv
<1> QED
  BY <1>5, <1>6

-----------------------------------------------------------------------------
(* The lines on the wire *)

\* What is in the channel was accepted, waits, and is not in the exchange.
LEMMA HeldWaits ==
  ASSUME BaseType, NEW n \in Session, SuffixInv(n), NEW k \in 1..Len(Held(n))
  PROVE  /\ Held(n)[k] \in Request /\ answer[Held(n)[k]] = "Waiting"
         /\ Len(job[n].requests) \in Nat
         /\ Done(n) + (Len(job[n].requests) + k) \in 1..Len(log[n])
         /\ Held(n)[k] = log[n][Done(n) + (Len(job[n].requests) + k)]
<1> DEFINE a == job[n].requests
           b == Held(n)
           j == Len(a) + k
<1>1. a \in Seq(Request) /\ b \in Seq(Request)
  BY PendingType
<1>2. Pending(n) = a \o b
  BY DEF Pending
<1>3. k \in 1..Len(b)
  OBVIOUS
<1> HIDE DEF a, b
<1>4. Len(a) \in Nat /\ j \in 1..Len(Pending(n)) /\ Pending(n)[j] = b[k]
  <2>1. /\ Len(a) \in Nat /\ Len(b) \in Nat /\ Len(a \o b) = Len(a) + Len(b)
        /\ \A i \in 1..Len(b) : (a \o b)[Len(a) + i] = b[i]
    BY <1>1, WithoutFirst
  <2> QED
    BY <2>1, <1>2, <1>3
<1>5. b[k] \in Request
  BY <1>1, <1>3, ElementOfSeq
<1> HIDE DEF j
<1>6. /\ Done(n) + j \in 1..Len(log[n]) /\ Pending(n)[j] = log[n][Done(n) + j]
      /\ answer[Pending(n)[j]] = "Waiting"
  BY <1>4, PendingWaits
<1>7. Done(n) + j \in 1..Len(log[n]) /\ b[k] = log[n][Done(n) + j] /\ answer[b[k]] = "Waiting"
  BY <1>4, <1>6
<1> QED
  BY <1>4, <1>5, <1>7 DEF a, b, j

\* The request at the head of the exchange is an accepted one that waits, and is not
\* in the channel behind it.
LEMMA LeadWaits ==
  ASSUME BaseType, LogInv, NEW n \in Session, SuffixInv(n), job[n] \in FullJob
  PROVE  /\ Lead(n) \in Request /\ answer[Lead(n)] = "Waiting"
         /\ Done(n) + 1 \in 1..Len(log[n]) /\ Lead(n) = log[n][Done(n) + 1]
         /\ \A k \in 1..Len(Held(n)) : Held(n)[k] # Lead(n)
<1>1. Lead(n) = job[n].requests[1] /\ 1 \in 1..Len(job[n].requests) /\ Lead(n) \in Request
  BY LeadType
<1>2. /\ Done(n) + 1 \in 1..Len(log[n]) /\ Lead(n) = log[n][Done(n) + 1]
      /\ answer[Lead(n)] = "Waiting"
  BY <1>1, RequestsWait
<1>3. ASSUME NEW k \in 1..Len(Held(n)), Held(n)[k] = Lead(n) PROVE FALSE
  <2> DEFINE d == Done(n) + 1
             e == Done(n) + (Len(job[n].requests) + k)
  <2>1. e \in 1..Len(log[n]) /\ Held(n)[k] = log[n][e] /\ Len(job[n].requests) \in Nat
    BY HeldWaits
  <2>2. d \in 1..Len(log[n]) /\ Lead(n) = log[n][d]
    BY <1>2
  <2>3. d < e
    <3>1. Done(n) \in Nat /\ Len(job[n].requests) >= 1 /\ k >= 1 /\ k \in Int
      BY <1>1, <2>1, DoneBounds
    <3> QED
      BY <3>1, <2>1
  <2> HIDE DEF d, e
  <2>4. d = e
    BY <2>1, <2>2, <1>3 DEF LogInv
  <2> QED
    BY <2>1, <2>2, <2>3, <2>4
<1> QED
  BY <1>1, <1>2, <1>3

\* A line goes out for the request at the head of the exchange only.
LEMMA LineOut ==
  ASSUME BaseType, NEW n \in Session, job[n] \in FullJob, WriteLine(n), NEW r \in Request
  PROVE  /\ r # Lead(n) \/ job[n].left # 1 => wire'[r] = wire[r]
         /\ r = Lead(n) /\ job[n].left = 1 => wire'[r] = wire[r] + 1
<1>1. Lead(n) \in Request /\ wire \in [Request -> Nat]
  BY LeadType DEF BaseType
<1> QED
  BY <1>1 DEF WriteLine

LEMMA RequestWireStep ==
  ASSUME BaseType, BaseType', LogInv, NEW n \in Session, WorkerInv(n), JobInv(n), SuffixInv(n),
         RequestWire, LeadWire(n), Worker(n) \/ Holder(n), Step(n)
  PROVE  RequestWire'
<1>1. wire \in [Request -> Nat] /\ answer \in [Request -> Answer]
  BY DEF BaseType
<1>2. CASE WriteLine(n)
  <2>1. worker[n] = "Write" /\ worker[n] \in Busy /\ answer' = answer
    BY <1>2 DEF WriteLine, Busy, replies
  <2>2. job[n] \in FullJob
    BY <2>1 DEF WorkerInv, BaseType
  <2>3. answer[Lead(n)] = "Waiting" /\ Lead(n) \in Request
    BY <2>2, LeadWaits
  <2>4. Exclusive(Lead(n)) => wire[Lead(n)] = 0
    BY <2>1 DEF LeadWire, LeadOut
  <2> SUFFICES ASSUME NEW r \in Request, Exclusive(r)
               PROVE  /\ wire'[r] <= 1
                      /\ answer'[r] \in {"None", "Refused"} => wire'[r] = 0
                      /\ Kind[r] # "Prompt" /\ answer'[r] = "Ok" => wire'[r] = 1
    BY DEF RequestWire, Exclusive
  <2>5. CASE r = Lead(n)
    <3>1. wire[r] = 0 /\ answer[r] = "Waiting"
      BY <2>3, <2>4, <2>5
    <3>2. wire'[r] \in {0, 1}
      BY <3>1, <1>2, <2>2, LineOut
    <3> QED
      BY <2>1, <3>1, <3>2
  <2>6. CASE r # Lead(n)
    <3>1. wire'[r] = wire[r]
      BY <1>2, <2>2, <2>6, LineOut
    <3> QED
      BY <2>1, <3>1 DEF RequestWire
  <2> QED
    BY <2>5, <2>6
<1>3. CASE ~WriteLine(n)
  <2>1. wire' = wire
    BY <1>3, ExchangesGrow
  <2>2. CASE Keeps(n)
    BY <2>1, <2>2 DEF Keeps, RequestWire, Exclusive
  <2>3. ASSUME NEW r \in Request, Accepts(n, r) \/ Refuses(n, r) PROVE RequestWire'
    <3>1. \A q \in Request :
            \/ answer'[q] = answer[q]
            \/ answer[q] = "None" /\ answer'[q] \in {"Waiting", "Refused"}
      BY <2>3, <1>1 DEF Accepts, Refuses
    <3> QED
      BY <3>1, <2>1 DEF RequestWire, Exclusive
  <2>4. ASSUME NEW first \in Seq(Request), NEW told \in {"Ok", "Failed", "Terminal"},
               Tells(n, first, told)
        PROVE  RequestWire'
    <3> DEFINE R == {first[j] : j \in 1..Len(first)}
    <3>1. Reply(n, told, R)
      BY <2>4 DEF Tells
    <3>2. ASSUME told = "Ok", NEW q \in R, Exclusive(q), Kind[q] # "Prompt" PROVE wire[q] = 1
      <4>1. /\ worker[n] = "Finish" /\ job[n].result = "Ok" /\ first = job[n].requests
            /\ worker[n] \in Busy
        BY <2>4, <3>2 DEF Tells, Busy
      <4>2. Lead(n) = first[1] /\ 1 \in 1..Len(first)
        <5>1. job[n] \in FullJob
          BY <4>1 DEF WorkerInv, BaseType
        <5> QED
          BY <4>1, <5>1, LeadType
      <4>3. PICK j \in 1..Len(first) : q = first[j]
        BY <3>2
      <4>4. j # 1 => Duplicate(first[j], first[1])
        BY <4>1, <4>2 DEF JobInv
      <4>5. q = Lead(n)
        BY <4>2, <4>3, <4>4, <3>2 DEF Duplicate, Exclusive
      <4> QED
        BY <4>1, <4>5, <3>2 DEF LeadWire, LeadOut
    <3> HIDE DEF R
    <3>3. \A q \in Request : answer'[q] = IF q \in R THEN told ELSE answer[q]
      BY <3>1 DEF Reply
    <3> SUFFICES ASSUME NEW r \in Request, Exclusive(r)
                 PROVE  /\ wire[r] <= 1
                        /\ answer'[r] \in {"None", "Refused"} => wire[r] = 0
                        /\ Kind[r] # "Prompt" /\ answer'[r] = "Ok" => wire[r] = 1
      BY <2>1 DEF RequestWire, Exclusive
    <3>4. /\ wire[r] <= 1
          /\ answer[r] \in {"None", "Refused"} => wire[r] = 0
          /\ Kind[r] # "Prompt" /\ answer[r] = "Ok" => wire[r] = 1
      BY DEF RequestWire
    <3>5. CASE r \in R
      BY <3>2, <3>3, <3>4, <3>5
    <3>6. CASE r \notin R
      BY <3>3, <3>4, <3>6
    <3> QED
      BY <3>5, <3>6
  <2> QED
    BY <2>2, <2>3, <2>4 DEF Step
<1> QED
  BY <1>2, <1>3

\* What is in the channel after a step was there before, or has just been accepted.
LEMMA HeldStep ==
  ASSUME BaseType, BaseType', NEW n \in Session, WorkerInv(n), Worker(n) \/ Holder(n),
         NEW k \in 1..Len(Held(n)')
  PROVE  \/ \E j \in 1..Len(Held(n)) : Held(n)'[k] = Held(n)[j]
         \/ Held(n)'[k] \in Request /\ answer[Held(n)'[k]] = "None" /\ ~WriteLine(n)
<1>1. Held(n) \in Seq(Request) /\ Held(n)' \in Seq(Request)
  BY PendingType, PendingTypeNext
<1>2. Len(Held(n)) \in Nat /\ Len(Held(n)') \in Nat
  BY <1>1, LenProperties
<1>3. CASE queue'[n] = queue[n] /\ backlog'[n] = backlog[n]
  <2>1. Held(n)' = Held(n)
    BY <1>3 DEF Held
  <2> QED
    BY <2>1
<1>4. ASSUME NEW r \in Request, Submit(n, r), ~(queue'[n] = queue[n] /\ backlog'[n] = backlog[n])
      PROVE  \/ \E j \in 1..Len(Held(n)) : Held(n)'[k] = Held(n)[j]
             \/ Held(n)'[k] \in Request /\ answer[Held(n)'[k]] = "None" /\ ~WriteLine(n)
  <2>1. /\ queue'[n] = Append(queue[n], r) /\ backlog'[n] = backlog[n] /\ answer[r] = "None"
        /\ ~WriteLine(n)
    BY <1>4 DEF Submit, BaseType, WriteLine, replies
  <2>2. backlog[n] \in Seq(Request) /\ queue[n] \in Seq(Request) /\ <<r>> \in Seq(Request)
    BY PendingType
  <2> DEFINE e == <<r>>
             h == Held(n)
  <2>3. h \in Seq(Request)
    BY <1>1
  <2>10. e \in Seq(Request)
    BY <2>2
  <2>11. Len(e) = 1 /\ e[1] = r
    OBVIOUS
  <2>4. Held(n)' = h \o e
    <3> DEFINE b == backlog[n]
               c == queue[n]
    <3>1. Held(n)' = b \o (c \o e)
      BY <2>1, <2>2, AppendIsConcat DEF Held
    <3>2. h = b \o c
      BY DEF Held
    <3>3. b \in Seq(Request) /\ c \in Seq(Request)
      BY <2>2
    <3> HIDE DEF b, c, e, h
    <3>4. b \o (c \o e) = (b \o c) \o e
      BY <3>3, <2>10, ConcatAssociative
    <3> QED
      BY <3>1, <3>2, <3>4
  <2> HIDE DEF e, h
  <2>5. /\ Len(h) \in Nat /\ Len(h \o e) = Len(h) + Len(e)
        /\ \A i \in 1..Len(h) : (h \o e)[i] = h[i]
        /\ \A i \in 1..Len(e) : (h \o e)[Len(h) + i] = e[i]
    BY <2>3, <2>10, WithoutFirst
  <2>6. CASE k \in 1..Len(h)
    BY <2>4, <2>5, <2>6 DEF h
  <2>7. CASE k \notin 1..Len(h)
    <3>1. k = Len(h) + 1 /\ 1 \in 1..Len(e)
      BY <2>11, <2>4, <2>5, <2>7
    <3>2. Held(n)'[k] = r
      BY <2>11, <2>4, <2>5, <3>1
    <3> QED
      BY <3>2, <2>1
  <2> QED
    BY <2>6, <2>7
<1>5. ASSUME Receive(n), ~(queue'[n] = queue[n] /\ backlog'[n] = backlog[n])
      PROVE  \E j \in 1..Len(Held(n)) : Held(n)'[k] = Held(n)[j]
  <2>1. job[n] = NoJob /\ Held(n) # <<>> /\ Begin(n, Head(Held(n)), Tail(Held(n)))
    BY <1>5 DEF Receive, WorkerInv, Busy
  <2> DEFINE t == Tail(Held(n))
  <2>2. PICK run \in Drained(t, Head(Held(n))) : Held(n)' = SubSeq(t, run + 1, Len(t))
    BY <2>1, BeginForm
  <2>3. /\ t \in Seq(Request) /\ Len(t) = Len(Held(n)) - 1
        /\ \A i \in 1..Len(t) : t[i] = Held(n)[i + 1]
    BY <1>1, <2>1, HeadTailProperties
  <2>4. run \in 0..Len(t)
    BY DEF Drained
  <2> HIDE DEF t
  <2>5. Len(t) \in Nat /\ run \in Nat
    BY <2>3, <2>4, LenProperties
  <2>6. /\ Len(Held(n)') = Len(t) - run
        /\ \A i \in 1..Len(t) - run : Held(n)'[i] = t[run + i]
    <3>1. \A i \in run + 1..Len(t) : t[i] \in Request
      BY <2>3, <2>5, ElementOfSeq
    <3>2. /\ Len(SubSeq(t, run + 1, Len(t))) = Len(t) - run
      BY <2>3, <2>4, <2>5, <3>1, SubSeqProperties
    <3>3. \A i \in 1..Len(t) - run : SubSeq(t, run + 1, Len(t))[i] = t[run + i]
      BY <2>3, <2>4, <2>5, <3>1, SubSeqProperties
    <3> QED
      BY <2>2, <3>2, <3>3
  <2>7. run + k \in 1..Len(t) /\ run + k + 1 \in 1..Len(Held(n))
    BY <2>3, <2>5, <2>6, <2>4
  <2>8. Held(n)'[k] = Held(n)[run + k + 1]
    BY <2>3, <2>6, <2>7, <2>5
  <2> QED
    BY <2>7, <2>8
<1>6. CASE Abandon(n)
  <2>1. Held(n)' = <<>> \o <<>>
    BY <1>6 DEF Abandon, Held, BaseType
  <2>2. Held(n)' = <<>>
    <3>1. <<>> \in Seq(Request)
      OBVIOUS
    <3> QED
      BY <2>1, <3>1, ConcatEmptySeq
  <2>3. Len(Held(n)') = 0
    BY <2>2
  <2> QED
    BY <2>3
<1>7. CASE Open(n) \/ InvalidateEpoch(n) \/ Close(n) \/ Joined(n) \/ CloseTimesOut(n)
  BY <1>3, <1>7 DEF Open, InvalidateEpoch, Close, Joined, CloseTimesOut, channel
<1>8. CASE Poll(n) \/ CheckBeforeWrite(n) \/ WriteLine(n) \/ ReadOk(n) \/ ReadTimeout(n)
           \/ ReadFails(n)
  BY <1>3, <1>8 DEF Poll, CheckBeforeWrite, WriteLine, ReadOk, ReadTimeout, ReadFails, channel
<1>9. CASE Finish(n) \/ FinishSession(n) \/ Retire(n) \/ DropPort(n) \/ DropLease(n)
  BY <1>3, <1>9 DEF Finish, FinishSession, Retire, DropPort, DropLease, channel
<1> QED
  BY <1>3, <1>4, <1>5, <1>6, <1>7, <1>8, <1>9 DEF Worker, Holder

LEMMA ChannelWireStep ==
  ASSUME BaseType, BaseType', LogInv, NEW n \in Session, WorkerInv(n), SuffixInv(n),
         RequestWire, ChannelWire(n), Worker(n) \/ Holder(n)
  PROVE  ChannelWire(n)'
<1> SUFFICES ASSUME NEW k \in 1..Len(Held(n)'), Exclusive(Held(n)'[k])
             PROVE  wire'[Held(n)'[k]] = 0
  BY DEF ChannelWire, Exclusive
<1>1. \/ \E j \in 1..Len(Held(n)) : Held(n)'[k] = Held(n)[j]
      \/ Held(n)'[k] \in Request /\ answer[Held(n)'[k]] = "None" /\ ~WriteLine(n)
  BY HeldStep
<1>2. ASSUME NEW j \in 1..Len(Held(n)), Held(n)'[k] = Held(n)[j]
      PROVE  wire'[Held(n)'[k]] = 0
  <2>1. wire[Held(n)[j]] = 0
    BY <1>2 DEF ChannelWire
  <2>2. CASE WriteLine(n)
    <3>1. job[n] \in FullJob
      BY <2>2 DEF WriteLine, WorkerInv, Busy, BaseType
    <3>2. Held(n)[j] # Lead(n) /\ Held(n)[j] \in Request
      BY <3>1, LeadWaits, HeldWaits
    <3>3. wire'[Held(n)[j]] = wire[Held(n)[j]]
      BY <2>2, <3>1, <3>2, LineOut
    <3> QED
      BY <1>2, <2>1, <3>3
  <2>3. CASE ~WriteLine(n)
    <3>1. wire' = wire
      BY <2>3, ExchangesGrow
    <3> QED
      BY <1>2, <2>1, <3>1
  <2> QED
    BY <2>2, <2>3
<1>3. ASSUME Held(n)'[k] \in Request, answer[Held(n)'[k]] = "None", ~WriteLine(n)
      PROVE  wire'[Held(n)'[k]] = 0
  <2>1. wire' = wire
    BY <1>3, ExchangesGrow
  <2> QED
    BY <2>1, <1>3 DEF RequestWire
<1> QED
  BY <1>1, <1>2, <1>3

LEMMA LeadWireStep ==
  ASSUME BaseType, BaseType', LogInv, NEW n \in Session, WorkerInv(n), JobInv(n), SuffixInv(n),
         RequestWire, ChannelWire(n), LeadWire(n), Worker(n) \/ Holder(n)
  PROVE  LeadWire(n)'
<1> SUFFICES ASSUME worker'[n] \in Busy, Exclusive(Lead(n)') PROVE LeadOut(n)'
  BY DEF LeadWire, Exclusive
<1>1. worker[n] \in Busy => job[n] \in FullJob
  BY DEF WorkerInv, BaseType
<1>2. CASE UNCHANGED <<worker, job, wire>>
  BY <1>2 DEF LeadWire, LeadOut, Lead
<1>3. ASSUME worker[n] \in Busy, NEW result \in {"Ok", "Failed", "Removed"}, EndExchange(n, result)
      PROVE  /\ worker'[n] = "Finish" /\ Lead(n)' = Lead(n) /\ job'[n].result = result
             /\ job[n] \in FullJob /\ LeadOut(n)
  <2>1. job[n] \in FullJob
    BY <1>1, <1>3
  <2>2. job' = [job EXCEPT ![n] = [job[n] EXCEPT !.result = result]]
        /\ worker' = [worker EXCEPT ![n] = "Finish"]
    BY <2>1, <1>3, EndType
  <2>3. job'[n] = [job[n] EXCEPT !.result = result] /\ worker'[n] = "Finish"
    BY <2>2 DEF BaseType
  <2>4. job'[n].requests = job[n].requests /\ job'[n].result = result
    BY <2>1, <2>3 DEF FullJob
  <2>5. Lead(n)' = Lead(n)
    BY <2>4 DEF Lead
  <2>6. LeadOut(n)
    BY <2>5, <1>3 DEF LeadWire
  <2> QED
    BY <2>1, <2>3, <2>4, <2>5, <2>6
<1>4. job[n] \in FullJob => job[n].left \in 1..2 /\ job[n].attempt \in 1..2
  BY DEF FullJob
<1>4a. ASSUME job[n] \in FullJob, TimedOut(n) PROVE EndExchange(n, "Failed")
  <2>1. CASE /\ job[n].attempt < Attempts(Lead(n)) /\ job'[n].requests = job[n].requests
    <3>1. Lead(n)' = Lead(n)
      BY <2>1 DEF Lead
    <3>2. Attempts(Lead(n)) = 1
      BY <3>1 DEF Exclusive, Attempts
    <3> QED
      BY <1>4a, <2>1, <3>2, <1>4
  <2> QED
    BY <1>4a, <2>1, TimedOutForm
<1>5. CASE Receive(n)
  <2>1. job[n] = NoJob /\ wire' = wire
    BY <1>5 DEF Receive, WorkerInv, Busy, exchange
  <2>2. CASE Held(n) # <<>> /\ Begin(n, Head(Held(n)), Tail(Held(n)))
             /\ worker' = [worker EXCEPT ![n] = "Check"]
    <3>1. /\ job'[n].requests \in Seq(Request) \ {<<>>}
          /\ job'[n].requests[1] = Head(Held(n))
      <4> DEFINE h == Head(Held(n))
                 t == Tail(Held(n))
      <4>1. PICK run \in Drained(t, h) :
              /\ job'[n] = [requests |-> <<h>> \o SubSeq(t, 1, run),
                            left |-> Rounds(h), attempt |-> 1, number |-> 0, result |-> "None"]
              /\ (<<h>> \o SubSeq(t, 1, run))[1] = h
              /\ <<h>> \o SubSeq(t, 1, run) \in Seq(Request) \ {<<>>}
        BY <2>1, <2>2, BeginForm
      <4> DEFINE R == <<h>> \o SubSeq(t, 1, run)
      <4>2. job'[n] = [requests |-> R, left |-> Rounds(h), attempt |-> 1, number |-> 0,
                       result |-> "None"]
            /\ R[1] = h /\ R \in Seq(Request) \ {<<>>}
        BY <4>1
      <4> HIDE DEF R
      <4>3. job'[n].requests = R
        BY <4>2
      <4> QED
        BY <4>2, <4>3
    <3>2. Lead(n)' = Head(Held(n))
      <4> DEFINE s == job'[n].requests
      <4>1. s \in Seq(Request) /\ s # <<>> /\ s[1] = Head(Held(n))
        BY <3>1
      <4>2. Lead(n)' = Head(s)
        BY DEF Lead
      <4> HIDE DEF s
      <4> QED
        BY <4>1, <4>2, HeadTailProperties
    <3>3. Head(Held(n)) = Held(n)[1] /\ 1 \in 1..Len(Held(n))
      <4> DEFINE h == Held(n)
      <4>1. h \in Seq(Request) /\ h # <<>>
        BY <2>2, PendingType
      <4> HIDE DEF h
      <4>2. Head(h) = h[1] /\ 1 \in 1..Len(h)
        BY <4>1
      <4> QED
        BY <4>2 DEF h
    <3>4. wire'[Lead(n)'] = 0
      BY <3>2, <3>3, <2>1 DEF ChannelWire, Exclusive
    <3>5. worker'[n] = "Check"
      BY <2>2 DEF BaseType
    <3> QED
      BY <3>4, <3>5 DEF LeadOut
  <2>3. CASE worker' = [worker EXCEPT ![n] = "Poll"]
    BY <2>3 DEF BaseType, Busy
  <2> QED
    BY <1>5, <2>2, <2>3 DEF Receive
<1>6. CASE CheckBeforeWrite(n)
  <2>1. worker[n] = "Check" /\ worker[n] \in Busy /\ wire' = wire
    BY <1>6 DEF CheckBeforeWrite, Busy, exchange
  <2>2. CASE worker' = [worker EXCEPT ![n] = "Write"] /\ UNCHANGED job
    <3>1. worker'[n] = "Write" /\ job' = job /\ Lead(n)' = Lead(n)
      BY <2>2 DEF BaseType, Lead
    <3> QED
      BY <2>1, <3>1 DEF LeadWire, LeadOut
  <2>3. ASSUME NEW result \in {"Removed", "Failed"}, EndExchange(n, result) PROVE LeadOut(n)'
    <3>1. /\ worker'[n] = "Finish" /\ Lead(n)' = Lead(n) /\ job'[n].result = result /\ LeadOut(n)
      BY <1>3, <2>1, <2>3
    <3>2. wire[Lead(n)] = 0
      BY <2>1, <3>1 DEF LeadOut
    <3>3. wire'[Lead(n)'] = 0
      BY <2>1, <3>1, <3>2
    <3> QED
      BY <3>1, <3>3 DEF LeadOut
  <2> QED
    BY <1>6, <2>2, <2>3 DEF CheckBeforeWrite
<1>7. CASE WriteLine(n)
  <2>1. worker[n] = "Write" /\ worker[n] \in Busy
    BY <1>7 DEF WriteLine, Busy
  <2>2. job[n] \in FullJob
    BY <1>1, <2>1
  <2>2a. TimedOut(n) => EndExchange(n, "Failed")
    BY <2>2, <1>4a
  <2>3. Lead(n)' = Lead(n)
    <3>1. CASE job' = [job EXCEPT ![n].number = exchanges + 1]
      <4>1. job'[n] = [job[n] EXCEPT !.number = exchanges + 1]
        BY <3>1 DEF BaseType
      <4>2. job'[n].requests = job[n].requests
        BY <4>1, <2>2 DEF FullJob
      <4> QED
        BY <4>2 DEF Lead
    <3>2. ASSUME NEW result \in {"Removed", "Failed"}, EndExchange(n, result)
          PROVE  Lead(n)' = Lead(n)
      BY <1>3, <2>1, <3>2
    <3>3. CASE TimedOut(n)
      BY <2>2a, <3>2, <3>3
    <3> QED
      BY <1>7, <3>1, <3>2, <3>3 DEF WriteLine
  <2>4. wire[Lead(n)] = 0 /\ Lead(n) \in Request
    BY <2>1, <2>2, <2>3, LeadType DEF LeadWire, LeadOut
  <2>5. /\ job[n].left = 2 => wire'[Lead(n)] = 0
        /\ job[n].left = 1 => wire'[Lead(n)] = 1
    BY <1>7, <2>2, <2>4, LineOut
  <2>6. CASE /\ job' = [job EXCEPT ![n].number = exchanges + 1]
             /\ worker' = [worker EXCEPT ![n] = "Read"]
    <3>1. job'[n] = [job[n] EXCEPT !.number = exchanges + 1] /\ worker'[n] = "Read"
      BY <2>6 DEF BaseType
    <3>2. job'[n].left = job[n].left
      BY <3>1, <2>2 DEF FullJob
    <3> QED
      BY <3>1, <3>2, <2>3, <2>5 DEF LeadOut
  <2>7. ASSUME NEW result \in {"Removed", "Failed"}, EndExchange(n, result) PROVE LeadOut(n)'
    <3>1. worker'[n] = "Finish" /\ job'[n].result = result
      BY <1>3, <2>1, <2>7
    <3>2. wire'[Lead(n)'] <= 1
      BY <2>2, <2>3, <2>5, <1>4
    <3> QED
      BY <3>1, <3>2 DEF LeadOut
  <2> QED
    BY <1>7, <2>6, <2>7, <2>2a DEF WriteLine
<1>8. ASSUME worker[n] = "Read", wire' = wire, NEW result \in {"Ok", "Failed", "Removed"},
             EndExchange(n, result), result = "Ok" => job[n].left = 1 \/ Kind[Lead(n)] = "Prompt"
      PROVE  LeadOut(n)'
  <2>1. /\ worker'[n] = "Finish" /\ Lead(n)' = Lead(n) /\ job'[n].result = result
        /\ job[n] \in FullJob /\ LeadOut(n)
    BY <1>3, <1>8 DEF Busy
  <2>2. /\ job[n].left = 2 => wire[Lead(n)] = 0
        /\ job[n].left = 1 => wire[Lead(n)] = 1
    BY <2>1, <1>8 DEF LeadOut
  <2>3. wire'[Lead(n)'] <= 1
    BY <2>1, <2>2, <1>4, <1>8
  <2>4. result = "Ok" /\ Kind[Lead(n)] # "Prompt" => wire'[Lead(n)'] = 1
    BY <2>1, <2>2, <1>8
  <2> QED
    BY <2>1, <2>3, <2>4 DEF LeadOut
<1>9. CASE ReadOk(n)
  <2>1. worker[n] = "Read" /\ worker[n] \in Busy /\ wire' = wire
    BY <1>9 DEF ReadOk, Busy, exchange
  <2>2. job[n] \in FullJob
    BY <1>1, <2>1
  <2>3. CASE /\ job[n].left # 1 /\ job' = [job EXCEPT ![n].left = @ - 1, ![n].attempt = 1]
             /\ worker' = [worker EXCEPT ![n] = "Check"]
    <3>1. job'[n] = [job[n] EXCEPT !.left = @ - 1, !.attempt = 1] /\ worker'[n] = "Check"
      BY <2>3 DEF BaseType
    <3>2. job'[n].requests = job[n].requests
      BY <3>1, <2>2 DEF FullJob
    <3>3. Lead(n)' = Lead(n)
      BY <3>2 DEF Lead
    <3>4. wire[Lead(n)] = 0
      BY <2>1, <2>2, <2>3, <3>3, <1>4 DEF LeadWire, LeadOut
    <3>5. wire'[Lead(n)'] = 0
      BY <2>1, <3>3, <3>4
    <3> QED
      BY <3>1, <3>5 DEF LeadOut
  <2>4. CASE EndExchange(n, "Ok") /\ (job[n].left = 1 \/ Kind[Lead(n)] = "Prompt")
    BY <2>1, <2>4, <1>8
  <2> QED
    BY <1>9, <2>3, <2>4 DEF ReadOk
<1>10. CASE ReadTimeout(n)
  <2>1. worker[n] = "Read" /\ worker[n] \in Busy /\ wire' = wire
    BY <1>10 DEF ReadTimeout, Busy, exchange
  <2>2. job[n] \in FullJob
    BY <1>1, <2>1
  <2> QED
    BY <1>10, <2>1, <2>2, <1>8, <1>4a DEF ReadTimeout
<1>11. CASE ReadFails(n)
  <2>1. worker[n] = "Read" /\ wire' = wire
    BY <1>11 DEF ReadFails, exchange
  <2> QED
    BY <1>11, <2>1, <1>8 DEF ReadFails
<1>12. ASSUME NEW r \in Request, Submit(n, r) PROVE LeadOut(n)'
  BY <1>2, <1>12 DEF Submit, exchange
<1>13. CASE InvalidateEpoch(n) \/ Close(n) \/ Joined(n) \/ CloseTimesOut(n)
  BY <1>2, <1>13 DEF InvalidateEpoch, Close, Joined, CloseTimesOut, exchange
<1>14. CASE Open(n) \/ Poll(n) \/ Retire(n) \/ Abandon(n) \/ DropPort(n) \/ DropLease(n)
  BY <1>14 DEF Open, Poll, Retire, Abandon, DropPort, DropLease, BaseType, Busy
<1>15. CASE Finish(n) \/ FinishSession(n)
  BY <1>15 DEF Finish, FinishSession, BaseType, Busy
<1> QED
  BY <1>5, <1>6, <1>7, <1>9, <1>10, <1>11, <1>12, <1>13, <1>14, <1>15 DEF Worker, Holder

\* The line of one session's request is not a line of another session's.
LEMMA OthersWire ==
  ASSUME BaseType, BaseType', LogInv, NEW n \in Session, WorkerInv(n), SuffixInv(n),
         Worker(n) \/ Holder(n), Step(n), Apart(n),
         NEW m \in Session \ {n}, WorkerInv(m), SuffixInv(m), ChannelWire(m), LeadWire(m)
  PROVE  ChannelWire(m)' /\ LeadWire(m)'
<1>1. Held(m)' = Held(m) /\ job'[m] = job[m] /\ worker'[m] = worker[m] /\ Lead(m)' = Lead(m)
  BY OthersWait DEF Apart, Lead
<1>2. ASSUME NEW i \in 1..Len(log[m]) PROVE wire'[log[m][i]] = wire[log[m][i]]
  <2>1. CASE WriteLine(n)
    <3>1. job[n] \in FullJob
      BY <2>1 DEF WriteLine, WorkerInv, Busy, BaseType
    <3> DEFINE d == Done(n) + 1
    <3>2. d \in 1..Len(log[n]) /\ Lead(n) = log[n][d]
      BY <3>1, LeadWaits
    <3> HIDE DEF d
    <3>3. log[m][i] # Lead(n)
      BY <3>2 DEF LogInv
    <3>4. log[m][i] \in Request
      BY PendingType, ElementOfSeq
    <3> QED
      BY <2>1, <3>1, <3>3, <3>4, LineOut
  <2>2. CASE ~WriteLine(n)
    BY <2>2, ExchangesGrow
  <2> QED
    BY <2>1, <2>2
<1>3. ASSUME NEW k \in 1..Len(Held(m)) PROVE wire'[Held(m)[k]] = wire[Held(m)[k]]
  <2> DEFINE e == Done(m) + (Len(job[m].requests) + k)
  <2>1. e \in 1..Len(log[m]) /\ Held(m)[k] = log[m][e]
    BY HeldWaits
  <2> HIDE DEF e
  <2> QED
    BY <2>1, <1>2
<1>4. worker[m] \in Busy => wire'[Lead(m)] = wire[Lead(m)]
  <2> SUFFICES ASSUME worker[m] \in Busy PROVE wire'[Lead(m)] = wire[Lead(m)]
    OBVIOUS
  <2>1. job[m] \in FullJob
    BY DEF WorkerInv, BaseType
  <2> DEFINE d == Done(m) + 1
  <2>2. d \in 1..Len(log[m]) /\ Lead(m) = log[m][d]
    BY <2>1, LeadWaits
  <2> HIDE DEF d
  <2> QED
    BY <2>2, <1>2
<1>5. ChannelWire(m)'
  BY <1>1, <1>3 DEF ChannelWire, Exclusive
<1>6. LeadWire(m)'
  BY <1>1, <1>4 DEF LeadWire, LeadOut, Exclusive
<1> QED
  BY <1>5, <1>6

-----------------------------------------------------------------------------
(* The theorems *)

LEMMA InitInv == Init => IInv
<1> SUFFICES ASSUME Init PROVE IInv
  OBVIOUS
<1>1. Capacity \in Nat \ {0} /\ NoSession \notin Session
  BY SerialAssumption DEF NoSession
<1>2. <<>> \in Seq(Request) /\ Len(<<>>) = 0
  OBVIOUS
<1>3. BaseType
  BY <1>2 DEF Init, BaseType, Place, Answer
<1>4. \A n \in Session : Held(n) = <<>> /\ Pending(n) = <<>>
  <2> SUFFICES ASSUME NEW n \in Session PROVE Held(n) = <<>> /\ Pending(n) = <<>>
    OBVIOUS
  <2>1. Held(n) = <<>> \o <<>>
    BY DEF Init, Held
  <2>2. Held(n) = <<>>
    BY <2>1, <1>2, ConcatEmptySeq
  <2>3. Pending(n) = <<>> \o <<>>
    BY <2>2 DEF Init, Pending, NoJob
  <2> QED
    BY <2>2, <2>3, <1>2, ConcatEmptySeq
<1>5. \A n \in Session : log[n] = <<>> /\ worker[n] = "None" /\ job[n] = NoJob
  BY DEF Init
<1>6. LogInv /\ AnswerInv
  BY <1>2, <1>5 DEF Init, LogInv, AnswerInv
<1>7. ClockInv /\ RequestWire
  BY DEF Init, ClockInv, RequestWire
<1>8. ASSUME NEW n \in Session
      PROVE  /\ WorkerInv(n) /\ ResultInv(n) /\ JobInv(n) /\ SuffixInv(n) /\ FreshInv(n)
             /\ OrderInv(n) /\ ChannelWire(n) /\ LeadWire(n)
  <2>1. WorkerInv(n)
    BY <1>1, <1>5 DEF Init, WorkerInv, Busy, Owning
  <2>2. ResultInv(n) /\ JobInv(n) /\ FreshInv(n) /\ LeadWire(n)
    BY <1>5 DEF ResultInv, JobInv, FreshInv, LeadWire, Busy, Begun
  <2>3. Len(log[n]) = 0 /\ Len(Pending(n)) = 0 /\ Len(Held(n)) = 0
    BY <1>2, <1>4, <1>5
  <2>4. outstanding[n] = 0
    BY DEF Init
  <2>5. SuffixInv(n)
    BY <1>1, <2>3, <2>4 DEF SuffixInv
  <2>6. OrderInv(n) /\ ChannelWire(n)
    BY <2>3 DEF OrderInv, ChannelWire
  <2> QED
    BY <2>1, <2>2, <2>5, <2>6
<1> QED
  BY <1>3, <1>6, <1>7, <1>8 DEF IInv

LEMMA StepInv ==
  ASSUME IInv, NEW n \in Session, Worker(n) \/ Holder(n)
  PROVE  IInv'
<1>1. BaseType /\ LogInv /\ AnswerInv /\ ClockInv /\ RequestWire
  BY DEF IInv
<1>2. ASSUME NEW m \in Session
      PROVE  /\ WorkerInv(m) /\ ResultInv(m) /\ JobInv(m) /\ SuffixInv(m) /\ FreshInv(m)
             /\ OrderInv(m) /\ ChannelWire(m) /\ LeadWire(m)
  BY DEF IInv
<1>3. Step(n) /\ Apart(n) /\ PortsApart(n)
  BY <1>1, <1>2, StepForm, StepsApart, PortStep
<1>4. BaseType'
  BY <1>1, <1>2, <1>3, TypeStep
<1>5. LogInv' /\ AnswerInv'
  BY <1>1, <1>2, <1>3, <1>4, LogStep
<1>6. ClockInv'
  BY <1>1, <1>2, <1>3, <1>4, ClockStep
<1>7. RequestWire'
  BY <1>1, <1>2, <1>3, <1>4, RequestWireStep
<1>8. WorkerInv(n)' /\ ResultInv(n)' /\ JobInv(n)'
  BY <1>1, <1>2, <1>4, WorkerStep
<1>9. SuffixInv(n)' /\ FreshInv(n)' /\ OrderInv(n)'
  <2>1. SuffixInv(n)'
    BY <1>1, <1>2, <1>3, <1>4, SuffixStep
  <2>2. FreshInv(n)'
    BY <1>1, <1>2, <1>3, <1>4, FreshStep
  <2>3. OrderInv(n)'
    BY <1>1, <1>2, <1>3, <1>4, OrderStep
  <2> QED
    BY <2>1, <2>2, <2>3
<1>10. ChannelWire(n)' /\ LeadWire(n)'
  <2>1. ChannelWire(n)'
    BY <1>1, <1>2, <1>4, ChannelWireStep
  <2>2. LeadWire(n)'
    BY <1>1, <1>2, <1>4, LeadWireStep
  <2> QED
    BY <2>1, <2>2
<1>11. ASSUME NEW m \in Session \ {n}
       PROVE  /\ WorkerInv(m)' /\ ResultInv(m)' /\ JobInv(m)' /\ SuffixInv(m)' /\ FreshInv(m)'
              /\ OrderInv(m)' /\ ChannelWire(m)' /\ LeadWire(m)'
  <2>1. /\ job'[m] = job[m] /\ worker'[m] = worker[m] /\ handle'[m] = handle[m]
        /\ (m \in port' <=> m \in port) /\ (lease' = m <=> lease = m)
    BY <1>3 DEF Apart, PortsApart
  <2>2. WorkerInv(m)' /\ ResultInv(m)' /\ JobInv(m)'
    <3>1. WorkerInv(m) /\ ResultInv(m) /\ JobInv(m)
      BY <1>2
    <3>2. WorkerInv(m)'
      BY <2>1, <3>1 DEF WorkerInv
    <3>3. ResultInv(m)' /\ JobInv(m)'
      BY <2>1, <3>1 DEF ResultInv, JobInv, Lead
    <3> QED
      BY <3>2, <3>3
  <2>3. SuffixInv(m)'
    BY <1>1, <1>2, <1>3, <1>4, OthersWait
  <2>4. FreshInv(m)' /\ OrderInv(m)'
    BY <1>1, <1>2, <1>3, <1>4, OthersOrder
  <2>5. ChannelWire(m)' /\ LeadWire(m)'
    BY <1>1, <1>2, <1>3, <1>4, OthersWire
  <2> QED
    BY <2>2, <2>3, <2>4, <2>5
<1>12. ASSUME NEW m \in Session
       PROVE  /\ WorkerInv(m)' /\ ResultInv(m)' /\ JobInv(m)' /\ SuffixInv(m)' /\ FreshInv(m)'
              /\ OrderInv(m)' /\ ChannelWire(m)' /\ LeadWire(m)'
  <2>1. CASE m = n
    BY <2>1, <1>8, <1>9, <1>10
  <2>2. CASE m # n
    BY <2>2, <1>11
  <2> QED
    BY <2>1, <2>2
<1> QED
  BY <1>4, <1>5, <1>6, <1>7, <1>12 DEF IInv

LEMMA Invariant == Spec => []IInv
<1>1. IInv /\ UNCHANGED vars => IInv'
  <2> SUFFICES ASSUME IInv, UNCHANGED vars PROVE IInv'
    OBVIOUS
  <2>1. UNCHANGED <<lease, handle, port, terminal, outstanding, queue, backlog, worker, job,
                    answer, answers, log, exchanges, since, served, wire>>
    BY DEF vars, ownership, channel, replies, history, exchange
  <2>2. BaseType' /\ LogInv' /\ AnswerInv' /\ ClockInv' /\ RequestWire'
    BY <2>1 DEF IInv, BaseType, LogInv, AnswerInv, ClockInv, RequestWire
  <2>3. ASSUME NEW n \in Session
        PROVE  /\ WorkerInv(n)' /\ ResultInv(n)' /\ JobInv(n)' /\ SuffixInv(n)' /\ FreshInv(n)'
               /\ OrderInv(n)' /\ ChannelWire(n)' /\ LeadWire(n)'
    <3>1. /\ WorkerInv(n) /\ ResultInv(n) /\ JobInv(n) /\ SuffixInv(n) /\ FreshInv(n)
          /\ OrderInv(n) /\ ChannelWire(n) /\ LeadWire(n)
      BY DEF IInv
    <3>2. /\ Held(n)' = Held(n) /\ Pending(n)' = Pending(n) /\ Requests(n)' = Requests(n)
          /\ Lead(n)' = Lead(n)
      BY <2>1 DEF Held, Pending, Requests, Lead
    <3>3. WorkerInv(n)' /\ ResultInv(n)'
      BY <2>1, <3>1 DEF WorkerInv, ResultInv
    <3>4. JobInv(n)'
      BY <2>1, <3>1, <3>2 DEF JobInv
    <3>5. SuffixInv(n)'
      BY <2>1, <3>1, <3>2 DEF SuffixInv, Done
    <3>6. FreshInv(n)' /\ OrderInv(n)'
      BY <2>1, <3>1, <3>2 DEF FreshInv, OrderInv, Begun, Done
    <3>7. ChannelWire(n)' /\ LeadWire(n)'
      BY <2>1, <3>1, <3>2 DEF ChannelWire, LeadWire, LeadOut
    <3> QED
      BY <3>3, <3>4, <3>5, <3>6, <3>7
  <2> QED
    BY <2>2, <2>3 DEF IInv
<1>2. IInv /\ [Next]_vars => IInv'
  BY <1>1, StepInv DEF Next
<1> QED
  BY InitInv, <1>2, PTL DEF Spec

\* What still waits is what was accepted and not answered, each request once.
LEMMA WaitingAreUnanswered ==
  ASSUME BaseType, LogInv, NEW n \in Session, SuffixInv(n)
  PROVE  /\ Unanswered(n) = {Pending(n)[i] : i \in 1..Len(Pending(n))}
         /\ Cardinality(Unanswered(n)) = Len(Pending(n))
<1> DEFINE p == Pending(n)
<1>1. p \in Seq(Request) /\ Len(p) \in Nat
  BY PendingType
<1>2. /\ Done(n) \in Nat /\ Done(n) + Len(p) = Len(log[n]) /\ Len(log[n]) \in Nat
      /\ \A j \in 1..Len(p) : Done(n) + j \in 1..Len(log[n])
  BY DoneBounds
<1>3. \A j \in 1..Len(p) : p[j] = log[n][Done(n) + j] /\ answer[p[j]] = "Waiting"
  BY PendingWaits
<1>4. \A i, j \in 1..Len(p) : p[i] = p[j] => i = j
  <2> SUFFICES ASSUME NEW i \in 1..Len(p), NEW j \in 1..Len(p), p[i] = p[j] PROVE i = j
    OBVIOUS
  <2> DEFINE d == Done(n) + i
             e == Done(n) + j
  <2>1. d \in 1..Len(log[n]) /\ e \in 1..Len(log[n]) /\ log[n][d] = log[n][e]
    BY <1>2, <1>3
  <2> HIDE DEF d, e
  <2>2. d = e
    BY <2>1 DEF LogInv
  <2> QED
    BY <2>2, <1>1, <1>2 DEF d, e
<1>5. Unanswered(n) = {p[i] : i \in 1..Len(p)}
  <2>1. ASSUME NEW r \in Unanswered(n) PROVE r \in {p[i] : i \in 1..Len(p)}
    <3>1. PICK i \in 1..Len(log[n]) : r = log[n][i] /\ answer[log[n][i]] = "Waiting"
      BY DEF Unanswered
    <3>2. i > Done(n)
      BY <3>1 DEF SuffixInv
    <3> DEFINE j == i - Done(n)
    <3>3. j \in 1..Len(p) /\ Done(n) + j = i
      BY <1>1, <1>2, <3>2
    <3> HIDE DEF j, p
    <3>4. p[j] = r
      BY <1>3, <3>1, <3>3
    <3> QED
      BY <3>3, <3>4
  <2>2. ASSUME NEW i \in 1..Len(p) PROVE p[i] \in Unanswered(n)
    <3>1. Done(n) + i \in 1..Len(log[n]) /\ p[i] = log[n][Done(n) + i] /\ answer[p[i]] = "Waiting"
      BY <1>2, <1>3
    <3> HIDE DEF p
    <3> QED
      BY <3>1 DEF Unanswered
  <2> QED
    BY <2>1, <2>2 DEF Unanswered
<1>6. Cardinality({p[i] : i \in 1..Len(p)}) = Len(p)
  <2> HIDE DEF p
  <2> QED
    BY <1>1, <1>4, DistinctElements
<1> QED
  BY <1>5, <1>6

\* Type correctness of the actor; above all the count of slots stays within the channel,
\* neither below zero nor above Capacity, on every way a request is taken and answered.
THEOREM SerialTypeCorrect == Spec => []TypeOK
<1>1. IInv => TypeOK
  <2> SUFFICES ASSUME IInv PROVE TypeOK
    OBVIOUS
  <2>1. BaseType
    BY DEF IInv
  <2>2. FullJob \subseteq Job /\ NoJob \in Job
    BY DEF FullJob, Job
  <2>3. job \in [Session -> Job]
    BY <2>1, <2>2 DEF BaseType
  <2>4. ASSUME NEW n \in Session PROVE outstanding[n] \in 0..Capacity
    <3>1. outstanding[n] = Len(Pending(n)) /\ outstanding[n] <= Capacity
      BY DEF IInv, SuffixInv
    <3>2. Len(Pending(n)) \in Nat /\ Capacity \in Nat
      BY <2>1, PendingType, SerialAssumption
    <3> QED
      BY <3>1, <3>2
  <2>5. outstanding \in [Session -> 0..Capacity]
    BY <2>1, <2>4 DEF BaseType
  <2> QED
    BY <2>1, <2>3, <2>5 DEF BaseType, TypeOK
<1> QED
  BY Invariant, <1>1, PTL

\* A request is answered at most once, and the slots held are exactly those of the accepted
\* requests that still wait: on success, error, coalescing, removal and abandonment alike,
\* OperationReply gives back one slot for each reply and no more.
THEOREM SlotsMatchReplies == Spec => []SlotsAreUnanswered
<1>1. IInv => SlotsAreUnanswered
  <2> SUFFICES ASSUME IInv PROVE SlotsAreUnanswered
    OBVIOUS
  <2>1. \A r \in Request : answers[r] <= 1
    BY DEF IInv, AnswerInv
  <2>2. ASSUME NEW n \in Session PROVE outstanding[n] = Cardinality(Unanswered(n))
    <3>1. outstanding[n] = Len(Pending(n))
      BY DEF IInv, SuffixInv
    <3> QED
      BY <3>1, WaitingAreUnanswered DEF IInv
  <2> QED
    BY <2>1, <2>2 DEF SlotsAreUnanswered
<1> QED
  BY Invariant, <1>1, PTL

\* The worker that has the port open is the one the lease registry names, however many
\* sessions were opened and however many owners gave up waiting for their worker.
THEOREM PortHasOneOwner == Spec => []OnePortOwner
<1>1. IInv => OnePortOwner
  <2> SUFFICES ASSUME IInv, NEW n \in port PROVE lease = n
    BY DEF OnePortOwner
  <2>1. n \in Session
    BY DEF IInv, BaseType
  <2>2. WorkerInv(n)
    BY <2>1 DEF IInv
  <2> QED
    BY <2>2 DEF WorkerInv
<1> QED
  BY Invariant, <1>1, PTL

\* A line that changes the module goes out at most once, never again after a timeout and
\* never for a coalesced request, and its success means that it went out.
THEOREM EffectfulLinesGoOutOnce == Spec => []WritesGoOutOnce
<1>1. IInv => WritesGoOutOnce
  BY DEF IInv, RequestWire, WritesGoOutOnce, Exclusive
<1> QED
  BY Invariant, <1>1, PTL

\* A success never comes from an exchange that had begun before the request was accepted,
\* and within a session successes keep the order of submission, sharing an exchange only
\* among duplicate reads: what drain_duplicate_reads takes along may be taken along.
THEOREM CoalescedReadsAreFresh == Spec => []CoalescingIsSound
<1>1. IInv => CoalescingIsSound
  <2> SUFFICES ASSUME IInv PROVE CoalescingIsSound
    OBVIOUS
  <2>1. \A r \in Request : answer[r] = "Ok" => served[r] > since[r]
    BY DEF IInv, ClockInv
  <2>2. \A n \in Session : OrderInv(n)
    BY DEF IInv
  <2> QED
    BY <2>1, <2>2 DEF CoalescingIsSound, OrderInv
<1> QED
  BY Invariant, <1>1, PTL

\* Once a session is invalidated or closed, no step tells one of its waiting submitters of
\* a success, even when the answer had been read before: only a session request, which
\* owns the whole session, still gets its receipt.
THEOREM NoLateSuccess == Spec => NoSuccessAfterTerminal
<1> DEFINE Late == \A n \in Session : terminal[n] # "Running" =>
                     \A r \in Unanswered(n) : answer'[r] = "Ok" => Kind[r] = "Session"
<1>1. IInv /\ [Next]_vars => [Late]_vars
  <2> SUFFICES ASSUME IInv, NEW n \in Session, Worker(n) \/ Holder(n),
                      NEW m \in Session, terminal[m] # "Running",
                      NEW r \in Unanswered(m), answer'[r] = "Ok"
               PROVE  Kind[r] = "Session"
    BY DEF Next
  <2>1. /\ BaseType /\ LogInv /\ WorkerInv(n) /\ ResultInv(n) /\ JobInv(n) /\ SuffixInv(n)
        /\ SuffixInv(m)
    BY DEF IInv
  <2>2. Step(n) /\ BaseType'
    BY <2>1, StepForm, TypeStep
  <2>3. PICK i \in 1..Len(log[m]) : r = log[m][i] /\ answer[r] = "Waiting"
    BY DEF Unanswered
  <2>4. CASE m # n
    <3>1. answer'[log[m][i]] = answer[log[m][i]]
      BY <2>1, <2>2, <2>4, OnlyItsOwn
    <3> QED
      BY <2>3, <3>1
  <2>5. CASE m = n
    <3>1. r \in Request
      BY <2>1, <2>3, PendingType, ElementOfSeq
    <3>2. ~Keeps(n)
      BY <2>3 DEF Keeps
    <3>3. ASSUME NEW q \in Request, Accepts(n, q) \/ Refuses(n, q) PROVE FALSE
      <4>1. q # r
        BY <2>3, <3>3 DEF Accepts, Refuses
      <4>2. answer'[r] = answer[r]
        BY <2>1, <3>1, <3>3, <4>1 DEF Accepts, Refuses, BaseType
      <4> QED
        BY <2>3, <4>2
    <3>4. PICK first \in Seq(Request), told \in {"Ok", "Failed", "Terminal"} :
            Tells(n, first, told)
      BY <2>2, <3>2, <3>3 DEF Step
    <3> DEFINE R == {first[j] : j \in 1..Len(first)}
    <3>5. Reply(n, told, R)
      BY <3>4 DEF Tells
    <3>6. r \in R /\ told = "Ok"
      <4> HIDE DEF R
      <4> QED
        BY <2>3, <3>1, <3>5 DEF Reply
    <3>7. /\ worker[n] \in Busy /\ first = job[n].requests
          /\ Kind[Lead(n)] = "Session"
      BY <2>5, <3>4, <3>6 DEF Tells, Busy
    <3>8. Lead(n) = first[1] /\ 1 \in 1..Len(first)
      <4>1. job[n] \in FullJob
        BY <2>1, <3>7 DEF WorkerInv, BaseType
      <4> QED
        BY <3>7, <4>1, LeadType
    <3>9. PICK j \in 1..Len(first) : r = first[j]
      BY <3>6
    <3>10. j # 1 => Duplicate(first[j], first[1])
      BY <2>1, <3>7, <3>8 DEF JobInv
    <3> QED
      BY <3>7, <3>8, <3>9, <3>10 DEF Duplicate
  <2> QED
    BY <2>4, <2>5
<1> QED
  BY Invariant, <1>1, PTL DEF Spec, NoSuccessAfterTerminal
=============================================================================
