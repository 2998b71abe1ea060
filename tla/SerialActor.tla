---------------------------- MODULE SerialActor ----------------------------
(***************************************************************************)
(* The AT session actor (crates/windows-platform/src/serial.rs): one worker *)
(* thread owns the serial port and takes requests from a bounded channel;  *)
(* any number of threads submit to it, invalidate it (invalidate_epoch) or *)
(* close it (close_and_wait).  Sessions follow each other on one port, and *)
(* the process-wide lease hands the port from one worker to the next.      *)
(*                                                                         *)
(* Whatever the source does under submission_gate is one step.  The        *)
(* worker's own checks of the terminal flag are not under the gate, so     *)
(* checking, writing and reading are steps of their own and an             *)
(* invalidation may fall between any two of them.  The bytes are left out: *)
(* an exchange writes a line and then reads one outcome.                   *)
(***************************************************************************)
EXTENDS Integers, FiniteSets, Sequences

CONSTANTS
  Session,    \* actors opened on the port, in any order
  Request,    \* calls of execute, execute_prompt, try_execute_tool, ...
  Kind,       \* Kind[r]: the variant of enum Request that r is sent as
  Command,    \* Command[r]: the AT command of a read
  Capacity    \* REQUEST_QUEUE_CAPACITY

\* "Read" and "Write" are Request::Execute, "Session" is SmsHistory or
\* CheckedDelete, which own the whole session.
Kinds == {"Read", "Write", "Handshake", "Prompt", "Tool", "Session"}

ASSUME SerialAssumption ==
  /\ Kind \in [Request -> Kinds]
  /\ DOMAIN Command = Request
  /\ Capacity \in Nat \ {0}
  /\ "None" \notin Session

VARIABLES
  lease,        \* the session named in SERIAL_LEASES for this port, or NoSession
  handle,       \* the AtSessionActor value its owner holds
  port,         \* the sessions whose worker has the serial port open
  terminal,     \* ActorState.terminal
  outstanding,  \* ActorState.outstanding
  queue,        \* the request channel
  backlog,      \* run_actor's pending
  worker,       \* where the worker thread stands
  job,          \* the exchange it is in
  answer,       \* what the submitter of a request was told
  answers,      \* history: how many answers each request got
  log,          \* history: accepted requests of each session in order
  exchanges,    \* history: exchanges begun on the port
  since,        \* history: exchanges begun when a request was accepted
  served,       \* history: the exchange that answered a request with Ok
  wire          \* history: how often a request's own line went out

ownership == <<lease, handle, port>>
channel == <<queue, backlog, outstanding>>
replies == <<answer, answers>>
history == <<log, since>>
exchange == <<exchanges, wire>>
vars == <<ownership, terminal, channel, worker, job, replies, served, history, exchange>>

NoSession == "None"
NoJob == [requests |-> <<>>]

Place == {"None", "Poll", "Receive", "Check", "Write", "Read", "Finish", "Retire",
          "PortDrop", "LeaseDrop", "Exited"}
Answer == {"None", "Waiting", "Ok", "Failed", "Terminal", "Refused"}

\* safe_handshake sends AT and ATI, a prompt transaction the command and the body,
\* a session request several commands; the others are one exchange.
Rounds(r) == IF Kind[r] \in {"Handshake", "Prompt", "Session"} THEN 2 ELSE 1

\* Mutant: a write is tried again after a timeout as well.
Attempts_AlsoWrites(r) == IF Kind[r] \in {"Read", "Write", "Handshake"} THEN 2 ELSE 1

\* retry_policy: only reads are written again, once, and only after a timeout.
Attempts(r) == IF Kind[r] \in {"Read", "Handshake"} THEN 2 ELSE 1

Requests(n) == {job[n].requests[i] : i \in 1..Len(job[n].requests)}
Held(n) == backlog[n] \o queue[n]
Lead(n) == Head(job[n].requests)
Unanswered(n) == {r \in {log[n][i] : i \in 1..Len(log[n])} : answer[r] = "Waiting"}

Init ==
  /\ lease = NoSession /\ port = {}
  /\ handle = [n \in Session |-> "None"]
  /\ terminal = [n \in Session |-> "Running"]
  /\ outstanding = [n \in Session |-> 0]
  /\ queue = [n \in Session |-> <<>>] /\ backlog = [n \in Session |-> <<>>]
  /\ worker = [n \in Session |-> "None"] /\ job = [n \in Session |-> NoJob]
  /\ answer = [r \in Request |-> "None"] /\ answers = [r \in Request |-> 0]
  /\ log = [n \in Session |-> <<>>]
  /\ exchanges = 0 /\ since = [r \in Request |-> 0] /\ served = [r \in Request |-> 0]
  /\ wire = [r \in Request |-> 0]

-----------------------------------------------------------------------------
(* The threads that hold the actor *)

\* open_selected: the lease, then the port, then a worker for both.
Open(n) ==
  /\ handle[n] = "None" /\ lease = NoSession
  /\ lease' = n /\ port' = port \cup {n}
  /\ handle' = [handle EXCEPT ![n] = "Open"]
  /\ worker' = [worker EXCEPT ![n] = "Poll"]
  /\ UNCHANGED <<terminal, channel, job, replies, served, history, exchange>>

\* try_send, under the gate: refused when terminal or at capacity.
Submit(n, r) ==
  /\ handle[n] = "Open" /\ answer[r] = "None"
  /\ IF terminal[n] = "Running" /\ outstanding[n] < Capacity
     THEN /\ outstanding' = [outstanding EXCEPT ![n] = @ + 1]
          /\ queue' = [queue EXCEPT ![n] = Append(@, r)]
          /\ answer' = [answer EXCEPT ![r] = "Waiting"]
          /\ log' = [log EXCEPT ![n] = Append(@, r)]
          /\ since' = [since EXCEPT ![r] = exchanges]
     ELSE /\ answer' = [answer EXCEPT ![r] = "Refused"]
          /\ UNCHANGED <<outstanding, queue, log, since>>
  /\ UNCHANGED <<ownership, terminal, backlog, worker, job, answers, served, exchange>>

\* transition_locked: the first terminal state stays.
Transition(n, t) ==
  terminal' = [terminal EXCEPT ![n] = IF @ = "Running" THEN t ELSE @]

\* invalidate_epoch, from any thread that holds the actor, above all from a caller
\* whose wait for a reply timed out.  The native cancellation that follows only
\* makes a blocked read return sooner.
InvalidateEpoch(n) ==
  /\ handle[n] = "Open" /\ terminal[n] = "Running"
  /\ Transition(n, "Removed")
  /\ UNCHANGED <<ownership, channel, worker, job, replies, served, history, exchange>>

\* close_and_wait begins, called by the owner or by Drop.
Close(n) ==
  /\ handle[n] = "Open"
  /\ handle' = [handle EXCEPT ![n] = "Closing"]
  /\ Transition(n, "Closed")
  /\ UNCHANGED <<lease, port, channel, worker, job, replies, served, history, exchange>>

\* The worker reported its end: it is joined.
Joined(n) ==
  /\ handle[n] = "Closing" /\ worker[n] = "Exited"
  /\ handle' = [handle EXCEPT ![n] = "Gone"]
  /\ UNCHANGED <<lease, port, terminal, channel, worker, job, replies, served, history,
                 exchange>>

\* Mutant: an owner that stops waiting gives the port to the next one.
CloseTimesOut_FreesLease(n) ==
  /\ handle[n] = "Closing" /\ worker[n] # "Exited"
  /\ handle' = [handle EXCEPT ![n] = "Gone"]
  /\ lease' = NoSession
  /\ UNCHANGED <<port, terminal, channel, worker, job, replies, served, history, exchange>>

\* The wait for the worker timed out: it is left running, and keeps port and lease.
CloseTimesOut(n) ==
  /\ handle[n] = "Closing" /\ worker[n] # "Exited"
  /\ \E next \in {"Open", "Gone"} : handle' = [handle EXCEPT ![n] = next]
  /\ UNCHANGED <<lease, port, terminal, channel, worker, job, replies, served, history,
                 exchange>>

-----------------------------------------------------------------------------
(* The worker: run_actor *)

\* Mutant: one slot is given back for each exchange, not for each reply.
Reply_OneSlot(n, told, R) ==
  /\ answer' = [r \in Request |-> IF r \in R THEN told ELSE answer[r]]
  /\ answers' = [r \in Request |-> IF r \in R THEN answers[r] + 1 ELSE answers[r]]
  /\ outstanding' = [outstanding EXCEPT ![n] = IF R = {} THEN @ ELSE @ - 1]

\* OperationReply::send and its Drop: the answer, and one slot less.
Reply(n, told, R) ==
  /\ answer' = [r \in Request |-> IF r \in R THEN told ELSE answer[r]]
  /\ answers' = [r \in Request |-> IF r \in R THEN answers[r] + 1 ELSE answers[r]]
  /\ outstanding' = [outstanding EXCEPT ![n] = @ - Cardinality(R)]

\* The top of the loop.
Poll(n) ==
  /\ worker[n] = "Poll" /\ terminal[n] = "Running"
  /\ worker' = [worker EXCEPT ![n] = "Receive"]
  /\ UNCHANGED <<ownership, terminal, channel, job, replies, served, history, exchange>>

Duplicate(q, r) == Kind[q] = "Read" /\ Kind[r] = "Read" /\ Command[q] = Command[r]

\* Mutant: the drain compares nothing and takes all that is queued.
Drained_Everything(q, r) == {Len(q)}

\* drain_duplicate_reads: how many duplicates of r stand at the head of the channel
\* before the first other request (one number).
Drained(q, r) ==
  {run \in 0..Len(q) : /\ \A i \in 1..run : Duplicate(q[i], r)
                       /\ run < Len(q) => ~Duplicate(q[run + 1], r)}

\* Start on r, with rest the channel behind it: a read takes its duplicates along,
\* and the request that ended the run has left the channel too.
Begin(n, r, rest) ==
  \E run \in Drained(rest, r) :
    LET left == SubSeq(rest, run + 1, Len(rest))
        out == IF Kind[r] = "Read" /\ left # <<>> THEN 1 ELSE 0
    IN  /\ job' = [job EXCEPT ![n] =
                     [requests |-> <<r>> \o SubSeq(rest, 1, run),
                      left |-> Rounds(r), attempt |-> 1, number |-> 0, result |-> "None"]]
        /\ backlog' = [backlog EXCEPT ![n] = SubSeq(left, 1, out)]
        /\ queue' = [queue EXCEPT ![n] = SubSeq(left, out + 1, Len(left))]

\* The backlog, one request at most, goes first; an empty channel is left after 10 ms.
Receive(n) ==
  /\ worker[n] = "Receive"
  /\ \/ /\ Held(n) # <<>>
        /\ Begin(n, Head(Held(n)), Tail(Held(n)))
        /\ worker' = [worker EXCEPT ![n] = "Check"]
     \/ /\ Held(n) = <<>>
        /\ worker' = [worker EXCEPT ![n] = "Poll"]
        /\ UNCHANGED <<job, queue, backlog>>
  /\ UNCHANGED <<ownership, terminal, outstanding, replies, served, history, exchange>>

\* The exchange is over with this result.
EndExchange(n, result) ==
  /\ job' = [job EXCEPT ![n].result = result]
  /\ worker' = [worker EXCEPT ![n] = "Finish"]

\* An attempt timed out: execute_command's second attempt, or the error.
TimedOut(n) ==
  IF job[n].attempt < Attempts(Lead(n))
  THEN /\ job' = [job EXCEPT ![n].attempt = @ + 1]
       /\ worker' = [worker EXCEPT ![n] = "Check"]
  ELSE EndExchange(n, "Failed")

\* Every kind looks at the terminal flag, and at its own control, before it writes.
CheckBeforeWrite(n) ==
  /\ worker[n] = "Check"
  /\ \/ /\ terminal[n] = "Running"
        /\ worker' = [worker EXCEPT ![n] = "Write"] /\ UNCHANGED job
     \/ terminal[n] # "Running" /\ EndExchange(n, "Removed")
     \/ Kind[Lead(n)] \in {"Prompt", "Tool", "Session"} /\ EndExchange(n, "Failed")
  /\ UNCHANGED <<ownership, terminal, channel, replies, served, history, exchange>>

\* write_all: the line is out, or only part of it, which the caller cannot tell.  A
\* write that times out counts as an attempt that did.
WriteLine(n) ==
  /\ worker[n] = "Write"
  /\ exchanges' = exchanges + 1
  /\ wire' = IF job[n].left = 1 THEN [wire EXCEPT ![Lead(n)] = @ + 1] ELSE wire
  /\ \/ /\ job' = [job EXCEPT ![n].number = exchanges + 1]
        /\ worker' = [worker EXCEPT ![n] = "Read"]
     \/ TimedOut(n)
     \/ EndExchange(n, "Failed")
     \/ EndExchange(n, "Removed")
  /\ UNCHANGED <<ownership, terminal, channel, replies, served, history>>

\* The round succeeded: the next one of the same request, or the end.
ReadOk(n) ==
  /\ worker[n] = "Read"
  /\ terminal[n] = "Running" \/ Kind[Lead(n)] = "Tool"  \* a tool read looks no more
  /\ IF job[n].left = 1
     THEN EndExchange(n, "Ok")
     ELSE \/ /\ job' = [job EXCEPT ![n].left = @ - 1, ![n].attempt = 1]
             /\ worker' = [worker EXCEPT ![n] = "Check"]
          \/ Kind[Lead(n)] = "Prompt" /\ EndExchange(n, "Ok")  \* a final code, no prompt
  /\ UNCHANGED <<ownership, terminal, channel, replies, served, history, exchange>>

\* The deadline passed without a final code.
ReadTimeout(n) ==
  /\ worker[n] = "Read" /\ terminal[n] = "Running"
  /\ TimedOut(n)
  /\ UNCHANGED <<ownership, terminal, channel, replies, served, history, exchange>>

\* A final error code, a foreign line, a broken or removed port, or the flag.
ReadFails(n) ==
  /\ worker[n] = "Read"
  /\ \/ EndExchange(n, "Removed")
     \/ /\ terminal[n] = "Running" \/ Kind[Lead(n)] \in {"Prompt", "Tool", "Session"}
        /\ EndExchange(n, "Failed")
  /\ UNCHANGED <<ownership, terminal, channel, replies, served, history, exchange>>

\* Mutant: the result of the exchange is told without another look at the flag.
Told_AsRead(n) == IF job[n].result = "Removed" THEN "Terminal" ELSE job[n].result

\* What the submitters are told: after an invalidation nobody hears of a success,
\* but a tool keeps its own error.
Told(n) ==
  IF Kind[Lead(n)] = "Tool" /\ job[n].result # "Ok" THEN "Failed"
  ELSE IF terminal[n] # "Running" \/ job[n].result = "Removed" THEN "Terminal"
  ELSE job[n].result

\* run_actor's arms after the exchange, under the gate.  A removed port ends the
\* session, and so does any failed tool transaction.
Finish(n) ==
  /\ worker[n] = "Finish" /\ Kind[Lead(n)] # "Session"
  /\ IF \/ job[n].result = "Removed"
        \/ Kind[Lead(n)] = "Tool" /\ job[n].result # "Ok"
     THEN Transition(n, "Removed") ELSE UNCHANGED terminal
  /\ Reply(n, Told(n), Requests(n))
  /\ served' = [r \in Request |-> IF r \in Requests(n) /\ Told(n) = "Ok"
                                  THEN job[n].number ELSE served[r]]
  /\ job' = [job EXCEPT ![n] = NoJob]
  /\ worker' = [worker EXCEPT ![n] = "Poll"]
  /\ UNCHANGED <<ownership, queue, backlog, history, exchange>>

\* SmsHistory and CheckedDelete answer with their receipt, whatever the flag says,
\* and only then close the session.
FinishSession(n) ==
  /\ worker[n] = "Finish" /\ Kind[Lead(n)] = "Session"
  /\ Reply(n, IF job[n].result = "Ok" THEN "Ok" ELSE "Failed", Requests(n))
  /\ served' = [r \in Request |-> IF r \in Requests(n) /\ job[n].result = "Ok"
                                  THEN job[n].number ELSE served[r]]
  /\ job' = [job EXCEPT ![n] = NoJob]
  /\ worker' = [worker EXCEPT ![n] = "Retire"]
  /\ UNCHANGED <<ownership, terminal, queue, backlog, history, exchange>>

Retire(n) ==
  /\ worker[n] = "Retire"
  /\ Transition(n, "Closed")
  /\ worker' = [worker EXCEPT ![n] = "Poll"]
  /\ UNCHANGED <<ownership, channel, job, replies, served, history, exchange>>

\* Mutant: what is still queued is forgotten with the channel.
Abandon_Silently(n) ==
  /\ worker[n] = "Poll" /\ terminal[n] # "Running"
  /\ queue' = [queue EXCEPT ![n] = <<>>] /\ backlog' = [backlog EXCEPT ![n] = <<>>]
  /\ worker' = [worker EXCEPT ![n] = "PortDrop"]
  /\ UNCHANGED <<ownership, terminal, outstanding, job, replies, served, history, exchange>>

\* Mutant: the loop is left on a removal only.
Abandon_OnlyRemoved(n) ==
  /\ worker[n] = "Poll" /\ terminal[n] = "Removed"
  /\ Reply(n, "Terminal", {Held(n)[i] : i \in 1..Len(Held(n))})
  /\ queue' = [queue EXCEPT ![n] = <<>>] /\ backlog' = [backlog EXCEPT ![n] = <<>>]
  /\ worker' = [worker EXCEPT ![n] = "PortDrop"]
  /\ UNCHANGED <<ownership, terminal, job, served, history, exchange>>

\* The loop ends; each request still held is dropped, and its Drop answers it.
Abandon(n) ==
  /\ worker[n] = "Poll" /\ terminal[n] # "Running"
  /\ Reply(n, "Terminal", {Held(n)[i] : i \in 1..Len(Held(n))})
  /\ queue' = [queue EXCEPT ![n] = <<>>] /\ backlog' = [backlog EXCEPT ![n] = <<>>]
  /\ worker' = [worker EXCEPT ![n] = "PortDrop"]
  /\ UNCHANGED <<ownership, terminal, job, served, history, exchange>>

\* Destruction order: the port, then the lease, then the owner learns of it.
DropPort(n) ==
  /\ worker[n] = "PortDrop"
  /\ port' = port \ {n}
  /\ worker' = [worker EXCEPT ![n] = "LeaseDrop"]
  /\ UNCHANGED <<lease, handle, terminal, channel, job, replies, served, history, exchange>>

DropLease(n) ==
  /\ worker[n] = "LeaseDrop"
  /\ lease' = NoSession
  /\ worker' = [worker EXCEPT ![n] = "Exited"]
  /\ UNCHANGED <<handle, port, terminal, channel, job, replies, served, history, exchange>>

-----------------------------------------------------------------------------

Worker(n) ==
  \/ Poll(n) \/ Receive(n) \/ CheckBeforeWrite(n) \/ WriteLine(n)
  \/ ReadOk(n) \/ ReadTimeout(n) \/ ReadFails(n)
  \/ Finish(n) \/ FinishSession(n) \/ Retire(n)
  \/ Abandon(n) \/ DropPort(n) \/ DropLease(n)

Holder(n) ==
  \/ Open(n) \/ InvalidateEpoch(n) \/ Close(n) \/ Joined(n) \/ CloseTimesOut(n)
  \/ \E r \in Request : Submit(n, r)

Next == \E n \in Session : Worker(n) \/ Holder(n)

\* The worker runs, and no read or write blocks for ever (CommTimeouts); its
\* holders owe nothing.
Spec == Init /\ [][Next]_vars
FairSpec == Spec /\ \A n \in Session : WF_vars(Worker(n))

-----------------------------------------------------------------------------
(* Properties *)

Job == {NoJob} \cup
  [requests : Seq(Request), left : 1..2, attempt : 1..2, number : Nat,
   result : {"None", "Ok", "Failed", "Removed"}]

TypeOK ==
  /\ lease \in Session \cup {NoSession} /\ port \subseteq Session
  /\ handle \in [Session -> {"None", "Open", "Closing", "Gone"}]
  /\ terminal \in [Session -> {"Running", "Removed", "Closed"}]
  /\ outstanding \in [Session -> 0..Capacity]
  /\ queue \in [Session -> Seq(Request)] /\ backlog \in [Session -> Seq(Request)]
  /\ worker \in [Session -> Place] /\ job \in [Session -> Job]
  /\ answer \in [Request -> Answer] /\ answers \in [Request -> Nat]
  /\ log \in [Session -> Seq(Request)] /\ exchanges \in Nat
  /\ since \in [Request -> Nat] /\ served \in [Request -> Nat]
  /\ wire \in [Request -> Nat]

\* A request is answered at most once, and a slot of the bounded channel is held
\* by exactly the accepted requests that still wait, on every way out of the worker.
SlotsAreUnanswered ==
  /\ \A r \in Request : answers[r] <= 1
  /\ \A n \in Session : outstanding[n] = Cardinality(Unanswered(n))

\* A line that changes the module goes out at most once, and a success of it means
\* that its own line went out: never a retry, never a coalesced write.
WritesGoOutOnce ==
  \A r \in Request : Kind[r] \in {"Write", "Prompt", "Tool"} =>
    /\ wire[r] <= 1
    /\ Kind[r] # "Prompt" /\ answer[r] = "Ok" => wire[r] = 1

\* Coalescing is sound: a success comes from an exchange begun after the request was
\* accepted, never from an answer that was already on its way; and within a session
\* successes come in the order of submission, where only duplicate reads share an
\* exchange, so that no read is answered from before a write it follows.
CoalescingIsSound ==
  /\ \A r \in Request : answer[r] = "Ok" => served[r] > since[r]
  /\ \A n \in Session : \A i, j \in 1..Len(log[n]) :
       LET first == log[n][i]
           later == log[n][j]
       IN  i < j /\ answer[first] = "Ok" /\ answer[later] = "Ok" =>
             \/ served[first] < served[later]
             \/ served[first] = served[later] /\ Duplicate(first, later)

\* The port has one owner, and it is the one in the registry, even when the owner
\* of an earlier session gave up waiting for its worker.
OnePortOwner == \A n \in port : lease = n

\* No request on the shared actor succeeds after its session was invalidated or
\* closed, though the device may have answered before.
NoSuccessAfterTerminal ==
  [][\A n \in Session : terminal[n] # "Running" =>
       \A r \in Unanswered(n) : answer'[r] = "Ok" => Kind[r] = "Session"]_vars

\* Whoever submitted is told something, whether the session lives or dies.
EveryRequestAnswered == \A r \in Request : answer[r] = "Waiting" ~> answer[r] # "Waiting"

\* An invalidated or closed session gives the port back.
TerminalFreesPort == \A n \in Session : terminal[n] # "Running" ~> n \notin port /\ lease # n
=============================================================================
