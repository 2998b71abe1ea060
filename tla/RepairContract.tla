--------------------------- MODULE RepairContract ---------------------------
(***************************************************************************)
(* What the controlled repair promises its user, whatever threads, scans   *)
(* and queues carry it out: a plan is shown once; its write is started at  *)
(* most once, out of the plan being shown, with no other write under way   *)
(* and nothing moved since; and a plan withdrawn is never written.         *)
(***************************************************************************)
CONSTANT Plan

VARIABLES
  stage,   \* what became of each plan
  still    \* nothing moved since the last plan was shown

vars == <<stage, still>>

\* p, and no other plan, comes from one stage into another.
Becomes(p, from, to) ==
  /\ stage[p] = from
  /\ stage' = [stage EXCEPT ![p] = to]

NoneIs(s) == \A p \in Plan : stage[p] # s

Init ==
  /\ stage = [p \in Plan |-> "Unused"]
  /\ still = TRUE

\* One plan at a time, and none under a write.
Show(p) ==
  /\ Becomes(p, "Unused", "Shown")
  /\ NoneIs("Shown") /\ NoneIs("Writing")
  /\ still' = TRUE

\* Cancelled, expired, or overtaken by what was observed.
Withdraw(p) == Becomes(p, "Shown", "Withdrawn") /\ still' \in {still, FALSE}

Move == still' = FALSE /\ UNCHANGED stage

StartWrite(p) ==
  /\ still /\ NoneIs("Writing")
  /\ Becomes(p, "Shown", "Writing")
  /\ UNCHANGED still

\* The consent is used up, but the write cannot be started.
GiveUp(p) == Becomes(p, "Shown", "Ended") /\ UNCHANGED still

EndWrite(p) == Becomes(p, "Writing", "Ended") /\ UNCHANGED still

Next ==
  \/ Move
  \/ \E p \in Plan : Show(p) \/ Withdraw(p) \/ StartWrite(p) \/ GiveUp(p) \/ EndWrite(p)

Spec == Init /\ [][Next]_vars
=============================================================================
