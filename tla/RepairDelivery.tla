--------------------------- MODULE RepairDelivery ---------------------------
(***************************************************************************)
(* What the panel may tell its user of a repair another process carries    *)
(* out: applied, only if it was written; not done, only if it was not, and *)
(* from then on it never is; anything else leaves the matter open.  A      *)
(* repair is written at most once.  "Not done" promises nothing of a       *)
(* repair that was lost: its carrier was killed, or the way to it failed.  *)
(***************************************************************************)
CONSTANT Op

VARIABLES
  done,   \* the repairs that were written
  told,   \* what the user heard of each
  lost    \* the repairs that were lost

vars == <<done, told, lost>>

Init ==
  /\ done = {} /\ lost = {}
  /\ told = [o \in Op |-> "Nothing"]

Write(o) ==
  /\ o \notin done
  /\ told[o] = "NotDone" => o \in lost
  /\ done' = done \cup {o}
  /\ UNCHANGED <<told, lost>>

Tell(o, what) ==
  /\ told[o] = "Nothing"
  /\ what = "Applied" => o \in done
  /\ what = "NotDone" => o \notin done \/ o \in lost'
  /\ told' = [told EXCEPT ![o] = what]
  /\ lost' \in {lost, lost \cup {o}}
  /\ UNCHANGED done

Lose(o) == lost' = lost \cup {o} /\ UNCHANGED <<done, told>>

Next ==
  \E o \in Op :
    \/ Write(o) \/ Lose(o)
    \/ \E what \in {"Applied", "Failed", "NotDone", "Unknown"} : Tell(o, what)

Spec == Init /\ [][Next]_vars
=============================================================================
