--------------------------- MODULE MCSerialActor ---------------------------
(* Constants of SerialActor for TLC: reads to coalesce around a write on one *)
(* session, and a write and one request of each exclusive kind on two.       *)
EXTENDS SerialActor, TLC

CONSTANTS read, again, write, prompt, tool, listing

MCReads == {read, again, write}
MCReadKind == [r \in MCReads |-> IF r = write THEN "Write" ELSE "Read"]
MCReadCommand == [r \in MCReads |-> IF r = write THEN "SetApn" ELSE "SignalQuality"]

MCExclusive == {write, prompt, tool, listing}
MCExclusiveKind ==
  [r \in MCExclusive |-> CASE r = write -> "Write" [] r = prompt -> "Prompt"
                           [] r = tool -> "Tool" [] r = listing -> "Session"]
MCExclusiveCommand == [r \in MCExclusive |-> "Other"]

\* Nothing tells the two sessions apart.
MCSessionSymmetry == Permutations(Session)

\* What the steps and the properties of that run look at: the numbers of the
\* exchanges and the order of the log are only of interest to CoalescingIsSound.
MCSessionView ==
  <<ownership, terminal, channel, worker, answer, answers, wire,
    [n \in Session |-> IF job[n] = NoJob THEN NoJob ELSE [job[n] EXCEPT !.number = 0]],
    [n \in Session |-> {log[n][i] : i \in 1..Len(log[n])}]>>
=============================================================================
