--------------------------- MODULE MCEvidenceFlow ---------------------------
(* Constants of EvidenceFlow for TLC: a module on either of two adapters, and *)
(* another module.                                                            *)
EXTENDS EvidenceFlow

CONSTANTS a1, a2, b, dji, other

MCAttachment == {a1, a2, b}
MCIdOf == [a \in MCAttachment |-> IF a = b THEN other ELSE dji]
=============================================================================
