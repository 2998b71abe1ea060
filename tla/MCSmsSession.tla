---------------------------- MODULE MCSmsSession ----------------------------
(* Constants of SmsSession for TLC: two cards, a storage the code has a token *)
(* for (MT) beside the two that can be asked for, and one it has none for.    *)
EXTENDS SmsSession

MCHolder == {"SM", "MT", "SR"}
MCTarget == {"SM", "ME"}
MCKnown == {"SM", "ME", "MT"}
=============================================================================
