--------------------------- MODULE MCConsentFlow ---------------------------
(* Constants of ConsentFlow for TLC: two profiles of one kind of action on   *)
(* one writable module.  MCOwnTag gives each its own tag, MCSharedTag the    *)
(* same one, as ActionKindTag::ApplyDnsProfile does.                         *)
EXTENDS ConsentFlow

CONSTANTS automaticDns, staticDns, dji, up

MCAction == {automaticDns, staticDns}
MCGround == {up}
MCReadyOn == [a \in MCAction |-> MCGround]
MCTarget == {dji}
MCOwnTag == [a \in MCAction |-> a]
MCSharedTag == [a \in MCAction |-> "ApplyDnsProfile"]
=============================================================================
