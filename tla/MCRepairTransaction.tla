------------------------ MODULE MCRepairTransaction ------------------------
(* Constants of RepairTransaction for TLC: two modules that can change places *)
(* or one, the two USB profiles, and the action with or without readback.     *)
EXTENDS RepairTransaction

CONSTANTS dji, other, ndis, ecm

MCDevice == {dji, other}
MCOneDevice == {dji}
MCValue == {ndis, ecm}
MCSetting == {"SetUsbNetProfile"}
MCRestart == {"RestartModule"}
=============================================================================
