-------------------------- MODULE MCPlanLifecycle --------------------------
(* Constants of PlanLifecycle for TLC: an action that needs the adapter's     *)
(* checks and one that only needs the target, a writable and a read-only      *)
(* module, and two grounds.                                                   *)
EXTENDS PlanLifecycle

CONSTANTS adapterAction, deviceAction, dji, generic, up, down

MCAction == {adapterAction, deviceAction}
MCGround == {up, down}
MCReadyOn == [a \in MCAction |-> IF a = adapterAction THEN {up} ELSE MCGround]
MCTarget == {dji, generic}
MCWritable == {dji}
=============================================================================
