-------------------------- MODULE SingleBoardGate --------------------------
(***************************************************************************)
(* SingleBoardLeader keeps the promise of TorqueGate from the end of its   *)
(* constructor until a callback fails or shut_down begins: the phase is    *)
(* where the timer callback stands, and the registers are the servos'.     *)
(***************************************************************************)
EXTENDS SingleBoardLeader

Phase ==
  IF callback_raised \/ pc["main"] \notin {"spinning", "stopping"} THEN "over"
  ELSE CASE pc["timer"] = "enabling"                   -> "arming"
         [] pc["timer"] \in {"zeroing", "disabling"}   -> "disarming"
         [] OTHER -> IF leader_torque_enabled THEN "armed" ELSE "idle"

Session == INSTANCE TorqueGate WITH
             Board     <- {1},
             phase     <- Phase,
             energized <- [b \in {1} |-> driver.energized],
             goal      <- [b \in {1} |-> driver.goal]

\* The single-board leader begins off, and each of its steps is one the session allows, up
\* to the one that ends it: no transaction of the callback switches a servo on but to arm
\* from zero, sends a current unless all are on, or leaves an idle leader that is not off
\* (_set_leader_torque_enabled, _apply_leader_torque, control_loop_callback).
KeepsSession ==
  /\ Phase = "idle" /\ Session!Off
  /\ [][Phase # "over" => [Session!Next]_(Session!vars)]_vars
=============================================================================
