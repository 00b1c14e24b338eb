----------------------------- MODULE LeaderGate -----------------------------
(***************************************************************************)
(* LeaderTorque keeps the promise of TorqueGate: the phase is where the    *)
(* control thread stands, and the registers are those of the servos.       *)
(***************************************************************************)
EXTENDS LeaderTorque

Phase ==
  CASE pc["main"] \in {"off", "mode", "on", "zero", "off_again"} -> "preparing"
    [] pc["main"] = "aborted"                                     -> "over"
    [] pc["control"] \in {"exited", "cleanup"}                    -> "over"
    [] pc["control"] = "enabling"                                 -> "arming"
    [] pc["control"] \in {"zeroing", "disabling"}                 -> "disarming"
    [] OTHER -> IF leader_torque_enabled THEN "armed" ELSE "idle"

Gate == INSTANCE TorqueGate WITH
          phase     <- Phase,
          energized <- [b \in Board |-> driver[b].energized],
          goal      <- [b \in Board |-> driver[b].goal]

\* Every step of the dual-board leader is one the session allows: torque is switched on
\* only in a board that was last sent zero and never after the control thread has begun
\* to fail or stop, currents are sent only to a leader all of whose servos are on, and an
\* idle leader is off (_set_leader_torque_enabled, _apply_leader_torque, shut_down).
KeepsGate == Gate!Spec
=============================================================================
