----------------------------- MODULE TorqueGate -----------------------------
(***************************************************************************)
(* What the leader arm promises whoever holds it, whatever fails inside:   *)
(* a session in five phases, and the only changes of the servos' torque    *)
(* registers and of the currents sent to them that each phase allows.      *)
(***************************************************************************)
CONSTANTS Board, Servo, Level

VARIABLES
  phase,      \* "preparing", "idle", "arming", "armed", "disarming" or "over"
  energized,  \* [Board -> [Servo -> BOOLEAN]]
  goal        \* [Board -> Level], the last current sent

registers == <<energized, goal>>
vars == <<phase, registers>>

\* Idle is wholly off with zero current, armed is wholly on.
Off == \A b \in Board : goal[b] = 0 /\ \A i \in Servo : ~energized[b][i]
On  == \A b \in Board, i \in Servo : energized[b][i]

Init == phase = "preparing"

\* The constructor may switch anything; it hands over a leader that is off.
Prepare ==
  /\ phase = "preparing"
  /\ phase' \in {"preparing", "idle", "over"}
  /\ phase' = "idle" => Off'

\* Servos are switched on only in this phase, and only on boards that hold zero.
Arm ==
  /\ phase = "arming"
  /\ phase' \in {"arming", "armed", "over"}
  /\ \A b \in Board, i \in Servo :
       energized'[b][i] # energized[b][i] => energized'[b][i] /\ goal[b] = 0
  /\ phase' = "armed" => On'
  /\ UNCHANGED goal

\* Currents are sent only while every servo is on.
Command ==
  /\ phase = "armed" /\ On
  /\ phase' \in {"armed", "over"}
  /\ UNCHANGED energized

\* On the way out servos are only switched off, and currents only zeroed.
Release ==
  /\ phase \in {"disarming", "over"}
  /\ phase' \in {phase, "over"} \cup (IF phase = "disarming" THEN {"idle"} ELSE {})
  /\ \A b \in Board, i \in Servo : energized'[b][i] => energized[b][i]
  /\ \A b \in Board : goal'[b] \in {goal[b], 0}
  /\ phase' = "idle" => Off'

\* Deciding: to arm an idle leader, to disarm an armed one, or to end the session.
Decide ==
  /\ \/ phase = "idle"  /\ phase' \in {"arming", "over"}
     \/ phase = "armed" /\ phase' \in {"disarming", "over"}
  /\ UNCHANGED registers

Next == Prepare \/ Arm \/ Command \/ Release \/ Decide

Spec == Init /\ [][Next]_vars
=============================================================================
