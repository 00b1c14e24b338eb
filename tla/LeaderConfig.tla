---------------------------- MODULE LeaderConfig ----------------------------
(***************************************************************************)
(* The calibration contract DFC hands to a leader at launch                *)
(* (leader_config.py), what load_leader_model refuses, and the coordinate  *)
(* changes that go through it on every control iteration                   *)
(* (factr_teleop.py): motors on the bus -> full raw frame -> FACTR model,  *)
(* and model torque -> full motor frame -> goal currents on the bus        *)
(* (driver.py).                                                            *)
(*                                                                         *)
(* Angles, velocities, torques and gains are integers, in units as fine as *)
(* one likes; a goal current is a whole number of counts, Grain[s] units   *)
(* of torque each.  Joints are numbered from 0 as in the code and the      *)
(* gripper's slot is Dof.                                                  *)
(***************************************************************************)
EXTENDS Integers, Sequences, FiniteSets

CONSTANTS Dof,          \* num_arm_joints
          Home,         \* model_home_q_rad of the hardware configuration: [Joint -> Int]
          GripperSign,  \* its gripper hardware sign
          Grain,        \* torque of one count of current, by slot: 1 / torque_to_current_map
          CurrentLimit, \* the clip of set_current, 900 counts
          RawFrame,     \* bound: the raw frames a read may find
          TorqueFrame   \* bound: the torques a control iteration may ask for

Joint == 0..(Dof - 1)
Slot  == 0..Dof
Sign  == {-1, 1}

ASSUME ConfigAssumption ==
  /\ Dof \in Nat \ {0} /\ Home \in [Joint -> Int] /\ GripperSign \in Sign
  /\ Grain \in [Slot -> Nat \ {0}] /\ CurrentLimit \in Nat
  /\ RawFrame \subseteq [Slot -> Int] /\ TorqueFrame \subseteq [Slot -> Int]

All == <<>>   \* connected_joint_indices absent: an empty list is refused
SeqOn(S) == UNION {[1..n -> S] : n \in 0..Dof}

VARIABLES
  contract,   \* DFC_LEADER_CONFIG
  launched,   \* no, refused, running
  physical,   \* [Slot -> Int]: where the motors are (those that exist) ...
  moving,     \* ... and how fast
  frame,      \* _raw_joint_state_cache: the full raw position and velocity, or no read yet
  asked,      \* the torque of the last iteration, in model axes
  driven,     \* the goal current each motor on the bus was sent, in counts
  reported    \* what set_leader_joint_torque returned, for the arm's joints

configVars == <<contract, launched, physical, moving, frame, asked, driven, reported>>

Zero == [s \in Slot |-> 0]

\* Contracts without a defect ...
Sound == [side : {"left"}, start : {1, 9}, connected : {All} \union {<<j>> : j \in Joint},
          offsets : {[j \in Joint |-> j + 1]}, flips : {<<>>} \union {<<j>> : j \in Joint},
          signs : [Joint -> Sign], gain : {[j \in Joint |-> 1], [j \in Joint |-> 2]},
          drop : {1}, open : {0}, closed : {3}, null : {1}]

\* ... and what may be wrong in one of its fields, or merely different.
Defects(c) ==
  {[c EXCEPT !.side = "right"], [c EXCEPT !.start = 5], [c EXCEPT !.drop = 0],
   [c EXCEPT !.closed = c.open], [c EXCEPT !.null = -1]}
  \union {[c EXCEPT !.connected = q] : q \in SeqOn(-1..Dof) \ {<<>>}}
  \union {[c EXCEPT !.flips = q] : q \in SeqOn(-1..Dof)}
  \union {[c EXCEPT !.signs[j] = 0] : j \in Joint}
  \union {[c EXCEPT !.gain[j] = g] : j \in Joint, g \in {-1, 0, 3}}

ConfigInit ==
  /\ \E c \in Sound : contract \in {c} \union Defects(c)
  /\ launched = "no"
  /\ physical = Zero /\ moving = Zero /\ frame = <<>>
  /\ asked = Zero /\ driven = Zero /\ reported = [j \in Joint |-> 0]
-----------------------------------------------------------------------------
(* load_leader_model. *)

Distinct(q) == \A i, k \in DOMAIN q : q[i] = q[k] => i = k
Increasing(q) == \A i, k \in DOMAIN q : i < k => q[i] < q[k]
Elements(q) == {q[i] : i \in DOMAIN q}

\* Mutant: the signs are multiplied without being looked at.
AcceptableAnySign(c) ==
  /\ c.side = "left" /\ c.start \in {1, 9} /\ c.drop = 1
  /\ Elements(c.connected) \subseteq Joint /\ Increasing(c.connected)
  /\ \A j \in Joint : c.gain[j] \in 0..2
  /\ Elements(c.flips) \subseteq Joint /\ Distinct(c.flips)
  /\ c.open # c.closed /\ c.null >= 0

Acceptable(c) ==
  /\ c.side = "left" /\ c.start \in {1, 9} /\ c.drop = 1
  /\ Elements(c.connected) \subseteq Joint /\ Increasing(c.connected)
  /\ \A j \in Joint : c.gain[j] \in 0..2 /\ c.signs[j] \in Sign
  /\ Elements(c.flips) \subseteq Joint /\ Distinct(c.flips)
  /\ c.open # c.closed /\ c.null >= 0

RawSign(c, j) == IF j \in Elements(c.flips) THEN -1 ELSE 1
ModelSign(c, j) == RawSign(c, j) * c.signs[j]

\* Mutant: DFC's offset is taken for the driver's.
DfcOffset(c, j) == c.offsets[j]

\* DFC adds its offset before its sign, the driver subtracts.
JointOffset(c, j) == -c.offsets[j]

\* motor_signs: the arm's from DFC, the gripper's from the hardware configuration.
MotorSign(c, s) == IF s \in Joint THEN ModelSign(c, s) ELSE GripperSign

Launch ==
  /\ launched = "no"
  /\ launched' = IF Acceptable(contract) THEN "running" ELSE "refused"
  /\ UNCHANGED <<contract, physical, moving, frame, asked, driven, reported>>
-----------------------------------------------------------------------------
(* One control iteration. *)

\* hardware_motor_indices
OnBus(c) == IF c.connected = All THEN Slot ELSE Elements(c.connected)

\* Mutant: absent joints are put at the raw home, without the model's sign.
SyntheticUnsigned(c) ==
  [s \in Slot |-> IF s \in Joint THEN JointOffset(c, s) + Home[s] ELSE c.open]

\* synthetic_raw_position: dividing by a sign is multiplying by it.
Synthetic(c) ==
  [s \in Slot |-> IF s \in Joint THEN JointOffset(c, s) + Home[s] * ModelSign(c, s) ELSE c.open]

\* expand_hardware_state
Expanded(c, position, velocity) ==
  [position |-> [s \in Slot |-> IF s \in OnBus(c) THEN position[s] ELSE Synthetic(c)[s]],
   velocity |-> [s \in Slot |-> IF s \in OnBus(c) THEN velocity[s] ELSE 0]]

\* model_state, for the arm's joints.
ModelPosition(c, f) == [j \in Joint |-> ModelSign(c, j) * (f.position[j] - JointOffset(c, j))]
ModelVelocity(c, f) == [j \in Joint |-> ModelSign(c, j) * f.velocity[j]]

\* dfc_position_to_model, and the position DFC itself makes of a raw frame.
DfcToModel(c, q) == [j \in Joint |-> c.signs[j] * q[j]]
DfcPosition(c, f) == [j \in Joint |-> RawSign(c, j) * (f.position[j] + c.offsets[j])]

GripperPosition(f) == f.position[Dof] * GripperSign

Gain(c, s) == IF s \in Joint THEN c.gain[s] ELSE 1

\* Mutant: a negative current is rounded down instead of towards zero.
GoalCurrentFloored(s, torque) ==
  LET counts == torque \div Grain[s]
  IN IF counts > CurrentLimit THEN CurrentLimit
     ELSE IF counts < -CurrentLimit THEN -CurrentLimit ELSE counts

\* set_current: clipped, and truncated towards zero to whole counts.
GoalCurrent(s, torque) ==
  LET size == (IF torque < 0 THEN -torque ELSE torque) \div Grain[s]
      held == IF size > CurrentLimit THEN CurrentLimit ELSE size
  IN IF torque < 0 THEN -held ELSE held

\* set_leader_joint_torque: scaled, signed, and only for the motors on the bus.
GoalCurrents(c, torque) ==
  [s \in Slot |-> IF s \in OnBus(c)
                  THEN GoalCurrent(s, Gain(c, s) * torque[s] * MotorSign(c, s)) ELSE 0]

\* commanded_torque, in model axes: the gain is not divided out again.
CommandedTorque(c, currents) ==
  [j \in Joint |-> Grain[j] * currents[j] * MotorSign(c, j)]

Read(position, velocity) ==
  /\ launched = "running"
  /\ physical' = position /\ moving' = velocity
  /\ frame' = Expanded(contract, position, velocity)
  /\ UNCHANGED <<contract, launched, asked, driven, reported>>

Command(torque) ==
  /\ launched = "running" /\ frame # <<>>
  /\ asked' = torque
  /\ driven' = GoalCurrents(contract, torque)
  /\ reported' = CommandedTorque(contract, driven')
  /\ UNCHANGED <<contract, launched, physical, moving, frame>>

ConfigNext ==
  \/ Launch
  \/ \E position, velocity \in RawFrame : Read(position, velocity)
  \/ \E torque \in TorqueFrame : Command(torque)

ConfigSpec == ConfigInit /\ [][ConfigNext]_configVars
-----------------------------------------------------------------------------
ConfigTypeOK ==
  /\ launched \in {"no", "refused", "running"}
  /\ frame # <<>> => frame \in [position : [Slot -> Int], velocity : [Slot -> Int]]
  /\ {physical, moving, asked, driven} \subseteq [Slot -> Int] /\ reported \in [Joint -> Int]

(* FACTR's coordinates of a frame are DFC's own, turned into model axes: a   *)
(* null-space target that DFC reads off the leader is where the model says   *)
(* the leader is, for every contract the loader lets through.                *)
CalibrationsAgree ==
  frame # <<>> => ModelPosition(contract, frame) = DfcToModel(contract, DfcPosition(contract, frame))

(* A joint that is not on the bus is at the model's home, does not move and  *)
(* is sent nothing; an absent trigger is open.                               *)
AbsentJointsRest ==
  frame # <<>> =>
    \A s \in Slot \ OnBus(contract) :
      /\ driven[s] = 0 /\ frame.velocity[s] = 0
      /\ s \in Joint => ModelPosition(contract, frame)[s] = Home[s]
      /\ s = Dof => GripperPosition(frame) = contract.open * GripperSign

(***************************************************************************)
(* The motors do the work the leader reports, and no more than the model   *)
(* asked for: on every joint of the bus, the torque of the goal current    *)
(* times the motor's velocity is the torque reported times the model's     *)
(* velocity; and the torque reported has the direction of the joint's gain *)
(* times the torque asked for, never exceeds it, and falls short of it by  *)
(* less than one count of current, unless the current is at its limit      *)
(* ("Exact post-clipping/quantization goal current", driver.py).           *)
(***************************************************************************)
MotorsDoTheWork ==
  frame # <<>> =>
    \A j \in Joint \intersect OnBus(contract) :
      LET scaled == Gain(contract, j) * asked[j]
          short  == scaled - reported[j]
      IN /\ Grain[j] * driven[j] * moving[j] = reported[j] * ModelVelocity(contract, frame)[j]
         /\ reported[j] \in 0..scaled \/ reported[j] \in scaled..0
         /\ \/ short < Grain[j] /\ short > -Grain[j]
            \/ reported[j] \in {Grain[j] * CurrentLimit, -(Grain[j] * CurrentLimit)}
=============================================================================
