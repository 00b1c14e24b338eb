----------------------------- MODULE LeaderLaws -----------------------------
(***************************************************************************)
(* The terms of one control iteration's torque, for one arm joint and the  *)
(* trigger: null-space posture (angles.py, gain_control.py), joint-limit   *)
(* barrier, static friction with its dither, force feedback                *)
(* (factr_teleop_dual_base.py) and the trigger's spring                    *)
(* (gripper_feedback.py), over an arm whose encoder may change branch.     *)
(*                                                                         *)
(* Angles are integers, Turn to a turn; gains are one unless a term needs  *)
(* two of them told apart.  Gravity and the null-space projector are       *)
(* external: what they return is an input.                                 *)
(***************************************************************************)
EXTENDS Integers

CONSTANTS Turn,         \* angle units of a turn, even
          LimitMin, LimitMax,   \* arm_joint_limits, less the margin
          SlowBelow,    \* stiction_comp_enable_speed
          SpringMax,    \* gripper_spring max_torque_nm
          Open, Closed, \* the trigger's calibrated end points
          Targets,      \* bound: the postures asked for, any angles
          Triggers,     \* bound: where the trigger may be
          Speeds,       \* bound: velocities
          Gravities,    \* bound: torques of the other terms' inputs (rnea, the follower)
          MaxBranch     \* bound: turns the encoder may be off by

ASSUME LawsAssumption ==
  /\ Turn \in Nat \ {0} /\ Turn % 2 = 0
  /\ {LimitMin, LimitMax, Open, Closed} \subseteq Int /\ LimitMin <= LimitMax /\ Open # Closed
  /\ SlowBelow \in Nat /\ SpringMax \in Nat \ {0} /\ MaxBranch \in Nat
  /\ Targets \subseteq Int
  /\ Open \in Triggers /\ Triggers \subseteq Int /\ Speeds \subseteq Int /\ Gravities \subseteq Int

HalfTurn == Turn \div 2

\* Where the joint may be.
Physical == (-HalfTurn)..(HalfTurn - 1)

VARIABLES
  branch,      \* turns Present Position is off by since the servo rebooted
  target,      \* null_space_joint_target
  ditherUp,    \* stiction_dither_flag
  iteration    \* the last iteration: what it read and the torques it composed

lawVars == <<branch, target, ditherUp, iteration>>

LawsInit ==
  /\ branch = 0 /\ target \in Targets /\ ditherUp = TRUE
  /\ iteration = [angle |-> 0, goal |-> 0, trigger |-> Open, speed |-> 0,
                  null |-> 0, limit |-> 0, friction |-> 0, spring |-> 0, tracked |-> 0]
-----------------------------------------------------------------------------
Abs(x) == IF x < 0 THEN -x ELSE x
SignOf(x) == IF x > 0 THEN 1 ELSE IF x < 0 THEN -1 ELSE 0
Clamp(x, low, high) == IF x < low THEN low ELSE IF x > high THEN high ELSE x

\* Mutant: the plain difference.
LinearErrors(q, goal) == {q - goal}

\* periodic_joint_error: half a turn may come out with either sign.
PeriodicErrors(q, goal) == {e \in (-HalfTurn)..HalfTurn : (q - goal - e) % Turn = 0}

\* null_space_pd_objective with unit gains, before the projection.
NullObjective(error, speed) == -error - speed

\* joint_limit_barrier, when the configuration enables it.
Barrier(q, speed) ==
  IF q > LimitMax THEN -(q - LimitMax) - speed
  ELSE IF q < LimitMin THEN -(q - LimitMin) - speed ELSE 0

Slow(speed) == Abs(speed) < SlowBelow

\* friction_compensation: a push as large as gravity's torque, in the dither's direction.
Friction(speed, gravity) ==
  IF Slow(speed) THEN (IF ditherUp THEN Abs(gravity) ELSE -Abs(gravity)) ELSE 0

\* The flag is an element of a numpy bool array: ~ inverts it.
Dither(speed) == IF Slow(speed) THEN ~ditherUp ELSE ditherUp

ClosingDirection == IF Closed > Open THEN 1 ELSE -1

\* torsional_spring_torque_nm with unit stiffness and damping.
Spring(position, speed) ==
  LET closure == Clamp(ClosingDirection * (position - Open), 0, Abs(Closed - Open))
  IN IF closure = 0 THEN 0
     ELSE Clamp(-ClosingDirection * closure - speed, -SpringMax, SpringMax)

\* torque_feedback with unit gain over motor scalar and unit damping.
Feedback(external, speed) == -external - speed
-----------------------------------------------------------------------------
\* A servo reboots: the same pose, another branch of Present Position.
Reboot ==
  /\ branch' \in (-MaxBranch)..MaxBranch
  /\ UNCHANGED <<target, ditherUp, iteration>>

\* _on_null_space_control's target, in model axes: any finite number is taken.
Retarget ==
  /\ target' \in Targets
  /\ UNCHANGED <<branch, ditherUp, iteration>>

LawsTick(angle, trigger, speed, gravity) ==
  LET q == angle + branch * Turn
  IN /\ \E e \in PeriodicErrors(q, target) :
          iteration' = [angle |-> angle, goal |-> target, trigger |-> trigger, speed |-> speed,
                        null |-> NullObjective(e, speed), limit |-> Barrier(q, speed),
                        friction |-> Friction(speed, gravity), spring |-> Spring(trigger, speed),
                        tracked |-> Feedback(gravity, speed)]
     /\ ditherUp' = Dither(speed)
     /\ UNCHANGED <<branch, target>>

LawsNext ==
  \/ Reboot \/ Retarget
  \/ \E angle \in Physical, trigger \in Triggers, speed \in Speeds, gravity \in Gravities :
        LawsTick(angle, trigger, speed, gravity)

LawsSpec == LawsInit /\ [][LawsNext]_lawVars
-----------------------------------------------------------------------------
LawsTypeOK ==
  /\ branch \in (-MaxBranch)..MaxBranch /\ target \in Targets /\ ditherUp \in BOOLEAN
  /\ iteration.angle \in Physical /\ iteration.goal \in Int /\ iteration.trigger \in Triggers
  /\ \A term \in {"speed", "null", "limit", "friction", "spring", "tracked"} :
       iteration[term] \in Int

(***************************************************************************)
(* Whatever branch the encoder came up on, and however many turns away the *)
(* posture was asked for, the posture term pulls the arm towards it the    *)
(* short way round: never by more than half a turn, and by an amount that  *)
(* ends at the posture ("a linear controller must never react to that      *)
(* branch choice", angles.py).                                             *)
(***************************************************************************)
PullsTheShortWay ==
  LET pull == iteration.null + iteration.speed
  IN /\ Abs(pull) <= HalfTurn
     /\ (iteration.angle + pull - iteration.goal) % Turn = 0
=============================================================================
