------------------------------ MODULE GainRamp ------------------------------
(***************************************************************************)
(* gain_control.py: the activation ramp every gain of the control loop goes*)
(* through, and the gate the composed torque goes through.  A gain is an   *)
(* integer number of steps out of MaxLevel (1.0 in the code), and so is the*)
(* magnitude of a torque; time is counted in the steps the ramp advances by*)
(* meanwhile, so the quotient elapsed / ramp_time of the code is the last  *)
(* argument of RampGain.                                                   *)
(***************************************************************************)
EXTENDS Integers

CONSTANT MaxLevel  \* steps of full scale

ASSUME GainAssumption == MaxLevel \in Nat \ {0}

Level == 0..MaxLevel

Lesser(a, b)  == IF a <= b THEN a ELSE b
Greater(a, b) == IF a >= b THEN a ELSE b

\* Mutant: the moving gain is only cut off at full scale, by one min.
RampWithOneClamp(value, target, clock_running, elapsed) ==
  Lesser(MaxLevel, IF value < target THEN value + elapsed
                   ELSE IF value > target THEN value - elapsed ELSE value)

\* ramp_gain: with no earlier timestamp the value stands and only the clock starts.
RampGain(value, target, clock_running, elapsed) ==
  IF ~clock_running THEN value
  ELSE Lesser(MaxLevel, Greater(0,
         IF value < target THEN Lesser(target, value + elapsed)
         ELSE IF value > target THEN Greater(target, value - elapsed)
         ELSE value))

\* compose_arm_torque: one final factor scales every term, so a gain of zero
\* commands exactly zero and a gain g commands some magnitude within g.
ComposedTorque(leader_torque_gain) == 0..leader_torque_gain
=============================================================================
