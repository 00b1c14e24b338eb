--------------------------- MODULE DynamixelBoard ---------------------------
(***************************************************************************)
(* What one DynamixelDriver (dynamixel/driver.py) does to the servos       *)
(* behind its serial port, as the set of outcomes of each call.  A driver  *)
(* value joins the Python object's own state with the registers of its     *)
(* servos:                                                                 *)
(*   energized       the torque-enable register of every servo             *)
(*   goal            the magnitude of the current last sent to all of them *)
(*                   in one sync write, which no servo acknowledges        *)
(*   torque_enabled  DynamixelDriver._torque_enabled                       *)
(*   pending         parameters left in _groupSyncWrite                    *)
(* An outcome says what the driver becomes, whether the call raised,       *)
(* whether the bus failed during it (the callers' fault budget), and which *)
(* servo a loop over the servos stopped at (0: none).                      *)
(***************************************************************************)
EXTENDS GainRamp

CONSTANT NumServos  \* servos on a board, numbered in the order of driver._ids

ASSUME BoardAssumption == NumServos \in Nat \ {0}

Servo == 1..NumServos

Driver == [energized : [Servo -> BOOLEAN], goal : Level,
           torque_enabled : BOOLEAN, pending : BOOLEAN]

Outcome == [driver : Driver, raised : BOOLEAN, fault : BOOLEAN, stopped_at : 0..NumServos]

AllServos(enable) == [i \in Servo |-> enable]

Returned(d)     == [driver |-> d, raised |-> FALSE, fault |-> FALSE, stopped_at |-> 0]
Refused(d)      == [driver |-> d, raised |-> TRUE,  fault |-> FALSE, stopped_at |-> 0]
BusFailed(d, k) == [driver |-> d, raised |-> TRUE,  fault |-> TRUE,  stopped_at |-> k]
-----------------------------------------------------------------------------
(* set_torque_mode: the servos are written one by one in the order of _ids *)
(* and the first that fails (three lost answers, or an instruction error)  *)
(* aborts the loop.  The failing servo may or may not have executed the    *)
(* write whose answer was lost.  _torque_enabled is assigned only after    *)
(* every servo answered.                                                   *)
WrittenUpTo(d, k, heard, enable) ==
  [d EXCEPT !.energized =
     [i \in Servo |-> IF i < k \/ (i = k /\ heard) THEN enable ELSE @[i]]]

SetTorqueMode(d, enable) ==
  {Returned([d EXCEPT !.energized = AllServos(enable), !.torque_enabled = enable])}
    \cup {BusFailed(WrittenUpTo(d, k, heard, enable), k) : k \in Servo, heard \in BOOLEAN}

\* A startup write to every servo that leaves torque alone (set_operating_mode).
SetOperatingMode(d) == {Returned(d)} \cup {BusFailed(d, k) : k \in Servo}

(* set_current / set_torque: refused without touching the bus when the     *)
(* driver's own flag is down, or when an earlier failed transmission left  *)
(* its parameters in the group (addParam then returns False).  A failed    *)
(* transmission raises before clearParam.                                  *)
SetCurrent(d, level) ==
  IF ~d.torque_enabled \/ d.pending
  THEN {Refused(d)}
  ELSE {Returned([d EXCEPT !.goal = level]), BusFailed([d EXCEPT !.pending = TRUE], 0)}
=============================================================================
