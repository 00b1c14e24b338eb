---------------------------- MODULE LeaderTorque ----------------------------
(***************************************************************************)
(* The dual-board leader arm (factr_teleop_dual_base.py and                *)
(* factr_rizon_dual_board.py): who may energize the servos, when, and with *)
(* what current.  Three threads share the object:                          *)
(*   main      constructs the node, spins, and shuts the arm down          *)
(*   control   _control_loop_worker, one tick after another                *)
(*   gain      the executor worker that runs _on_grav_comp_gain_target     *)
(* Attribute reads and writes of the shared gains are separate steps, as   *)
(* the interpreter interleaves them; a call on a board is one step, as only*)
(* the thread that makes it looks at that board meanwhile.                 *)
(***************************************************************************)
EXTENDS DynamixelBoard

CONSTANTS NumBoards,  \* power boards, in the order of _driver_groups
          MaxFaults   \* bus and driver failures in one behaviour, skipped reads apart

ASSUME LeaderAssumption == /\ NumBoards \in Nat \ {0}
                           /\ MaxFaults \in Nat

Board == 1..NumBoards

VARIABLES
  driver,                     \* [Board -> Driver]
  leader_torque_enabled,
  leader_torque_gain,
  leader_torque_gain_target,
  clock,                      \* _leader_torque_gain_last_update is not None
  pc,                         \* what each thread does next
  at,                         \* the board a thread's loop over _driver_groups has reached
  errors,                     \* the thread's errors list is not empty
  local,                      \* the control thread's locals in _update_component_gains
  new_target,                 \* the gain callback's local
  stop,                       \* _control_stop
  context_down,               \* the ROS context was shut down
  disable_stopped,            \* the servo at which shut_down's disable of a board stopped
  faults                      \* failures so far

gains   == <<leader_torque_gain, leader_torque_gain_target, clock>>
threads == <<pc, at, errors>>
vars == <<driver, leader_torque_enabled, gains, threads, local, new_target,
          stop, context_down, disable_stopped, faults>>

Thread == {"main", "control", "gain"}
ControlStep == {"unstarted", "top", "read_failed", "drop", "ramp_gain", "ramp_target",
                "ramp_clock", "ramp_store", "ramp_stamp", "ramp_return", "apply", "enabling",
                "cleanup", "gate", "gate_gain", "zeroing", "disabling", "write", "exited"}
MainStep == {"off", "mode", "on", "zero", "off_again", "spinning", "joining", "zeroing",
             "disabling", "closed", "aborted"}
GainStep == {"waiting", "check", "unclock", "install"}

TypeOK ==
  /\ driver \in [Board -> Driver]
  /\ leader_torque_enabled \in BOOLEAN
  /\ leader_torque_gain \in Level
  /\ leader_torque_gain_target \in Level
  /\ clock \in BOOLEAN
  /\ pc \in [Thread -> ControlStep \cup MainStep \cup GainStep]
  /\ pc["main"] \in MainStep
  /\ pc["control"] \in ControlStep
  /\ pc["gain"] \in GainStep
  /\ at \in [Thread -> Board]
  /\ errors \in [Thread -> BOOLEAN]
  /\ local \in [gain : Level, target : Level, clock : BOOLEAN]
  /\ new_target \in Level
  /\ stop \in BOOLEAN
  /\ context_down \in BOOLEAN
  /\ disable_stopped \in [Board -> 0..NumServos]
  /\ faults \in 0..MaxFaults

\* A new process finds the servos as an earlier one left them.
Init ==
  /\ driver \in [Board -> Driver]
  /\ \A b \in Board : ~driver[b].torque_enabled /\ ~driver[b].pending
  /\ leader_torque_enabled = FALSE
  /\ leader_torque_gain = 0
  /\ leader_torque_gain_target = 0
  /\ clock = FALSE
  /\ pc = [main |-> "off", control |-> "unstarted", gain |-> "waiting"]
  /\ at = [t \in Thread |-> 1]
  /\ errors = [t \in Thread |-> FALSE]
  /\ local = [gain |-> 0, target |-> 0, clock |-> FALSE]
  /\ new_target = 0
  /\ stop = FALSE
  /\ context_down = FALSE
  /\ disable_stopped = [b \in Board |-> 0]
  /\ faults = 0
-----------------------------------------------------------------------------
(* Shared shapes of a step *)

At(t, step) == pc[t] = step
Goto(t, step) == pc' = [pc EXCEPT ![t] = step]

\* Boards whose call failed on the bus use up the fault budget.
Count(n) == /\ faults + n <= MaxFaults
            /\ faults' = faults + n

\* One call on board b: the driver becomes the outcome's and a failure is counted.
Call(b, outcome) ==
  /\ driver' = [driver EXCEPT ![b] = outcome.driver]
  /\ Count(IF outcome.fault THEN 1 ELSE 0)

\* `for name, driver, _ in groups`: the next board, or `after` the last one.
Advance(t, after) ==
  IF at[t] < NumBoards
  THEN /\ at' = [at EXCEPT ![t] = @ + 1]
       /\ UNCHANGED pc
  ELSE /\ at' = [at EXCEPT ![t] = 1]
       /\ Goto(t, after)

\* Mutant: only the last board's exception is remembered.
CollectLast(t, outcome) == errors' = [errors EXCEPT ![t] = outcome.raised]

\* A loop body that collects its exception and carries on.
Collect(t, outcome) == errors' = [errors EXCEPT ![t] = @ \/ outcome.raised]

EnterLoop(t, step) == /\ Goto(t, step)
                      /\ errors' = [errors EXCEPT ![t] = FALSE]
                      /\ UNCHANGED at
-----------------------------------------------------------------------------
(* main: the constructor.  An exception here leaves the process without    *)
(* shut_down: main() builds the node before its try.                       *)

\* One call of _prepare_dynamixel on the board it has reached.
Prepare(step, outcomes, next) ==
  /\ At("main", step)
  /\ \E o \in outcomes :
       /\ Call(at["main"], o)
       /\ Goto("main", IF o.raised THEN "aborted" ELSE next)
  /\ UNCHANGED <<leader_torque_enabled, gains, at, errors, local, new_target, stop,
                 context_down, disable_stopped>>

PrepareBoard ==
  LET d == driver[at["main"]]
  IN \/ Prepare("off",  SetTorqueMode(d, FALSE), "mode")
     \/ Prepare("mode", SetOperatingMode(d),     "on")
     \/ Prepare("on",   SetTorqueMode(d, TRUE),  "zero")
     \/ Prepare("zero", SetCurrent(d, 0),        "off_again")

\* The last call on a board; after the last board the constructor starts the thread.
PrepareLast ==
  /\ At("main", "off_again")
  /\ \E o \in SetTorqueMode(driver[at["main"]], FALSE) :
       /\ Call(at["main"], o)
       /\ IF o.raised
          THEN Goto("main", "aborted") /\ UNCHANGED at
          ELSE IF at["main"] < NumBoards
          THEN Goto("main", "off") /\ at' = [at EXCEPT !["main"] = @ + 1]
          ELSE /\ pc' = [pc EXCEPT !["main"] = "spinning", !["control"] = "top"]
               /\ at' = [at EXCEPT !["main"] = 1]
  /\ UNCHANGED <<leader_torque_enabled, gains, errors, local, new_target, stop,
                 context_down, disable_stopped>>
-----------------------------------------------------------------------------
(* gain: _on_grav_comp_gain_target, one message at a time *)

ReceiveTarget ==
  /\ At("main", "spinning") /\ ~context_down
  /\ At("gain", "waiting")
  /\ new_target' \in Level
  /\ Goto("gain", "check")
  /\ UNCHANGED <<driver, leader_torque_enabled, gains, at, errors, local, stop,
                 context_down, disable_stopped, faults>>

\* `if new_target > 0.0 and self.leader_torque_gain_target <= 0.0`: gain first ...
CheckTarget ==
  /\ At("gain", "check")
  /\ IF new_target > 0 /\ leader_torque_gain_target = 0
     THEN leader_torque_gain' = 0 /\ Goto("gain", "unclock")
     ELSE UNCHANGED leader_torque_gain /\ Goto("gain", "install")
  /\ UNCHANGED <<driver, leader_torque_enabled, leader_torque_gain_target, clock, at, errors,
                 local, new_target, stop, context_down, disable_stopped, faults>>

\* ... then the ramp's timestamp ...
ClearClock ==
  /\ At("gain", "unclock")
  /\ clock' = FALSE
  /\ Goto("gain", "install")
  /\ UNCHANGED <<driver, leader_torque_enabled, leader_torque_gain, leader_torque_gain_target,
                 at, errors, local, new_target, stop, context_down, disable_stopped, faults>>

\* ... and the target last.
InstallTarget ==
  /\ At("gain", "install")
  /\ leader_torque_gain_target' = new_target
  /\ Goto("gain", "waiting")
  /\ UNCHANGED <<driver, leader_torque_enabled, leader_torque_gain, clock, at, errors, local,
                 new_target, stop, context_down, disable_stopped, faults>>
-----------------------------------------------------------------------------
(* control: _control_loop_worker and control_loop_callback *)

\* A step of the control thread that touches only its own program counter and locals.
ControlOnly ==
  UNCHANGED <<driver, leader_torque_enabled, leader_torque_gain_target, at, errors, new_target,
              stop, context_down, disable_stopped, faults>>

ExitLoop ==
  /\ At("control", "top") /\ stop
  /\ Goto("control", "exited")
  /\ ControlOnly /\ UNCHANGED <<leader_torque_gain, clock, local>>

\* Mutant: the handler logs and the loop goes on.
DieNot == pc' = [pc EXCEPT !["control"] = "top"] /\ UNCHANGED <<stop, context_down>>

\* Mutant: the handler stops the loop and leaves the executor asleep.
DieAlone == /\ pc' = [pc EXCEPT !["control"] = "exited"]
            /\ stop' = TRUE
            /\ UNCHANGED context_down

\* The handler of _control_loop_worker: no later tick, and the executor is woken.
Die ==
  /\ pc' = [pc EXCEPT !["control"] = "exited"]
  /\ stop' = TRUE
  /\ context_down' = TRUE

\* Both boards answered, or a DynamixelReadError skips the tick ...
Read ==
  /\ At("control", "top") /\ ~stop
  /\ \/ Goto("control", "ramp_gain")
     \/ Goto("control", "read_failed")
  /\ ControlOnly /\ UNCHANGED <<leader_torque_gain, clock, local>>

\* ... while any other exception of the read ends the thread.
ReadBreaks ==
  /\ At("control", "top") /\ ~stop
  /\ Die
  /\ Count(1)
  /\ UNCHANGED <<driver, leader_torque_enabled, gains, at, errors, local, new_target,
                 disable_stopped>>

\* Mutant: a failed read just skips the tick.
SkipTick ==
  /\ At("control", "read_failed")
  /\ Goto("control", "top")
  /\ ControlOnly /\ UNCHANGED <<leader_torque_gain, clock, local>>

\* _disable_leader_torque_after_read_failure
AfterReadFailure ==
  /\ At("control", "read_failed")
  /\ Goto("control", IF leader_torque_gain_target = 0 /\ leader_torque_enabled
                     THEN "drop" ELSE "top")
  /\ ControlOnly /\ UNCHANGED <<leader_torque_gain, clock, local>>

DropGain ==
  /\ At("control", "drop")
  /\ leader_torque_gain' = 0
  /\ EnterLoop("control", "zeroing")
  /\ UNCHANGED <<driver, leader_torque_enabled, leader_torque_gain_target, clock, local,
                 new_target, stop, context_down, disable_stopped, faults>>

(* _update_component_gains, the leader gain: the three arguments are read  *)
(* in turn, the pair is stored in turn, and the return value reads the     *)
(* attribute again.                                                        *)
RampReadGain ==
  /\ At("control", "ramp_gain")
  /\ local' = [local EXCEPT !.gain = leader_torque_gain]
  /\ Goto("control", "ramp_target")
  /\ ControlOnly /\ UNCHANGED <<leader_torque_gain, clock>>

RampReadTarget ==
  /\ At("control", "ramp_target")
  /\ local' = [local EXCEPT !.target = leader_torque_gain_target]
  /\ Goto("control", "ramp_clock")
  /\ ControlOnly /\ UNCHANGED <<leader_torque_gain, clock>>

RampReadClock ==
  /\ At("control", "ramp_clock")
  /\ local' = [local EXCEPT !.clock = clock]
  /\ Goto("control", "ramp_store")
  /\ ControlOnly /\ UNCHANGED <<leader_torque_gain, clock>>

\* Time passes between two ticks, any amount of it when reads failed in between.
RampStoreGain ==
  /\ At("control", "ramp_store")
  /\ \E elapsed \in 1..MaxLevel :
       leader_torque_gain' = RampGain(local.gain, local.target, local.clock, elapsed)
  /\ Goto("control", "ramp_stamp")
  /\ ControlOnly /\ UNCHANGED <<clock, local>>

RampStoreClock ==
  /\ At("control", "ramp_stamp")
  /\ clock' = TRUE
  /\ Goto("control", "ramp_return")
  /\ ControlOnly /\ UNCHANGED <<leader_torque_gain, local>>

RampReturn ==
  /\ At("control", "ramp_return")
  /\ local' = [local EXCEPT !.gain = leader_torque_gain]
  /\ Goto("control", "apply")
  /\ ControlOnly /\ UNCHANGED <<leader_torque_gain, clock>>
-----------------------------------------------------------------------------
(* control: _apply_leader_torque and _set_leader_torque_enabled *)

\* The first two conditions; an idle leader publishes zeros and the tick is over.
Apply ==
  /\ At("control", "apply")
  /\ IF leader_torque_enabled
     THEN Goto("control", "gate") /\ UNCHANGED errors
     ELSE IF leader_torque_gain_target > 0
     THEN EnterLoop("control", "enabling")
     ELSE Goto("control", "top") /\ UNCHANGED errors
  /\ UNCHANGED <<driver, leader_torque_enabled, gains, at, local, new_target, stop,
                 context_down, disable_stopped, faults>>

\* Every board is tried; the last one decides between the leader's flag and the cleanup.
EnableBoard ==
  /\ At("control", "enabling")
  /\ \E o \in SetTorqueMode(driver[at["control"]], TRUE) :
       LET failed == errors["control"] \/ o.raised
           last   == at["control"] = NumBoards
       IN /\ Call(at["control"], o)
          /\ Collect("control", o)
          /\ Advance("control", IF failed THEN "cleanup" ELSE "gate")
          /\ leader_torque_enabled' = IF last /\ ~failed THEN TRUE ELSE leader_torque_enabled
  /\ UNCHANGED <<gains, local, new_target, stop, context_down, disable_stopped>>

\* Best-effort disable of every board, its exceptions swallowed; then the error is raised.
CleanupBoard ==
  /\ At("control", "cleanup")
  /\ \E o \in SetTorqueMode(driver[at["control"]], FALSE) : Call(at["control"], o)
  /\ IF at["control"] < NumBoards
     THEN /\ at' = [at EXCEPT !["control"] = @ + 1]
          /\ UNCHANGED <<pc, leader_torque_enabled, stop, context_down>>
     ELSE /\ at' = [at EXCEPT !["control"] = 1]
          /\ leader_torque_enabled' = FALSE
          /\ Die
  /\ UNCHANGED <<gains, errors, local, new_target, disable_stopped>>

\* `target <= 0.0 and gain <= 0.0`: two reads of shared attributes.
GateTarget ==
  /\ At("control", "gate")
  /\ Goto("control", IF leader_torque_gain_target = 0 THEN "gate_gain" ELSE "write")
  /\ ControlOnly /\ UNCHANGED <<leader_torque_gain, clock, local>>

GateGain ==
  /\ At("control", "gate_gain")
  /\ IF leader_torque_gain = 0
     THEN EnterLoop("control", "zeroing")
     ELSE Goto("control", "write") /\ UNCHANGED errors
  /\ UNCHANGED <<driver, leader_torque_enabled, gains, at, local, new_target, stop,
                 context_down, disable_stopped, faults>>

\* Zero current to a board whose driver says it is on; t is control (disable) or main.
ZeroOutcomes(b) == IF driver[b].torque_enabled THEN SetCurrent(driver[b], 0)
                   ELSE {Returned(driver[b])}

ZeroBoard(t) ==
  /\ At(t, "zeroing")
  /\ \E o \in ZeroOutcomes(at[t]) : Call(at[t], o) /\ Collect(t, o)
  /\ Advance(t, "disabling")
  /\ UNCHANGED <<leader_torque_enabled, gains, local, new_target, stop, context_down,
                 disable_stopped>>

\* leader_torque_enabled is what the drivers say once every board was tried.
AnyDriverOn == \E b \in Board : driver[b].torque_enabled

DisableBoard ==
  /\ At("control", "disabling")
  /\ \E o \in SetTorqueMode(driver[at["control"]], FALSE) :
       /\ Call(at["control"], o)
       /\ Collect("control", o)
       /\ IF at["control"] < NumBoards
          THEN /\ at' = [at EXCEPT !["control"] = @ + 1]
               /\ UNCHANGED <<pc, leader_torque_enabled, stop, context_down>>
          ELSE /\ at' = [at EXCEPT !["control"] = 1]
               /\ leader_torque_enabled' = AnyDriverOn'
               /\ IF errors["control"] \/ o.raised
                  THEN Die
                  ELSE Goto("control", "top") /\ UNCHANGED <<stop, context_down>>
  /\ UNCHANGED <<gains, local, new_target, disable_stopped>>

\* set_leader_joint_torque: both boards are written in parallel and both writes
\* are joined before an exception of either is raised.
WriteOutcomes(b) == UNION {SetCurrent(driver[b], level) :
                             level \in ComposedTorque(local.gain)}

WriteTorque ==
  /\ At("control", "write")
  /\ \E o \in [Board -> UNION {WriteOutcomes(b) : b \in Board}] :
       /\ \A b \in Board : o[b] \in WriteOutcomes(b)
       /\ driver' = [b \in Board |-> o[b].driver]
       /\ IF \E b \in Board : o[b].raised
          THEN Die /\ Count(1)
          ELSE Goto("control", "top") /\ UNCHANGED <<stop, context_down, faults>>
  /\ UNCHANGED <<leader_torque_enabled, gains, at, errors, local, new_target, disable_stopped>>
-----------------------------------------------------------------------------
(* main: spin, then shut_down in the finally of main() *)

\* Ctrl-C, or the control thread took the context down.
SpinEnds ==
  /\ At("main", "spinning")
  /\ Goto("main", "joining")
  /\ stop' = TRUE
  /\ context_down' = TRUE
  /\ UNCHANGED <<driver, leader_torque_enabled, gains, at, errors, local, new_target,
                 disable_stopped, faults>>

\* Mutant: the join gives up while the control thread still runs.
JoinTimesOut ==
  /\ At("main", "joining")
  /\ EnterLoop("main", "zeroing")
  /\ UNCHANGED <<driver, leader_torque_enabled, gains, local, new_target, stop, context_down,
                 disable_stopped, faults>>

\* stop_control_loop and _shutdown_board_io_executor return once the thread is gone.
Join ==
  /\ At("main", "joining")
  /\ At("control", "exited")
  /\ EnterLoop("main", "zeroing")
  /\ UNCHANGED <<driver, leader_torque_enabled, gains, local, new_target, stop, context_down,
                 disable_stopped, faults>>

\* The second loop of shut_down; main() catches what it raises and closes the ports.
ShutDownBoard ==
  /\ At("main", "disabling")
  /\ \E o \in SetTorqueMode(driver[at["main"]], FALSE) :
       /\ Call(at["main"], o)
       /\ Collect("main", o)
       /\ disable_stopped' = [disable_stopped EXCEPT ![at["main"]] = o.stopped_at]
  /\ leader_torque_enabled' = IF at["main"] = NumBoards THEN AnyDriverOn'
                              ELSE leader_torque_enabled
  /\ Advance("main", "closed")
  /\ UNCHANGED <<gains, local, new_target, stop, context_down>>
-----------------------------------------------------------------------------
Preparing == PrepareBoard \/ PrepareLast

GainCallback == ReceiveTarget \/ CheckTarget \/ ClearClock \/ InstallTarget

Tick == \/ Read \/ AfterReadFailure \/ DropGain
        \/ RampReadGain \/ RampReadTarget \/ RampReadClock
        \/ RampStoreGain \/ RampStoreClock \/ RampReturn
        \/ Apply \/ EnableBoard \/ CleanupBoard \/ GateTarget \/ GateGain
        \/ ZeroBoard("control") \/ DisableBoard \/ WriteTorque \/ ExitLoop

ShutDown == Join \/ ZeroBoard("main") \/ ShutDownBoard

\* Every thread is done and no message can arrive: the process has ended.
Terminated == /\ pc["main"] \in {"closed", "aborted"}
              /\ pc["gain"] = "waiting"
              /\ UNCHANGED vars

Next == Preparing \/ GainCallback \/ Tick \/ ReadBreaks \/ SpinEnds \/ ShutDown \/ Terminated

Spec == Init /\ [][Next]_vars

(* Threads that can run do run.  Nothing makes the operator press Ctrl-C   *)
(* or send a target, a bus fail, or a read succeed.                        *)
Fairness == /\ WF_vars(Tick)
            /\ WF_vars(Preparing)
            /\ WF_vars(CheckTarget \/ ClearClock \/ InstallTarget)
            /\ WF_vars(ShutDown)
            /\ WF_vars(context_down /\ SpinEnds)

FairSpec == Spec /\ Fairness
-----------------------------------------------------------------------------
(* Properties *)

\* A servo is switched on only while the goal current latched in its board is zero,
\* so energizing the arm (set_torque_mode(True)) never releases an old command.  The
\* constructor is excepted: it finds registers an earlier process left behind.
EnergizesFromZero ==
  [][\A b \in Board, i \in Servo :
       ~driver[b].energized[i] /\ driver'[b].energized[i]
         => driver[b].goal = 0 \/ At("main", "on")]_vars

\* Between ticks the loop's flag, every driver's flag and every servo of every board
\* agree, and a leader that is off holds zero current: no failed or half-done enable,
\* disable or write is ever followed by another tick (_set_leader_torque_enabled).
TickStartsCoherent ==
  At("control", "top") =>
    \A b \in Board : /\ driver[b].torque_enabled = leader_torque_enabled
                     /\ driver[b].energized = AllServos(leader_torque_enabled)
                     /\ ~leader_torque_enabled => driver[b].goal = 0

\* When main has closed the ports, each board whose own disable writes were answered
\* is off, and one that stopped half-way is off up to where it stopped, whatever failed
\* before and whatever the other board did (shut_down: "Treat each board independently").
BoardsShutDownIndependently ==
  At("main", "closed") =>
    \A b \in Board, i \in Servo :
      disable_stopped[b] = 0 \/ i < disable_stopped[b] => ~driver[b].energized[i]

AllOff == \A b \in Board : driver[b].energized = AllServos(FALSE)

\* An off request de-energizes the arm whether reads succeed or fail from then on,
\* unless a new target arrives or the shutdown's own disable write fails
\* (_apply_leader_torque, _disable_leader_torque_after_read_failure).
OffRequestHonored ==
  (At("control", "top") /\ leader_torque_gain_target = 0 /\ leader_torque_enabled)
    ~> \/ AllOff
       \/ leader_torque_gain_target > 0
       \/ \E b \in Board : disable_stopped[b] > 0

\* A control thread that ended, for whatever reason, is followed by a completed
\* shutdown ("A dead control thread would leave the servos holding their last current").
DeadThreadShutsDown == At("control", "exited") ~> At("main", "closed")

\* shut_down "Disables all torque on the leader arm and gripper" (dual_base:711): a
\* servo is on after it only if its own disable write went unanswered.
ShutDownDisablesAllTorque ==
  At("main", "closed") =>
    \A b \in Board, i \in Servo : driver[b].energized[i] => disable_stopped[b] = i
=============================================================================
