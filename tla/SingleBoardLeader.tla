------------------------- MODULE SingleBoardLeader -------------------------
(***************************************************************************)
(* The single-board leader arm (factr_teleop.py, factr_rizon_teleop.py).   *)
(* Its control loop is a timer callback on a MultiThreadedExecutor, so     *)
(* nothing keeps shut_down, which main calls once spin() has ended, from   *)
(* running beside a callback that is still in flight.  Both then use one   *)
(* DynamixelDriver: its lock covers only set_torque_mode, and the SDK's    *)
(* port.is_using flag refuses a transaction that finds another one under   *)
(* way.  A driver call is therefore modelled transaction by transaction.   *)
(* Init is the state a successful constructor leaves.                      *)
(***************************************************************************)
EXTENDS DynamixelBoard

CONSTANT WriteAttempts  \* STARTUP_WRITE_ATTEMPTS

ASSUME AttemptsAssumption == WriteAttempts \in Nat \ {0}

VARIABLES
  driver,                     \* the driver object and its servos' registers
  is_using, port_open, lock,  \* port.is_using, port.is_open, holder of driver._lock
  call,                       \* the driver call each thread is in
  leader_torque_enabled,
  leader_torque_gain,
  leader_torque_gain_target,
  clock,                      \* _leader_torque_gain_last_update is not None
  pc,
  local,                      \* the callback's locals in _update_component_gains
  errors,                     \* the errors list of _set_leader_torque_enabled is not empty
  callback_raised,            \* a callback ended in an exception the executor holds
  new_target,                 \* the gain callback's local
  shut_down_reached           \* the last call shut_down made, "done" when it returned

port  == <<is_using, port_open, lock>>
gains == <<leader_torque_gain, leader_torque_gain_target, clock>>
vars  == <<driver, port, call, leader_torque_enabled, gains, pc, local, errors,
           callback_raised, new_target, shut_down_reached>>

Caller == {"main", "timer"}

NoCall == [op |-> "none", stage |-> "returned", servo |-> 1, tries |-> 1, level |-> 0]
NoLocals == [gain |-> 0, target |-> 0, clock |-> FALSE]

TypeOK ==
  /\ driver \in Driver
  /\ is_using \in BOOLEAN
  /\ port_open \in BOOLEAN
  /\ lock \in Caller \cup {"free"}
  /\ call \in [Caller -> [op : {"none", "read", "on", "off", "current"},
                          stage : {"start", "test", "take", "answer", "flag",
                                   "returned", "raised", "broken"},
                          servo : Servo, tries : 1..WriteAttempts, level : Level]]
  /\ leader_torque_enabled \in BOOLEAN
  /\ leader_torque_gain \in Level
  /\ leader_torque_gain_target \in Level
  /\ clock \in BOOLEAN
  /\ pc["main"] \in {"spinning", "stopping", "zeroing", "disabling", "closing", "closed"}
  /\ pc["timer"] \in {"idle", "reading", "read_failed", "ramp_read", "ramp_gain", "ramp_clock",
                      "apply", "enabling", "gate", "zeroing", "disabling", "writing"}
  /\ pc["gain"] \in {"waiting", "check", "unclock", "install"}
  /\ local \in [gain : Level, target : Level, clock : BOOLEAN]
  /\ errors \in BOOLEAN
  /\ callback_raised \in BOOLEAN
  /\ new_target \in Level
  /\ shut_down_reached \in {"nothing", "zero", "off", "done"}

Init ==
  /\ driver = [energized |-> AllServos(FALSE), goal |-> 0,
               torque_enabled |-> FALSE, pending |-> FALSE]
  /\ is_using = FALSE /\ port_open = TRUE /\ lock = "free"
  /\ call = [t \in Caller |-> NoCall]
  /\ leader_torque_enabled = FALSE
  /\ leader_torque_gain = 0 /\ leader_torque_gain_target = 0 /\ clock = FALSE
  /\ pc = [main |-> "spinning", timer |-> "idle", gain |-> "waiting"]
  /\ local = NoLocals
  /\ errors = FALSE
  /\ callback_raised = FALSE
  /\ new_target = 0
  /\ shut_down_reached = "nothing"

At(t, step) == pc[t] = step
Goto(t, step) == pc' = [pc EXCEPT ![t] = step]
-----------------------------------------------------------------------------
(* Inside the driver: one call, transaction by transaction *)

InDriver(t, op, stage) == call[t].op \in op /\ call[t].stage = stage
Stage(t, stage) == call' = [call EXCEPT ![t].stage = stage]

\* Mutant: acquire() with a release() that an exception skips.
ReleaseOnReturn(t) == lock' = IF lock = t /\ call'[t].stage = "flag" THEN "free" ELSE lock

\* Leaving set_torque_mode's `with self._lock` in any way releases the lock.
Release(t) == lock' = IF lock = t THEN "free" ELSE lock

AcquireLock(t) ==
  /\ InDriver(t, {"on", "off"}, "start")
  /\ lock = "free"
  /\ lock' = t
  /\ Stage(t, "test")
  /\ UNCHANGED <<driver, is_using, port_open>>

\* set_current refuses while torque is off, or while its group still holds parameters.
CheckCurrent(t) ==
  /\ InDriver(t, {"current"}, "start")
  /\ IF ~driver.torque_enabled \/ driver.pending
     THEN Stage(t, "raised") /\ UNCHANGED driver
     ELSE Stage(t, "test") /\ driver' = [driver EXCEPT !.pending = TRUE]
  /\ UNCHANGED port

\* Mutant: one attempt too many.
AttemptFailedLate(t) ==
  IF call[t].op \in {"on", "off"} /\ call[t].tries <= WriteAttempts
  THEN /\ call' = [call EXCEPT ![t].stage = "test", ![t].tries = @ + 1]
       /\ UNCHANGED lock
  ELSE Stage(t, "raised") /\ Release(t)

\* _write_1_byte_with_retry: an attempt without an answer is repeated, the last one raises.
AttemptFailed(t) ==
  IF call[t].op \in {"on", "off"} /\ call[t].tries < WriteAttempts
  THEN /\ call' = [call EXCEPT ![t].stage = "test", ![t].tries = @ + 1]
       /\ UNCHANGED lock
  ELSE Stage(t, "raised") /\ Release(t)

\* txPacket: `if port.is_using: return COMM_PORT_BUSY` ...
TestPort(t) ==
  /\ call[t].op # "none" /\ call[t].stage = "test"
  /\ IF is_using THEN AttemptFailed(t) ELSE Stage(t, "take") /\ UNCHANGED lock
  /\ UNCHANGED <<driver, is_using, port_open>>

\* ... then the flag goes up; flushing or writing a closed port raises and leaves it up.
TakePort(t) ==
  /\ call[t].op # "none" /\ call[t].stage = "take"
  /\ is_using' = TRUE
  /\ IF port_open THEN Stage(t, "answer") /\ UNCHANGED lock
     ELSE Stage(t, "broken") /\ Release(t)
  /\ UNCHANGED <<driver, port_open>>

\* Servo `servo` answered its torque-enable write: the next one, or the end of the loop.
Answered(t) ==
  /\ InDriver(t, {"on", "off"}, "answer")
  /\ is_using' = FALSE
  /\ driver' = [driver EXCEPT !.energized[call[t].servo] = (call[t].op = "on")]
  /\ IF call[t].servo < NumServos
     THEN /\ call' = [call EXCEPT ![t].stage = "test", ![t].tries = 1, ![t].servo = @ + 1]
          /\ UNCHANGED lock
     ELSE Stage(t, "flag") /\ Release(t)
  /\ UNCHANGED port_open

\* Its answer was lost; the servo may have executed the write.
AnswerLost(t) ==
  /\ InDriver(t, {"on", "off"}, "answer")
  /\ is_using' = FALSE
  /\ \E heard \in BOOLEAN :
       driver' = IF heard
                 THEN [driver EXCEPT !.energized[call[t].servo] = (call[t].op = "on")]
                 ELSE driver
  /\ AttemptFailed(t)
  /\ UNCHANGED port_open

\* _torque_enabled is assigned after the lock was released.
SetFlag(t) ==
  /\ InDriver(t, {"on", "off"}, "flag")
  /\ driver' = [driver EXCEPT !.torque_enabled = (call[t].op = "on")]
  /\ Stage(t, "returned")
  /\ UNCHANGED port

\* The sync write went out and clearParam ran, or it failed and the parameters stay.
CurrentSent(t) ==
  /\ InDriver(t, {"current"}, "answer")
  /\ is_using' = FALSE
  /\ \/ /\ driver' = [driver EXCEPT !.goal = call[t].level, !.pending = FALSE]
        /\ Stage(t, "returned")
     \/ Stage(t, "raised") /\ UNCHANGED driver
  /\ UNCHANGED <<port_open, lock>>

\* One fast sync read: a sample, or a DynamixelReadError.
ReadAnswered(t) ==
  /\ InDriver(t, {"read"}, "answer")
  /\ is_using' = FALSE
  /\ Stage(t, "returned") \/ Stage(t, "raised")
  /\ UNCHANGED <<driver, port_open, lock>>

DriverStep(t) ==
  /\ \/ AcquireLock(t) \/ CheckCurrent(t) \/ TestPort(t) \/ TakePort(t) \/ Answered(t)
     \/ AnswerLost(t) \/ SetFlag(t) \/ CurrentSent(t) \/ ReadAnswered(t)
  /\ UNCHANGED <<leader_torque_enabled, gains, pc, local, errors, callback_raised, new_target,
                 shut_down_reached>>

\* Starting a call, and what its caller sees of its end.
Begin(t, op, level) ==
  call' = [call EXCEPT ![t] = [op |-> op, stage |-> IF op = "read" THEN "test" ELSE "start",
                               servo |-> 1, tries |-> 1, level |-> level]]

EndCall(t) == call' = [call EXCEPT ![t] = NoCall]
Raised(t)   == call[t].stage \in {"raised", "broken"}
Finished(t) == call[t].stage = "returned" \/ Raised(t)
-----------------------------------------------------------------------------
(* timer: control_loop_callback *)

Shared == UNCHANGED <<driver, port>>

\* The executor hands a due timer to a worker only while main spins.
TimerFires ==
  /\ At("timer", "idle") /\ At("main", "spinning")
  /\ Begin("timer", "read", 0)
  /\ Goto("timer", "reading")
  /\ Shared
  /\ UNCHANGED <<leader_torque_enabled, gains, local, errors, callback_raised, new_target,
                 shut_down_reached>>

\* Mutant: the callback catches and logs every exception.
EndCallbackQuietly(raised) ==
  /\ Goto("timer", "idle")
  /\ local' = NoLocals
  /\ errors' = FALSE
  /\ UNCHANGED callback_raised

\* The callback is over, with an exception or without one, and its locals are gone.
EndCallback(raised) ==
  /\ Goto("timer", "idle")
  /\ callback_raised' = (callback_raised \/ raised)
  /\ local' = NoLocals
  /\ errors' = FALSE

Continue(step) == Goto("timer", step) /\ UNCHANGED <<callback_raised, local>>

ReadDone ==
  /\ At("timer", "reading")
  /\ Finished("timer")
  /\ EndCall("timer")
  /\ CASE call["timer"].stage = "returned" -> Continue("ramp_read") /\ UNCHANGED errors
       [] call["timer"].stage = "raised" -> Continue("read_failed") /\ UNCHANGED errors
       [] OTHER -> EndCallback(TRUE)
  /\ Shared
  /\ UNCHANGED <<leader_torque_enabled, gains, new_target, shut_down_reached>>

\* Mutant: torque off at once, with the last current still latched.
DisableAtOnce ==
  /\ errors' = FALSE
  /\ Begin("timer", "off", 0) /\ Continue("disabling")

\* _set_leader_torque_enabled(False): zero current if the driver says it is on, then off.
BeginDisable ==
  /\ errors' = FALSE
  /\ IF driver.torque_enabled
     THEN Begin("timer", "current", 0) /\ Continue("zeroing")
     ELSE Begin("timer", "off", 0) /\ Continue("disabling")

\* _disable_leader_torque_after_read_failure
AfterReadFailure ==
  /\ At("timer", "read_failed")
  /\ IF leader_torque_gain_target = 0 /\ leader_torque_enabled
     THEN /\ leader_torque_gain' = 0
          /\ BeginDisable
     ELSE EndCallback(FALSE) /\ UNCHANGED <<leader_torque_gain, call>>
  /\ Shared
  /\ UNCHANGED <<leader_torque_enabled, leader_torque_gain_target, clock, new_target,
                 shut_down_reached>>

ZeroDone ==
  /\ At("timer", "zeroing") /\ Finished("timer")
  /\ errors' = Raised("timer")
  /\ Begin("timer", "off", 0)
  /\ Continue("disabling")
  /\ Shared
  /\ UNCHANGED <<leader_torque_enabled, gains, new_target, shut_down_reached>>

DisableDone ==
  /\ At("timer", "disabling") /\ Finished("timer")
  /\ leader_torque_enabled' = driver.torque_enabled
  /\ EndCall("timer")
  /\ EndCallback(errors \/ Raised("timer"))
  /\ Shared
  /\ UNCHANGED <<gains, new_target, shut_down_reached>>

\* _update_component_gains, the leader gain: arguments, first and second of the pair.
RampRead ==
  /\ At("timer", "ramp_read")
  /\ local' = [gain |-> leader_torque_gain, target |-> leader_torque_gain_target, clock |-> clock]
  /\ Goto("timer", "ramp_gain")
  /\ Shared
  /\ UNCHANGED <<call, leader_torque_enabled, gains, errors, callback_raised, new_target,
                 shut_down_reached>>

RampStoreGain ==
  /\ At("timer", "ramp_gain")
  /\ \E elapsed \in 1..MaxLevel :
       leader_torque_gain' = RampGain(local.gain, local.target, local.clock, elapsed)
  /\ Goto("timer", "ramp_clock")
  /\ Shared
  /\ UNCHANGED <<call, leader_torque_enabled, leader_torque_gain_target, clock, local, errors,
                 callback_raised, new_target, shut_down_reached>>

RampStoreClock ==
  /\ At("timer", "ramp_clock")
  /\ clock' = TRUE
  /\ local' = [local EXCEPT !.gain = leader_torque_gain]
  /\ Goto("timer", "apply")
  /\ Shared
  /\ UNCHANGED <<call, leader_torque_enabled, leader_torque_gain, leader_torque_gain_target, errors,
                 callback_raised, new_target, shut_down_reached>>

\* _apply_leader_torque
Apply ==
  /\ At("timer", "apply")
  /\ IF leader_torque_gain_target > 0 /\ ~leader_torque_enabled
     THEN Begin("timer", "on", 0) /\ Goto("timer", "enabling")
     ELSE Goto("timer", "gate") /\ UNCHANGED call
  /\ Shared
  /\ UNCHANGED <<leader_torque_enabled, gains, local, errors, callback_raised, new_target,
                 shut_down_reached>>

EnableDone ==
  /\ At("timer", "enabling") /\ Finished("timer")
  /\ EndCall("timer")
  /\ IF Raised("timer")
     THEN EndCallback(TRUE) /\ UNCHANGED leader_torque_enabled
     ELSE /\ leader_torque_enabled' = TRUE
          /\ Continue("gate")
          /\ UNCHANGED errors
  /\ Shared
  /\ UNCHANGED <<gains, new_target, shut_down_reached>>

Gate ==
  /\ At("timer", "gate")
  /\ \/ /\ ~leader_torque_enabled
        /\ EndCallback(FALSE)
        /\ UNCHANGED call
     \/ /\ leader_torque_enabled
        /\ leader_torque_gain_target = 0 /\ leader_torque_gain = 0
        /\ BeginDisable
     \/ /\ leader_torque_enabled
        /\ leader_torque_gain_target > 0 \/ leader_torque_gain > 0
        /\ \E level \in ComposedTorque(local.gain) : Begin("timer", "current", level)
        /\ Continue("writing")
        /\ UNCHANGED errors
  /\ Shared
  /\ UNCHANGED <<leader_torque_enabled, gains, new_target, shut_down_reached>>

WriteDone ==
  /\ At("timer", "writing") /\ Finished("timer")
  /\ EndCall("timer")
  /\ EndCallback(Raised("timer"))
  /\ Shared
  /\ UNCHANGED <<leader_torque_enabled, gains, new_target, shut_down_reached>>

Callback == \/ ReadDone \/ AfterReadFailure \/ ZeroDone \/ DisableDone
            \/ RampRead \/ RampStoreGain \/ RampStoreClock
            \/ Apply \/ EnableDone \/ Gate \/ WriteDone
-----------------------------------------------------------------------------
(* gain: _on_grav_comp_gain_target, in a callback group of its own *)

GainOnly == /\ Shared
            /\ UNCHANGED <<call, leader_torque_enabled, local, errors, callback_raised,
                           shut_down_reached>>

ReceiveTarget ==
  /\ At("gain", "waiting") /\ At("main", "spinning")
  /\ new_target' \in Level
  /\ Goto("gain", "check")
  /\ GainOnly /\ UNCHANGED gains

CheckTarget ==
  /\ At("gain", "check")
  /\ IF new_target > 0 /\ leader_torque_gain_target = 0
     THEN leader_torque_gain' = 0 /\ Goto("gain", "unclock")
     ELSE UNCHANGED leader_torque_gain /\ Goto("gain", "install")
  /\ GainOnly /\ UNCHANGED <<leader_torque_gain_target, clock, new_target>>

ClearClock ==
  /\ At("gain", "unclock")
  /\ clock' = FALSE
  /\ Goto("gain", "install")
  /\ GainOnly /\ UNCHANGED <<leader_torque_gain, leader_torque_gain_target, new_target>>

InstallTarget ==
  /\ At("gain", "install")
  /\ leader_torque_gain_target' = new_target
  /\ new_target' = 0
  /\ Goto("gain", "waiting")
  /\ GainOnly /\ UNCHANGED <<leader_torque_gain, clock>>
-----------------------------------------------------------------------------
(* main: spin, then the finally of main() *)

MainOnly == UNCHANGED <<driver, is_using, lock, gains, local, errors, callback_raised, new_target>>

\* Ctrl-C, or the executor re-raises a callback's exception.
SpinEnds ==
  /\ At("main", "spinning")
  /\ Goto("main", "stopping")
  /\ MainOnly /\ UNCHANGED <<port_open, call, leader_torque_enabled, shut_down_reached>>

\* shut_down: `if self.driver.torque_enabled`
ShutDown ==
  /\ At("main", "stopping")
  /\ IF driver.torque_enabled
     THEN Begin("main", "current", 0) /\ Goto("main", "zeroing") /\ shut_down_reached' = "zero"
     ELSE Begin("main", "off", 0) /\ Goto("main", "disabling") /\ shut_down_reached' = "off"
  /\ MainOnly /\ UNCHANGED <<port_open, leader_torque_enabled>>

\* The zero write is not guarded: its exception skips the disable.
ShutDownZeroed ==
  /\ At("main", "zeroing") /\ Finished("main")
  /\ IF Raised("main")
     THEN EndCall("main") /\ Goto("main", "closing") /\ UNCHANGED shut_down_reached
     ELSE Begin("main", "off", 0) /\ Goto("main", "disabling") /\ shut_down_reached' = "off"
  /\ MainOnly /\ UNCHANGED <<port_open, leader_torque_enabled>>

ShutDownDisabled ==
  /\ At("main", "disabling") /\ Finished("main")
  /\ EndCall("main")
  /\ Goto("main", "closing")
  /\ IF Raised("main") THEN UNCHANGED <<leader_torque_enabled, shut_down_reached>>
     ELSE leader_torque_enabled' = FALSE /\ shut_down_reached' = "done"
  /\ MainOnly /\ UNCHANGED port_open

Close ==
  /\ At("main", "closing")
  /\ port_open' = FALSE
  /\ Goto("main", "closed")
  /\ MainOnly /\ UNCHANGED <<call, leader_torque_enabled, shut_down_reached>>

Main == DriverStep("main") \/ ShutDown \/ ShutDownZeroed \/ ShutDownDisabled \/ Close
Timer == DriverStep("timer") \/ Callback
Gain == CheckTarget \/ ClearClock \/ InstallTarget

\* Nothing is left to run: the workers are idle and the executor starts no more.
Terminated == /\ At("main", "closed") /\ At("timer", "idle") /\ At("gain", "waiting")
              /\ UNCHANGED vars

Next == Main \/ Timer \/ Gain \/ TimerFires \/ ReceiveTarget \/ SpinEnds \/ Terminated

Spec == Init /\ [][Next]_vars

\* A thread that can run does run.
FairSpec == Spec /\ WF_vars(Main) /\ WF_vars(Timer)
-----------------------------------------------------------------------------
(* Properties *)

\* A servo is switched on only while the last current sent to the board is zero ("The
\* previous disable (and startup) left goal current latched at zero"), until a callback
\* fails: the executor may start another one before main sees the exception.
EnergizesFromZero ==
  [][\A i \in Servo : ~driver.energized[i] /\ driver'.energized[i]
       => driver.goal = 0 \/ callback_raised]_vars

\* While main spins and no callback has failed, the loop's flag, the driver's flag and the
\* servos agree between two callbacks, and a leader that is off was last sent zero current
\* (_set_leader_torque_enabled, _apply_leader_torque).
IdleIsCoherent ==
  At("timer", "idle") /\ At("main", "spinning") /\ ~callback_raised =>
    /\ driver.torque_enabled = leader_torque_enabled
    /\ driver.energized = AllServos(leader_torque_enabled)
    /\ ~driver.pending
    /\ ~leader_torque_enabled => driver.goal = 0

\* shut_down is never blocked for good by a callback in flight: whatever fails, the
\* driver's lock is given back.
ShutDownCompletes == At("main", "stopping") ~> At("main", "closed")

\* shut_down "Disables all torque on the leader arm and gripper" (factr_teleop.py:463):
\* a servo is on after it only if a disable write was at least tried.
ShutDownDisablesTorque ==
  At("main", "closed") /\ shut_down_reached = "zero" => driver.energized = AllServos(FALSE)

\* "Graceful shutdown: zero + disable torque" (factr_rizon_teleop.py:139): once shut_down
\* has disabled the servos, nothing switches one on again.
StaysDisabled ==
  [][shut_down_reached = "done" =>
       \A i \in Servo : driver'.energized[i] => driver.energized[i]]_vars

\* "Enabling must begin from a true zero command after a fresh read" (factr_teleop.py:656):
\* the callback that energizes the arm composes with a leader gain of zero.
EnablingFromZeroGain == At("timer", "enabling") => local.gain = 0
=============================================================================
