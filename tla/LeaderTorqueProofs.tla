------------------------ MODULE LeaderTorqueProofs ------------------------
(***************************************************************************)
(* Proofs about LeaderTorque, for every number of boards, servos, gain     *)
(* steps and bus failures.                                                 *)
(***************************************************************************)
EXTENDS LeaderGate, TLAPS

\* A board that is off for good (nothing latched), and one that is on.
Off(b) == /\ ~driver[b].torque_enabled
          /\ driver[b].energized = AllServos(FALSE)
          /\ driver[b].goal = 0

On(b) == /\ driver[b].torque_enabled
         /\ driver[b].energized = AllServos(TRUE)

Settled == {"top", "read_failed", "ramp_gain", "ramp_target", "ramp_clock", "ramp_store",
            "ramp_stamp", "ramp_return", "apply"}

Constructing == {"off", "mode", "on", "zero", "off_again", "aborted"}

ShutUpToStop(b) == \A i \in Servo :
  disable_stopped[b] = 0 \/ i < disable_stopped[b] => ~driver[b].energized[i]

\* The thread that may touch the boards: main before the control thread starts and
\* after it ended.
ThreadOrder ==
  /\ At("main", "zeroing") \/ At("main", "disabling") \/ At("main", "closed")
       => At("control", "exited")
  /\ pc["main"] \in Constructing <=> At("control", "unstarted")

ConstructorInv ==
  pc["main"] \in Constructing \ {"aborted"} =>
    /\ ~leader_torque_enabled
    /\ \A b \in Board : b < at["main"] => Off(b)
    /\ At("main", "off_again") => driver[at["main"]].goal = 0

BoardsInv ==
  /\ pc["control"] \in Settled =>
       \A b \in Board : IF leader_torque_enabled THEN On(b) ELSE Off(b)
  /\ pc["control"] \in {"drop", "gate", "gate_gain", "write"} =>
       leader_torque_enabled /\ \A b \in Board : On(b)

EnablingInv ==
  At("control", "enabling") =>
    /\ ~leader_torque_enabled
    /\ \A b \in Board : at["control"] <= b => Off(b)
    /\ ~errors["control"] => \A b \in Board : b < at["control"] => On(b)

DisablingInv ==
  /\ At("control", "zeroing") =>
       /\ leader_torque_enabled
       /\ \A b \in Board : On(b)
       /\ ~errors["control"] => \A b \in Board : b < at["control"] => driver[b].goal = 0
  /\ At("control", "disabling") =>
       (~errors["control"] => \A b \in Board : /\ driver[b].goal = 0
                                               /\ b < at["control"] => Off(b))

ShutDownInv ==
  /\ At("main", "disabling") => \A b \in Board : b < at["main"] => ShutUpToStop(b)
  /\ At("main", "closed") => \A b \in Board : ShutUpToStop(b)

\* A loop over the boards starts at the first one.
LoopsInv ==
  /\ pc["control"] \notin {"enabling", "cleanup", "zeroing", "disabling"} => at["control"] = 1
  /\ pc["main"] \in {"spinning", "joining"} => at["main"] = 1

\* The inductive invariant.
IInv == /\ TypeOK
        /\ ThreadOrder
        /\ ConstructorInv
        /\ BoardsInv
        /\ EnablingInv
        /\ DisablingInv
        /\ ShutDownInv
        /\ LoopsInv
-----------------------------------------------------------------------------
(* What the calls on a board may do *)

LEMMA OutcomeFields ==
  ASSUME NEW d \in Driver, NEW k \in 0..NumServos
  PROVE  /\ Returned(d) \in Outcome /\ Returned(d).driver = d
         /\ ~Returned(d).raised /\ Returned(d).stopped_at = 0 /\ ~Returned(d).fault
         /\ Refused(d) \in Outcome /\ Refused(d).driver = d /\ Refused(d).raised
         /\ BusFailed(d, k) \in Outcome /\ BusFailed(d, k).driver = d
         /\ BusFailed(d, k).raised /\ BusFailed(d, k).stopped_at = k
  BY BoardAssumption DEF Returned, Refused, BusFailed, Outcome

\* set_torque_mode keeps the latched current, reaches every servo when it returns, never
\* switches a servo on when disabling, and then is off up to the servo it stopped at.
LEMMA SetTorqueModeOutcome ==
  ASSUME NEW d \in Driver, NEW enable \in BOOLEAN, NEW o \in SetTorqueMode(d, enable)
  PROVE  /\ o \in Outcome
         /\ o.driver.goal = d.goal
         /\ ~o.raised => /\ o.driver.energized = AllServos(enable)
                         /\ o.driver.torque_enabled = enable
         /\ ~enable => \A i \in Servo :
              /\ o.driver.energized[i] => d.energized[i]
              /\ o.stopped_at = 0 \/ i < o.stopped_at => ~o.driver.energized[i]
  <1>1. CASE o = Returned([d EXCEPT !.energized = AllServos(enable),
                                    !.torque_enabled = enable])
    <2> DEFINE e == [d EXCEPT !.energized = AllServos(enable), !.torque_enabled = enable]
    <2>1. /\ e \in Driver
          /\ e.goal = d.goal
          /\ e.energized = AllServos(enable)
          /\ e.torque_enabled = enable
      BY DEF AllServos, Driver
    <2>2. /\ o \in Outcome
          /\ o.driver = e
          /\ ~o.raised
      BY <1>1, <2>1, BoardAssumption, OutcomeFields
    <2>3. ~enable => \A i \in Servo : ~e.energized[i]
      BY <2>1 DEF AllServos
    <2> QED
      BY <2>1, <2>2, <2>3
  <1>2. ASSUME NEW k \in Servo, NEW heard \in BOOLEAN,
               o = BusFailed(WrittenUpTo(d, k, heard, enable), k)
        PROVE  /\ o \in Outcome
               /\ o.driver.goal = d.goal
               /\ o.raised
               /\ ~enable => \A i \in Servo :
                    /\ o.driver.energized[i] => d.energized[i]
                    /\ o.stopped_at = 0 \/ i < o.stopped_at => ~o.driver.energized[i]
    <2> DEFINE e == WrittenUpTo(d, k, heard, enable)
    <2>1. /\ e \in Driver
          /\ e.goal = d.goal
          /\ \A i \in Servo : e.energized[i] = IF i < k \/ (i = k /\ heard) THEN enable
                                               ELSE d.energized[i]
      BY DEF WrittenUpTo, Driver
    <2>2. k \in 0..NumServos /\ k > 0
      BY BoardAssumption DEF Servo
    <2>3. /\ o \in Outcome
          /\ o.driver = e
          /\ o.raised
          /\ o.stopped_at = k
      BY <1>2, <2>1, <2>2, OutcomeFields
    <2>4. ASSUME ~enable, NEW i \in Servo
          PROVE  /\ e.energized[i] => d.energized[i]
                 /\ k = 0 \/ i < k => ~e.energized[i]
      <3>1. enable = FALSE
        BY <2>4
      <3>2. e.energized[i] = IF i < k \/ (i = k /\ heard) THEN FALSE ELSE d.energized[i]
        BY <2>1, <2>4, <3>1
      <3> HIDE DEF e
      <3> QED
        BY <2>2, <3>2
    <2> QED
      BY <2>1, <2>3, <2>4
  <1>3. QED BY <1>1, <1>2 DEF SetTorqueMode

\* set_current leaves torque alone and latches its level exactly when it returns.
LEMMA SetCurrentOutcome ==
  ASSUME NEW d \in Driver, NEW level \in Level, NEW o \in SetCurrent(d, level)
  PROVE  /\ o \in Outcome
         /\ o.driver.energized = d.energized
         /\ o.driver.torque_enabled = d.torque_enabled
         /\ ~o.raised => o.driver.goal = level
         /\ o.raised => o.driver.goal = d.goal
  <1> DEFINE sent == [d EXCEPT !.goal = level]
             left == [d EXCEPT !.pending = TRUE]
  <1>1. /\ sent \in Driver /\ left \in Driver
        /\ sent.energized = d.energized /\ left.energized = d.energized
        /\ sent.torque_enabled = d.torque_enabled /\ left.torque_enabled = d.torque_enabled
        /\ sent.goal = level /\ left.goal = d.goal
    BY DEF Driver
  <1>2. o = Refused(d) \/ o = Returned(sent) \/ o = BusFailed(left, 0)
    BY DEF SetCurrent
  <1>3. 0 \in 0..NumServos
    BY BoardAssumption
  <1> HIDE DEF sent, left
  <1>4. CASE o = Refused(d)
    BY <1>4, OutcomeFields, <1>3
  <1>5. CASE o = Returned(sent)
    BY <1>1, <1>3, <1>5, OutcomeFields
  <1>6. CASE o = BusFailed(left, 0)
    BY <1>1, <1>3, <1>6, OutcomeFields
  <1> QED
    BY <1>2, <1>4, <1>5, <1>6

LEMMA SetOperatingModeOutcome ==
  ASSUME NEW d \in Driver, NEW o \in SetOperatingMode(d)
  PROVE  o \in Outcome /\ o.driver = d
  <1>1. Servo \subseteq 0..NumServos /\ 0 \in 0..NumServos
    BY BoardAssumption DEF Servo
  <1> QED
    BY <1>1, OutcomeFields DEF SetOperatingMode

\* ramp_gain stays between the value and the target it is given, so within [0, 1].
LEMMA RampGainBetween ==
  ASSUME NEW value \in Level, NEW target \in Level, NEW running \in BOOLEAN,
         NEW elapsed \in Nat
  PROVE  LET g == RampGain(value, target, running, elapsed)
         IN /\ g \in Level
            /\ value <= target => value <= g /\ g <= target
            /\ target <= value => target <= g /\ g <= value
            /\ running /\ elapsed > 0 /\ value # target => g # value
  BY GainAssumption DEF RampGain, Level, Lesser, Greater
-----------------------------------------------------------------------------
(* Type correctness *)

USE LeaderAssumption DEF Board, At

\* The outcome of a call on a board leaves every driver a driver and the count in bounds.
LEMMA CallType ==
  ASSUME TypeOK, NEW b \in Board, NEW o \in Outcome, Call(b, o)
  PROVE  driver' \in [Board -> Driver] /\ faults' \in 0..MaxFaults
  BY DEF TypeOK, Call, Count, Outcome

\* A step of a thread's loop keeps the loop's variables in their types.
LEMMA AdvanceType ==
  ASSUME TypeOK, NEW t \in Thread, NEW after, Advance(t, after)
  PROVE  at' \in [Thread -> Board] /\ (pc' = pc \/ pc' = [pc EXCEPT ![t] = after])
  <1>1. at[t] \in Board /\ 1 \in Board /\ (at[t] < NumBoards => at[t] + 1 \in Board)
    BY DEF TypeOK
  <1>2. CASE at[t] < NumBoards
    BY <1>1, <1>2 DEF TypeOK, Advance
  <1>3. CASE ~(at[t] < NumBoards)
    BY <1>1, <1>3 DEF TypeOK, Advance, Goto
  <1> QED
    BY <1>2, <1>3

LEMMA GotoMain ==
  ASSUME TypeOK, NEW s \in MainStep, pc' = [pc EXCEPT !["main"] = s]
  PROVE  /\ pc' \in [Thread -> ControlStep \cup MainStep \cup GainStep]
         /\ pc'["main"] = s /\ pc'["control"] = pc["control"] /\ pc'["gain"] = pc["gain"]
  BY DEF TypeOK, Thread

LEMMA GotoControl ==
  ASSUME TypeOK, NEW s \in ControlStep, pc' = [pc EXCEPT !["control"] = s]
  PROVE  /\ pc' \in [Thread -> ControlStep \cup MainStep \cup GainStep]
         /\ pc'["control"] = s /\ pc'["main"] = pc["main"] /\ pc'["gain"] = pc["gain"]
  BY DEF TypeOK, Thread

LEMMA GotoGain ==
  ASSUME TypeOK, NEW s \in GainStep, pc' = [pc EXCEPT !["gain"] = s]
  PROVE  /\ pc' \in [Thread -> ControlStep \cup MainStep \cup GainStep]
         /\ pc'["gain"] = s /\ pc'["main"] = pc["main"] /\ pc'["control"] = pc["control"]
  BY DEF TypeOK, Thread

\* Every action keeps the types.
LEMMA TypeStep == TypeOK /\ [Next]_vars => TypeOK'
  <1> SUFFICES ASSUME TypeOK, [Next]_vars
               PROVE  TypeOK'
    OBVIOUS
  <1> USE DEF gains
  <1>1. CASE PrepareBoard
    <2>1. driver[at["main"]] \in Driver /\ at["main"] \in Board /\ 0 \in Level
      BY GainAssumption DEF TypeOK, Thread, Level
    <2>2. ASSUME NEW step, NEW outcomes \in SUBSET Outcome, NEW next \in MainStep,
                 Prepare(step, outcomes, next)
          PROVE  TypeOK'
      <3>1. PICK o \in outcomes : Call(at["main"], o)
                                   /\ Goto("main", IF o.raised THEN "aborted" ELSE next)
        BY <2>2 DEF Prepare
      <3>2. driver' \in [Board -> Driver] /\ faults' \in 0..MaxFaults
        BY <2>1, <3>1, CallType
      <3>3. (IF o.raised THEN "aborted" ELSE next) \in MainStep
        BY DEF MainStep
      <3> QED
        BY <2>2, <3>1, <3>2, <3>3, GotoMain DEF TypeOK, Prepare, Goto
    <2>3. /\ SetTorqueMode(driver[at["main"]], FALSE) \in SUBSET Outcome
          /\ SetTorqueMode(driver[at["main"]], TRUE) \in SUBSET Outcome
          /\ SetOperatingMode(driver[at["main"]]) \in SUBSET Outcome
          /\ SetCurrent(driver[at["main"]], 0) \in SUBSET Outcome
      BY <2>1, SetTorqueModeOutcome, SetOperatingModeOutcome, SetCurrentOutcome
    <2> QED
      BY <1>1, <2>2, <2>3 DEF PrepareBoard, MainStep
  <1>2. CASE PrepareLast
    <2>1. driver[at["main"]] \in Driver /\ at["main"] \in Board
      BY DEF TypeOK, Thread
    <2>2. PICK o \in SetTorqueMode(driver[at["main"]], FALSE) : Call(at["main"], o)
      BY <1>2 DEF PrepareLast
    <2>3. driver' \in [Board -> Driver] /\ faults' \in 0..MaxFaults
      BY <2>1, <2>2, CallType, SetTorqueModeOutcome
    <2>4. at' \in [Thread -> Board]
      <3>1. 1 \in Board /\ (at["main"] < NumBoards => at["main"] + 1 \in Board)
        BY <2>1
      <3>2. \/ at' = at
            \/ at' = [at EXCEPT !["main"] = 1]
            \/ at["main"] < NumBoards /\ at' = [at EXCEPT !["main"] = at["main"] + 1]
        BY <1>2 DEF PrepareLast
      <3> QED
        BY <3>1, <3>2 DEF TypeOK
    <2>5. /\ pc' \in [Thread -> ControlStep \cup MainStep \cup GainStep]
          /\ pc'["main"] \in MainStep /\ pc'["control"] \in ControlStep
          /\ pc'["gain"] \in GainStep
      BY <1>2 DEF PrepareLast, TypeOK, Thread, Goto, MainStep, ControlStep, GainStep
    <2> QED
      BY <1>2, <2>3, <2>4, <2>5 DEF PrepareLast, TypeOK
  <1>3. CASE ReceiveTarget
    BY <1>3, GotoGain, GainAssumption DEF ReceiveTarget, TypeOK, Goto, GainStep, Level
  <1>4. CASE CheckTarget
    BY <1>4, GotoGain, GainAssumption DEF CheckTarget, TypeOK, Goto, GainStep, Level
  <1>5. CASE ClearClock
    BY <1>5, GotoGain, GainAssumption DEF ClearClock, TypeOK, Goto, GainStep, Level
  <1>6. CASE InstallTarget
    BY <1>6, GotoGain, GainAssumption DEF InstallTarget, TypeOK, Goto, GainStep, Level
  <1>7. CASE ExitLoop
    BY <1>7, GotoControl, GainAssumption DEF ExitLoop, TypeOK, Goto, ControlStep, Level, ControlOnly, EnterLoop
  <1>8. CASE Read
    BY <1>8, GotoControl, GainAssumption DEF Read, TypeOK, Goto, ControlStep, Level, ControlOnly, EnterLoop
  <1>9. CASE AfterReadFailure
    BY <1>9, GotoControl, GainAssumption DEF AfterReadFailure, TypeOK, Goto, ControlStep, Level, ControlOnly, EnterLoop
  <1>10. CASE DropGain
    BY <1>10, GotoControl, GainAssumption DEF DropGain, TypeOK, Goto, ControlStep, Level, ControlOnly, EnterLoop
  <1>11. CASE RampReadGain
    BY <1>11, GotoControl, GainAssumption DEF RampReadGain, TypeOK, Goto, ControlStep, Level, ControlOnly, EnterLoop
  <1>12. CASE RampReadTarget
    BY <1>12, GotoControl, GainAssumption DEF RampReadTarget, TypeOK, Goto, ControlStep, Level, ControlOnly, EnterLoop
  <1>13. CASE RampReadClock
    BY <1>13, GotoControl, GainAssumption DEF RampReadClock, TypeOK, Goto, ControlStep, Level, ControlOnly, EnterLoop
  <1>14. CASE RampStoreGain
    <2>1. PICK elapsed \in 1..MaxLevel :
            leader_torque_gain' = RampGain(local.gain, local.target, local.clock, elapsed)
      BY <1>14 DEF RampStoreGain
    <2>2. leader_torque_gain' \in Level
      BY <2>1, RampGainBetween, GainAssumption DEF TypeOK
    <2> QED
      BY <1>14, <2>2, GotoControl DEF RampStoreGain, TypeOK, Goto, ControlStep, ControlOnly
  <1>15. CASE RampStoreClock
    BY <1>15, GotoControl, GainAssumption DEF RampStoreClock, TypeOK, Goto, ControlStep, Level, ControlOnly, EnterLoop
  <1>16. CASE RampReturn
    BY <1>16, GotoControl, GainAssumption DEF RampReturn, TypeOK, Goto, ControlStep, Level, ControlOnly, EnterLoop
  <1>17. CASE Apply
    BY <1>17, GotoControl, GainAssumption DEF Apply, TypeOK, Goto, ControlStep, Level, ControlOnly, EnterLoop
  <1>18. CASE GateTarget
    BY <1>18, GotoControl, GainAssumption DEF GateTarget, TypeOK, Goto, ControlStep, Level, ControlOnly, EnterLoop
  <1>19. CASE GateGain
    BY <1>19, GotoControl, GainAssumption DEF GateGain, TypeOK, Goto, ControlStep, Level, ControlOnly, EnterLoop
  <1>20. CASE EnableBoard
    <2>1. driver[at["control"]] \in Driver /\ at["control"] \in Board
      BY DEF TypeOK, Thread
    <2>2. PICK o \in SetTorqueMode(driver[at["control"]], TRUE) :
            /\ Call(at["control"], o)
            /\ Collect("control", o)
            /\ Advance("control", IF errors["control"] \/ o.raised THEN "cleanup" ELSE "gate")
            /\ leader_torque_enabled' \in BOOLEAN
      BY <1>20 DEF EnableBoard, TypeOK
    <2>3. driver' \in [Board -> Driver] /\ faults' \in 0..MaxFaults
      BY <2>1, <2>2, CallType, SetTorqueModeOutcome
    <2>4. /\ at' \in [Thread -> Board]
          /\ pc' = pc \/ pc' = [pc EXCEPT !["control"] = "cleanup"]
                      \/ pc' = [pc EXCEPT !["control"] = "gate"]
      BY <2>2, AdvanceType DEF Thread
    <2>5. errors' \in [Thread -> BOOLEAN]
      BY <2>2 DEF Collect, TypeOK
    <2> QED
      BY <1>20, <2>2, <2>3, <2>4, <2>5, GotoControl DEF EnableBoard, TypeOK, ControlStep
  <1>21. CASE CleanupBoard
    <2>1. driver[at["control"]] \in Driver /\ at["control"] \in Board /\ 1 \in Board
      BY DEF TypeOK, Thread
    <2>2. driver' \in [Board -> Driver] /\ faults' \in 0..MaxFaults
      BY <1>21, <2>1, CallType, SetTorqueModeOutcome DEF CleanupBoard
    <2>3. CASE at["control"] < NumBoards
      BY <1>21, <2>1, <2>2, <2>3 DEF CleanupBoard, TypeOK
    <2>4. CASE ~(at["control"] < NumBoards)
      BY <1>21, <2>1, <2>2, <2>4, GotoControl DEF CleanupBoard, TypeOK, Die, ControlStep
    <2> QED
      BY <2>3, <2>4
  <1>22. ASSUME NEW t \in {"control", "main"}, ZeroBoard(t)
         PROVE  TypeOK'
    <2>1. driver[at[t]] \in Driver /\ at[t] \in Board /\ t \in Thread
      BY DEF TypeOK, Thread
    <2>2. PICK o \in ZeroOutcomes(at[t]) : Call(at[t], o) /\ Collect(t, o)
      BY <1>22 DEF ZeroBoard
    <2>3. o \in Outcome
      BY <2>1, <2>2, SetCurrentOutcome, OutcomeFields, BoardAssumption, GainAssumption
         DEF ZeroOutcomes, Level
    <2>4. driver' \in [Board -> Driver] /\ faults' \in 0..MaxFaults
      BY <2>1, <2>2, <2>3, CallType
    <2>5. errors' \in [Thread -> BOOLEAN]
      BY <2>2, <2>3 DEF Collect, TypeOK, Outcome
    <2>6. /\ at' \in [Thread -> Board]
          /\ pc' = pc \/ pc' = [pc EXCEPT ![t] = "disabling"]
      BY <1>22, <2>1, AdvanceType DEF ZeroBoard
    <2> QED
      BY <1>22, <2>4, <2>5, <2>6, GotoControl, GotoMain DEF ZeroBoard, TypeOK, ControlStep, MainStep
  <1>23. CASE DisableBoard
    <2>1. driver[at["control"]] \in Driver /\ at["control"] \in Board /\ 1 \in Board
      BY DEF TypeOK, Thread
    <2>2. PICK o \in SetTorqueMode(driver[at["control"]], FALSE) :
            /\ Call(at["control"], o)
            /\ Collect("control", o)
            /\ IF at["control"] < NumBoards
               THEN /\ at' = [at EXCEPT !["control"] = @ + 1]
                    /\ UNCHANGED <<pc, leader_torque_enabled, stop, context_down>>
               ELSE /\ at' = [at EXCEPT !["control"] = 1]
                    /\ leader_torque_enabled' = AnyDriverOn'
                    /\ IF errors["control"] \/ o.raised
                       THEN Die
                       ELSE Goto("control", "top") /\ UNCHANGED <<stop, context_down>>
      BY <1>23 DEF DisableBoard
    <2>3. driver' \in [Board -> Driver] /\ faults' \in 0..MaxFaults
      BY <2>1, <2>2, CallType, SetTorqueModeOutcome
    <2>4. errors' \in [Thread -> BOOLEAN]
      BY <2>2 DEF Collect, TypeOK
    <2>5. AnyDriverOn' \in BOOLEAN
      BY DEF AnyDriverOn
    <2>6. CASE at["control"] < NumBoards
      <3>1. at' = [at EXCEPT !["control"] = at["control"] + 1] /\ at["control"] + 1 \in Board
        BY <2>1, <2>2, <2>6
      <3>2. UNCHANGED <<pc, leader_torque_enabled, stop, context_down>>
        BY <2>2, <2>6
      <3> QED
        BY <1>23, <2>3, <2>4, <3>1, <3>2 DEF DisableBoard, TypeOK
    <2>7. CASE ~(at["control"] < NumBoards)
      BY <1>23, <2>1, <2>2, <2>3, <2>4, <2>5, <2>7, GotoControl
         DEF DisableBoard, TypeOK, Die, Goto, ControlStep
    <2> QED
      BY <2>6, <2>7
  <1>24. CASE WriteTorque
    <2>1. PICK o \in [Board -> UNION {WriteOutcomes(b) : b \in Board}] :
            /\ \A b \in Board : o[b] \in WriteOutcomes(b)
            /\ driver' = [b \in Board |-> o[b].driver]
            /\ IF \E b \in Board : o[b].raised
               THEN Die /\ Count(1)
               ELSE Goto("control", "top") /\ UNCHANGED <<stop, context_down, faults>>
      BY <1>24 DEF WriteTorque
    <2>2. ASSUME NEW b \in Board
          PROVE  o[b] \in Outcome
      <3>1. ComposedTorque(local.gain) \subseteq Level
        BY GainAssumption DEF ComposedTorque, TypeOK, Level
      <3> QED
        BY <2>1, <3>1, SetCurrentOutcome DEF WriteOutcomes, TypeOK
    <2>3. driver' \in [Board -> Driver]
      BY <2>1, <2>2 DEF Outcome
    <2>4. CASE \E b \in Board : o[b].raised
      <3>1. Die /\ Count(1)
        BY <2>1, <2>4
      <3>2. faults' \in 0..MaxFaults
        BY <3>1 DEF Count, TypeOK
      <3> QED
        BY <1>24, <2>3, <3>1, <3>2, GotoControl DEF WriteTorque, TypeOK, Die, ControlStep
    <2>5. CASE ~\E b \in Board : o[b].raised
      <3>1. Goto("control", "top") /\ UNCHANGED <<stop, context_down, faults>>
        BY <2>1, <2>5
      <3> QED
        BY <1>24, <2>3, <3>1, GotoControl DEF WriteTorque, TypeOK, Goto, ControlStep
    <2> QED
      BY <2>4, <2>5
  <1>25. CASE ReadBreaks
    BY <1>25, GotoControl DEF ReadBreaks, TypeOK, Die, Count, ControlStep
  <1>26. CASE SpinEnds
    BY <1>26, GotoMain DEF SpinEnds, TypeOK, Goto, MainStep
  <1>27. CASE Join
    BY <1>27, GotoMain DEF Join, TypeOK, EnterLoop, Goto, MainStep
  <1>28. CASE ShutDownBoard
    <2>1. driver[at["main"]] \in Driver /\ at["main"] \in Board /\ "main" \in Thread
      BY DEF TypeOK, Thread
    <2>2. PICK o \in SetTorqueMode(driver[at["main"]], FALSE) :
            /\ Call(at["main"], o)
            /\ Collect("main", o)
            /\ disable_stopped' = [disable_stopped EXCEPT ![at["main"]] = o.stopped_at]
      BY <1>28 DEF ShutDownBoard
    <2>3. o \in Outcome
      BY <2>1, <2>2, SetTorqueModeOutcome
    <2>4. driver' \in [Board -> Driver] /\ faults' \in 0..MaxFaults
      BY <2>1, <2>2, <2>3, CallType
    <2>5. errors' \in [Thread -> BOOLEAN] /\ disable_stopped' \in [Board -> 0..NumServos]
      BY <2>2, <2>3 DEF Collect, TypeOK, Outcome
    <2>6. /\ at' \in [Thread -> Board]
          /\ pc' = pc \/ pc' = [pc EXCEPT !["main"] = "closed"]
      BY <1>28, <2>1, AdvanceType DEF ShutDownBoard
    <2>7. leader_torque_enabled' \in BOOLEAN
      BY <1>28 DEF ShutDownBoard, AnyDriverOn, TypeOK
    <2> QED
      BY <1>28, <2>4, <2>5, <2>6, <2>7, GotoMain DEF ShutDownBoard, TypeOK, MainStep
  <1>29. CASE UNCHANGED vars
    BY <1>29 DEF TypeOK, vars, threads
  <1> QED
    BY <1>1, <1>2, <1>3, <1>4, <1>5, <1>6, <1>7, <1>8, <1>9, <1>10, <1>11, <1>12, <1>13, <1>14,
       <1>15, <1>16, <1>17, <1>18, <1>19, <1>20, <1>21, <1>22, <1>23, <1>24, <1>25, <1>26, <1>27,
       <1>28, <1>29
    DEF Next, Preparing, GainCallback, Tick, ShutDown, Terminated

LEMMA TypeInit == Init => TypeOK
  <1> SUFFICES ASSUME Init
               PROVE  TypeOK
    OBVIOUS
  <1>1. /\ 0 \in Level /\ 1 \in Board /\ 0 \in 0..NumServos
        /\ 0 \in 0..MaxFaults
    BY GainAssumption, BoardAssumption DEF Level
  <1>2. /\ pc \in [Thread -> ControlStep \cup MainStep \cup GainStep]
        /\ pc["main"] \in MainStep /\ pc["control"] \in ControlStep /\ pc["gain"] \in GainStep
    BY DEF Init, Thread, MainStep, ControlStep, GainStep
  <1> QED
    BY <1>1, <1>2 DEF Init, TypeOK, Thread

\* Every variable keeps its type in every behaviour of the program.
THEOREM TypeCorrect == Spec => []TypeOK
  BY TypeInit, TypeStep, PTL DEF Spec
-----------------------------------------------------------------------------
(* The inductive invariant *)

\* A board whose driver value does not change stays on, or off.
LEMMA BoardUntouched ==
  ASSUME NEW b \in Board, driver'[b] = driver[b]
  PROVE  /\ On(b) <=> On(b)'
         /\ Off(b) <=> Off(b)'
         /\ disable_stopped'[b] = disable_stopped[b] => (ShutUpToStop(b) <=> ShutUpToStop(b)')
  BY DEF On, Off, ShutUpToStop

LEMMA NothingTouched ==
  ASSUME UNCHANGED <<driver, disable_stopped>>
  PROVE  \A b \in Board : /\ On(b) <=> On(b)'
                          /\ Off(b) <=> Off(b)'
                          /\ ShutUpToStop(b) <=> ShutUpToStop(b)'
  BY DEF On, Off, ShutUpToStop

\* Enabling a board without an exception turns it on; disabling one that holds zero
\* current turns it off.
LEMMA BoardSwitchedOn ==
  ASSUME NEW b \in Board, driver[b] \in Driver, NEW o \in SetTorqueMode(driver[b], TRUE),
         driver'[b] = o.driver, ~o.raised
  PROVE  On(b)'
  BY SetTorqueModeOutcome DEF On

LEMMA BoardSwitchedOff ==
  ASSUME NEW b \in Board, driver[b] \in Driver, NEW o \in SetTorqueMode(driver[b], FALSE),
         driver'[b] = o.driver, ~o.raised, driver[b].goal = 0
  PROVE  Off(b)'
  <1>1. /\ o.driver.energized = AllServos(FALSE)
        /\ o.driver.torque_enabled = FALSE
        /\ o.driver.goal = driver[b].goal
    BY SetTorqueModeOutcome
  <1> QED
    BY <1>1 DEF Off

\* A disable that stopped half-way leaves the board off up to that servo.
LEMMA BoardShut ==
  ASSUME NEW b \in Board, driver[b] \in Driver, NEW o \in SetTorqueMode(driver[b], FALSE),
         driver'[b] = o.driver, disable_stopped'[b] = o.stopped_at
  PROVE  ShutUpToStop(b)'
  <1>1. \A i \in Servo :
          /\ o.driver.energized[i] => driver[b].energized[i]
          /\ o.stopped_at = 0 \/ i < o.stopped_at => ~o.driver.energized[i]
    BY SetTorqueModeOutcome
  <1> QED
    BY <1>1 DEF ShutUpToStop

\* Zeroing a board keeps its torque mode.
LEMMA BoardZeroed ==
  ASSUME NEW b \in Board, driver[b] \in Driver, NEW o \in ZeroOutcomes(b)
  PROVE  /\ o \in Outcome
         /\ o.driver.energized = driver[b].energized
         /\ o.driver.torque_enabled = driver[b].torque_enabled
         /\ ~o.raised /\ driver[b].torque_enabled => o.driver.goal = 0
  <1>1. 0 \in Level /\ 0 \in 0..NumServos
    BY GainAssumption, BoardAssumption DEF Level
  <1>2. CASE driver[b].torque_enabled
    <2>1. o \in SetCurrent(driver[b], 0)
      BY <1>2 DEF ZeroOutcomes
    <2> QED
      BY <1>1, <2>1, SetCurrentOutcome
  <1>3. CASE ~driver[b].torque_enabled
    <2>1. o = Returned(driver[b])
      BY <1>3 DEF ZeroOutcomes
    <2> QED
      BY <1>1, <1>3, <2>1, OutcomeFields
  <1> QED
    BY <1>2, <1>3

LEMMA InvInit == Init => IInv
  <1> SUFFICES ASSUME Init
               PROVE  IInv
    OBVIOUS
  <1>1. /\ pc["main"] = "off" /\ pc["control"] = "unstarted"
        /\ at["main"] = 1 /\ at["control"] = 1 /\ ~leader_torque_enabled
    BY DEF Init, Thread
  <1>2. ~\E b \in Board : b < 1
    OBVIOUS
  <1> QED
    BY <1>1, <1>2, TypeInit
       DEF IInv, ThreadOrder, ConstructorInv, BoardsInv, EnablingInv, DisablingInv, ShutDownInv,
           LoopsInv, Constructing, Settled

\* Every action keeps the invariant.
LEMMA InvStep == IInv /\ [Next]_vars => IInv'
  <1> SUFFICES ASSUME IInv, [Next]_vars
               PROVE  IInv'
    OBVIOUS
  <1>0. TypeOK /\ TypeOK'
    BY TypeStep DEF IInv
  <1> USE <1>0 DEF gains, IInv, ThreadOrder, ConstructorInv, BoardsInv,
                   EnablingInv, DisablingInv, ShutDownInv, LoopsInv, Constructing, Settled
  <1>3. CASE ReceiveTarget
    BY <1>3, NothingTouched, GotoGain DEF ReceiveTarget, Goto, GainStep
  <1>4. CASE CheckTarget
    BY <1>4, NothingTouched, GotoGain DEF CheckTarget, Goto, GainStep
  <1>5. CASE ClearClock
    BY <1>5, NothingTouched, GotoGain DEF ClearClock, Goto, GainStep
  <1>6. CASE InstallTarget
    BY <1>6, NothingTouched, GotoGain DEF InstallTarget, Goto, GainStep
  <1>7. CASE ExitLoop
    BY <1>7, NothingTouched, GotoControl DEF ExitLoop, Goto, ControlStep, ControlOnly, EnterLoop
  <1>8. CASE Read
    BY <1>8, NothingTouched, GotoControl DEF Read, Goto, ControlStep, ControlOnly, EnterLoop
  <1>9. CASE AfterReadFailure
    BY <1>9, NothingTouched, GotoControl DEF AfterReadFailure, Goto, ControlStep, ControlOnly, EnterLoop
  <1>10. CASE DropGain
    <2>1. pc'["control"] = "zeroing" /\ pc'["main"] = pc["main"] /\ at["control"] = 1
      BY <1>10, NothingTouched, GotoControl DEF DropGain, EnterLoop, Goto, ControlStep
    <2>2. ~\E b \in Board : b < at["control"]
      BY <2>1
    <2> QED
      BY <1>10, <2>1, <2>2, NothingTouched DEF DropGain, EnterLoop
  <1>11. CASE RampReadGain
    BY <1>11, NothingTouched, GotoControl DEF RampReadGain, Goto, ControlStep, ControlOnly, EnterLoop
  <1>12. CASE RampReadTarget
    BY <1>12, NothingTouched, GotoControl DEF RampReadTarget, Goto, ControlStep, ControlOnly, EnterLoop
  <1>13. CASE RampReadClock
    BY <1>13, NothingTouched, GotoControl DEF RampReadClock, Goto, ControlStep, ControlOnly, EnterLoop
  <1>14. CASE RampStoreGain
    BY <1>14, NothingTouched, GotoControl DEF RampStoreGain, Goto, ControlStep, ControlOnly, EnterLoop
  <1>15. CASE RampStoreClock
    BY <1>15, NothingTouched, GotoControl DEF RampStoreClock, Goto, ControlStep, ControlOnly, EnterLoop
  <1>16. CASE RampReturn
    BY <1>16, NothingTouched, GotoControl DEF RampReturn, Goto, ControlStep, ControlOnly, EnterLoop
  <1>17. CASE Apply
    <2>1. at["control"] = 1 /\ ~\E b \in Board : b < at["control"]
      BY <1>17 DEF Apply
    <2>2. CASE leader_torque_enabled
      BY <1>17, <2>2, NothingTouched, GotoControl DEF Apply, Goto, ControlStep
    <2>4. CASE ~leader_torque_enabled /\ ~(leader_torque_gain_target > 0)
      BY <1>17, <2>4, NothingTouched, GotoControl DEF Apply, Goto, ControlStep
    <2>3. CASE ~leader_torque_enabled /\ leader_torque_gain_target > 0
      <3>1. pc'["control"] = "enabling" /\ pc'["main"] = pc["main"]
        BY <1>17, <2>3, GotoControl DEF Apply, EnterLoop, Goto, ControlStep
      <3> QED
        BY <1>17, <2>1, <2>3, <3>1, NothingTouched DEF Apply
    <2> QED
      BY <2>2, <2>3, <2>4
  <1>18. CASE GateTarget
    BY <1>18, NothingTouched, GotoControl DEF GateTarget, Goto, ControlStep, ControlOnly, EnterLoop
  <1>19. CASE GateGain
    <2>1. at["control"] = 1 /\ ~\E b \in Board : b < at["control"]
      BY <1>19 DEF GateGain
    <2>2. CASE leader_torque_gain = 0
      <3>1. pc'["control"] = "zeroing" /\ pc'["main"] = pc["main"]
        BY <1>19, <2>2, GotoControl DEF GateGain, EnterLoop, Goto, ControlStep
      <3> QED
        BY <1>19, <2>1, <2>2, <3>1, NothingTouched DEF GateGain
    <2>3. CASE leader_torque_gain # 0
      BY <1>19, <2>3, NothingTouched, GotoControl DEF GateGain, Goto, ControlStep
    <2> QED
      BY <2>2, <2>3
  <1>25. CASE ReadBreaks
    BY <1>25, NothingTouched, GotoControl, GotoMain DEF ReadBreaks, Die, Goto, EnterLoop, ControlStep, MainStep
  <1>26. CASE SpinEnds
    BY <1>26, NothingTouched, GotoControl, GotoMain DEF SpinEnds, Die, Goto, EnterLoop, ControlStep, MainStep
  <1>27. CASE Join
    BY <1>27, NothingTouched, GotoControl, GotoMain DEF Join, Die, Goto, EnterLoop, ControlStep, MainStep
  <1>20. CASE EnableBoard
    <2> DEFINE k == at["control"]
    <2>1. driver[k] \in Driver /\ k \in Board /\ "control" \in Thread
      BY DEF TypeOK, Thread
    <2>2. PICK o \in SetTorqueMode(driver[k], TRUE) :
            /\ Call(k, o)
            /\ Collect("control", o)
            /\ Advance("control", IF errors["control"] \/ o.raised THEN "cleanup" ELSE "gate")
            /\ leader_torque_enabled' = IF k = NumBoards /\ ~(errors["control"] \/ o.raised)
                                        THEN TRUE ELSE leader_torque_enabled
      BY <1>20 DEF EnableBoard
    <2>3. /\ driver'[k] = o.driver
          /\ \A b \in Board : b # k => driver'[b] = driver[b]
      BY <2>1, <2>2 DEF Call, TypeOK
    <2>31. \A b \in Board : b # k => (On(b) <=> On(b)') /\ (Off(b) <=> Off(b)')
      BY <2>3, BoardUntouched
    <2>4. ASSUME ~o.raised, NEW b \in Board, b = k
          PROVE  On(b)'
      <3>1. driver[b] \in Driver /\ driver'[b] = o.driver /\ o \in SetTorqueMode(driver[b], TRUE)
        BY <2>1, <2>2, <2>3, <2>4
      <3> QED
        BY <2>4, <3>1, BoardSwitchedOn
    <2>5. errors'["control"] = (errors["control"] \/ o.raised)
      BY <2>1, <2>2 DEF Collect, TypeOK
    <2>6. CASE k < NumBoards
      <3>1. pc' = pc /\ at' = [at EXCEPT !["control"] = k + 1]
        BY <2>2, <2>6 DEF Advance
      <3>2. at'["control"] = k + 1 /\ at'["main"] = at["main"]
        BY <2>1, <3>1 DEF TypeOK, Thread
      <3>3. ~leader_torque_enabled'
        BY <1>20, <2>2, <2>6 DEF EnableBoard
      <3>4. ASSUME NEW b \in Board, at'["control"] <= b
            PROVE  Off(b)'
        <4>1. k <= b /\ b # k
          BY <2>1, <3>2, <3>4
        <4>2. Off(b)
          BY <1>20, <4>1 DEF EnableBoard
        <4> QED
          BY <2>31, <4>1, <4>2
      <3>5. ASSUME ~errors'["control"], NEW b \in Board, b < at'["control"]
            PROVE  On(b)'
        <4>1. ~errors["control"] /\ ~o.raised
          BY <2>5, <3>5
        <4>2. CASE b = k
          BY <2>4, <4>1, <4>2
        <4>3. CASE b # k
          <5>1. b < k
            BY <2>1, <3>2, <3>5, <4>3
          <5>2. On(b)
            BY <1>20, <4>1, <5>1 DEF EnableBoard
          <5> QED
            BY <2>31, <4>3, <5>2
        <4> QED
          BY <4>2, <4>3
      <3> QED
        BY <1>20, <3>1, <3>2, <3>3, <3>4, <3>5 DEF EnableBoard
    <2>7. CASE ~(k < NumBoards)
      <3>1. k = NumBoards
        BY <2>1, <2>7
      <3>2. at'["control"] = 1 /\ at'["main"] = at["main"]
        BY <2>1, <2>2, <2>7 DEF Advance, TypeOK, Thread
      <3>3. CASE errors["control"] \/ o.raised
        <4>1. pc'["control"] = "cleanup" /\ pc'["main"] = pc["main"]
          BY <2>2, <2>7, <3>3, GotoControl DEF Advance, Goto, ControlStep
        <4> QED
          BY <1>20, <3>2, <4>1 DEF EnableBoard
      <3>4. CASE ~(errors["control"] \/ o.raised)
        <4>1. pc'["control"] = "gate" /\ pc'["main"] = pc["main"]
          BY <2>2, <2>7, <3>4, GotoControl DEF Advance, Goto, ControlStep
        <4>2. ASSUME NEW b \in Board
              PROVE  On(b)'
          <5>1. CASE b = k
            BY <2>4, <3>4, <5>1
          <5>2. CASE b # k
            <6>1. b < k
              BY <3>1, <5>2
            <6>2. On(b)
              BY <1>20, <3>4, <6>1 DEF EnableBoard
            <6> QED
              BY <2>31, <5>2, <6>2
          <5> QED
            BY <5>1, <5>2
        <4> QED
          BY <1>20, <2>2, <3>1, <3>2, <3>4, <4>1, <4>2 DEF EnableBoard
      <3> QED
        BY <3>3, <3>4
    <2> QED
      BY <2>6, <2>7
  <1>21. CASE CleanupBoard
    <2>1. CASE at["control"] < NumBoards
      BY <1>21, <2>1 DEF CleanupBoard, TypeOK, Thread
    <2>2. CASE ~(at["control"] < NumBoards)
      <3>1. pc'["control"] = "exited" /\ pc'["main"] = pc["main"]
        BY <1>21, <2>2, GotoControl DEF CleanupBoard, Die, ControlStep
      <3>2. at'["control"] = 1 /\ at'["main"] = at["main"]
        BY <1>21, <2>2 DEF CleanupBoard, TypeOK, Thread
      <3> QED
        BY <1>21, <3>1, <3>2 DEF CleanupBoard
    <2> QED
      BY <2>1, <2>2
  <1>24. CASE WriteTorque
    <2>1. PICK o \in [Board -> UNION {WriteOutcomes(b) : b \in Board}] :
            /\ \A b \in Board : o[b] \in WriteOutcomes(b)
            /\ driver' = [b \in Board |-> o[b].driver]
            /\ IF \E b \in Board : o[b].raised
               THEN Die /\ Count(1)
               ELSE Goto("control", "top") /\ UNCHANGED <<stop, context_down, faults>>
      BY <1>24 DEF WriteTorque
    <2>2. pc'["control"] \in {"exited", "top"} /\ pc'["main"] = pc["main"]
      BY <2>1, GotoControl DEF Die, Goto, ControlStep
    <2>3. ASSUME NEW b \in Board
          PROVE  On(b)'
      <3>1. driver[b] \in Driver /\ ComposedTorque(local.gain) \subseteq Level
        <4>1. local.gain \in 0..MaxLevel
          BY DEF TypeOK, Level
        <4>2. 0..local.gain \subseteq 0..MaxLevel
          BY <4>1, GainAssumption
        <4> QED
          BY <4>2 DEF ComposedTorque, TypeOK, Level
      <3>2. PICK level \in Level : o[b] \in SetCurrent(driver[b], level)
        BY <2>1, <3>1 DEF WriteOutcomes
      <3> QED
        <4>3. driver'[b] = o[b].driver
          BY <2>1
        <4>4. /\ o[b].driver.energized = driver[b].energized
              /\ o[b].driver.torque_enabled = driver[b].torque_enabled
          BY <3>1, <3>2, SetCurrentOutcome
        <4>1. /\ driver'[b].energized = driver[b].energized
              /\ driver'[b].torque_enabled = driver[b].torque_enabled
          BY <4>3, <4>4
        <4>2. On(b)
          BY <1>24 DEF WriteTorque
        <4> QED
          BY <4>1, <4>2 DEF On
    <2> QED
      BY <1>24, <2>2, <2>3 DEF WriteTorque
  <1>1. CASE PrepareBoard
    <2> DEFINE k == at["main"]
    <2>1. driver[k] \in Driver /\ k \in Board /\ 0 \in Level
      BY GainAssumption DEF TypeOK, Thread, Level
    <2>2. PICK step \in {"off", "mode", "on", "zero"}, next \in MainStep, o \in Outcome :
            /\ At("main", step)
            /\ Call(k, o)
            /\ Goto("main", IF o.raised THEN "aborted" ELSE next)
            /\ next \in Constructing
            /\ next = "off_again" /\ ~o.raised => o.driver.goal = 0
      <3>1. CASE Prepare("off", SetTorqueMode(driver[k], FALSE), "mode")
        BY <2>1, <3>1, SetTorqueModeOutcome DEF Prepare, MainStep
      <3>2. CASE Prepare("mode", SetOperatingMode(driver[k]), "on")
        BY <2>1, <3>2, SetOperatingModeOutcome DEF Prepare, MainStep
      <3>3. CASE Prepare("on", SetTorqueMode(driver[k], TRUE), "zero")
        BY <2>1, <3>3, SetTorqueModeOutcome DEF Prepare, MainStep
      <3>4. CASE Prepare("zero", SetCurrent(driver[k], 0), "off_again")
        BY <2>1, <3>4, SetCurrentOutcome DEF Prepare, MainStep
      <3> QED
        BY <1>1, <3>1, <3>2, <3>3, <3>4 DEF PrepareBoard
    <2>3. /\ driver'[k] = o.driver
          /\ \A b \in Board : b # k => driver'[b] = driver[b]
      BY <2>1, <2>2 DEF Call, TypeOK
    <2>4. \A b \in Board : b # k => (Off(b) <=> Off(b)')
      BY <2>3, BoardUntouched
    <2>5. UNCHANGED <<leader_torque_enabled, at, errors, disable_stopped>>
      BY <1>1 DEF PrepareBoard, Prepare
    <2>6. /\ pc'["main"] = IF o.raised THEN "aborted" ELSE next
          /\ pc'["control"] = pc["control"]
      BY <2>2, GotoMain DEF Goto, MainStep
    <2>7. pc["control"] = "unstarted" /\ pc'["main"] \in Constructing
      BY <2>2, <2>6
    <2>8. \A b \in Board : b < at'["main"] => Off(b)'
      BY <2>1, <2>2, <2>4, <2>5
    <2>9. pc'["main"] = "off_again" => driver'[at'["main"]].goal = 0
      BY <2>1, <2>2, <2>3, <2>5, <2>6
    <2> QED
      BY <2>2, <2>5, <2>6, <2>7, <2>8, <2>9
  <1>2. CASE PrepareLast
    <2> DEFINE k == at["main"]
    <2>1. driver[k] \in Driver /\ k \in Board
      BY DEF TypeOK, Thread
    <2>2. PICK o \in SetTorqueMode(driver[k], FALSE) :
            /\ Call(k, o)
            /\ IF o.raised
               THEN Goto("main", "aborted") /\ UNCHANGED at
               ELSE IF k < NumBoards
               THEN Goto("main", "off") /\ at' = [at EXCEPT !["main"] = @ + 1]
               ELSE /\ pc' = [pc EXCEPT !["main"] = "spinning", !["control"] = "top"]
                    /\ at' = [at EXCEPT !["main"] = 1]
      BY <1>2 DEF PrepareLast
    <2>3. /\ driver'[k] = o.driver
          /\ \A b \in Board : b # k => driver'[b] = driver[b]
      BY <2>1, <2>2 DEF Call, TypeOK
    <2>4. \A b \in Board : b # k => (Off(b) <=> Off(b)')
      BY <2>3, BoardUntouched
    <2>5. /\ UNCHANGED <<leader_torque_enabled, errors, disable_stopped>>
          /\ At("main", "off_again") /\ ~leader_torque_enabled /\ driver[k].goal = 0
          /\ pc["control"] = "unstarted" /\ at["control"] = 1
      BY <1>2 DEF PrepareLast
    <2>6. ASSUME ~o.raised, NEW b \in Board, b <= k
          PROVE  Off(b)'
      <3>1. CASE b = k
        <4>1. /\ driver[b] \in Driver /\ driver'[b] = o.driver /\ driver[b].goal = 0
              /\ o \in SetTorqueMode(driver[b], FALSE)
          BY <2>1, <2>2, <2>3, <2>5, <3>1
        <4> QED
          BY <2>6, <4>1, BoardSwitchedOff
      <3>2. CASE b # k
        BY <2>1, <2>4, <2>5, <2>6, <3>2
      <3> QED
        BY <3>1, <3>2
    <2>7. CASE o.raised
      <3>1. pc'["main"] = "aborted" /\ pc'["control"] = "unstarted" /\ at' = at
        BY <2>2, <2>5, <2>7, GotoMain DEF Goto, MainStep
      <3> QED
        BY <2>5, <3>1
    <2>8. CASE ~o.raised /\ k < NumBoards
      <3>1. pc'["main"] = "off" /\ pc'["control"] = "unstarted"
        BY <2>2, <2>5, <2>8, GotoMain DEF Goto, MainStep
      <3>2. at'["main"] = k + 1 /\ at'["control"] = 1
        BY <2>1, <2>2, <2>5, <2>8 DEF TypeOK, Thread
      <3>3. \A b \in Board : b < at'["main"] => Off(b)'
        BY <2>1, <2>6, <2>8, <3>2
      <3> QED
        BY <2>5, <3>1, <3>2, <3>3
    <2>9. CASE ~o.raised /\ ~(k < NumBoards)
      <3>1. pc'["main"] = "spinning" /\ pc'["control"] = "top"
        BY <2>2, <2>9 DEF TypeOK, Thread
      <3>2. at'["main"] = 1 /\ at'["control"] = 1
        BY <2>2, <2>5, <2>9 DEF TypeOK, Thread
      <3>3. \A b \in Board : Off(b)'
        BY <2>1, <2>6, <2>9
      <3> QED
        BY <2>5, <3>1, <3>2, <3>3
    <2> QED
      BY <2>7, <2>8, <2>9
  <1>22. ASSUME ZeroBoard("control")
         PROVE  IInv'
    <2> DEFINE k == at["control"]
    <2>1. driver[k] \in Driver /\ k \in Board /\ "control" \in Thread
      BY DEF TypeOK, Thread
    <2>2. PICK o \in ZeroOutcomes(k) : Call(k, o) /\ Collect("control", o)
      BY <1>22 DEF ZeroBoard
    <2>3. /\ driver'[k] = o.driver
          /\ \A b \in Board : b # k => driver'[b] = driver[b]
      BY <2>1, <2>2 DEF Call, TypeOK
    <2>4. errors'["control"] = (errors["control"] \/ o.raised)
      BY <2>1, <2>2 DEF Collect, TypeOK
    <2>5. At("control", "zeroing") /\ leader_torque_enabled' /\ UNCHANGED disable_stopped
      BY <1>22 DEF ZeroBoard
    <2>6. \A b \in Board : On(b)
      BY <2>5
    <2>7. ASSUME NEW b \in Board
          PROVE  /\ On(b)'
                 /\ ~errors'["control"] /\ b <= k => driver'[b].goal = 0
      <3>1. CASE b # k
        <4>1. On(b)' /\ driver'[b] = driver[b]
          BY <2>3, <2>6, <3>1, BoardUntouched
        <4>2. ASSUME ~errors'["control"], b <= k
              PROVE  driver[b].goal = 0
          <5>1. ~errors["control"]
            BY <2>4, <4>2
          <5>2. b < k
            BY <2>1, <3>1, <4>2
          <5> QED
            BY <2>5, <5>1, <5>2
        <4> QED
          BY <4>1, <4>2
      <3>2. CASE b = k
        <4>1. driver[b] \in Driver /\ o \in ZeroOutcomes(b) /\ driver'[b] = o.driver
          BY <2>1, <2>2, <2>3, <3>2
        <4>2. /\ o.driver.energized = driver[b].energized
              /\ o.driver.torque_enabled = driver[b].torque_enabled
              /\ ~o.raised /\ driver[b].torque_enabled => o.driver.goal = 0
          BY <4>1, BoardZeroed
        <4>3. driver[b].torque_enabled /\ driver[b].energized = AllServos(TRUE)
          BY <2>6 DEF On
        <4>4. On(b)'
          BY <4>1, <4>2, <4>3 DEF On
        <4> QED
          BY <2>4, <4>1, <4>2, <4>3, <4>4
      <3> QED
        BY <3>1, <3>2
    <2>8. CASE k < NumBoards
      <3>1. pc' = pc /\ at' = [at EXCEPT !["control"] = k + 1]
        BY <1>22, <2>8 DEF ZeroBoard, Advance
      <3>2. at'["control"] = k + 1 /\ at'["main"] = at["main"]
        BY <2>1, <3>1 DEF TypeOK, Thread
      <3>3. ~errors'["control"] => \A b \in Board : b < at'["control"] => driver'[b].goal = 0
        BY <2>1, <2>7, <3>2
      <3> QED
        BY <2>5, <2>7, <3>1, <3>2, <3>3
    <2>9. CASE ~(k < NumBoards)
      <3>1. pc'["control"] = "disabling" /\ pc'["main"] = pc["main"]
        BY <1>22, <2>9, GotoControl DEF ZeroBoard, Advance, Goto, ControlStep
      <3>2. at'["control"] = 1 /\ at'["main"] = at["main"]
        BY <1>22, <2>1, <2>9 DEF ZeroBoard, Advance, TypeOK, Thread
      <3>3. ~errors'["control"] => \A b \in Board : driver'[b].goal = 0
        BY <2>1, <2>7, <2>9
      <3>4. ~\E b \in Board : b < at'["control"]
        BY <3>2
      <3> QED
        BY <2>5, <3>1, <3>2, <3>3, <3>4
    <2> QED
      BY <2>8, <2>9
  <1>30. ASSUME ZeroBoard("main")
         PROVE  IInv'
    <2>1. At("main", "zeroing") /\ At("control", "exited")
      BY <1>30 DEF ZeroBoard
    <2>2. CASE at["main"] < NumBoards
      <3>1. pc' = pc /\ at'["control"] = at["control"]
        BY <1>30, <2>2 DEF ZeroBoard, Advance, TypeOK, Thread
      <3> QED
        BY <2>1, <3>1
    <2>3. CASE ~(at["main"] < NumBoards)
      <3>1. pc'["main"] = "disabling" /\ pc'["control"] = "exited"
        BY <1>30, <2>1, <2>3, GotoMain DEF ZeroBoard, Advance, Goto, MainStep
      <3>2. at'["main"] = 1 /\ at'["control"] = at["control"]
        BY <1>30, <2>3 DEF ZeroBoard, Advance, TypeOK, Thread
      <3>3. ~\E b \in Board : b < at'["main"]
        BY <3>2
      <3> QED
        BY <2>1, <3>1, <3>2, <3>3
    <2> QED
      BY <2>2, <2>3
  <1>23. CASE DisableBoard
    <2> DEFINE k == at["control"]
    <2>1. driver[k] \in Driver /\ k \in Board /\ "control" \in Thread
      BY DEF TypeOK, Thread
    <2>2. PICK o \in SetTorqueMode(driver[k], FALSE) :
            /\ Call(k, o)
            /\ Collect("control", o)
            /\ IF k < NumBoards
               THEN /\ at' = [at EXCEPT !["control"] = @ + 1]
                    /\ UNCHANGED <<pc, leader_torque_enabled, stop, context_down>>
               ELSE /\ at' = [at EXCEPT !["control"] = 1]
                    /\ leader_torque_enabled' = AnyDriverOn'
                    /\ IF errors["control"] \/ o.raised
                       THEN Die
                       ELSE Goto("control", "top") /\ UNCHANGED <<stop, context_down>>
      BY <1>23 DEF DisableBoard
    <2>3. /\ driver'[k] = o.driver
          /\ \A b \in Board : b # k => driver'[b] = driver[b]
      BY <2>1, <2>2 DEF Call, TypeOK
    <2>4. errors'["control"] = (errors["control"] \/ o.raised)
      BY <2>1, <2>2 DEF Collect, TypeOK
    <2>5. At("control", "disabling")
      BY <1>23 DEF DisableBoard
    <2>6. ASSUME ~errors'["control"], NEW b \in Board
          PROVE  /\ driver'[b].goal = 0
                 /\ b <= k => Off(b)'
      <3>1. ~errors["control"] /\ ~o.raised
        BY <2>4, <2>6
      <3>2. driver[b].goal = 0 /\ (b < k => Off(b))
        BY <2>5, <3>1
      <3>3. CASE b # k
        BY <2>1, <2>3, <3>2, <3>3, BoardUntouched
      <3>4. CASE b = k
        <4>1. driver[b] \in Driver /\ o \in SetTorqueMode(driver[b], FALSE) /\ driver'[b] = o.driver
          BY <2>1, <2>2, <2>3, <3>4
        <4>2. Off(b)'
          BY <3>1, <3>2, <4>1, BoardSwitchedOff
        <4> QED
          BY <4>2 DEF Off
      <3> QED
        BY <3>3, <3>4
    <2>7. CASE k < NumBoards
      <3>1. /\ pc' = pc /\ at' = [at EXCEPT !["control"] = k + 1]
        BY <2>2, <2>7
      <3>2. at'["control"] = k + 1 /\ at'["main"] = at["main"]
        BY <2>1, <3>1 DEF TypeOK, Thread
      <3>3. ~errors'["control"] => \A b \in Board : /\ driver'[b].goal = 0
                                                    /\ b < at'["control"] => Off(b)'
        BY <2>1, <2>6, <3>2
      <3> QED
        BY <1>23, <2>5, <3>1, <3>2, <3>3 DEF DisableBoard
    <2>8. CASE ~(k < NumBoards)
      <3>1. at'["control"] = 1 /\ at'["main"] = at["main"]
        BY <2>1, <2>2, <2>8 DEF TypeOK, Thread
      <3>2. CASE errors["control"] \/ o.raised
        <4>1. pc'["control"] = "exited" /\ pc'["main"] = pc["main"]
          BY <2>2, <2>8, <3>2, GotoControl DEF Die, ControlStep
        <4> QED
          BY <1>23, <2>5, <3>1, <4>1 DEF DisableBoard
      <3>3. CASE ~(errors["control"] \/ o.raised)
        <4>1. pc'["control"] = "top" /\ pc'["main"] = pc["main"]
          BY <2>2, <2>8, <3>3, GotoControl DEF Goto, ControlStep
        <4>2. ASSUME NEW b \in Board
              PROVE  Off(b)'
          <5>1. ~errors'["control"]
            BY <2>4, <3>3
          <5>2. b <= k
            BY <2>1, <2>8
          <5> QED
            BY <2>6, <5>1, <5>2
        <4>3. ~leader_torque_enabled'
          BY <2>2, <2>8, <4>2 DEF AnyDriverOn, Off
        <4> QED
          BY <1>23, <2>5, <3>1, <4>1, <4>2, <4>3 DEF DisableBoard
      <3> QED
        BY <3>2, <3>3
    <2> QED
      BY <2>7, <2>8
  <1>28. CASE ShutDownBoard
    <2> DEFINE k == at["main"]
    <2>1. driver[k] \in Driver /\ k \in Board /\ "main" \in Thread
      BY DEF TypeOK, Thread
    <2>2. PICK o \in SetTorqueMode(driver[k], FALSE) :
            /\ Call(k, o)
            /\ disable_stopped' = [disable_stopped EXCEPT ![k] = o.stopped_at]
      BY <1>28 DEF ShutDownBoard
    <2>3. /\ driver'[k] = o.driver /\ disable_stopped'[k] = o.stopped_at
          /\ \A b \in Board : b # k => /\ driver'[b] = driver[b]
                                       /\ disable_stopped'[b] = disable_stopped[b]
      BY <2>1, <2>2 DEF Call, TypeOK
    <2>4. At("main", "disabling") /\ At("control", "exited")
      BY <1>28 DEF ShutDownBoard
    <2>5. ASSUME NEW b \in Board, b <= k
          PROVE  ShutUpToStop(b)'
      <3>1. CASE b # k
        BY <2>1, <2>3, <2>4, <2>5, <3>1, BoardUntouched
      <3>2. CASE b = k
        <4>1. /\ driver[b] \in Driver /\ o \in SetTorqueMode(driver[b], FALSE)
              /\ driver'[b] = o.driver /\ disable_stopped'[b] = o.stopped_at
          BY <2>1, <2>2, <2>3, <3>2
        <4> QED
          BY <4>1, BoardShut
      <3> QED
        BY <3>1, <3>2
    <2>6. CASE k < NumBoards
      <3>1. pc' = pc /\ at' = [at EXCEPT !["main"] = k + 1]
        BY <1>28, <2>6 DEF ShutDownBoard, Advance
      <3>2. at'["main"] = k + 1 /\ at'["control"] = at["control"]
        BY <2>1, <3>1 DEF TypeOK, Thread
      <3>3. \A b \in Board : b < at'["main"] => ShutUpToStop(b)'
        BY <2>1, <2>5, <3>2
      <3> QED
        BY <2>4, <3>1, <3>2, <3>3
    <2>7. CASE ~(k < NumBoards)
      <3>1. pc'["main"] = "closed" /\ pc'["control"] = "exited"
        BY <1>28, <2>4, <2>7, GotoMain DEF ShutDownBoard, Advance, Goto, MainStep
      <3>2. at'["control"] = at["control"]
        BY <1>28, <2>7 DEF ShutDownBoard, Advance, TypeOK, Thread
      <3>3. \A b \in Board : ShutUpToStop(b)'
        BY <2>1, <2>5, <2>7
      <3> QED
        BY <2>4, <3>1, <3>2, <3>3
    <2> QED
      BY <2>6, <2>7
  <1>29. CASE UNCHANGED vars
    BY <1>29, NothingTouched DEF vars, threads
  <1> QED
    BY <1>1, <1>2, <1>3, <1>4, <1>5, <1>6, <1>7, <1>8, <1>9, <1>10, <1>11, <1>12, <1>13, <1>14,
       <1>15, <1>16, <1>17, <1>18, <1>19, <1>20, <1>21, <1>22, <1>23, <1>24, <1>25, <1>26, <1>27,
       <1>28, <1>29, <1>30
    DEF Next, Preparing, GainCallback, Tick, ShutDown, Terminated
-----------------------------------------------------------------------------
(* The safety properties the runs check, for every value of the constants *)

\* The inductive invariant holds throughout.
THEOREM Inductive == Spec => []IInv
  BY InvInit, InvStep, PTL DEF Spec

\* No failed or half-done enable, disable or write is followed by another tick, so the
\* loop's flag, the drivers' flags and the servos agree whenever one starts.
THEOREM TicksStartCoherent == Spec => []TickStartsCoherent
  <1>1. ASSUME IInv
        PROVE  TickStartsCoherent
    <2>1. SUFFICES ASSUME At("control", "top"), NEW b \in Board
                   PROVE  /\ driver[b].torque_enabled = leader_torque_enabled
                          /\ driver[b].energized = AllServos(leader_torque_enabled)
                          /\ ~leader_torque_enabled => driver[b].goal = 0
      BY DEF TickStartsCoherent
    <2>2. IF leader_torque_enabled THEN On(b) ELSE Off(b)
      BY <1>1, <2>1 DEF IInv, BoardsInv, Settled, At
    <2>3. driver[b].torque_enabled \in BOOLEAN /\ leader_torque_enabled \in BOOLEAN
      BY <1>1 DEF IInv, TypeOK, Driver
    <2>4. CASE leader_torque_enabled
      <3>1. leader_torque_enabled = TRUE /\ driver[b].torque_enabled = TRUE
        BY <2>2, <2>3, <2>4 DEF On
      <3>2. driver[b].energized = AllServos(TRUE)
        BY <2>2, <2>4 DEF On
      <3> QED
        BY <3>1, <3>2, Zenon
    <2>5. CASE ~leader_torque_enabled
      <3>1. leader_torque_enabled = FALSE /\ driver[b].torque_enabled = FALSE
        BY <2>2, <2>3, <2>5 DEF Off
      <3>2. driver[b].energized = AllServos(FALSE) /\ driver[b].goal = 0
        BY <2>2, <2>5 DEF Off
      <3> QED
        BY <3>1, <3>2, Zenon
    <2> QED
      BY <2>4, <2>5
  <1> QED
    BY <1>1, Inductive, PTL

\* shut_down leaves each board off up to the servo whose own disable write failed,
\* whatever the other boards did.
THEOREM ShutDownIndependent == Spec => []BoardsShutDownIndependently
  <1>1. IInv => BoardsShutDownIndependently
    BY DEF IInv, ShutDownInv, ShutUpToStop, BoardsShutDownIndependently
  <1> QED
    BY <1>1, Inductive, PTL
-----------------------------------------------------------------------------
(* Energizing *)

\* A step that switches no servo of board b on.
KeepsOff(b) == \A i \in Servo : ~driver[b].energized[i] => ~driver'[b].energized[i]

LEMMA CallKeepsOthers ==
  ASSUME TypeOK, NEW k \in Board, NEW o \in Outcome, Call(k, o)
  PROVE  /\ driver'[k] = o.driver
         /\ \A b \in Board : b # k => KeepsOff(b)
  BY DEF TypeOK, Call, KeepsOff

\* A disable, a zero write and a current write leave a servo that is off, off.
LEMMA DisableKeepsOff ==
  ASSUME TypeOK, NEW k \in Board, NEW o \in SetTorqueMode(driver[k], FALSE), Call(k, o)
  PROVE  \A b \in Board : KeepsOff(b)
  <1>1. driver[k] \in Driver
    BY DEF TypeOK
  <1>2. /\ o \in Outcome
        /\ \A i \in Servo :
             /\ o.driver.energized[i] => driver[k].energized[i]
             /\ o.stopped_at = 0 \/ i < o.stopped_at => ~o.driver.energized[i]
    BY <1>1, SetTorqueModeOutcome
  <1>3. /\ driver'[k] = o.driver
        /\ \A b \in Board : b # k => KeepsOff(b)
    BY <1>2, CallKeepsOthers
  <1>4. KeepsOff(k)
    BY <1>2, <1>3 DEF KeepsOff
  <1> QED
    BY <1>3, <1>4

LEMMA SameRegisters ==
  ASSUME TypeOK, NEW k \in Board, NEW o \in Outcome, Call(k, o),
         o.driver.energized = driver[k].energized
  PROVE  \A b \in Board : KeepsOff(b)
  <1>1. /\ driver'[k] = o.driver
        /\ \A b \in Board : b # k => KeepsOff(b)
    BY CallKeepsOthers
  <1>2. KeepsOff(k)
    BY <1>1 DEF KeepsOff
  <1> QED
    BY <1>1, <1>2

LEMMA EnergizeStep ==
  ASSUME IInv, Next, NEW b \in Board
  PROVE  KeepsOff(b) \/ driver[b].goal = 0 \/ At("main", "on")
  <1>0. /\ TypeOK /\ 0 \in Level
        /\ \A t \in Thread : at[t] \in Board /\ driver[at[t]] \in Driver
        /\ "main" \in Thread /\ "control" \in Thread
    BY GainAssumption DEF IInv, TypeOK, Thread, Level
  <1>1. CASE PrepareBoard
    <2>1. CASE Prepare("off", SetTorqueMode(driver[at["main"]], FALSE), "mode")
      BY <1>0, <2>1, DisableKeepsOff DEF Prepare
    <2>2. CASE Prepare("mode", SetOperatingMode(driver[at["main"]]), "on")
      BY <1>0, <2>2, SetOperatingModeOutcome, SameRegisters DEF Prepare
    <2>3. CASE Prepare("on", SetTorqueMode(driver[at["main"]], TRUE), "zero")
      BY <2>3 DEF Prepare
    <2>4. CASE Prepare("zero", SetCurrent(driver[at["main"]], 0), "off_again")
      BY <1>0, <2>4, SetCurrentOutcome, SameRegisters DEF Prepare
    <2> QED
      BY <1>1, <2>1, <2>2, <2>3, <2>4 DEF PrepareBoard
  <1>2. CASE PrepareLast
    BY <1>0, <1>2, DisableKeepsOff DEF PrepareLast
  <1>3. CASE EnableBoard
    <2>1. PICK o \in SetTorqueMode(driver[at["control"]], TRUE) : Call(at["control"], o)
      BY <1>3 DEF EnableBoard
    <2>2. o \in Outcome
      BY <1>0, <2>1, SetTorqueModeOutcome
    <2>3. CASE b = at["control"]
      <3>1. Off(b)
        BY <1>0, <1>3, <2>3 DEF IInv, EnablingInv, EnableBoard
      <3> QED
        BY <3>1 DEF Off
    <2>4. CASE b # at["control"]
      BY <1>0, <2>1, <2>2, <2>4, CallKeepsOthers
    <2> QED
      BY <2>3, <2>4
  <1>4. CASE CleanupBoard
    BY <1>0, <1>4, DisableKeepsOff DEF CleanupBoard
  <1>5. CASE DisableBoard
    BY <1>0, <1>5, DisableKeepsOff DEF DisableBoard
  <1>6. CASE ShutDownBoard
    BY <1>0, <1>6, DisableKeepsOff DEF ShutDownBoard
  <1>7. ASSUME NEW t \in {"main", "control"}, ZeroBoard(t)
        PROVE  KeepsOff(b)
    BY <1>0, <1>7, BoardZeroed, SameRegisters DEF ZeroBoard
  <1>8. CASE WriteTorque
    <2>1. PICK o \in [Board -> UNION {WriteOutcomes(c) : c \in Board}] :
            /\ o[b] \in WriteOutcomes(b)
            /\ driver' = [c \in Board |-> o[c].driver]
      BY <1>8 DEF WriteTorque
    <2>2. ComposedTorque(local.gain) \subseteq Level
      BY <1>0, GainAssumption DEF ComposedTorque, TypeOK, Level
    <2>3. PICK level \in Level : o[b] \in SetCurrent(driver[b], level)
      BY <2>1, <2>2 DEF WriteOutcomes
    <2>4. driver[b] \in Driver
      BY <1>0 DEF TypeOK
    <2>5. o[b].driver.energized = driver[b].energized
      BY <2>3, <2>4, SetCurrentOutcome
    <2>6. driver'[b] = o[b].driver
      BY <2>1
    <2> QED
      BY <2>5, <2>6 DEF KeepsOff
  <1>9. ASSUME driver' = driver
        PROVE  KeepsOff(b)
    BY <1>9 DEF KeepsOff
  <1>10. CASE Join \/ GainCallback \/ ReadBreaks \/ SpinEnds \/ Terminated
    BY <1>9, <1>10 DEF Join, GainCallback, ReceiveTarget, CheckTarget, ClearClock, InstallTarget,
       ReadBreaks, SpinEnds, Terminated, vars
  <1>11. CASE \/ Read \/ AfterReadFailure \/ DropGain \/ RampReadGain \/ RampReadTarget
              \/ RampReadClock \/ RampStoreGain \/ RampStoreClock \/ RampReturn
              \/ Apply \/ GateTarget \/ GateGain \/ ExitLoop
    BY <1>9, <1>11 DEF Read, AfterReadFailure, DropGain, RampReadGain, RampReadTarget,
       RampReadClock, RampStoreGain, RampStoreClock, RampReturn, Apply, GateTarget, GateGain,
       ExitLoop, ControlOnly
  <1> QED
    BY <1>1, <1>2, <1>3, <1>4, <1>5, <1>6, <1>7, <1>8, <1>10, <1>11
    DEF Next, Preparing, Tick, ShutDown

\* Whatever fails and however the threads interleave, after construction no servo is
\* switched on while its board holds a current.
THEOREM EnergizingFromZero == Spec => EnergizesFromZero
  <1> DEFINE A == \A b \in Board, i \in Servo :
                    ~driver[b].energized[i] /\ driver'[b].energized[i]
                      => driver[b].goal = 0 \/ At("main", "on")
  <1>1. IInv /\ [Next]_vars => [A]_vars
    <2> SUFFICES ASSUME IInv, Next
                 PROVE  A
      OBVIOUS
    <2> QED
      BY EnergizeStep DEF KeepsOff
  <1> QED
    BY <1>1, Inductive, PTL DEF Spec, EnergizesFromZero
-----------------------------------------------------------------------------
(***************************************************************************)
(* The dual-board leader implements TorqueGate, for every number of boards,*)
(* servos, gain steps and bus failures: each step of LeaderTorque is a step*)
(* of the session, or leaves phase and registers alone.                    *)
(***************************************************************************)

LEMMA IdleIsOff == IInv => (Phase = "idle" => Gate!Off)
  <1> SUFFICES ASSUME IInv, Phase = "idle"
               PROVE  Gate!Off
    OBVIOUS
  <1>1. /\ pc["main"] \notin Constructing
        /\ pc["control"] \notin {"exited", "cleanup", "enabling", "zeroing", "disabling"}
        /\ ~leader_torque_enabled
    BY DEF Phase, Constructing
  <1>2. pc["control"] # "unstarted" /\ pc["control"] \in ControlStep
    BY <1>1 DEF IInv, ThreadOrder, TypeOK, At
  <1>3. pc["control"] \in Settled
    BY <1>1, <1>2 DEF IInv, BoardsInv, ControlStep, Settled
  <1>4. ASSUME NEW b \in Board
        PROVE  driver[b].goal = 0 /\ \A i \in Servo : ~driver[b].energized[i]
    BY <1>1, <1>3 DEF IInv, BoardsInv, Off, AllServos
  <1> QED
    BY <1>4 DEF Gate!Off

LEMMA ArmedIsOn == IInv => (Phase = "armed" => Gate!On)
  <1> SUFFICES ASSUME IInv, Phase = "armed"
               PROVE  Gate!On
    OBVIOUS
  <1>1. /\ pc["main"] \notin Constructing
        /\ pc["control"] \notin {"exited", "cleanup", "enabling", "zeroing", "disabling"}
        /\ leader_torque_enabled
    BY DEF Phase, Constructing
  <1>2. pc["control"] # "unstarted" /\ pc["control"] \in ControlStep
    BY <1>1 DEF IInv, ThreadOrder, TypeOK, At
  <1>3. pc["control"] \in Settled \cup {"drop", "gate", "gate_gain", "write"}
    BY <1>1, <1>2 DEF ControlStep, Settled
  <1>4. ASSUME NEW b \in Board
        PROVE  \A i \in Servo : driver[b].energized[i]
    BY <1>1, <1>3 DEF IInv, BoardsInv, On, AllServos
  <1> QED
    BY <1>4 DEF Gate!On

\* The same facts of the state a step leads to.
LEMMA NextIdleIsOff == IInv' => (Phase = "idle" => Gate!Off)'
  <1>1. [](IInv => (Phase = "idle" => Gate!Off))
    BY IdleIsOff, PTL
  <1> QED
    BY <1>1, PTL

LEMMA NextArmedIsOn == IInv' => (Phase = "armed" => Gate!On)'
  <1>1. [](IInv => (Phase = "armed" => Gate!On))
    BY ArmedIsOn, PTL
  <1> QED
    BY <1>1, PTL
-----------------------------------------------------------------------------
(* What a step does to the registers *)

LEMMA EnableOnlySwitchesOn ==
  ASSUME NEW d \in Driver, NEW enable \in BOOLEAN, NEW o \in SetTorqueMode(d, enable)
  PROVE  enable => \A i \in Servo : d.energized[i] => o.driver.energized[i]
  <1>1. CASE o = Returned([d EXCEPT !.energized = AllServos(enable), !.torque_enabled = enable])
    <2>1. o.driver = [d EXCEPT !.energized = AllServos(enable), !.torque_enabled = enable]
      BY <1>1 DEF Returned
    <2>2. o.driver.energized = AllServos(enable)
      BY <2>1 DEF Driver
    <2> QED
      BY <2>2 DEF AllServos
  <1>2. ASSUME NEW k \in Servo, NEW heard \in BOOLEAN,
               o = BusFailed(WrittenUpTo(d, k, heard, enable), k)
        PROVE  enable => \A i \in Servo : d.energized[i] => o.driver.energized[i]
    <2>1. o.driver = WrittenUpTo(d, k, heard, enable)
      BY <1>2 DEF BusFailed
    <2>2. \A i \in Servo : o.driver.energized[i] = IF i < k \/ (i = k /\ heard) THEN enable
                                                   ELSE d.energized[i]
      BY <2>1 DEF WrittenUpTo, Driver
    <2> QED
      BY <2>2
  <1>3. \/ o = Returned([d EXCEPT !.energized = AllServos(enable), !.torque_enabled = enable])
        \/ \E k \in Servo, heard \in BOOLEAN : o = BusFailed(WrittenUpTo(d, k, heard, enable), k)
    BY DEF SetTorqueMode
  <1> QED
    BY <1>1, <1>2, <1>3

\* A step that only switches off and zeroes is a Release.
LEMMA ReleaseStep ==
  ASSUME IInv', Phase \in {"disarming", "over"},
         Phase' \in {Phase, "over"} \cup (IF Phase = "disarming" THEN {"idle"} ELSE {}),
         \A b \in Board : KeepsOff(b) /\ driver'[b].goal \in {driver[b].goal, 0}
  PROVE  Gate!Release
  <1>1. (Phase = "idle" => Gate!Off)'
    BY NextIdleIsOff
  <1>2. \A b \in Board, i \in Servo : driver'[b].energized[i] => driver[b].energized[i]
    BY DEF KeepsOff
  <1> QED
    BY <1>1, <1>2 DEF Gate!Release

LEMMA CallKeepsGoals ==
  ASSUME TypeOK, NEW k \in Board, NEW o \in Outcome, Call(k, o),
         o.driver.goal \in {driver[k].goal, 0}
  PROVE  \A b \in Board : driver'[b].goal \in {driver[b].goal, 0}
  <1>1. \A b \in Board : driver'[b] = IF b = k THEN o.driver ELSE driver[b]
    BY DEF TypeOK, Call
  <1> QED
    BY <1>1

\* A call that disables board k, made while disarming or when all is over.
LEMMA DisableIsRelease ==
  ASSUME IInv, IInv', NEW k \in Board, NEW o \in SetTorqueMode(driver[k], FALSE), Call(k, o),
         Phase \in {"disarming", "over"},
         Phase' \in {Phase, "over"} \cup (IF Phase = "disarming" THEN {"idle"} ELSE {})
  PROVE  Gate!Release
  <1>1. TypeOK /\ driver[k] \in Driver
    BY DEF IInv, TypeOK
  <1>2. o \in Outcome /\ o.driver.goal = driver[k].goal
    BY <1>1, SetTorqueModeOutcome
  <1>3. \A b \in Board : KeepsOff(b)
    BY <1>1, DisableKeepsOff
  <1>4. \A b \in Board : driver'[b].goal \in {driver[b].goal, 0}
    BY <1>1, <1>2, CallKeepsGoals
  <1> QED
    BY <1>3, <1>4, ReleaseStep

LEMMA ZeroIsRelease ==
  ASSUME IInv, IInv', NEW t \in {"main", "control"}, ZeroBoard(t),
         Phase \in {"disarming", "over"}, Phase' \in {Phase, "over"}
  PROVE  Gate!Release
  <1>1. TypeOK /\ at[t] \in Board /\ driver[at[t]] \in Driver
    BY DEF IInv, TypeOK, Thread
  <1>2. PICK o \in ZeroOutcomes(at[t]) : Call(at[t], o)
    BY DEF ZeroBoard
  <1>3. /\ o \in Outcome
        /\ o.driver.energized = driver[at[t]].energized
        /\ o.driver.goal \in {driver[at[t]].goal, 0}
    <2>1. CASE driver[at[t]].torque_enabled
      <3>1. o \in SetCurrent(driver[at[t]], 0) /\ 0 \in Level
        BY <1>2, <2>1, GainAssumption DEF ZeroOutcomes, Level
      <3> QED
        BY <1>1, <3>1, SetCurrentOutcome
    <2>2. CASE ~driver[at[t]].torque_enabled
      <3>1. o = Returned(driver[at[t]]) /\ 0 \in 0..NumServos
        BY <1>2, <2>2, BoardAssumption DEF ZeroOutcomes
      <3> QED
        BY <1>1, <3>1, OutcomeFields
    <2> QED
      BY <2>1, <2>2
  <1>4. \A b \in Board : KeepsOff(b)
    BY <1>1, <1>2, <1>3, SameRegisters
  <1>5. \A b \in Board : driver'[b].goal \in {driver[b].goal, 0}
    BY <1>1, <1>2, <1>3, CallKeepsGoals
  <1> QED
    BY <1>4, <1>5, ReleaseStep

LEMMA WriteKeepsEnergized ==
  ASSUME IInv, WriteTorque, NEW b \in Board
  PROVE  driver'[b].energized = driver[b].energized
  <1>1. PICK o \in [Board -> UNION {WriteOutcomes(c) : c \in Board}] :
          /\ o[b] \in WriteOutcomes(b)
          /\ driver' = [c \in Board |-> o[c].driver]
    BY DEF WriteTorque
  <1>2. ComposedTorque(local.gain) \subseteq Level
    BY GainAssumption DEF ComposedTorque, IInv, TypeOK, Level
  <1>3. PICK level \in Level : o[b] \in SetCurrent(driver[b], level)
    BY <1>1, <1>2 DEF WriteOutcomes
  <1>4. driver[b] \in Driver
    BY DEF IInv, TypeOK
  <1>5. o[b].driver.energized = driver[b].energized
    BY <1>3, <1>4, SetCurrentOutcome
  <1>6. driver'[b] = o[b].driver
    BY <1>1
  <1> QED
    BY <1>5, <1>6

\* A disable that is followed by another tick has left no driver on.
LEMMA NextTopIsOff ==
  ASSUME IInv, IInv', DisableBoard, pc'["control"] = "top"
  PROVE  ~leader_torque_enabled'
  <1>1. TypeOK /\ At("control", "disabling") /\ at["control"] \in Board
    BY DEF IInv, TypeOK, Thread, DisableBoard
  <1>2. PICK o \in SetTorqueMode(driver[at["control"]], FALSE) :
          /\ Call(at["control"], o)
          /\ IF at["control"] < NumBoards
             THEN /\ at' = [at EXCEPT !["control"] = @ + 1]
                  /\ UNCHANGED <<pc, leader_torque_enabled, stop, context_down>>
             ELSE /\ at' = [at EXCEPT !["control"] = 1]
                  /\ leader_torque_enabled' = AnyDriverOn'
                  /\ IF errors["control"] \/ o.raised
                     THEN Die
                     ELSE Goto("control", "top") /\ UNCHANGED <<stop, context_down>>
    BY DEF DisableBoard
  <1>a. pc["control"] = "disabling" /\ pc \in [Thread -> ControlStep \cup MainStep \cup GainStep]
        /\ "control" \in Thread
    BY <1>1 DEF At, TypeOK, Thread
  <1>b. ~(at["control"] < NumBoards)
    <2> SUFFICES ASSUME at["control"] < NumBoards
                 PROVE  FALSE
      OBVIOUS
    <2>1. pc' = pc
      BY <1>2
    <2> QED
      BY <1>a, <2>1
  <1>c. /\ leader_torque_enabled' = AnyDriverOn'
        /\ IF errors["control"] \/ o.raised
           THEN Die
           ELSE Goto("control", "top") /\ UNCHANGED <<stop, context_down>>
    BY <1>2, <1>b
  <1>d. ~(errors["control"] \/ o.raised)
    <2> SUFFICES ASSUME errors["control"] \/ o.raised
                 PROVE  FALSE
      OBVIOUS
    <2>1. pc' = [pc EXCEPT !["control"] = "exited"]
      BY <1>c DEF Die
    <2> QED
      BY <1>a, <2>1
  <1>3. at["control"] = NumBoards /\ ~errors["control"] /\ ~o.raised
    BY <1>1, <1>b, <1>d, LeaderAssumption DEF Board
  <1>4. leader_torque_enabled' = AnyDriverOn'
    BY <1>c
  <1>5. ASSUME NEW b \in Board
        PROVE  ~driver'[b].torque_enabled
    <2>1. CASE b = at["control"]
      <3>1. driver[b] \in Driver /\ o \in SetTorqueMode(driver[b], FALSE) /\ driver'[b] = o.driver
        BY <1>1, <1>2, <2>1 DEF Call, TypeOK
      <3>2. FALSE \in BOOLEAN /\ ~o.raised
        BY <1>3
      <3>3. ~o.raised => o.driver.torque_enabled = FALSE
        BY <3>1, <3>2, SetTorqueModeOutcome
      <3> QED
        BY <3>1, <3>2, <3>3
    <2>2. CASE b # at["control"]
      <3>1. driver'[b] = driver[b]
        BY <1>1, <1>2, <2>2 DEF Call, TypeOK
      <3>2. b < at["control"]
        BY <1>3, <2>2, LeaderAssumption DEF Board
      <3>3. Off(b)
        BY <1>1, <1>3, <3>2 DEF IInv, DisablingInv
      <3> QED
        BY <3>1, <3>3 DEF Off
    <2> QED
      BY <2>1, <2>2
  <1> QED
    BY <1>4, <1>5 DEF AnyDriverOn
-----------------------------------------------------------------------------
(* Each step is one the session allows *)

LEMMA GateStep == IInv /\ IInv' /\ [Next]_vars => [Gate!Next]_(Gate!vars)
  <1> SUFFICES ASSUME IInv, IInv', [Next]_vars
               PROVE  [Gate!Next]_(Gate!vars)
    OBVIOUS
  <1>0. /\ TypeOK /\ TypeOK' /\ ThreadOrder /\ ThreadOrder'
        /\ \A t \in Thread : at[t] \in Board /\ driver[at[t]] \in Driver
        /\ "main" \in Thread /\ "control" \in Thread
    BY DEF IInv, TypeOK, Thread
  <1> USE <1>0 DEF Phase, At, ThreadOrder, Constructing
  <1>1. ASSUME driver' = driver, Phase' = Phase
        PROVE  UNCHANGED Gate!vars
    BY <1>1 DEF Gate!vars, Gate!registers
  <1>2. ASSUME driver' = driver,
               \/ Phase = "idle"  /\ Phase' \in {"arming", "over"}
               \/ Phase = "armed" /\ Phase' \in {"disarming", "over"}
        PROVE  Gate!Decide
    BY <1>2 DEF Gate!Decide, Gate!registers
  <1>3. CASE PrepareBoard
    <2>1. Phase = "preparing" /\ pc["control"] = "unstarted"
      BY <1>3 DEF PrepareBoard, Prepare
    <2>2. pc'["main"] \in {"mode", "on", "zero", "off_again", "aborted"}
      BY <1>3, GotoMain DEF PrepareBoard, Prepare, Goto, MainStep
    <2>3. Phase' \in {"preparing", "over"}
      BY <2>2
    <2> QED
      BY <2>1, <2>3 DEF Gate!Next, Gate!Prepare
  <1>4. CASE PrepareLast
    <2>1. Phase = "preparing" /\ pc["control"] = "unstarted" /\ ~leader_torque_enabled'
      BY <1>4 DEF PrepareLast, IInv, ConstructorInv
    <2>2. \/ pc'["main"] \in {"aborted", "off"}
          \/ pc'["main"] = "spinning" /\ pc'["control"] = "top"
      BY <1>4, GotoMain DEF PrepareLast, Goto, MainStep, TypeOK, Thread
    <2>3. Phase' \in {"preparing", "idle", "over"}
      BY <2>1, <2>2
    <2>4. (Phase = "idle" => Gate!Off)'
      BY NextIdleIsOff
    <2> QED
      BY <2>1, <2>3, <2>4 DEF Gate!Next, Gate!Prepare
  <1>5. CASE GainCallback
    <2>1. /\ driver' = driver /\ leader_torque_enabled' = leader_torque_enabled
          /\ pc'["main"] = pc["main"] /\ pc'["control"] = pc["control"]
      BY <1>5, GotoGain DEF GainCallback, ReceiveTarget, CheckTarget, ClearClock, InstallTarget,
         Goto, GainStep
    <2> QED
      BY <1>1, <2>1
  <1>6. CASE \/ Read \/ AfterReadFailure \/ RampReadGain \/ RampReadTarget
             \/ RampReadClock \/ RampStoreGain \/ RampStoreClock \/ RampReturn \/ GateTarget
    <2>1. /\ driver' = driver /\ leader_torque_enabled' = leader_torque_enabled
          /\ pc'["main"] = pc["main"]
          /\ {pc["control"], pc'["control"]} \subseteq
               Settled \cup {"drop", "gate", "gate_gain", "write"}
      BY <1>6, GotoControl DEF Read, AfterReadFailure, RampReadGain, RampReadTarget, RampReadClock,
         RampStoreGain, RampStoreClock, RampReturn, GateTarget, ControlOnly, Goto, ControlStep, Settled
    <2> QED
      BY <1>1, <2>1 DEF Settled
  <1>7. CASE DropGain \/ Apply \/ GateGain
    <2>1. /\ driver' = driver /\ leader_torque_enabled' = leader_torque_enabled
          /\ pc'["main"] = pc["main"] /\ pc["control"] # "unstarted"
          /\ \/ pc["control"] = "drop" /\ pc'["control"] = "zeroing"
             \/ pc["control"] = "apply" /\ pc'["control"] \in {"top", "gate"}
             \/ pc["control"] = "apply" /\ pc'["control"] = "enabling" /\ ~leader_torque_enabled
             \/ pc["control"] = "gate_gain" /\ pc'["control"] \in {"zeroing", "write"}
      BY <1>7, GotoControl DEF DropGain, Apply, GateGain, EnterLoop, Goto, ControlStep
    <2>2. pc["control"] \in {"drop", "gate_gain"} => leader_torque_enabled
      BY DEF IInv, BoardsInv
    <2> QED
      BY <1>1, <1>2, <2>1, <2>2 DEF Gate!Next
  <1>8. CASE ExitLoop \/ ReadBreaks
    <2>1. /\ driver' = driver /\ leader_torque_enabled' = leader_torque_enabled
          /\ pc'["main"] = pc["main"]
          /\ pc["control"] = "top" /\ pc'["control"] = "exited"
      BY <1>8, GotoControl DEF ExitLoop, ReadBreaks, Die, ControlOnly, Goto, ControlStep
    <2> QED
      BY <1>2, <2>1 DEF Gate!Next
  <1>9. CASE SpinEnds \/ Join
    <2>1. /\ driver' = driver /\ leader_torque_enabled' = leader_torque_enabled
          /\ pc'["control"] = pc["control"]
          /\ pc["main"] \in {"spinning", "joining"} /\ pc'["main"] \in {"joining", "zeroing"}
      BY <1>9, GotoMain DEF SpinEnds, Join, EnterLoop, Goto, MainStep
    <2> QED
      BY <1>1, <2>1
  <1>10. CASE EnableBoard
    <2> DEFINE k == at["control"]
    <2>1. PICK o \in SetTorqueMode(driver[k], TRUE) :
            /\ Call(k, o)
            /\ Advance("control", IF errors["control"] \/ o.raised THEN "cleanup" ELSE "gate")
            /\ leader_torque_enabled' = IF k = NumBoards /\ ~(errors["control"] \/ o.raised)
                                        THEN TRUE ELSE leader_torque_enabled
      BY <1>10 DEF EnableBoard
    <2>2. /\ o \in Outcome /\ o.driver.goal = driver[k].goal
          /\ \A i \in Servo : driver[k].energized[i] => o.driver.energized[i]
      <3>1. k \in Board /\ driver[k] \in Driver /\ TRUE \in BOOLEAN
        BY <1>0
      <3>2. o \in Outcome /\ o.driver.goal = driver[k].goal
        BY <2>1, <3>1, SetTorqueModeOutcome
      <3>3. \A i \in Servo : driver[k].energized[i] => o.driver.energized[i]
        BY <2>1, <3>1, EnableOnlySwitchesOn
      <3> QED
        BY <3>2, <3>3
    <2>3. \A b \in Board : driver'[b] = IF b = k THEN o.driver ELSE driver[b]
      BY <2>1 DEF Call, TypeOK
    <2>4. driver[k].goal = 0
      <3>1. At("control", "enabling") /\ k \in Board /\ at["control"] <= k
        BY <1>0, <1>10, LeaderAssumption DEF EnableBoard, Board
      <3>2. Off(k)
        BY <3>1 DEF IInv, EnablingInv
      <3> QED
        BY <3>2 DEF Off
    <2>5. ASSUME NEW b \in Board, NEW i \in Servo,
                 driver'[b].energized[i] # driver[b].energized[i]
          PROVE  driver'[b].energized[i] /\ driver[b].goal = 0
      <3>1. b = k /\ driver'[b] = o.driver
        BY <2>3, <2>5
      <3>2. driver[k].energized \in [Servo -> BOOLEAN] /\ o.driver.energized \in [Servo -> BOOLEAN]
        BY <2>2 DEF Outcome, Driver
      <3> QED
        BY <2>2, <2>4, <2>5, <3>1, <3>2
    <2>6. \A b \in Board : driver'[b].goal = driver[b].goal
      BY <2>2, <2>3
    <2>7. Phase = "arming"
      BY <1>10 DEF EnableBoard
    <2>8. pc'["main"] = pc["main"]
      BY <2>1, GotoControl DEF Advance, Goto, ControlStep
    <2>9. Phase' \in {"arming", "armed", "over"}
      <3>1. CASE k < NumBoards
        BY <2>1, <2>7, <2>8, <3>1 DEF Advance
      <3>2. CASE ~(k < NumBoards) /\ (errors["control"] \/ o.raised)
        <4>1. pc'["control"] = "cleanup"
          BY <2>1, <3>2, GotoControl DEF Advance, Goto, ControlStep
        <4> QED
          BY <1>10, <2>8, <4>1 DEF EnableBoard
      <3>3. CASE ~(k < NumBoards) /\ ~(errors["control"] \/ o.raised)
        <4>1. pc'["control"] = "gate"
          BY <2>1, <3>3, GotoControl DEF Advance, Goto, ControlStep
        <4>2. k = NumBoards
          <5>1. k \in Board
            BY <1>0
          <5> QED
            BY <3>3, <5>1, LeaderAssumption DEF Board
        <4> QED
          BY <1>10, <2>1, <2>8, <3>3, <4>1, <4>2 DEF EnableBoard
      <3> QED
        BY <3>1, <3>2, <3>3
    <2>10. (Phase = "armed" => Gate!On)'
      BY NextArmedIsOn
    <2>11. Gate!Arm
      BY <2>5, <2>6, <2>7, <2>9, <2>10 DEF Gate!Arm
    <2> QED
      BY <2>11 DEF Gate!Next
  <1>11. CASE CleanupBoard
    <2>1. pc["control"] = "cleanup" /\ pc'["control"] \in {"cleanup", "exited"}
          /\ pc'["main"] = pc["main"]
      BY <1>11, GotoControl DEF CleanupBoard, Die, ControlStep
    <2>2. Phase = "over" /\ Phase' = "over"
      BY <2>1
    <2> QED
      BY <1>11, <2>2, DisableIsRelease DEF CleanupBoard, Gate!Next
  <1>12. CASE DisableBoard
    <2>1. /\ pc["control"] = "disabling" /\ pc'["control"] \in {"disabling", "exited", "top"}
          /\ pc'["main"] = pc["main"]
      BY <1>12, GotoControl DEF DisableBoard, Die, Goto, ControlStep
    <2>2. pc'["control"] = "top" => ~leader_torque_enabled'
      <3> SUFFICES ASSUME pc'["control"] = "top"
                   PROVE  ~leader_torque_enabled'
        OBVIOUS
      <3> QED
        BY <1>12, <2>1, NextTopIsOff
    <2>3. Phase = "disarming" /\ Phase' \in {"disarming", "over", "idle"}
      BY <2>1, <2>2
    <2> QED
      BY <1>12, <2>3, DisableIsRelease DEF DisableBoard, Gate!Next
  <1>13. CASE ShutDownBoard
    <2>1. /\ pc["main"] = "disabling" /\ pc["control"] = "exited"
          /\ pc'["main"] \in {"disabling", "closed"} /\ pc'["control"] = "exited"
      BY <1>13, GotoMain DEF ShutDownBoard, Advance, Goto, MainStep
    <2>2. Phase = "over" /\ Phase' = "over"
      BY <2>1
    <2> QED
      BY <1>13, <2>2, DisableIsRelease DEF ShutDownBoard, Gate!Next
  <1>14. ASSUME ZeroBoard("control")
         PROVE  Gate!Next
    <2>1. /\ pc["control"] = "zeroing" /\ pc'["control"] \in {"zeroing", "disabling"}
          /\ pc'["main"] = pc["main"]
      BY <1>14, GotoControl DEF ZeroBoard, Advance, Goto, ControlStep
    <2>2. Phase = "disarming" /\ Phase' = "disarming"
      BY <2>1
    <2> QED
      BY <1>14, <2>2, ZeroIsRelease DEF Gate!Next
  <1>15. ASSUME ZeroBoard("main")
         PROVE  Gate!Next
    <2>1. /\ pc["main"] = "zeroing" /\ pc["control"] = "exited"
          /\ pc'["main"] \in {"zeroing", "disabling"} /\ pc'["control"] = "exited"
      BY <1>15, GotoMain DEF ZeroBoard, Advance, Goto, MainStep
    <2>2. Phase = "over" /\ Phase' = "over"
      BY <2>1
    <2> QED
      BY <1>15, <2>2, ZeroIsRelease DEF Gate!Next
  <1>16. CASE WriteTorque
    <2>1. /\ pc["control"] = "write" /\ pc'["control"] \in {"top", "exited"}
          /\ pc'["main"] = pc["main"] /\ leader_torque_enabled' = leader_torque_enabled
      BY <1>16, GotoControl DEF WriteTorque, Die, Goto, ControlStep
    <2>2. leader_torque_enabled
      BY <2>1 DEF IInv, BoardsInv
    <2>3. Phase = "armed" /\ Phase' \in {"armed", "over"}
      BY <2>1, <2>2
    <2>4. Gate!On
      BY <2>3, ArmedIsOn
    <2>5. \A b \in Board : driver'[b].energized = driver[b].energized
      BY <1>16, WriteKeepsEnergized
    <2> QED
      BY <2>3, <2>4, <2>5 DEF Gate!Next, Gate!Command
  <1>17. CASE UNCHANGED vars
    BY <1>1, <1>17 DEF vars, threads
  <1> QED
    BY <1>3, <1>4, <1>5, <1>6, <1>7, <1>8, <1>9, <1>10, <1>11, <1>12, <1>13, <1>14, <1>15, <1>16,
       <1>17
    DEF Next, Preparing, Tick, ShutDown, Terminated
-----------------------------------------------------------------------------
\* The dual-board leader implements the session of TorqueGate.
THEOREM KeepsTheGate == Spec => KeepsGate
  <1>1. Init => Gate!Init
    BY DEF Init, Gate!Init, Phase
  <1> QED
    BY <1>1, GateStep, Inductive, PTL DEF Spec, KeepsGate, Gate!Spec
-----------------------------------------------------------------------------
(***************************************************************************)
(* The end of the dual-board leader.  A stop, from Ctrl-C or from a control*)
(* thread that died, cannot be taken back, and after it no thread starts   *)
(* anything over: StepsLeft counts what is left at most of the tick under  *)
(* way, of shut_down's loops over the boards and of the gain callback.     *)
(***************************************************************************)

\* stop_control_loop and the handler of the control thread both stop the loop and take
\* the context down; main leaves its spin only after that.
StopInv ==
  /\ stop <=> context_down
  /\ pc["main"] \in Constructing => ~stop
  /\ pc["main"] \in {"joining", "zeroing", "disabling", "closed"} => stop
  /\ At("control", "exited") => stop

\* Boards a loop that has reached board b still visits.
BoardsLeft(b) == NumBoards + 1 - b

\* Steps from here to the end of the tick, and one to leave the loop.
ControlLeft(step, b) ==
  CASE step = "read_failed" -> 2 * NumBoards + 3
    [] step = "drop"        -> 2 * NumBoards + 2
    [] step = "ramp_gain"   -> 3 * NumBoards + 10
    [] step = "ramp_target" -> 3 * NumBoards + 9
    [] step = "ramp_clock"  -> 3 * NumBoards + 8
    [] step = "ramp_store"  -> 3 * NumBoards + 7
    [] step = "ramp_stamp"  -> 3 * NumBoards + 6
    [] step = "ramp_return" -> 3 * NumBoards + 5
    [] step = "apply"       -> 3 * NumBoards + 4
    [] step = "enabling"    -> 2 * NumBoards + 3 + BoardsLeft(b)
    [] step = "gate"        -> 2 * NumBoards + 3
    [] step = "gate_gain"   -> 2 * NumBoards + 2
    [] step = "zeroing"     -> NumBoards + 1 + BoardsLeft(b)
    [] step = "disabling"   -> 1 + BoardsLeft(b)
    [] step = "cleanup"     -> BoardsLeft(b)
    [] step = "write"       -> 2
    [] step = "top"         -> 1
    [] OTHER                -> 0

MainLeft(step, b) ==
  CASE step = "spinning"  -> 2 * NumBoards + 2
    [] step = "joining"   -> 2 * NumBoards + 1
    [] step = "zeroing"   -> NumBoards + BoardsLeft(b)
    [] step = "disabling" -> BoardsLeft(b)
    [] OTHER              -> 0

GainLeft(step) ==
  CASE step = "check"   -> 3
    [] step = "unclock" -> 2
    [] step = "install" -> 1
    [] OTHER            -> 0

StepsLeft == ControlLeft(pc["control"], at["control"]) + MainLeft(pc["main"], at["main"])
               + GainLeft(pc["gain"])

LEMMA ControlLeftIsNat ==
  ASSUME NEW s \in ControlStep, NEW b \in Board
  PROVE  ControlLeft(s, b) \in Nat
  <1>1. BoardsLeft(b) \in Nat
    BY DEF BoardsLeft
  <1> QED
    BY <1>1 DEF ControlLeft, ControlStep

LEMMA MainLeftIsNat ==
  ASSUME NEW s \in MainStep, NEW b \in Board
  PROVE  MainLeft(s, b) \in Nat
  <1>1. BoardsLeft(b) \in Nat
    BY DEF BoardsLeft
  <1> QED
    BY <1>1 DEF MainLeft, MainStep

LEMMA GainLeftIsNat ==
  ASSUME NEW s \in GainStep
  PROVE  GainLeft(s) \in Nat
  BY DEF GainLeft, GainStep

LEMMA LeftIsNat ==
  ASSUME TypeOK
  PROVE  /\ ControlLeft(pc["control"], at["control"]) \in Nat
         /\ MainLeft(pc["main"], at["main"]) \in Nat
         /\ GainLeft(pc["gain"]) \in Nat
         /\ StepsLeft \in Nat
  <1>1. /\ pc["control"] \in ControlStep /\ pc["main"] \in MainStep /\ pc["gain"] \in GainStep
        /\ at["control"] \in Board /\ at["main"] \in Board
    BY DEF TypeOK, Thread
  <1>2. /\ ControlLeft(pc["control"], at["control"]) \in Nat
        /\ MainLeft(pc["main"], at["main"]) \in Nat
        /\ GainLeft(pc["gain"]) \in Nat
    BY <1>1, ControlLeftIsNat, MainLeftIsNat, GainLeftIsNat
  <1> QED
    BY <1>2 DEF StepsLeft

\* The same after a step.
LEMMA LeftStaysNat ==
  ASSUME TypeOK'
  PROVE  /\ ControlLeft(pc'["control"], at'["control"]) \in Nat
         /\ MainLeft(pc'["main"], at'["main"]) \in Nat
         /\ GainLeft(pc'["gain"]) \in Nat
  <1>1. /\ pc'["control"] \in ControlStep /\ pc'["main"] \in MainStep
        /\ pc'["gain"] \in GainStep
        /\ at'["control"] \in Board /\ at'["main"] \in Board
    BY DEF TypeOK, Thread
  <1> QED
    BY <1>1, ControlLeftIsNat, MainLeftIsNat, GainLeftIsNat

LEMMA StopInit == Init => StopInv
  BY DEF Init, StopInv, Constructing

LEMMA StopStep == IInv /\ StopInv /\ [Next]_vars => StopInv'
  <1> SUFFICES ASSUME IInv, StopInv, [Next]_vars
               PROVE  StopInv'
    OBVIOUS
  <1>0. TypeOK /\ ThreadOrder
    BY DEF IInv
  <1> USE <1>0
  \* A step that leaves stop and context alone, and where main and control stand.
  <1>1. ASSUME UNCHANGED <<stop, context_down>>, pc'["main"] = pc["main"],
               pc'["control"] # "exited" \/ pc["control"] = "exited" \/ stop
        PROVE  StopInv'
    BY <1>1 DEF StopInv
  \* A step that stops.
  <1>2. ASSUME stop' = TRUE, context_down' = TRUE,
               pc'["main"] = pc["main"] \/ pc'["main"] = "joining",
               pc["main"] \notin Constructing
        PROVE  StopInv'
    BY <1>2 DEF StopInv, Constructing, TypeOK, MainStep
  <1>3. CASE Preparing
    <2>1. ~stop /\ UNCHANGED <<stop, context_down>>
      BY <1>3 DEF Preparing, PrepareBoard, PrepareLast, Prepare, StopInv, Constructing
    <2>2. /\ pc'["main"] \in Constructing \cup {"spinning"}
          /\ pc'["control"] # "exited"
      <3>1. ~At("control", "exited")
        BY <2>1 DEF StopInv
      <3>2. CASE PrepareBoard
        BY <3>1, <3>2 DEF PrepareBoard, Prepare, Goto, TypeOK, Thread, Constructing
      <3>3. CASE PrepareLast
        BY <3>1, <3>3 DEF PrepareLast, Goto, TypeOK, Thread, Constructing
      <3> QED
        BY <1>3, <3>2, <3>3 DEF Preparing
    <2> QED
      BY <2>1, <2>2 DEF StopInv, Constructing
  <1>4. CASE GainCallback
    <2>1. /\ UNCHANGED <<stop, context_down>>
          /\ pc'["main"] = pc["main"] /\ pc'["control"] = pc["control"]
      BY <1>4 DEF GainCallback, ReceiveTarget, CheckTarget, ClearClock, InstallTarget, Goto,
         TypeOK, Thread
    <2> QED
      BY <1>1, <2>1
  <1>5. CASE Join \/ ZeroBoard("main") \/ ShutDownBoard
    <2>1. /\ UNCHANGED <<stop, context_down>> /\ stop
          /\ pc'["main"] \notin Constructing \cup {"spinning"}
      BY <1>5 DEF Join, ZeroBoard, ShutDownBoard, Advance, EnterLoop, Goto, TypeOK, Thread,
         Constructing, StopInv
    <2> QED
      BY <2>1 DEF StopInv
  <1>6. CASE SpinEnds
    <2>1. pc'["main"] = "joining"
      BY <1>6 DEF SpinEnds, Goto, TypeOK, Thread
    <2> QED
      BY <1>2, <1>6, <2>1 DEF SpinEnds, Constructing
  <1>7. ASSUME Die, pc["control"] \notin {"unstarted"}
        PROVE  StopInv'
    <2>1. pc'["main"] = pc["main"] /\ pc["main"] \notin Constructing
      BY <1>7 DEF Die, TypeOK, Thread, ThreadOrder
    <2> QED
      BY <1>2, <1>7, <2>1 DEF Die
  <1>8. CASE ReadBreaks
    BY <1>7, <1>8 DEF ReadBreaks
  <1>9. ASSUME UNCHANGED <<stop, context_down>>,
               NEW s \in ControlStep, pc' = pc \/ pc' = [pc EXCEPT !["control"] = s],
               s = "exited" => stop
        PROVE  StopInv'
    BY <1>1, <1>9, GotoControl
  <1>10. CASE \/ Read \/ AfterReadFailure \/ DropGain \/ RampReadGain \/ RampReadTarget
              \/ RampReadClock \/ RampStoreGain \/ RampStoreClock \/ RampReturn
              \/ Apply \/ GateTarget \/ GateGain \/ ExitLoop
    BY <1>9, <1>10 DEF Read, AfterReadFailure, DropGain, RampReadGain, RampReadTarget,
       RampReadClock, RampStoreGain, RampStoreClock, RampReturn, Apply, GateTarget, GateGain,
       ExitLoop, ControlOnly, EnterLoop, Goto, ControlStep
  <1>11. CASE EnableBoard \/ ZeroBoard("control")
    BY <1>9, <1>11 DEF EnableBoard, ZeroBoard, Advance, Goto, ControlStep
  <1>12. CASE CleanupBoard \/ DisableBoard \/ WriteTorque
    <2>1. \/ Die
          \/ UNCHANGED <<stop, context_down>> /\ (pc' = pc \/ Goto("control", "top"))
      BY <1>12 DEF CleanupBoard, DisableBoard, WriteTorque
    <2>2. pc["control"] # "unstarted"
      BY <1>12 DEF CleanupBoard, DisableBoard, WriteTorque
    <2> QED
      BY <1>7, <1>9, <2>1, <2>2 DEF Goto, ControlStep
  <1>13. CASE Terminated \/ UNCHANGED vars
    BY <1>13 DEF Terminated, vars, threads, StopInv
  <1> QED
    BY <1>3, <1>4, <1>5, <1>6, <1>8, <1>10, <1>11, <1>12, <1>13 DEF Next, Tick, ShutDown

\* A thread that goes on while the others stand.
LEMMA ControlGoesOn ==
  ASSUME TypeOK, TypeOK', pc'["main"] = pc["main"], pc'["gain"] = pc["gain"],
         at'["main"] = at["main"],
         ControlLeft(pc'["control"], at'["control"]) < ControlLeft(pc["control"], at["control"])
  PROVE  StepsLeft' < StepsLeft
  BY LeftIsNat, LeftStaysNat DEF StepsLeft

LEMMA MainGoesOn ==
  ASSUME TypeOK, TypeOK', pc'["control"] = pc["control"], pc'["gain"] = pc["gain"],
         at'["control"] = at["control"],
         MainLeft(pc'["main"], at'["main"]) < MainLeft(pc["main"], at["main"])
  PROVE  StepsLeft' < StepsLeft
  BY LeftIsNat, LeftStaysNat DEF StepsLeft

\* A step of a loop over the boards: the next board, or the step after the last one.
LEMMA LoopGoesOn ==
  ASSUME TypeOK, NEW t \in Thread, NEW after, Advance(t, after)
  PROVE  /\ \A u \in Thread \ {t} : pc'[u] = pc[u] /\ at'[u] = at[u]
         /\ \/ pc'[t] = pc[t] /\ BoardsLeft(at'[t]) = BoardsLeft(at[t]) - 1
            \/ pc'[t] = after /\ at[t] = NumBoards /\ at'[t] = 1
         /\ BoardsLeft(at[t]) \in Nat \ {0}
  <1>1. at[t] \in Board /\ at \in [Thread -> Board]
    BY DEF TypeOK
  <1>2. CASE at[t] < NumBoards
    BY <1>1, <1>2 DEF Advance, BoardsLeft
  <1>3. CASE ~(at[t] < NumBoards)
    BY <1>1, <1>3 DEF Advance, Goto, BoardsLeft, TypeOK
  <1> QED
    BY <1>2, <1>3

LEMMA StopRuns ==
  ASSUME IInv, TypeOK', StopInv, stop, Next, ~Terminated
  PROVE  StepsLeft' < StepsLeft
  <1>0. /\ TypeOK /\ LoopsInv /\ context_down
        /\ "main" \in Thread /\ "control" \in Thread /\ "gain" \in Thread
        /\ 1 \in Board /\ BoardsLeft(1) = NumBoards /\ BoardsLeft(NumBoards) = 1
    BY DEF IInv, StopInv, Thread, BoardsLeft
  <1>1. CASE Preparing
    BY <1>1 DEF Preparing, PrepareBoard, PrepareLast, Prepare, StopInv, Constructing
  <1>2. CASE GainCallback
    <2>1. /\ at' = at
          /\ \/ pc["gain"] = "check" /\ pc' = [pc EXCEPT !["gain"] = "unclock"]
             \/ pc["gain"] = "check" /\ pc' = [pc EXCEPT !["gain"] = "install"]
             \/ pc["gain"] = "unclock" /\ pc' = [pc EXCEPT !["gain"] = "install"]
             \/ pc["gain"] = "install" /\ pc' = [pc EXCEPT !["gain"] = "waiting"]
      BY <1>0, <1>2 DEF GainCallback, ReceiveTarget, CheckTarget, ClearClock, InstallTarget, Goto
    <2>2. pc'["main"] = pc["main"] /\ pc'["control"] = pc["control"]
      BY <1>0, <2>1 DEF TypeOK
    <2>3. GainLeft(pc'["gain"]) < GainLeft(pc["gain"])
      BY <1>0, <2>1 DEF GainLeft, TypeOK
    <2> QED
      BY <1>0, <2>1, <2>2, <2>3, LeftIsNat, LeftStaysNat DEF StepsLeft
  <1>3. CASE SpinEnds
    <2>1. /\ at' = at /\ pc["main"] = "spinning" /\ pc'["main"] = "joining"
          /\ pc'["control"] = pc["control"] /\ pc'["gain"] = pc["gain"]
      BY <1>0, <1>3 DEF SpinEnds, Goto, TypeOK
    <2>2. MainLeft(pc'["main"], at'["main"]) < MainLeft(pc["main"], at["main"])
      BY <2>1 DEF MainLeft
    <2> QED
      BY <1>0, <2>1, <2>2, MainGoesOn
  <1>4. CASE Join
    <2>1. /\ at' = at /\ pc["main"] = "joining" /\ pc'["main"] = "zeroing" /\ at["main"] = 1
          /\ pc'["control"] = pc["control"] /\ pc'["gain"] = pc["gain"]
      BY <1>0, <1>4 DEF Join, EnterLoop, Goto, TypeOK, LoopsInv
    <2>2. MainLeft(pc'["main"], at'["main"]) < MainLeft(pc["main"], at["main"])
      BY <1>0, <2>1 DEF MainLeft
    <2> QED
      BY <1>0, <2>1, <2>2, MainGoesOn
  <1>5. CASE ZeroBoard("main")
    <2>1. pc["main"] = "zeroing" /\ Advance("main", "disabling")
      BY <1>5 DEF ZeroBoard
    <2>2. MainLeft(pc'["main"], at'["main"]) < MainLeft(pc["main"], at["main"])
      BY <1>0, <2>1, LoopGoesOn DEF MainLeft
    <2>3. /\ pc'["control"] = pc["control"] /\ pc'["gain"] = pc["gain"]
          /\ at'["control"] = at["control"]
      BY <1>0, <2>1, LoopGoesOn
    <2> QED
      BY <1>0, <2>2, <2>3, MainGoesOn
  <1>6. CASE ShutDownBoard
    <2>1. pc["main"] = "disabling" /\ Advance("main", "closed")
      BY <1>6 DEF ShutDownBoard
    <2>2. MainLeft(pc'["main"], at'["main"]) < MainLeft(pc["main"], at["main"])
      BY <1>0, <2>1, LoopGoesOn DEF MainLeft
    <2>3. /\ pc'["control"] = pc["control"] /\ pc'["gain"] = pc["gain"]
          /\ at'["control"] = at["control"]
      BY <1>0, <2>1, LoopGoesOn
    <2> QED
      BY <1>0, <2>2, <2>3, MainGoesOn
  <1>7. ASSUME at' = at, NEW s \in ControlStep, pc' = [pc EXCEPT !["control"] = s],
               ControlLeft(s, at["control"]) < ControlLeft(pc["control"], at["control"])
        PROVE  StepsLeft' < StepsLeft
    <2>1. /\ pc'["control"] = s /\ pc'["main"] = pc["main"] /\ pc'["gain"] = pc["gain"]
      BY <1>0, <1>7, GotoControl
    <2> QED
      BY <1>0, <1>7, <2>1, ControlGoesOn
  <1>8. CASE \/ RampReadGain \/ RampReadTarget \/ RampReadClock \/ RampStoreGain
             \/ RampStoreClock \/ RampReturn
    <2>1. at' = at
      BY <1>8 DEF RampReadGain, RampReadTarget, RampReadClock, RampStoreGain, RampStoreClock,
         RampReturn, ControlOnly, Goto
    <2>2. PICK s \in {"ramp_target", "ramp_clock", "ramp_store", "ramp_stamp", "ramp_return",
                       "apply"} :
            /\ pc' = [pc EXCEPT !["control"] = s]
            /\ <<pc["control"], s>> \in
                 {<<"ramp_gain", "ramp_target">>, <<"ramp_target", "ramp_clock">>,
                  <<"ramp_clock", "ramp_store">>, <<"ramp_store", "ramp_stamp">>,
                  <<"ramp_stamp", "ramp_return">>, <<"ramp_return", "apply">>}
      BY <1>8 DEF RampReadGain, RampReadTarget, RampReadClock, RampStoreGain, RampStoreClock,
         RampReturn, ControlOnly, Goto
    <2>3. s \in ControlStep
      BY DEF ControlStep
    <2>4. ControlLeft(s, at["control"]) < ControlLeft(pc["control"], at["control"])
      BY <2>1, <2>2 DEF ControlLeft
    <2> QED
      BY <1>7, <2>1, <2>2, <2>3, <2>4
  <1>9. CASE Read \/ ReadBreaks
    BY <1>9 DEF Read, ReadBreaks
  <1>10. CASE AfterReadFailure \/ GateTarget \/ ExitLoop
    <2>1. at' = at
      BY <1>10 DEF AfterReadFailure, GateTarget, ExitLoop, ControlOnly, Goto
    <2>2. PICK s \in {"drop", "top", "gate_gain", "write", "exited"} :
            /\ pc' = [pc EXCEPT !["control"] = s]
            /\ <<pc["control"], s>> \in
                 {<<"read_failed", "drop">>, <<"read_failed", "top">>,
                  <<"gate", "gate_gain">>, <<"gate", "write">>, <<"top", "exited">>}
      BY <1>10 DEF AfterReadFailure, GateTarget, ExitLoop, ControlOnly, Goto
    <2>3. s \in ControlStep
      BY DEF ControlStep
    <2>4. ControlLeft(s, at["control"]) < ControlLeft(pc["control"], at["control"])
      BY <2>1, <2>2 DEF ControlLeft
    <2> QED
      BY <1>7, <2>1, <2>2, <2>3, <2>4
  <1>11. CASE DropGain \/ Apply \/ GateGain
    <2>1. at' = at /\ at["control"] = 1
      BY <1>0, <1>11 DEF DropGain, Apply, GateGain, EnterLoop, Goto, LoopsInv
    <2>2. PICK s \in {"gate", "enabling", "top", "zeroing", "write"} :
            /\ pc' = [pc EXCEPT !["control"] = s]
            /\ <<pc["control"], s>> \in
                 {<<"drop", "zeroing">>, <<"apply", "gate">>, <<"apply", "enabling">>,
                  <<"apply", "top">>, <<"gate_gain", "zeroing">>, <<"gate_gain", "write">>}
      BY <1>0, <1>11 DEF DropGain, Apply, GateGain, EnterLoop, Goto, LoopsInv
    <2>3. s \in ControlStep
      BY DEF ControlStep
    <2>4. ControlLeft(s, at["control"]) < ControlLeft(pc["control"], at["control"])
      BY <1>0, <2>1, <2>2 DEF ControlLeft
    <2> QED
      BY <1>7, <2>1, <2>2, <2>3, <2>4
  <1>12. CASE EnableBoard
    <2>1. PICK after \in {"cleanup", "gate"} :
            pc["control"] = "enabling" /\ Advance("control", after)
      BY <1>12 DEF EnableBoard
    <2>2. ControlLeft(pc'["control"], at'["control"]) < ControlLeft(pc["control"], at["control"])
      BY <1>0, <2>1, LoopGoesOn DEF ControlLeft
    <2>3. /\ pc'["main"] = pc["main"] /\ pc'["gain"] = pc["gain"]
          /\ at'["main"] = at["main"]
      BY <1>0, <2>1, LoopGoesOn
    <2> QED
      BY <1>0, <2>2, <2>3, ControlGoesOn
  <1>13. CASE ZeroBoard("control")
    <2>1. pc["control"] = "zeroing" /\ Advance("control", "disabling")
      BY <1>13 DEF ZeroBoard
    <2>2. ControlLeft(pc'["control"], at'["control"]) < ControlLeft(pc["control"], at["control"])
      BY <1>0, <2>1, LoopGoesOn DEF ControlLeft
    <2>3. /\ pc'["main"] = pc["main"] /\ pc'["gain"] = pc["gain"]
          /\ at'["main"] = at["main"]
      BY <1>0, <2>1, LoopGoesOn
    <2> QED
      BY <1>0, <2>2, <2>3, ControlGoesOn
  <1>14. CASE CleanupBoard \/ DisableBoard
    <2>1. PICK after \in {"exited", "top"} :
            /\ Advance("control", after)
            /\ pc["control"] = "cleanup" => after = "exited"
            /\ pc["control"] \in {"cleanup", "disabling"}
      BY <1>14 DEF CleanupBoard, DisableBoard, Advance, Die, Goto
    <2>2. ControlLeft(pc'["control"], at'["control"]) < ControlLeft(pc["control"], at["control"])
      BY <1>0, <2>1, LoopGoesOn DEF ControlLeft
    <2>3. /\ pc'["main"] = pc["main"] /\ pc'["gain"] = pc["gain"]
          /\ at'["main"] = at["main"]
      BY <1>0, <2>1, LoopGoesOn
    <2> QED
      BY <1>0, <2>2, <2>3, ControlGoesOn
  <1>15. CASE WriteTorque
    <2>1. /\ at' = at /\ pc["control"] = "write"
          /\ \/ pc' = [pc EXCEPT !["control"] = "exited"]
             \/ pc' = [pc EXCEPT !["control"] = "top"]
      BY <1>15 DEF WriteTorque, Die, Goto
    <2> QED
      BY <1>7, <2>1 DEF ControlStep, ControlLeft
  <1> QED
    BY <1>1, <1>2, <1>3, <1>4, <1>5, <1>6, <1>8, <1>9, <1>10, <1>11, <1>12, <1>13, <1>14, <1>15
    DEF Next, Tick, ShutDown

(* A control thread that ended has stopped the loop and taken the context    *)
(* down, so main's spin ends too; and once a stop was given, by Ctrl-C or by *)
(* a failure, every step of any thread uses up one of finitely many: neither *)
(* the tick under way, nor a target that had arrived, nor a failing board    *)
(* keeps shut_down from its end (_control_loop_worker, shut_down).           *)
THEOREM StopRunsDown ==
  Spec => /\ []StopInv
          /\ [](StepsLeft \in Nat)
          /\ [][stop => stop' /\ StepsLeft' < StepsLeft]_vars
  <1>1. ASSUME IInv, IInv', StopInv, [Next]_vars
        PROVE  [stop => stop' /\ StepsLeft' < StepsLeft]_vars
    <2>1. CASE Terminated \/ UNCHANGED vars
      BY <2>1 DEF Terminated
    <2>2. CASE Next /\ ~Terminated
      <3>1. stop => StepsLeft' < StepsLeft
        BY <1>1, <2>2, StopRuns DEF IInv
      <3>2. stop => stop'
        BY <2>2 DEF Next, Preparing, PrepareBoard, PrepareLast, Prepare, GainCallback,
           ReceiveTarget, CheckTarget, ClearClock, InstallTarget, Tick, Read, AfterReadFailure,
           DropGain, RampReadGain, RampReadTarget, RampReadClock, RampStoreGain,
           RampStoreClock, RampReturn, Apply, EnableBoard, CleanupBoard, GateTarget, GateGain,
           ZeroBoard, DisableBoard, WriteTorque, ExitLoop, ReadBreaks, SpinEnds, ShutDown,
           Join, ShutDownBoard, ControlOnly, Die
      <3> QED
        BY <3>1, <3>2
    <2> QED
      BY <1>1, <2>1, <2>2
  <1>2. IInv => StepsLeft \in Nat
    BY LeftIsNat DEF IInv
  <1> QED
    BY Inductive, StopInit, StopStep, <1>1, <1>2, PTL DEF Spec
-----------------------------------------------------------------------------
(***************************************************************************)
(* An off request.  While no new target is on its way, the control thread  *)
(* counts down: each tick lowers the gain, and the tick that finds it zero *)
(* disables the boards.  What a thread has read may be out of date once, so*)
(* a tick that began before the request may still store a higher gain.     *)
(***************************************************************************)

\* The target is off, and so is the one the gain callback holds, if any.
OffRequested ==
  /\ leader_torque_gain_target = 0
  /\ \/ At("gain", "waiting")
     \/ pc["gain"] \in {"check", "install"} /\ new_target = 0

\* The ramp under way reads, or has read, this gain, this target and a running clock.
RampIsFresh ==
  /\ clock \/ At("control", "ramp_stamp")
  /\ pc["control"] \in {"ramp_target", "ramp_clock", "ramp_store"}
       => local.gain = leader_torque_gain
  /\ pc["control"] \in {"ramp_clock", "ramp_store"} => local.target = 0
  /\ At("control", "ramp_store") => local.clock

\* What the next stores of the ramp take away from; one more while it may still rise.
OffLevel == IF RampIsFresh THEN leader_torque_gain ELSE MaxLevel + 1

\* Steps to the next store of the gain, or, from a gate that finds it zero, to the end
\* of the disable.
StepsToStore(step, b) ==
  CASE step = "ramp_stamp"  -> 2 * NumBoards + 13
    [] step = "ramp_return" -> 2 * NumBoards + 12
    [] step = "apply"       -> 2 * NumBoards + 11
    [] step = "gate"        -> 2 * NumBoards + 10
    [] step = "gate_gain"   -> 2 * NumBoards + 9
    [] step = "write"       -> 2 * NumBoards + 8
    [] step = "top"         -> 2 * NumBoards + 7
    [] step = "ramp_gain"   -> 2 * NumBoards + 6
    [] step = "read_failed" -> 2 * NumBoards + 6
    [] step = "ramp_target" -> 2 * NumBoards + 5
    [] step = "drop"        -> 2 * NumBoards + 5
    [] step = "ramp_clock"  -> 2 * NumBoards + 4
    [] step = "ramp_store"  -> 2 * NumBoards + 3
    [] step = "zeroing"     -> NumBoards + BoardsLeft(b)
    [] step = "disabling"   -> BoardsLeft(b)
    [] OTHER                -> 0

\* Steps to the end of the disable when the gain is zero.
StepsToOff(step, b) ==
  CASE step = "write"       -> 2 * NumBoards + 11
    [] step = "top"         -> 2 * NumBoards + 10
    [] step = "ramp_gain"   -> 2 * NumBoards + 9
    [] step = "read_failed" -> 2 * NumBoards + 9
    [] step = "ramp_target" -> 2 * NumBoards + 8
    [] step = "ramp_clock"  -> 2 * NumBoards + 7
    [] step = "ramp_store"  -> 2 * NumBoards + 6
    [] step = "ramp_stamp"  -> 2 * NumBoards + 5
    [] step = "ramp_return" -> 2 * NumBoards + 4
    [] step = "apply"       -> 2 * NumBoards + 3
    [] step = "gate"        -> 2 * NumBoards + 2
    [] step = "gate_gain"   -> 2 * NumBoards + 1
    [] step = "drop"        -> 2 * NumBoards + 1
    [] step = "zeroing"     -> NumBoards + BoardsLeft(b)
    [] step = "disabling"   -> BoardsLeft(b)
    [] OTHER                -> 0

OffSteps == IF OffLevel = 0 THEN StepsToOff(pc["control"], at["control"])
            ELSE StepsToStore(pc["control"], at["control"])

\* The boards are disabled only at gain zero, and a failed enable left the flag down.
OffInv ==
  /\ pc["control"] \in {"zeroing", "disabling"} => leader_torque_gain = 0
  /\ At("control", "cleanup") => ~leader_torque_enabled

\* A step of the control thread comes nearer to off, and no other step moves it away.
OffComesNearer ==
  OffRequested /\ OffRequested' /\ leader_torque_enabled /\ leader_torque_enabled' =>
    IF Tick \/ ReadBreaks
    THEN OffLevel' < OffLevel \/ (OffLevel' = OffLevel /\ OffSteps' < OffSteps)
    ELSE OffLevel' = OffLevel /\ OffSteps' = OffSteps

LEMMA OffInvInit == Init => OffInv
  BY DEF Init, OffInv

LEMMA OffInvStep == IInv /\ OffInv /\ [Next]_vars => OffInv'
  <1> SUFFICES ASSUME IInv, OffInv, [Next]_vars
               PROVE  OffInv'
    OBVIOUS
  <1>0. TypeOK
    BY DEF IInv
  <1> USE <1>0
  <1>1. ASSUME leader_torque_gain' \in {leader_torque_gain, 0},
               UNCHANGED leader_torque_enabled,
               pc'["control"] = pc["control"]
        PROVE  OffInv'
    BY <1>1 DEF OffInv
  <1>2. ASSUME NEW s \in ControlStep \ {"zeroing", "disabling", "cleanup"},
               pc' = [pc EXCEPT !["control"] = s]
        PROVE  OffInv'
    BY <1>2, GotoControl DEF OffInv
  <1>3. CASE Preparing
    <2>1. PrepareBoard \/ PrepareLast
      BY <1>3 DEF Preparing
    <2>2. /\ UNCHANGED leader_torque_gain /\ UNCHANGED leader_torque_enabled
          /\ pc'["control"] = pc["control"] \/ pc'["control"] = "top"
      BY <2>1 DEF PrepareBoard, PrepareLast, Prepare, Goto, gains, TypeOK, Thread
    <2> QED
      BY <2>2 DEF OffInv
  <1>4. CASE GainCallback
    <2>1. /\ leader_torque_gain' \in {leader_torque_gain, 0}
          /\ UNCHANGED leader_torque_enabled
          /\ pc'["control"] = pc["control"]
      BY <1>4 DEF GainCallback, ReceiveTarget, CheckTarget, ClearClock, InstallTarget, Goto,
         gains, TypeOK, Thread
    <2> QED
      BY <1>1, <2>1
  <1>5. CASE SpinEnds \/ Join \/ ZeroBoard("main")
    <2>1. /\ UNCHANGED leader_torque_gain /\ UNCHANGED leader_torque_enabled
          /\ pc'["control"] = pc["control"]
      BY <1>5 DEF SpinEnds, Join, ZeroBoard, Advance, EnterLoop, Goto, gains, TypeOK, Thread
    <2> QED
      BY <1>1, <2>1
  <1>6. CASE ShutDownBoard
    <2>1. pc["control"] = "exited" /\ pc'["control"] = pc["control"]
      BY <1>6 DEF ShutDownBoard, Advance, Goto, TypeOK, Thread, IInv, ThreadOrder
    <2> QED
      BY <2>1 DEF OffInv
  <1>7. CASE \/ Read \/ AfterReadFailure \/ RampReadGain \/ RampReadTarget
             \/ RampReadClock \/ RampStoreGain \/ RampStoreClock \/ RampReturn
             \/ GateTarget \/ ExitLoop \/ ReadBreaks \/ WriteTorque \/ Apply
    <2>1. \E s \in ControlStep \ {"zeroing", "disabling", "cleanup"} :
            pc' = [pc EXCEPT !["control"] = s]
      BY <1>7 DEF Read, AfterReadFailure, RampReadGain, RampReadTarget, RampReadClock,
         RampStoreGain, RampStoreClock, RampReturn, GateTarget, ExitLoop, ReadBreaks,
         WriteTorque, Apply, EnterLoop, Die, Goto, ControlStep
    <2> QED
      BY <1>2, <2>1
  <1>8. CASE DropGain
    BY <1>8, GotoControl DEF DropGain, EnterLoop, Goto, ControlStep, OffInv
  <1>9. CASE GateGain
    BY <1>9, GotoControl DEF GateGain, EnterLoop, Goto, ControlStep, OffInv, gains
  <1>10. CASE ZeroBoard("control")
    <2>1. pc' = pc \/ pc' = [pc EXCEPT !["control"] = "disabling"]
      BY <1>10 DEF ZeroBoard, Advance, Goto
    <2>2. leader_torque_gain' = 0
      BY <1>10 DEF ZeroBoard, OffInv, gains
    <2> QED
      BY <1>10, <2>1, <2>2, GotoControl DEF ZeroBoard, OffInv, ControlStep
  <1>11. CASE EnableBoard
    <2>1. ~leader_torque_enabled
      BY <1>11 DEF EnableBoard, IInv, EnablingInv
    <2>2. PICK o \in SetTorqueMode(driver[at["control"]], TRUE) :
            /\ Advance("control", IF errors["control"] \/ o.raised THEN "cleanup" ELSE "gate")
            /\ leader_torque_enabled'
                 = IF at["control"] = NumBoards /\ ~(errors["control"] \/ o.raised)
                   THEN TRUE ELSE leader_torque_enabled
      BY <1>11 DEF EnableBoard
    <2>3. CASE at["control"] < NumBoards
      <3>1. pc' = pc /\ pc["control"] = "enabling"
        BY <1>11, <2>2, <2>3 DEF EnableBoard, Advance
      <3> QED
        BY <3>1 DEF OffInv
    <2>4. CASE ~(at["control"] < NumBoards) /\ (errors["control"] \/ o.raised)
      <3>1. pc' = [pc EXCEPT !["control"] = "cleanup"] /\ ~leader_torque_enabled'
        BY <2>1, <2>2, <2>4 DEF Advance, Goto
      <3> QED
        BY <3>1, GotoControl DEF OffInv, ControlStep
    <2>5. CASE ~(at["control"] < NumBoards) /\ ~(errors["control"] \/ o.raised)
      <3>1. pc' = [pc EXCEPT !["control"] = "gate"]
        BY <2>2, <2>5 DEF Advance, Goto
      <3> QED
        BY <3>1, <1>2 DEF ControlStep
    <2> QED
      BY <2>3, <2>4, <2>5
  <1>12. CASE CleanupBoard
    <2>1. CASE at["control"] < NumBoards
      BY <1>12, <2>1 DEF CleanupBoard, OffInv
    <2>2. CASE ~(at["control"] < NumBoards)
      BY <1>2, <1>12, <2>2 DEF CleanupBoard, Die, ControlStep
    <2> QED
      BY <2>1, <2>2
  <1>13. CASE DisableBoard
    <2>1. leader_torque_gain' = 0
      BY <1>13 DEF DisableBoard, OffInv, gains
    <2>2. pc' = pc \/ pc' = [pc EXCEPT !["control"] = "exited"]
                   \/ pc' = [pc EXCEPT !["control"] = "top"]
      BY <1>13 DEF DisableBoard, Die, Goto
    <2> QED
      BY <1>13, <2>1, <2>2, GotoControl DEF DisableBoard, OffInv, ControlStep
  <1>14. CASE Terminated \/ UNCHANGED vars
    BY <1>14 DEF Terminated, vars, gains, threads, OffInv
  <1> QED
    BY <1>3, <1>4, <1>5, <1>6, <1>7, <1>8, <1>9, <1>10, <1>11, <1>12, <1>13, <1>14
    DEF Next, Tick, ShutDown

LEMMA OffStepsNat ==
  ASSUME NEW s \in ControlStep, NEW b \in Board
  PROVE  StepsToStore(s, b) \in Nat /\ StepsToOff(s, b) \in Nat
  <1>1. BoardsLeft(b) \in Nat
    BY DEF BoardsLeft
  <1>2. StepsToStore(s, b) \in Nat
    BY <1>1 DEF StepsToStore, ControlStep
  <1>3. StepsToOff(s, b) \in Nat
    BY <1>1 DEF StepsToOff, ControlStep
  <1> QED
    BY <1>2, <1>3

LEMMA OffIsNat == TypeOK => OffLevel \in 0..MaxLevel + 1 /\ OffSteps \in Nat
  <1> SUFFICES ASSUME TypeOK
               PROVE  OffLevel \in 0..MaxLevel + 1 /\ OffSteps \in Nat
    OBVIOUS
  <1>1. pc["control"] \in ControlStep /\ at["control"] \in Board /\ leader_torque_gain \in Level
    BY DEF TypeOK, Thread
  <1>2. OffLevel \in 0..MaxLevel + 1
    BY <1>1, GainAssumption DEF OffLevel, Level
  <1>3. OffSteps \in Nat
    BY <1>1, OffStepsNat DEF OffSteps
  <1> QED
    BY <1>2, <1>3

Nearer == OffLevel' < OffLevel \/ (OffLevel' = OffLevel /\ OffSteps' < OffSteps)

\* A step towards the next store that leaves the gain alone and what was read true.
LEMMA TowardsStore ==
  ASSUME TypeOK, TypeOK', RampIsFresh => RampIsFresh',
         leader_torque_gain' = leader_torque_gain,
         StepsToStore(pc'["control"], at'["control"])
           < StepsToStore(pc["control"], at["control"]),
         leader_torque_gain = 0 => StepsToOff(pc'["control"], at'["control"])
                                     < StepsToOff(pc["control"], at["control"])
  PROVE  Nearer
  <1>1. leader_torque_gain \in 0..MaxLevel /\ MaxLevel \in Nat
    BY GainAssumption DEF TypeOK, Level
  <1>2. CASE RampIsFresh
    <2>1. OffLevel = leader_torque_gain /\ OffLevel' = leader_torque_gain
      BY <1>2 DEF OffLevel
    <2> QED
      BY <1>1, <2>1 DEF Nearer, OffSteps
  <1>3. CASE ~RampIsFresh /\ ~RampIsFresh'
    <2>1. OffLevel = MaxLevel + 1 /\ OffLevel' = MaxLevel + 1
      BY <1>3 DEF OffLevel
    <2> QED
      BY <1>1, <2>1 DEF Nearer, OffSteps
  <1>4. CASE ~RampIsFresh /\ RampIsFresh'
    BY <1>1, <1>4 DEF Nearer, OffLevel
  <1> QED
    BY <1>2, <1>3, <1>4

\* The same for a step that lowers the gain to zero or by a tick's worth.
LEMMA AwayFromGain ==
  ASSUME TypeOK, TypeOK', RampIsFresh <=> RampIsFresh',
         leader_torque_gain' < leader_torque_gain \/ leader_torque_gain' = leader_torque_gain,
         StepsToStore(pc'["control"], at'["control"])
           < StepsToStore(pc["control"], at["control"]),
         leader_torque_gain = 0 => StepsToOff(pc'["control"], at'["control"])
                                     < StepsToOff(pc["control"], at["control"])
  PROVE  Nearer
  <1>1. /\ leader_torque_gain \in 0..MaxLevel /\ MaxLevel \in Nat
        /\ leader_torque_gain' \in 0..MaxLevel
    BY GainAssumption DEF TypeOK, Level
  <1>2. CASE RampIsFresh /\ leader_torque_gain' < leader_torque_gain
    BY <1>1, <1>2 DEF Nearer, OffLevel
  <1>3. CASE leader_torque_gain' = leader_torque_gain
    BY <1>3, TowardsStore
  <1>4. CASE ~RampIsFresh
    <2>1. OffLevel = MaxLevel + 1 /\ OffLevel' = MaxLevel + 1
      BY <1>4 DEF OffLevel
    <2> QED
      BY <1>1, <2>1 DEF Nearer, OffSteps
  <1> QED
    BY <1>2, <1>3, <1>4

Reading == {"ramp_target", "ramp_clock", "ramp_store", "ramp_stamp"}

\* Outside the ramp only its clock counts.
LEMMA FreshOutside ==
  /\ pc["control"] \notin Reading => (RampIsFresh <=> clock)
  /\ pc'["control"] \notin Reading => (RampIsFresh' <=> clock')
  BY DEF Reading, RampIsFresh

\* A running ramp to zero lowers every gain above zero.
LEMMA RampLowers ==
  ASSUME NEW value \in Level, NEW elapsed \in Nat, elapsed > 0
  PROVE  /\ RampGain(value, 0, TRUE, elapsed) <= value
         /\ value # 0 => RampGain(value, 0, TRUE, elapsed) # value
  BY GainAssumption DEF RampGain, Level, Lesser, Greater

LEMMA TickComesNearer ==
  ASSUME IInv, IInv', OffInv, OffRequested, leader_torque_enabled, leader_torque_enabled',
         Tick \/ ReadBreaks
  PROVE  Nearer
  <1>0. /\ TypeOK /\ TypeOK' /\ LoopsInv /\ leader_torque_gain_target = 0
        /\ "main" \in Thread /\ "control" \in Thread /\ "gain" \in Thread
        /\ 1 \in Board /\ BoardsLeft(1) = NumBoards /\ BoardsLeft(NumBoards) = 1
        /\ leader_torque_gain \in 0..MaxLevel /\ MaxLevel \in Nat
        /\ leader_torque_gain' \in 0..MaxLevel
    <2>1. /\ TypeOK /\ TypeOK' /\ LoopsInv /\ leader_torque_gain_target = 0
          /\ "main" \in Thread /\ "control" \in Thread /\ "gain" \in Thread
      BY DEF IInv, Thread, OffRequested
    <2>2. 1 \in Board /\ BoardsLeft(1) = NumBoards /\ BoardsLeft(NumBoards) = 1
      BY DEF BoardsLeft
    <2>3. /\ leader_torque_gain \in 0..MaxLevel /\ MaxLevel \in Nat
          /\ leader_torque_gain' \in 0..MaxLevel
      BY <2>1, GainAssumption DEF TypeOK, Level
    <2> QED
      BY <2>1, <2>2, <2>3
  \* A step between two places outside the ramp.
  <1>1. ASSUME at' = at, UNCHANGED <<leader_torque_gain, clock>>,
               NEW s \in ControlStep \ Reading, pc' = [pc EXCEPT !["control"] = s],
               pc["control"] \notin Reading,
               StepsToStore(s, at["control"]) < StepsToStore(pc["control"], at["control"]),
               leader_torque_gain = 0 =>
                 StepsToOff(s, at["control"]) < StepsToOff(pc["control"], at["control"])
        PROVE  Nearer
    <2>1. pc'["control"] = s
      BY <1>0, <1>1, GotoControl
    <2>2. RampIsFresh => RampIsFresh'
      BY <1>1, <2>1, FreshOutside
    <2> QED
      BY <1>0, <1>1, <2>1, <2>2, TowardsStore
  <1>2. CASE Read \/ ReadBreaks
    <2>1. at' = at /\ UNCHANGED <<leader_torque_gain, clock>> /\ pc["control"] = "top"
      BY <1>2 DEF Read, ReadBreaks, ControlOnly, gains
    <2>2. PICK s \in {"ramp_gain", "read_failed", "exited"} :
            pc' = [pc EXCEPT !["control"] = s]
      BY <1>2 DEF Read, ReadBreaks, Die, Goto
    <2>3. s \in ControlStep \ Reading
      BY DEF ControlStep, Reading
    <2>4. /\ StepsToStore(s, at["control"]) < StepsToStore(pc["control"], at["control"])
          /\ StepsToOff(s, at["control"]) < StepsToOff(pc["control"], at["control"])
      BY <2>1, <2>2 DEF StepsToStore, StepsToOff
    <2> QED
      BY <1>1, <2>1, <2>2, <2>3, <2>4 DEF Reading
  <1>3. CASE AfterReadFailure \/ GateTarget \/ Apply \/ RampReturn \/ ExitLoop
    <2>1. at' = at /\ UNCHANGED <<leader_torque_gain, clock>>
      BY <1>3 DEF AfterReadFailure, GateTarget, Apply, RampReturn, ExitLoop, ControlOnly, gains
    <2>2. PICK s \in {"drop", "gate_gain", "gate", "apply", "exited"} :
            /\ pc' = [pc EXCEPT !["control"] = s]
            /\ <<pc["control"], s>> \in
                 {<<"read_failed", "drop">>, <<"gate", "gate_gain">>, <<"apply", "gate">>,
                  <<"ramp_return", "apply">>, <<"top", "exited">>}
      BY <1>0, <1>3 DEF AfterReadFailure, GateTarget, Apply, RampReturn, ExitLoop, Goto
    <2>3. s \in ControlStep \ Reading /\ pc["control"] \notin Reading
      BY <2>2 DEF ControlStep, Reading
    <2>4. /\ StepsToStore(s, at["control"]) < StepsToStore(pc["control"], at["control"])
          /\ StepsToOff(s, at["control"]) < StepsToOff(pc["control"], at["control"])
      BY <2>1, <2>2 DEF StepsToStore, StepsToOff
    <2> QED
      BY <1>1, <2>1, <2>2, <2>3, <2>4
  <1>4. CASE GateGain
    <2>1. /\ at' = at /\ UNCHANGED <<leader_torque_gain, clock>>
          /\ pc["control"] = "gate_gain" /\ at["control"] = 1
      BY <1>0, <1>4 DEF GateGain, EnterLoop, gains, LoopsInv
    <2>2. PICK s \in {"zeroing", "write"} :
            /\ pc' = [pc EXCEPT !["control"] = s]
            /\ leader_torque_gain = 0 <=> s = "zeroing"
      BY <1>4 DEF GateGain, EnterLoop, Goto
    <2>3. s \in ControlStep \ Reading
      BY DEF ControlStep, Reading
    <2>4. /\ StepsToStore(s, at["control"]) < StepsToStore(pc["control"], at["control"])
          /\ s = "zeroing" =>
               StepsToOff(s, at["control"]) < StepsToOff(pc["control"], at["control"])
      BY <1>0, <2>1, <2>2 DEF StepsToStore, StepsToOff
    <2> QED
      BY <1>1, <2>1, <2>2, <2>3, <2>4 DEF Reading
  <1>5. CASE WriteTorque
    <2>1. /\ at' = at /\ UNCHANGED <<leader_torque_gain, clock>> /\ pc["control"] = "write"
      BY <1>5 DEF WriteTorque, gains
    <2>2. PICK s \in {"top", "exited"} : pc' = [pc EXCEPT !["control"] = s]
      BY <1>5 DEF WriteTorque, Die, Goto
    <2>3. s \in ControlStep \ Reading
      BY DEF ControlStep, Reading
    <2>4. /\ StepsToStore(s, at["control"]) < StepsToStore(pc["control"], at["control"])
          /\ StepsToOff(s, at["control"]) < StepsToOff(pc["control"], at["control"])
      BY <2>1, <2>2 DEF StepsToStore, StepsToOff
    <2> QED
      BY <1>1, <2>1, <2>2, <2>3, <2>4 DEF Reading
  \* One board of a loop, or the step after the last one.
  <1>6. ASSUME UNCHANGED <<leader_torque_gain, clock>>,
               NEW after \in {"disabling", "exited"}, Advance("control", after),
               pc["control"] = IF after = "disabling" THEN "zeroing" ELSE "disabling"
        PROVE  Nearer
    <2>1. /\ \/ pc'["control"] = pc["control"]
                /\ BoardsLeft(at'["control"]) = BoardsLeft(at["control"]) - 1
             \/ pc'["control"] = after /\ at["control"] = NumBoards /\ at'["control"] = 1
          /\ BoardsLeft(at["control"]) \in Nat \ {0}
      BY <1>0, <1>6, LoopGoesOn
    <2>2. pc["control"] \notin Reading /\ pc'["control"] \notin Reading
      BY <1>6, <2>1 DEF Reading
    <2>3. StepsToStore(pc'["control"], at'["control"]) < StepsToStore(pc["control"], at["control"])
      BY <1>0, <1>6, <2>1 DEF StepsToStore
    <2>4. StepsToOff(pc'["control"], at'["control"]) < StepsToOff(pc["control"], at["control"])
      BY <1>0, <1>6, <2>1 DEF StepsToOff
    <2>5. RampIsFresh => RampIsFresh'
      BY <1>6, <2>2, FreshOutside
    <2> QED
      BY <1>0, <1>6, <2>3, <2>4, <2>5, TowardsStore
  <1>7. CASE ZeroBoard("control")
    BY <1>6, <1>7 DEF ZeroBoard, gains
  <1>8. CASE DisableBoard
    <2>1. PICK o \in SetTorqueMode(driver[at["control"]], FALSE) :
            /\ Call(at["control"], o)
            /\ IF at["control"] < NumBoards
               THEN /\ at' = [at EXCEPT !["control"] = @ + 1]
                    /\ UNCHANGED pc
               ELSE /\ at' = [at EXCEPT !["control"] = 1]
                    /\ IF errors["control"] \/ o.raised
                       THEN Die
                       ELSE Goto("control", "top")
      BY <1>8 DEF DisableBoard
    \* The last board's driver says it is off, so the leader's flag went down.
    <2>2. at["control"] < NumBoards \/ errors["control"] \/ o.raised
      <3>1. SUFFICES ASSUME ~(at["control"] < NumBoards), ~errors["control"], ~o.raised
                     PROVE  FALSE
        OBVIOUS
      <3>2. PICK k \in Board : k = at["control"] /\ driver[k] \in Driver
        BY <1>0 DEF TypeOK
      <3>3. o.driver.torque_enabled = FALSE
        BY <2>1, <3>1, <3>2, SetTorqueModeOutcome
      <3>4. driver'[k].torque_enabled = FALSE
        BY <1>0, <2>1, <3>2, <3>3 DEF Call, TypeOK
      <3>5. pc'["control"] = "top"
        BY <1>0, <2>1, <3>1 DEF Goto, TypeOK
      <3>6. On(k)'
        BY <3>5 DEF IInv, BoardsInv, Settled
      <3> QED
        BY <3>4, <3>6 DEF On
    <2>3. Advance("control", "exited")
      BY <2>1, <2>2 DEF Advance, Die, Goto
    <2> QED
      BY <1>6, <1>8, <2>3 DEF DisableBoard, gains
  \* Reads of the ramp, and its stamp.
  <1>9. ASSUME at' = at, UNCHANGED leader_torque_gain,
               NEW s \in ControlStep, pc' = [pc EXCEPT !["control"] = s],
               StepsToStore(s, at["control"]) < StepsToStore(pc["control"], at["control"]),
               StepsToOff(s, at["control"]) < StepsToOff(pc["control"], at["control"]),
               RampIsFresh => RampIsFresh'
        PROVE  Nearer
    <2>1. pc'["control"] = s
      BY <1>0, <1>9, GotoControl
    <2> QED
      BY <1>0, <1>9, <2>1, TowardsStore
  <1>10. CASE RampReadGain
    <2>1. /\ at' = at /\ UNCHANGED <<leader_torque_gain, clock>>
          /\ pc["control"] = "ramp_gain" /\ pc' = [pc EXCEPT !["control"] = "ramp_target"]
          /\ local'.gain = leader_torque_gain
      BY <1>0, <1>10 DEF RampReadGain, ControlOnly, Goto, TypeOK
    <2>2. pc'["control"] = "ramp_target" /\ "ramp_target" \in ControlStep
      BY <1>0, <2>1 DEF TypeOK, ControlStep
    <2>3. RampIsFresh => RampIsFresh'
      BY <2>1, <2>2 DEF RampIsFresh
    <2>4. /\ StepsToStore(pc'["control"], at["control"])
               < StepsToStore(pc["control"], at["control"])
          /\ StepsToOff(pc'["control"], at["control"])
               < StepsToOff(pc["control"], at["control"])
      BY <2>1, <2>2 DEF StepsToStore, StepsToOff
    <2> QED
      BY <1>9, <2>1, <2>2, <2>3, <2>4
  <1>11. CASE RampReadTarget
    <2>1. /\ at' = at /\ UNCHANGED <<leader_torque_gain, clock>>
          /\ pc["control"] = "ramp_target" /\ pc' = [pc EXCEPT !["control"] = "ramp_clock"]
          /\ local'.gain = local.gain /\ local'.target = 0
      BY <1>0, <1>11 DEF RampReadTarget, ControlOnly, Goto, TypeOK
    <2>2. pc'["control"] = "ramp_clock" /\ "ramp_clock" \in ControlStep
      BY <1>0, <2>1 DEF TypeOK, ControlStep
    <2>3. RampIsFresh => RampIsFresh'
      BY <2>1, <2>2 DEF RampIsFresh
    <2>4. /\ StepsToStore(pc'["control"], at["control"])
               < StepsToStore(pc["control"], at["control"])
          /\ StepsToOff(pc'["control"], at["control"])
               < StepsToOff(pc["control"], at["control"])
      BY <2>1, <2>2 DEF StepsToStore, StepsToOff
    <2> QED
      BY <1>9, <2>1, <2>2, <2>3, <2>4
  <1>12. CASE RampReadClock
    <2>1. /\ at' = at /\ UNCHANGED <<leader_torque_gain, clock>>
          /\ pc["control"] = "ramp_clock" /\ pc' = [pc EXCEPT !["control"] = "ramp_store"]
          /\ local'.gain = local.gain /\ local'.target = local.target /\ local'.clock = clock
      BY <1>0, <1>12 DEF RampReadClock, ControlOnly, Goto, TypeOK
    <2>2. pc'["control"] = "ramp_store" /\ "ramp_store" \in ControlStep
      BY <1>0, <2>1 DEF TypeOK, ControlStep
    <2>3. RampIsFresh => RampIsFresh'
      BY <2>1, <2>2 DEF RampIsFresh
    <2>4. /\ StepsToStore(pc'["control"], at["control"])
               < StepsToStore(pc["control"], at["control"])
          /\ StepsToOff(pc'["control"], at["control"])
               < StepsToOff(pc["control"], at["control"])
      BY <2>1, <2>2 DEF StepsToStore, StepsToOff
    <2> QED
      BY <1>9, <2>1, <2>2, <2>3, <2>4
  <1>13. CASE RampStoreClock
    <2>1. /\ at' = at /\ UNCHANGED leader_torque_gain /\ clock' = TRUE
          /\ pc["control"] = "ramp_stamp" /\ pc' = [pc EXCEPT !["control"] = "ramp_return"]
      BY <1>13 DEF RampStoreClock, ControlOnly, Goto
    <2>2. pc'["control"] = "ramp_return" /\ "ramp_return" \in ControlStep
      BY <1>0, <2>1 DEF TypeOK, ControlStep
    <2>3. RampIsFresh'
      BY <2>1, <2>2 DEF RampIsFresh
    <2>4. /\ StepsToStore(pc'["control"], at["control"])
               < StepsToStore(pc["control"], at["control"])
          /\ StepsToOff(pc'["control"], at["control"])
               < StepsToOff(pc["control"], at["control"])
      BY <2>1, <2>2 DEF StepsToStore, StepsToOff
    <2> QED
      BY <1>9, <2>1, <2>2, <2>3, <2>4
  <1>14. CASE RampStoreGain
    <2>1. /\ at' = at
          /\ pc["control"] = "ramp_store" /\ pc' = [pc EXCEPT !["control"] = "ramp_stamp"]
      BY <1>14 DEF RampStoreGain, ControlOnly, Goto
    <2>2. PICK elapsed \in 1..MaxLevel :
            leader_torque_gain' = RampGain(local.gain, local.target, local.clock, elapsed)
      BY <1>14 DEF RampStoreGain
    <2>3. pc'["control"] = "ramp_stamp" /\ RampIsFresh'
      BY <1>0, <2>1 DEF TypeOK, RampIsFresh
    <2>4. CASE ~RampIsFresh
      BY <1>0, <2>3, <2>4 DEF Nearer, OffLevel
    <2>5. CASE RampIsFresh
      <3>1. /\ local.gain = leader_torque_gain /\ local.target = 0
            /\ local.clock /\ local.clock \in BOOLEAN
            /\ leader_torque_gain \in Level /\ 0 \in Level
        BY <1>0, <2>1, <2>5, GainAssumption DEF RampIsFresh, TypeOK, Level
      <3>2. elapsed \in Nat /\ elapsed > 0
        BY <1>0
      <3>7. leader_torque_gain' = RampGain(leader_torque_gain, 0, TRUE, elapsed)
        <4>1. local.clock = TRUE
          BY <3>1
        <4> QED
          BY <2>2, <3>1, <4>1
      <3>3. /\ leader_torque_gain' <= leader_torque_gain
            /\ leader_torque_gain # 0 => leader_torque_gain' # leader_torque_gain
        BY <3>1, <3>2, <3>7, RampLowers
      <3>4. leader_torque_gain' < leader_torque_gain \/ leader_torque_gain' = leader_torque_gain
        BY <1>0, <3>3
      <3>5. CASE leader_torque_gain = 0
        <4>1. OffLevel = 0 /\ OffLevel' = 0
          BY <1>0, <2>3, <2>5, <3>4, <3>5 DEF OffLevel
        <4>2. StepsToOff(pc'["control"], at'["control"]) < StepsToOff(pc["control"], at["control"])
          BY <2>1, <2>3 DEF StepsToOff
        <4> QED
          BY <4>1, <4>2 DEF Nearer, OffSteps
      <3>6. CASE leader_torque_gain # 0
        BY <1>0, <2>3, <2>5, <3>3, <3>4, <3>6 DEF Nearer, OffLevel
      <3> QED
        BY <3>5, <3>6
    <2> QED
      BY <2>4, <2>5
  <1>15. CASE DropGain
    <2>1. /\ at' = at /\ clock' = clock /\ leader_torque_gain' = 0
          /\ pc["control"] = "drop" /\ at["control"] = 1
          /\ pc' = [pc EXCEPT !["control"] = "zeroing"]
      BY <1>0, <1>15 DEF DropGain, EnterLoop, Goto, LoopsInv
    <2>2. pc'["control"] = "zeroing"
      BY <1>0, <2>1 DEF TypeOK
    <2>3. RampIsFresh <=> RampIsFresh'
      BY <2>1, <2>2, FreshOutside DEF Reading
    <2>4. /\ StepsToStore(pc'["control"], at'["control"])
               < StepsToStore(pc["control"], at["control"])
          /\ StepsToOff(pc'["control"], at'["control"])
               < StepsToOff(pc["control"], at["control"])
      BY <1>0, <2>1, <2>2 DEF StepsToStore, StepsToOff
    <2>5. leader_torque_gain' < leader_torque_gain \/ leader_torque_gain' = leader_torque_gain
      BY <1>0, <2>1
    <2> QED
      BY <1>0, <2>3, <2>4, <2>5, AwayFromGain
  <1>16. CASE EnableBoard \/ CleanupBoard
    BY <1>16 DEF EnableBoard, CleanupBoard, OffInv, IInv, EnablingInv
  <1> QED
    BY <1>2, <1>3, <1>4, <1>5, <1>7, <1>8, <1>10, <1>11, <1>12, <1>13, <1>14, <1>15, <1>16
    DEF Tick

\* The other threads leave the count alone as long as no target above zero is on its way.
LEMMA OthersLeaveOff ==
  ASSUME IInv, Next, ~(Tick \/ ReadBreaks), OffRequested, leader_torque_enabled
  PROVE  OffLevel' = OffLevel /\ OffSteps' = OffSteps
  <1>0. TypeOK /\ "main" \in Thread /\ "control" \in Thread /\ "gain" \in Thread
    BY DEF IInv, Thread
  <1>1. ASSUME UNCHANGED <<leader_torque_gain, clock, local>>,
               pc'["control"] = pc["control"], at'["control"] = at["control"]
        PROVE  OffLevel' = OffLevel /\ OffSteps' = OffSteps
    <2>1. RampIsFresh' <=> RampIsFresh
      BY <1>1 DEF RampIsFresh
    <2> QED
      BY <1>1, <2>1 DEF OffLevel, OffSteps
  <1>2. CASE Preparing
    <2>1. pc["main"] \in Constructing \ {"aborted"}
      BY <1>2 DEF Preparing, PrepareBoard, PrepareLast, Prepare, Constructing
    <2> QED
      BY <2>1 DEF IInv, ConstructorInv
  <1>3. CASE GainCallback
    <2>1. UNCHANGED <<leader_torque_gain, clock, local, at>>
      <3>1. CASE ReceiveTarget
        BY <3>1 DEF ReceiveTarget, gains
      <3>2. CASE CheckTarget
        <4>1. ~(new_target > 0)
          BY <3>2 DEF CheckTarget, OffRequested
        <4> QED
          BY <3>2, <4>1 DEF CheckTarget
      <3>3. CASE ClearClock
        BY <3>3 DEF ClearClock, OffRequested
      <3>4. CASE InstallTarget
        BY <3>4 DEF InstallTarget
      <3> QED
        BY <1>3, <3>1, <3>2, <3>3, <3>4 DEF GainCallback
    <2>2. pc'["control"] = pc["control"]
      BY <1>0, <1>3 DEF GainCallback, ReceiveTarget, CheckTarget, ClearClock, InstallTarget,
         Goto, TypeOK
    <2> QED
      BY <1>1, <2>1, <2>2
  <1>4. CASE SpinEnds \/ Join
    <2>1. /\ UNCHANGED <<leader_torque_gain, clock, local, at>>
          /\ pc'["control"] = pc["control"]
      BY <1>0, <1>4 DEF SpinEnds, Join, EnterLoop, Goto, gains, TypeOK
    <2> QED
      BY <1>1, <2>1
  <1>5. CASE ZeroBoard("main") \/ ShutDownBoard
    <2>1. PICK after \in {"disabling", "closed"} : Advance("main", after)
      BY <1>5 DEF ZeroBoard, ShutDownBoard
    <2>2. pc'["control"] = pc["control"] /\ at'["control"] = at["control"]
      BY <1>0, <2>1, LoopGoesOn
    <2> QED
      BY <1>1, <1>5, <2>2 DEF ZeroBoard, ShutDownBoard, gains
  <1>6. CASE Terminated
    BY <1>1, <1>6 DEF Terminated, vars, gains, threads
  <1> QED
    BY <1>2, <1>3, <1>4, <1>5, <1>6 DEF Next, ShutDown

(* An off request runs its course: unless a target above zero arrives, every *)
(* step of the control thread lowers the pair of gain and steps left, read   *)
(* as an ordinal, and no step of another thread raises it, until the boards  *)
(* are disabled or the thread has ended and shut_down takes over; whether    *)
(* the reads succeed or fail (_apply_leader_torque,                          *)
(* _disable_leader_torque_after_read_failure).  Scheduling apart, this is    *)
(* OffRequestHonored, for every number of boards, servos and gain steps.     *)
THEOREM OffRequestRunsDown ==
  Spec => /\ [](OffLevel \in 0..MaxLevel + 1 /\ OffSteps \in Nat)
          /\ [][OffComesNearer]_vars
  <1>1. ASSUME IInv, IInv', OffInv, [Next]_vars
        PROVE  [OffComesNearer]_vars
    <2>1. CASE Tick \/ ReadBreaks
      <3>1. OffRequested /\ leader_torque_enabled /\ leader_torque_enabled' => Nearer
        BY <1>1, <2>1, TickComesNearer
      <3> QED
        BY <2>1, <3>1 DEF OffComesNearer, Nearer
    <2>2. CASE Next /\ ~(Tick \/ ReadBreaks)
      <3>1. OffRequested /\ leader_torque_enabled => OffLevel' = OffLevel /\ OffSteps' = OffSteps
        BY <1>1, <2>2, OthersLeaveOff
      <3> QED
        BY <2>2, <3>1 DEF OffComesNearer
    <2>3. CASE UNCHANGED vars
      BY <2>3
    <2> QED
      BY <1>1, <2>1, <2>2, <2>3
  <1>2. IInv => OffLevel \in 0..MaxLevel + 1 /\ OffSteps \in Nat
    BY OffIsNat DEF IInv
  <1> QED
    BY Inductive, OffInvInit, OffInvStep, <1>1, <1>2, PTL DEF Spec
=============================================================================
