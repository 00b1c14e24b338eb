---------------------- MODULE SingleBoardLeaderProofs ----------------------
(***************************************************************************)
(* The single-board leader, for every number of servos, write attempts and *)
(* gain steps.  The lock and port.is_using do not enter the argument about *)
(* the registers: what matters is that no other thread is inside the driver*)
(* until shut_down begins, and what it may do to a callback in flight.     *)
(* They do enter the last part, that shut_down comes to its end.           *)
(***************************************************************************)
EXTENDS SingleBoardGate, TLAPS

Op    == {"none", "read", "on", "off", "current"}
Stages == {"start", "test", "take", "answer", "flag", "returned", "raised", "broken"}
Call  == [op : Op, stage : Stages, servo : Servo, tries : 1..WriteAttempts, level : Level]

\* The callback before it decides whether to energize, and as long as it may still begin.
Before == {"reading", "read_failed", "ramp_read", "ramp_gain", "ramp_clock", "apply"}
Undecided == pc["timer"] \in Before \/ (At("timer", "idle") /\ At("main", "spinning"))

\* No other thread is inside the driver.
Alone == pc["main"] \in {"spinning", "stopping"}

\* Where a thread is says which driver call it is in; a zero write is one of zero.
Calls ==
  /\ DOMAIN pc = {"main", "timer", "gain"}
  /\ \A t \in Caller : At(t, "zeroing") => call[t].level = 0
  /\ \A t \in Caller : At(t, "disabling") <=> call[t].op = "off"
  /\ At("main", "zeroing") <=> call["main"].op = "current"
  /\ pc["timer"] \in {"zeroing", "writing"} <=> call["timer"].op = "current"
  /\ At("timer", "reading") <=> call["timer"].op = "read"
  /\ At("timer", "enabling") <=> call["timer"].op = "on"
  /\ call["main"].op \notin {"read", "on"}

\* Zero is what was sent last, wherever the callback may still energize the servos,
\* also while shut_down zeroes and disables them beside it.
FromZero ==
  ~callback_raised =>
    /\ Undecided => /\ ~leader_torque_enabled => driver.goal = 0
                    /\ At("main", "disabling") => driver.goal = 0
                    /\ At("main", "zeroing") /\ call["main"].stage = "returned" => driver.goal = 0
    /\ At("timer", "enabling") => driver.goal = 0

Coherent ==
  /\ driver.torque_enabled = leader_torque_enabled
  /\ driver.energized = AllServos(leader_torque_enabled)
  /\ ~driver.pending
  /\ ~leader_torque_enabled => driver.goal = 0

\* How far the timer's set_torque_mode has come.
Written(enable) ==
  /\ \A i \in Servo : i < call["timer"].servo => driver.energized[i] = enable
  /\ call["timer"].stage \in {"flag", "returned"} => driver.energized = AllServos(enable)
  /\ call["timer"].stage = "returned" => driver.torque_enabled = enable

Energizing == ~leader_torque_enabled /\ ~driver.pending /\ Written(TRUE)

Energized == leader_torque_enabled /\ driver.torque_enabled /\ driver.energized = AllServos(TRUE)

Sending ==
  /\ Energized
  /\ call["timer"].stage = "returned" =>
       ~driver.pending /\ (At("timer", "zeroing") => driver.goal = 0)

Disabling ==
  /\ ~errors => driver.goal = 0 /\ ~driver.pending
  /\ Written(FALSE)

AloneInv ==
  Alone /\ ~callback_raised =>
    /\ pc["timer"] \in Before \cup {"idle", "gate"} => Coherent
    /\ At("timer", "enabling") => Energizing
    /\ pc["timer"] \in {"zeroing", "writing"} => Sending
    /\ At("timer", "disabling") => Disabling

IInv == TypeOK /\ Calls /\ FromZero /\ AloneInv

LEMMA Numbers ==
  /\ NumServos \in Nat /\ NumServos > 0 /\ WriteAttempts \in Nat /\ WriteAttempts > 0
  /\ MaxLevel \in Nat /\ MaxLevel > 0 /\ 0 \in Level /\ 1 \in Servo /\ 1 \in 1..WriteAttempts
  /\ Servo = 1..NumServos /\ Level = 0..MaxLevel
  BY BoardAssumption, AttemptsAssumption, GainAssumption DEF Level, Servo

LEMMA CallsTyped == TypeOK => call \in [Caller -> Call] /\ driver \in Driver
  BY DEF TypeOK, Call, Op, Stages

\* ramp_gain clamps to [0, 1].
LEMMA RampStays ==
  ASSUME NEW value \in Level, NEW target \in Level, NEW running \in BOOLEAN,
         NEW elapsed \in 1..MaxLevel
  PROVE  RampGain(value, target, running, elapsed) \in Level
  <1>1. CASE ~running
    BY <1>1 DEF RampGain
  <1>2. CASE running
    BY <1>2, Numbers DEF RampGain, Lesser, Greater
  <1> QED
    BY <1>1, <1>2

\* The three ways a call goes on: another stage, another attempt, another servo.
GoesOn(t, stage, servo, tries) ==
  /\ call' \in [Caller -> Call]
  /\ \A u \in Caller : u # t => call'[u] = call[u]
  /\ call'[t].op = call[t].op /\ call'[t].level = call[t].level
  /\ call'[t].stage = stage /\ call'[t].servo = servo /\ call'[t].tries = tries

LEMMA StageGoesOn ==
  ASSUME TypeOK, NEW t \in Caller, NEW stage \in Stages, Stage(t, stage)
  PROVE  GoesOn(t, stage, call[t].servo, call[t].tries)
  BY CallsTyped DEF Stage, GoesOn, Call

LEMMA AttemptGoesOn ==
  ASSUME TypeOK, NEW t \in Caller, AttemptFailed(t)
  PROVE  \E stage \in {"test", "raised"}, tries \in 1..WriteAttempts :
           GoesOn(t, stage, call[t].servo, tries)
  <1>1. CASE call[t].op \in {"on", "off"} /\ call[t].tries < WriteAttempts
    <2>1. call' = [call EXCEPT ![t].stage = "test", ![t].tries = @ + 1]
      BY <1>1 DEF AttemptFailed
    <2>2. call[t] \in Call /\ call[t].tries + 1 \in 1..WriteAttempts
      BY <1>1, CallsTyped, Numbers DEF Call
    <2>3. /\ call'[t] = [call[t] EXCEPT !.stage = "test", !.tries = call[t].tries + 1]
          /\ \A u \in Caller : u # t => call'[u] = call[u]
          /\ call' \in [Caller -> Call]
      BY <2>1, <2>2, CallsTyped DEF Call, Stages
    <2> QED
      BY <2>2, <2>3 DEF GoesOn, Call
  <1>2. CASE ~(call[t].op \in {"on", "off"} /\ call[t].tries < WriteAttempts)
    <2>1. Stage(t, "raised") /\ call[t].tries \in 1..WriteAttempts
      BY <1>2, CallsTyped DEF AttemptFailed, Call
    <2> QED
      BY <2>1, StageGoesOn DEF Stages
  <1> QED
    BY <1>1, <1>2

LEMMA NextServoGoesOn ==
  ASSUME TypeOK, NEW t \in Caller, call[t].servo < NumServos,
         call' = [call EXCEPT ![t].stage = "test", ![t].tries = 1, ![t].servo = @ + 1]
  PROVE  GoesOn(t, "test", call[t].servo + 1, 1)
  <1>1. call[t] \in Call /\ call[t].servo + 1 \in Servo
    BY CallsTyped, Numbers DEF Call
  <1>2. /\ call'[t] = [call[t] EXCEPT !.stage = "test", !.tries = 1, !.servo = call[t].servo + 1]
        /\ \A u \in Caller : u # t => call'[u] = call[u]
        /\ call' \in [Caller -> Call]
    BY <1>1, CallsTyped, Numbers DEF Call, Stages
  <1> QED
    BY <1>1, <1>2 DEF GoesOn, Call
-----------------------------------------------------------------------------
(* What one step inside the driver does. *)

\* The registers stay, and a call that is not a read neither returned nor wrote every servo.
Quiet(t) ==
  /\ UNCHANGED driver
  /\ \E stage \in Stages, tries \in 1..WriteAttempts :
       /\ GoesOn(t, stage, call[t].servo, tries)
       /\ stage \in {"flag", "returned"} => call[t].op = "read"

Checked(t) ==
  /\ call[t].op = "current" /\ driver' = [driver EXCEPT !.pending = TRUE]
  /\ GoesOn(t, "test", call[t].servo, call[t].tries)

\* One servo executed the write.
Wrote(t) ==
  /\ call[t].op \in {"on", "off"}
  /\ driver' = [driver EXCEPT !.energized[call[t].servo] = (call[t].op = "on")]
  /\ \/ \E stage \in {"test", "raised"}, tries \in 1..WriteAttempts :
          GoesOn(t, stage, call[t].servo, tries)
     \/ GoesOn(t, "test", call[t].servo + 1, 1)
     \/ call[t].servo = NumServos /\ GoesOn(t, "flag", call[t].servo, call[t].tries)

Flagged(t) ==
  /\ call[t].op \in {"on", "off"} /\ call[t].stage = "flag"
  /\ driver' = [driver EXCEPT !.torque_enabled = (call[t].op = "on")]
  /\ GoesOn(t, "returned", call[t].servo, call[t].tries)

Sent(t) ==
  /\ call[t].op = "current"
  /\ driver' = [driver EXCEPT !.goal = call[t].level, !.pending = FALSE]
  /\ GoesOn(t, "returned", call[t].servo, call[t].tries)

LEMMA DriverEffect ==
  ASSUME TypeOK, NEW t \in Caller, DriverStep(t)
  PROVE  /\ Quiet(t) \/ Checked(t) \/ Wrote(t) \/ Flagged(t) \/ Sent(t)
         /\ call[t].op # "none"
  <1>0. call[t] \in Call
    BY CallsTyped
  <1>1. CASE AcquireLock(t)
    <2>1. GoesOn(t, "test", call[t].servo, call[t].tries)
      BY <1>1, StageGoesOn DEF AcquireLock, Stages
    <2> QED
      BY <1>0, <1>1, <2>1 DEF AcquireLock, InDriver, Quiet, Call, Stages
  <1>2. CASE CheckCurrent(t)
    <2>1. CASE ~driver.torque_enabled \/ driver.pending
      <3>1. GoesOn(t, "raised", call[t].servo, call[t].tries)
        BY <1>2, <2>1, StageGoesOn DEF CheckCurrent, Stages
      <3> QED
        BY <1>0, <1>2, <2>1, <3>1 DEF CheckCurrent, InDriver, Quiet, Call, Stages
    <2>2. CASE ~(~driver.torque_enabled \/ driver.pending)
      <3>1. GoesOn(t, "test", call[t].servo, call[t].tries)
        BY <1>2, <2>2, StageGoesOn DEF CheckCurrent, Stages
      <3> QED
        BY <1>2, <2>2, <3>1 DEF CheckCurrent, InDriver, Checked
    <2> QED
      BY <2>1, <2>2
  <1>3. CASE TestPort(t)
    <2>1. CASE is_using
      <3>1. PICK stage \in {"test", "raised"}, tries \in 1..WriteAttempts :
              GoesOn(t, stage, call[t].servo, tries)
        BY <1>3, <2>1, AttemptGoesOn DEF TestPort
      <3> QED
        BY <1>3, <3>1 DEF TestPort, Quiet, Stages
    <2>2. CASE ~is_using
      <3>1. GoesOn(t, "take", call[t].servo, call[t].tries)
        BY <1>3, <2>2, StageGoesOn DEF TestPort, Stages
      <3> QED
        BY <1>0, <1>3, <3>1 DEF TestPort, Quiet, Call, Stages
    <2> QED
      BY <2>1, <2>2
  <1>4. CASE TakePort(t)
    <2>1. PICK stage \in {"answer", "broken"} : GoesOn(t, stage, call[t].servo, call[t].tries)
      BY <1>4, StageGoesOn DEF TakePort, Stages
    <2> QED
      BY <1>0, <1>4, <2>1 DEF TakePort, Quiet, Call, Stages
  <1>5. CASE Answered(t)
    <2>1. /\ call[t].op \in {"on", "off"}
          /\ driver' = [driver EXCEPT !.energized[call[t].servo] = (call[t].op = "on")]
      BY <1>5 DEF Answered, InDriver
    <2>2. CASE call[t].servo < NumServos
      <3>1. GoesOn(t, "test", call[t].servo + 1, 1)
        BY <1>5, <2>2, NextServoGoesOn DEF Answered
      <3> QED
        BY <2>1, <3>1 DEF Wrote
    <2>3. CASE ~(call[t].servo < NumServos)
      <3>1. GoesOn(t, "flag", call[t].servo, call[t].tries)
        BY <1>5, <2>3, StageGoesOn DEF Answered, Stages
      <3>2. call[t].servo = NumServos
        BY <1>0, <2>3, Numbers DEF Call
      <3> QED
        BY <2>1, <3>1, <3>2 DEF Wrote
    <2> QED
      BY <2>1, <2>2, <2>3
  <1>6. CASE AnswerLost(t)
    <2>1. PICK stage \in {"test", "raised"}, tries \in 1..WriteAttempts :
            GoesOn(t, stage, call[t].servo, tries)
      BY <1>6, AttemptGoesOn DEF AnswerLost
    <2>2. call[t].op \in {"on", "off"}
      BY <1>6 DEF AnswerLost, InDriver
    <2>3. \/ driver' = [driver EXCEPT !.energized[call[t].servo] = (call[t].op = "on")]
          \/ driver' = driver
      BY <1>6 DEF AnswerLost
    <2> QED
      BY <2>1, <2>2, <2>3 DEF Wrote, Quiet, Stages
  <1>7. CASE SetFlag(t)
    <2>1. GoesOn(t, "returned", call[t].servo, call[t].tries)
      BY <1>7, StageGoesOn DEF SetFlag, Stages
    <2> QED
      BY <1>7, <2>1 DEF SetFlag, InDriver, Flagged
  <1>8. CASE CurrentSent(t)
    <2>1. PICK stage \in {"returned", "raised"} : GoesOn(t, stage, call[t].servo, call[t].tries)
      BY <1>8, StageGoesOn DEF CurrentSent, Stages
    <2>2. call[t].op = "current" /\ call[t].tries \in 1..WriteAttempts
      BY <1>0, <1>8 DEF CurrentSent, InDriver, Call
    <2>3. CASE Stage(t, "returned") /\ driver' = [driver EXCEPT !.goal = call[t].level, !.pending = FALSE]
      <3>1. GoesOn(t, "returned", call[t].servo, call[t].tries)
        BY <2>3, StageGoesOn DEF Stages
      <3> QED
        BY <2>2, <2>3, <3>1 DEF Sent
    <2>4. CASE Stage(t, "raised") /\ UNCHANGED driver
      <3>1. GoesOn(t, "raised", call[t].servo, call[t].tries)
        BY <2>4, StageGoesOn DEF Stages
      <3> QED
        BY <2>2, <2>4, <3>1 DEF Quiet, Stages
    <2> QED
      BY <1>8, <2>2, <2>3, <2>4 DEF CurrentSent
  <1>9. CASE ReadAnswered(t)
    <2>1. PICK stage \in {"returned", "raised"} : GoesOn(t, stage, call[t].servo, call[t].tries)
      BY <1>9, StageGoesOn DEF ReadAnswered, Stages
    <2> QED
      BY <1>0, <1>9, <2>1 DEF ReadAnswered, InDriver, Quiet, Call, Stages
  <1> QED
    BY <1>1, <1>2, <1>3, <1>4, <1>5, <1>6, <1>7, <1>8, <1>9 DEF DriverStep

\* The fields of the driver after a step, and its type.
LEMMA DriverFields ==
  ASSUME TypeOK, NEW t \in Caller, DriverStep(t)
  PROVE  /\ driver' \in Driver
         /\ Quiet(t) => driver' = driver
         /\ Checked(t) => /\ driver'.goal = driver.goal /\ driver'.energized = driver.energized
                          /\ driver'.torque_enabled = driver.torque_enabled
         /\ Wrote(t) => /\ driver'.goal = driver.goal /\ driver'.pending = driver.pending
                        /\ driver'.torque_enabled = driver.torque_enabled
                        /\ driver'.energized
                             = [driver.energized EXCEPT ![call[t].servo] = (call[t].op = "on")]
         /\ Flagged(t) => /\ driver'.goal = driver.goal /\ driver'.pending = driver.pending
                          /\ driver'.energized = driver.energized
                          /\ driver'.torque_enabled = (call[t].op = "on")
         /\ Sent(t) => /\ driver'.goal = call[t].level /\ ~driver'.pending
                       /\ driver'.energized = driver.energized
                       /\ driver'.torque_enabled = driver.torque_enabled
  <1>0. call[t] \in Call /\ driver \in Driver /\ call[t].level \in Level /\ call[t].servo \in Servo
    BY CallsTyped DEF Call
  <1>2. Checked(t) => /\ driver'.goal = driver.goal /\ driver'.energized = driver.energized
                      /\ driver'.torque_enabled = driver.torque_enabled /\ driver' \in Driver
    BY <1>0 DEF Checked, Driver
  <1>3. Wrote(t) => /\ driver'.goal = driver.goal /\ driver'.pending = driver.pending
                    /\ driver'.torque_enabled = driver.torque_enabled
                    /\ driver'.energized
                         = [driver.energized EXCEPT ![call[t].servo] = (call[t].op = "on")]
                    /\ driver' \in Driver
    BY <1>0 DEF Wrote, Driver
  <1>4. Flagged(t) => /\ driver'.goal = driver.goal /\ driver'.pending = driver.pending
                      /\ driver'.energized = driver.energized
                      /\ driver'.torque_enabled = (call[t].op = "on") /\ driver' \in Driver
    BY <1>0 DEF Flagged, Driver
  <1>5. Sent(t) => /\ driver'.goal = call[t].level /\ ~driver'.pending
                   /\ driver'.energized = driver.energized
                   /\ driver'.torque_enabled = driver.torque_enabled /\ driver' \in Driver
    BY <1>0 DEF Sent, Driver
  <1>6. Quiet(t) => driver' = driver
    BY DEF Quiet
  <1> QED
    BY <1>0, <1>2, <1>3, <1>4, <1>5, <1>6, DriverEffect

LEMMA DriverCall ==
  ASSUME TypeOK, NEW t \in Caller, DriverStep(t)
  PROVE  /\ call' \in [Caller -> Call]
         /\ \A u \in Caller : u # t => call'[u] = call[u]
         /\ call'[t].op = call[t].op /\ call'[t].level = call[t].level
  BY DriverEffect DEF Quiet, Checked, Wrote, Flagged, Sent, GoesOn

LEMMA DriverStepTyped ==
  ASSUME TypeOK, NEW t \in Caller, DriverStep(t)
  PROVE  TypeOK'
  <1>1. /\ UNCHANGED <<leader_torque_enabled, gains, pc, local, errors, callback_raised, new_target,
                       shut_down_reached>>
    BY DEF DriverStep
  <1>2. is_using' \in BOOLEAN
    BY DEF DriverStep, AcquireLock, CheckCurrent, TestPort, TakePort, Answered, AnswerLost, SetFlag,
           CurrentSent, ReadAnswered, port, TypeOK
  <1>3. port_open' \in BOOLEAN
    BY DEF DriverStep, AcquireLock, CheckCurrent, TestPort, TakePort, Answered, AnswerLost, SetFlag,
           CurrentSent, ReadAnswered, port, TypeOK
  <1>4. lock' \in Caller \cup {"free"}
    BY DEF DriverStep, AcquireLock, CheckCurrent, TestPort, TakePort, Answered, AnswerLost, SetFlag,
           CurrentSent, ReadAnswered, AttemptFailed, Release, port, TypeOK
  <1>5. call' \in [Caller -> Call] /\ driver' \in Driver
    BY DriverCall, DriverFields
  <1> QED
    BY <1>1, <1>2, <1>3, <1>4, <1>5 DEF TypeOK, Call, Op, Stages, gains

LEMMA DriverStepCalls ==
  ASSUME IInv, NEW t \in Caller, DriverStep(t)
  PROVE  Calls'
  <1>1. pc' = pc /\ TypeOK
    BY DEF DriverStep, IInv
  <1>2. \A u \in Caller : call'[u].op = call[u].op /\ call'[u].level = call[u].level
    BY <1>1, DriverCall
  <1>3. "main" \in Caller /\ "timer" \in Caller
    BY DEF Caller
  <1> QED
    BY <1>1, <1>2, <1>3 DEF IInv, Calls, At

\* shut_down's current write is zero, and the timer's current writes come after Undecided.
LEMMA DriverStepFromZero ==
  ASSUME IInv, NEW t \in Caller, DriverStep(t)
  PROVE  FromZero'
  <1>1. /\ UNCHANGED <<pc, leader_torque_enabled, callback_raised>>
        /\ TypeOK /\ Calls /\ FromZero /\ t \in {"main", "timer"}
    BY DEF DriverStep, IInv, Caller
  <1>2. call[t].op # "current" => driver'.goal = driver.goal
    BY <1>1, DriverEffect, DriverFields DEF Checked, Sent
  <1>3. CASE t = "timer"
    <2>1. call'["main"] = call["main"]
      BY <1>1, <1>3, DriverCall DEF Caller
    <2>2. CASE call["timer"].op = "current"
      <3>1. ~Undecided /\ ~At("timer", "enabling")
        BY <1>1, <2>2 DEF Calls, Undecided, Before, At
      <3> QED
        BY <1>1, <3>1 DEF FromZero, Undecided, At
    <2>3. CASE call["timer"].op # "current"
      BY <1>1, <1>2, <1>3, <2>1, <2>3 DEF FromZero, Undecided, At
    <2> QED
      BY <2>2, <2>3
  <1>4. CASE t = "main"
    <2>1. CASE call["main"].op = "current"
      <3>1. call["main"].level = 0
        BY <1>1, <1>4, <2>1 DEF Calls
      <3>2. \/ driver'.goal = driver.goal /\ call'["main"].stage # "returned"
            \/ driver'.goal = 0
        <4>1. CASE Sent("main")
          BY <1>1, <1>4, <3>1, <4>1, DriverFields
        <4>2. CASE Quiet("main")
          BY <1>1, <1>4, <2>1, <4>2, DriverFields DEF Quiet, GoesOn
        <4>3. CASE Checked("main")
          BY <1>1, <1>4, <4>3, DriverFields DEF Checked, GoesOn
        <4> QED
          BY <1>1, <1>4, <2>1, <4>1, <4>2, <4>3, DriverEffect DEF Wrote, Flagged
      <3> QED
        BY <1>1, <3>2 DEF FromZero, Undecided, At
    <2>2. CASE call["main"].op # "current"
      <3>1. ~At("main", "zeroing")
        BY <1>1, <2>2 DEF Calls
      <3> QED
        BY <1>1, <1>2, <1>4, <2>2, <3>1 DEF FromZero, Undecided, At
    <2> QED
      BY <2>1, <2>2
  <1> QED
    BY <1>1, <1>3, <1>4

LEMMA MainOutsideDriver ==
  ASSUME IInv, Alone PROVE call["main"].op = "none"
  <1>1. call["main"].op \in Op /\ "main" \in Caller
    BY CallsTyped DEF IInv, Call, Caller
  <1> QED
    BY <1>1 DEF IInv, Calls, Alone, At, Op

\* Writing servo after servo, the registers follow the loop.
LEMMA WrittenGoesOn ==
  ASSUME IInv, DriverStep("timer"), NEW enable \in BOOLEAN,
         call["timer"].op = (IF enable THEN "on" ELSE "off"), Written(enable)
  PROVE  /\ Written(enable)'
         /\ driver'.goal = driver.goal /\ driver'.pending = driver.pending
  <1> DEFINE k == call["timer"].servo
  <1>0. /\ TypeOK /\ "timer" \in Caller /\ k \in Servo /\ driver \in Driver
        /\ (call["timer"].op = "on") = enable
    BY CallsTyped DEF IInv, Caller, Call
  <1>1. CASE Quiet("timer")
    BY <1>0, <1>1, DriverFields DEF Quiet, GoesOn, Written
  <1>2. CASE Wrote("timer")
    <2>1. /\ driver'.goal = driver.goal /\ driver'.pending = driver.pending
          /\ driver'.torque_enabled = driver.torque_enabled
          /\ driver'.energized = [driver.energized EXCEPT ![k] = enable]
      BY <1>0, <1>2, DriverFields
    <2>2. driver.energized \in [Servo -> BOOLEAN]
      BY <1>0 DEF Driver
    <2>3. \A i \in Servo : i < k + 1 => driver'.energized[i] = enable
      BY <1>0, <2>1, <2>2, Numbers DEF Written
    <2>4. CASE \E stage \in {"test", "raised"}, tries \in 1..WriteAttempts :
                 GoesOn("timer", stage, k, tries)
      BY <1>0, <2>1, <2>3, <2>4, Numbers DEF GoesOn, Written
    <2>5. CASE GoesOn("timer", "test", k + 1, 1)
      BY <2>1, <2>3, <2>5 DEF GoesOn, Written
    <2>6. CASE k = NumServos /\ GoesOn("timer", "flag", k, call["timer"].tries)
      <3>1. driver'.energized = AllServos(enable)
        BY <2>1, <2>2, <2>3, <2>6, Numbers DEF AllServos
      <3> QED
        BY <1>0, <2>1, <2>3, <2>6, <3>1, Numbers DEF GoesOn, Written
    <2> QED
      BY <1>2, <2>1, <2>4, <2>5, <2>6 DEF Wrote
  <1>3. CASE Flagged("timer")
    BY <1>0, <1>3, DriverFields DEF Flagged, GoesOn, Written
  <1> QED
    BY <1>0, <1>1, <1>2, <1>3, DriverEffect DEF Checked, Sent

LEMMA DriverStepAlone ==
  ASSUME IInv, NEW t \in Caller, DriverStep(t)
  PROVE  AloneInv'
  <1>1. /\ UNCHANGED <<pc, leader_torque_enabled, callback_raised, errors>>
        /\ TypeOK /\ Calls /\ AloneInv /\ t \in {"main", "timer"}
    BY DEF DriverStep, IInv, Caller
  <1> SUFFICES ASSUME Alone, ~callback_raised PROVE AloneInv'
    BY <1>1 DEF AloneInv, Alone
  <1>2. t = "timer" /\ "timer" \in Caller
    BY <1>1, MainOutsideDriver, DriverEffect DEF Caller
  <1>3. ASSUME pc["timer"] \in Before \cup {"idle", "gate"} PROVE driver' = driver
    <2>1. call["timer"].op = "read"
      <3>1. call["timer"].op \in Op
        BY <1>1, <1>2, CallsTyped DEF Call
      <3> QED
        BY <1>1, <1>2, <1>3, <3>1, DriverEffect DEF Calls, Before, At, Op
    <2> QED
      BY <1>1, <1>2, <2>1, DriverEffect, DriverFields DEF Checked, Wrote, Flagged, Sent
  <1>4. ASSUME At("timer", "enabling") PROVE Energizing'
    <2>1. call["timer"].op = "on" /\ Energizing
      BY <1>1, <1>4 DEF Calls, AloneInv
    <2>2. Written(TRUE)' /\ driver'.pending = driver.pending
      BY <1>2, <2>1, WrittenGoesOn DEF Energizing
    <2> QED
      BY <1>1, <2>1, <2>2 DEF Energizing
  <1>5. ASSUME pc["timer"] \in {"zeroing", "writing"} PROVE Sending'
    <2>1. call["timer"].op = "current" /\ Sending /\ (At("timer", "zeroing") => call["timer"].level = 0)
      BY <1>1, <1>2, <1>5 DEF Calls, AloneInv
    <2>2. CASE Quiet("timer")
      BY <1>1, <1>2, <2>1, <2>2, DriverFields DEF Quiet, GoesOn, Sending, Energized
    <2>3. CASE Checked("timer")
      BY <1>1, <1>2, <2>1, <2>3, DriverFields DEF Checked, GoesOn, Sending, Energized
    <2>4. CASE Sent("timer")
      BY <1>1, <1>2, <2>1, <2>4, DriverFields DEF Sending, Energized, At
    <2> QED
      BY <1>1, <1>2, <2>1, <2>2, <2>3, <2>4, DriverEffect DEF Wrote, Flagged
  <1>6. ASSUME At("timer", "disabling") PROVE Disabling'
    <2>1. call["timer"].op = "off" /\ Disabling
      BY <1>1, <1>2, <1>6 DEF Calls, AloneInv
    <2>2. Written(FALSE)' /\ driver'.goal = driver.goal /\ driver'.pending = driver.pending
      BY <1>2, <2>1, WrittenGoesOn DEF Disabling
    <2> QED
      BY <1>1, <2>1, <2>2 DEF Disabling
  <1> QED
    BY <1>1, <1>3, <1>4, <1>5, <1>6 DEF AloneInv, Coherent, At
-----------------------------------------------------------------------------
(* The control loop callback. *)

LEMMA CallBegins ==
  ASSUME TypeOK, NEW t \in Caller, NEW op \in Op, NEW level \in Level, Begin(t, op, level)
  PROVE  /\ call' \in [Caller -> Call] /\ \A u \in Caller : u # t => call'[u] = call[u]
         /\ call'[t].op = op /\ call'[t].level = level /\ call'[t].servo = 1
         /\ call'[t].stage \in {"test", "start"}
  <1>1. [op |-> op, stage |-> IF op = "read" THEN "test" ELSE "start",
         servo |-> 1, tries |-> 1, level |-> level] \in Call
    BY Numbers DEF Call, Stages
  <1> QED
    BY <1>1, CallsTyped DEF Begin

LEMMA CallEnds ==
  ASSUME TypeOK, NEW t \in Caller, EndCall(t)
  PROVE  /\ call' \in [Caller -> Call] /\ \A u \in Caller : u # t => call'[u] = call[u]
         /\ call'[t].op = "none" /\ call'[t].level = 0
  <1>1. NoCall \in Call /\ NoCall.op = "none" /\ NoCall.level = 0
    BY Numbers DEF NoCall, Call, Stages, Op
  <1> QED
    BY <1>1, CallsTyped DEF EndCall

Local == [gain : Level, target : Level, clock : BOOLEAN]
TimerAt == {"idle", "reading", "read_failed", "ramp_read", "ramp_gain", "ramp_clock",
            "apply", "enabling", "gate", "zeroing", "disabling", "writing"}

\* A call that fits where the callback then is.
Fits(step, c) ==
  /\ step = "zeroing" => c.level = 0
  /\ step = "disabling" <=> c.op = "off"
  /\ step \in {"zeroing", "writing"} <=> c.op = "current"
  /\ step = "reading" <=> c.op = "read"
  /\ step = "enabling" <=> c.op = "on"

\* A step of the callback outside the driver.
TimerMoves(step) ==
  /\ step \in TimerAt /\ Goto("timer", step) /\ Shared
  /\ UNCHANGED <<leader_torque_gain_target, new_target, shut_down_reached>>
  /\ call' \in [Caller -> Call] /\ call'["main"] = call["main"] /\ Fits(step, call'["timer"])
  /\ leader_torque_gain' \in Level /\ local' \in Local
  /\ clock' \in BOOLEAN
  /\ errors' \in BOOLEAN
  /\ callback_raised' \in BOOLEAN
  /\ leader_torque_enabled' \in BOOLEAN

LEMMA TimerStep ==
  ASSUME IInv, NEW step, TimerMoves(step)
  PROVE  /\ TypeOK' /\ Calls' /\ driver' = driver
         /\ pc'["timer"] = step /\ pc'["main"] = pc["main"]
  <1>1. /\ pc'["timer"] = step /\ pc'["main"] = pc["main"] /\ pc'["gain"] = pc["gain"]
        /\ DOMAIN pc' = {"main", "timer", "gain"}
    BY DEF TimerMoves, Goto, IInv, Calls
  <1>2. driver' = driver
    BY DEF TimerMoves, Shared
  <1>3. TypeOK'
    BY <1>1 DEF IInv, TypeOK, TimerMoves, TimerAt, Local, Shared, port, Call, Op, Stages
  <1>4. Calls'
    BY <1>1 DEF IInv, Calls, TimerMoves, Fits, At, Caller
  <1> QED
    BY <1>1, <1>2, <1>3, <1>4

\* The parts of TimerMoves that hold of the values an action leaves alone.
LEMMA TypesStay ==
  ASSUME IInv
  PROVE  /\ call \in [Caller -> Call] /\ leader_torque_gain \in Level /\ local \in Local
         /\ clock \in BOOLEAN /\ errors \in BOOLEAN /\ callback_raised \in BOOLEAN
         /\ leader_torque_enabled \in BOOLEAN /\ leader_torque_gain_target \in Level
         /\ NoLocals \in Local /\ "timer" \in Caller /\ "main" \in Caller /\ 0 \in Level
         /\ "main" # "timer" /\ TypeOK
  <1>1. NoLocals \in Local
    BY Numbers DEF NoLocals, Local
  <1> QED
    BY <1>1, CallsTyped, Numbers DEF IInv, TypeOK, Caller, Local

\* A step that ends the callback ends where main may be anywhere.
LEMMA EndsCoherent ==
  ASSUME IInv, TimerMoves("idle"), ~callback_raised' => Coherent' \/ ~Alone
  PROVE  IInv'
  <1>1. /\ TypeOK' /\ Calls' /\ pc'["timer"] = "idle" /\ pc'["main"] = pc["main"]
    BY TimerStep
  <1>2. FromZero'
    BY <1>1 DEF FromZero, Undecided, Before, Alone, Coherent, At
  <1>3. AloneInv'
    BY <1>1 DEF AloneInv, Alone, Before, At
  <1> QED
    BY <1>1, <1>2, <1>3 DEF IInv

LEMMA StaysUndecided ==
  ASSUME IInv, Undecided, NEW step \in Before, TimerMoves(step),
         UNCHANGED <<leader_torque_enabled, callback_raised>>
  PROVE  IInv'
  <1>1. /\ TypeOK' /\ Calls' /\ pc'["timer"] = step /\ pc'["main"] = pc["main"]
        /\ driver' = driver /\ call'["main"] = call["main"]
    BY TimerStep DEF TimerMoves
  <1>2. FromZero'
    BY <1>1 DEF IInv, FromZero, Undecided, Before, At
  <1>3. AloneInv'
    BY <1>1 DEF IInv, AloneInv, Alone, Undecided, Coherent, Before, At
  <1> QED
    BY <1>1, <1>2, <1>3 DEF IInv

LEMMA TimerFiresKeeps == ASSUME IInv, TimerFires PROVE IInv'
  <1>1. /\ call' \in [Caller -> Call] /\ call'["main"] = call["main"]
        /\ call'["timer"].op = "read"
    BY TypesStay, CallBegins DEF TimerFires, Op
  <1>2. TimerMoves("reading")
    BY <1>1, TypesStay DEF TimerFires, TimerMoves, TimerAt, Fits, gains
  <1>3. Undecided /\ UNCHANGED <<leader_torque_enabled, callback_raised>>
    BY DEF TimerFires, Undecided
  <1> QED
    BY <1>2, <1>3, StaysUndecided DEF Before

LEMMA ReadDoneKeeps == ASSUME IInv, ReadDone PROVE IInv'
  <1>1. /\ call' \in [Caller -> Call] /\ call'["main"] = call["main"]
        /\ call'["timer"].op = "none" /\ Undecided
        /\ UNCHANGED <<leader_torque_enabled, gains, new_target, shut_down_reached>> /\ Shared
    BY TypesStay, CallEnds DEF ReadDone, Undecided, Before, At
  <1>2. CASE call["timer"].stage = "returned"
    <2>1. Continue("ramp_read") /\ UNCHANGED errors
      BY <1>2 DEF ReadDone
    <2>2. TimerMoves("ramp_read")
      BY <1>1, <2>1, TypesStay DEF Continue, TimerMoves, TimerAt, Fits, gains
    <2> QED
      BY <1>1, <2>1, <2>2, StaysUndecided DEF Before, Continue
  <1>3. CASE call["timer"].stage = "raised"
    <2>1. Continue("read_failed") /\ UNCHANGED errors
      BY <1>3 DEF ReadDone
    <2>2. TimerMoves("read_failed")
      BY <1>1, <2>1, TypesStay DEF Continue, TimerMoves, TimerAt, Fits, gains
    <2> QED
      BY <1>1, <2>1, <2>2, StaysUndecided DEF Before, Continue
  <1>4. CASE call["timer"].stage \notin {"returned", "raised"}
    <2>1. EndCallback(TRUE)
      BY <1>4 DEF ReadDone
    <2>2. TimerMoves("idle") /\ callback_raised'
      BY <1>1, <2>1, TypesStay DEF EndCallback, TimerMoves, TimerAt, Fits, gains
    <2> QED
      BY <2>2, EndsCoherent
  <1> QED
    BY <1>2, <1>3, <1>4

LEMMA RampKeeps == ASSUME IInv, RampRead \/ RampStoreGain \/ RampStoreClock PROVE IInv'
  <1>1. /\ UNCHANGED <<call, leader_torque_enabled, callback_raised>> /\ Undecided
        /\ call["timer"].op \notin {"read", "on", "off", "current"}
    BY DEF RampRead, RampStoreGain, RampStoreClock, Undecided, Before, At, IInv, Calls, Caller
  <1>2. CASE RampRead
    <2>1. local' \in Local
      BY <1>2, TypesStay DEF RampRead, Local
    <2>2. TimerMoves("ramp_gain")
      BY <1>1, <1>2, <2>1, TypesStay DEF RampRead, TimerMoves, TimerAt, Fits, gains
    <2> QED
      BY <1>1, <2>2, StaysUndecided DEF Before
  <1>3. CASE RampStoreGain
    <2>1. leader_torque_gain' \in Level
      BY <1>3, TypesStay, RampStays DEF RampStoreGain, Local
    <2>2. TimerMoves("ramp_clock")
      BY <1>1, <1>3, <2>1, TypesStay DEF RampStoreGain, TimerMoves, TimerAt, Fits
    <2> QED
      BY <1>1, <2>2, StaysUndecided DEF Before
  <1>4. CASE RampStoreClock
    <2>1. local' \in Local
      BY <1>4, TypesStay DEF RampStoreClock, Local
    <2>2. clock' \in BOOLEAN
      BY <1>4 DEF RampStoreClock
    <2>3. TimerMoves("apply")
      BY <1>1, <1>4, <2>1, <2>2, TypesStay DEF RampStoreClock, TimerMoves, TimerAt, Fits
    <2> QED
      BY <1>1, <2>3, StaysUndecided DEF Before
  <1> QED
    BY <1>2, <1>3, <1>4

\* Deciding to energize: zero was sent last, and alone in the driver the leader is off.
LEMMA ApplyKeeps == ASSUME IInv, Apply PROVE IInv'
  <1>1. /\ UNCHANGED <<leader_torque_enabled, gains, local, errors, callback_raised, new_target,
                       shut_down_reached>>
        /\ Shared /\ Undecided /\ At("timer", "apply")
        /\ call["timer"].op \notin {"read", "on", "off", "current"}
    BY DEF Apply, Undecided, Before, At, IInv, Calls, Caller
  <1>2. CASE leader_torque_gain_target > 0 /\ ~leader_torque_enabled
    <2>1. Begin("timer", "on", 0) /\ Goto("timer", "enabling")
      BY <1>2 DEF Apply
    <2>2. /\ call' \in [Caller -> Call] /\ call'["main"] = call["main"] /\ call'["timer"].op = "on"
          /\ call'["timer"].servo = 1 /\ call'["timer"].stage \in {"test", "start"}
      BY <2>1, TypesStay, CallBegins DEF Op
    <2>3. TimerMoves("enabling")
      BY <1>1, <2>1, <2>2, TypesStay DEF TimerMoves, TimerAt, Fits, gains
    <2>4. /\ TypeOK' /\ Calls' /\ pc'["timer"] = "enabling" /\ pc'["main"] = pc["main"]
          /\ driver' = driver
      BY <2>3, TimerStep
    <2>5. FromZero'
      BY <1>1, <1>2, <2>4 DEF IInv, FromZero, Undecided, Before, At
    <2>6. AloneInv'
      <3>1. ASSUME Alone, ~callback_raised PROVE Energizing'
        <4>1. Coherent
          BY <1>1, <3>1 DEF IInv, AloneInv, At, Before
        <4>2. \A i \in Servo : ~(i < 1)
          BY Numbers
        <4> QED
          BY <1>1, <1>2, <2>2, <2>4, <4>1, <4>2 DEF Coherent, Energizing, Written
      <3> QED
        BY <1>1, <2>4, <3>1 DEF AloneInv, Alone, Before, At
    <2> QED
      BY <2>4, <2>5, <2>6 DEF IInv
  <1>3. CASE ~(leader_torque_gain_target > 0 /\ ~leader_torque_enabled)
    <2>1. Goto("timer", "gate") /\ UNCHANGED call
      BY <1>3 DEF Apply
    <2>2. TimerMoves("gate")
      BY <1>1, <2>1, TypesStay DEF TimerMoves, TimerAt, Fits, gains
    <2>3. /\ TypeOK' /\ Calls' /\ pc'["timer"] = "gate" /\ pc'["main"] = pc["main"]
          /\ driver' = driver
      BY <2>2, TimerStep
    <2>4. FromZero'
      BY <2>3 DEF FromZero, Undecided, Before, At
    <2>5. AloneInv'
      BY <1>1, <2>3 DEF IInv, AloneInv, Alone, Coherent, Before, At
    <2> QED
      BY <2>3, <2>4, <2>5 DEF IInv
  <1> QED
    BY <1>2, <1>3

LEMMA EnableDoneKeeps == ASSUME IInv, EnableDone PROVE IInv'
  <1>1. /\ UNCHANGED <<gains, new_target, shut_down_reached>> /\ Shared /\ At("timer", "enabling")
        /\ call' \in [Caller -> Call] /\ call'["main"] = call["main"] /\ call'["timer"].op = "none"
        /\ Finished("timer")
    BY TypesStay, CallEnds DEF EnableDone
  <1>2. CASE Raised("timer")
    <2>1. EndCallback(TRUE) /\ UNCHANGED leader_torque_enabled
      BY <1>2 DEF EnableDone
    <2>2. TimerMoves("idle") /\ callback_raised'
      BY <1>1, <2>1, TypesStay DEF EndCallback, TimerMoves, TimerAt, Fits, gains
    <2> QED
      BY <2>2, EndsCoherent
  <1>3. CASE ~Raised("timer")
    <2>1. leader_torque_enabled' = TRUE /\ Continue("gate") /\ UNCHANGED errors
      BY <1>3 DEF EnableDone
    <2>2. leader_torque_enabled' \in BOOLEAN
      BY <2>1
    <2>3. TimerMoves("gate")
      BY <1>1, <2>1, <2>2, TypesStay DEF Continue, TimerMoves, TimerAt, Fits, gains
    <2>4. /\ TypeOK' /\ Calls' /\ pc'["timer"] = "gate" /\ pc'["main"] = pc["main"]
          /\ driver' = driver
      BY <2>3, TimerStep
    <2>5. FromZero'
      BY <2>4 DEF FromZero, Undecided, Before, At
    <2>6. ASSUME Alone, ~callback_raised PROVE Coherent'
      <3>1. Energizing /\ call["timer"].stage = "returned"
        BY <1>1, <1>3, <2>6 DEF IInv, AloneInv, Finished
      <3>2. ~driver.pending /\ driver.energized = AllServos(TRUE) /\ driver.torque_enabled = TRUE
        BY <3>1 DEF Energizing, Written
      <3>3. leader_torque_enabled' = TRUE /\ driver' = driver
        BY <2>1, <2>4
      <3> QED
        BY <3>2, <3>3 DEF Coherent
    <2>7. AloneInv'
      BY <2>1, <2>4, <2>6 DEF AloneInv, Alone, Continue, Before, At
    <2> QED
      BY <2>4, <2>5, <2>7 DEF IInv
  <1> QED
    BY <1>2, <1>3

\* _set_leader_torque_enabled(False) begins on a coherent board that is on.
LEMMA BeginDisableKeeps ==
  ASSUME IInv, pc["timer"] \in {"gate", "read_failed"}, leader_torque_enabled, BeginDisable, Shared,
         leader_torque_gain' \in Level, clock' \in BOOLEAN,
         UNCHANGED <<leader_torque_enabled, leader_torque_gain_target, new_target, shut_down_reached>>
  PROVE  IInv'
  <1>0. errors' \in BOOLEAN /\ UNCHANGED <<callback_raised, local>>
    BY DEF BeginDisable, Continue
  <1>1. CASE driver.torque_enabled
    <2>1. Begin("timer", "current", 0) /\ Continue("zeroing")
      BY <1>1 DEF BeginDisable
    <2>2. /\ call' \in [Caller -> Call] /\ call'["main"] = call["main"] /\ call'["timer"].op = "current"
          /\ call'["timer"].level = 0 /\ call'["timer"].stage \in {"test", "start"}
      BY <2>1, TypesStay, CallBegins DEF Op
    <2>3. TimerMoves("zeroing")
      BY <1>0, <2>1, <2>2, TypesStay DEF Continue, TimerMoves, TimerAt, Fits
    <2>4. /\ TypeOK' /\ Calls' /\ pc'["timer"] = "zeroing" /\ pc'["main"] = pc["main"]
          /\ driver' = driver
      BY <2>3, TimerStep
    <2>5. FromZero'
      BY <2>4 DEF FromZero, Undecided, Before, At
    <2>6. ASSUME Alone, ~callback_raised PROVE Sending'
      <3>1. Coherent
        BY <2>6 DEF IInv, AloneInv, Before
      <3>2. driver.energized = AllServos(leader_torque_enabled) /\ leader_torque_enabled = TRUE
        BY <3>1, TypesStay DEF Coherent
      <3>3. driver.energized = AllServos(TRUE)
        BY <3>2
      <3> QED
        BY <1>1, <2>2, <2>4, <3>3 DEF Sending, Energized
    <2>7. AloneInv'
      BY <1>0, <2>4, <2>6 DEF AloneInv, Alone, Before, At
    <2> QED
      BY <2>4, <2>5, <2>7 DEF IInv
  <1>2. CASE ~driver.torque_enabled
    <2>1. Begin("timer", "off", 0) /\ Continue("disabling")
      BY <1>2 DEF BeginDisable
    <2>2. /\ call' \in [Caller -> Call] /\ call'["main"] = call["main"] /\ call'["timer"].op = "off"
      BY <2>1, TypesStay, CallBegins DEF Op
    <2>3. TimerMoves("disabling")
      BY <1>0, <2>1, <2>2, TypesStay DEF Continue, TimerMoves, TimerAt, Fits
    <2>4. /\ TypeOK' /\ Calls' /\ pc'["timer"] = "disabling" /\ pc'["main"] = pc["main"]
          /\ driver' = driver
      BY <2>3, TimerStep
    <2>5. FromZero'
      BY <2>4 DEF FromZero, Undecided, Before, At
    <2>6. ~(Alone /\ ~callback_raised)
      BY <1>2 DEF IInv, AloneInv, Before, Coherent
    <2>7. AloneInv'
      BY <1>0, <2>4, <2>6 DEF AloneInv, Alone
    <2> QED
      BY <2>4, <2>5, <2>7 DEF IInv
  <1> QED
    BY <1>1, <1>2

LEMMA AfterReadFailureKeeps == ASSUME IInv, AfterReadFailure PROVE IInv'
  <1>1. /\ At("timer", "read_failed") /\ Shared
        /\ UNCHANGED <<leader_torque_enabled, leader_torque_gain_target, clock, new_target,
                       shut_down_reached>>
        /\ call["timer"].op \notin {"read", "on", "off", "current"}
    BY DEF AfterReadFailure, IInv, Calls, At, Caller
  <1>2. CASE leader_torque_gain_target = 0 /\ leader_torque_enabled
    BY <1>1, <1>2, TypesStay, BeginDisableKeeps DEF AfterReadFailure, At
  <1>3. CASE ~(leader_torque_gain_target = 0 /\ leader_torque_enabled)
    <2>1. EndCallback(FALSE) /\ UNCHANGED <<leader_torque_gain, call>>
      BY <1>3 DEF AfterReadFailure
    <2>2. TimerMoves("idle") /\ callback_raised' = callback_raised /\ driver' = driver
      BY <1>1, <2>1, TypesStay DEF EndCallback, TimerMoves, TimerAt, Fits, Shared
    <2>3. ~callback_raised' => Coherent' \/ ~Alone
      BY <1>1, <2>2 DEF IInv, AloneInv, Before, At, Coherent
    <2> QED
      BY <2>2, <2>3, EndsCoherent
  <1> QED
    BY <1>2, <1>3

LEMMA ZeroDoneKeeps == ASSUME IInv, ZeroDone PROVE IInv'
  <1>1. /\ Begin("timer", "off", 0) /\ Continue("disabling") /\ Shared /\ errors' = Raised("timer")
        /\ UNCHANGED <<leader_torque_enabled, gains, new_target, shut_down_reached>>
        /\ At("timer", "zeroing") /\ Finished("timer")
    BY DEF ZeroDone
  <1>2. /\ call' \in [Caller -> Call] /\ call'["main"] = call["main"] /\ call'["timer"].op = "off"
        /\ call'["timer"].servo = 1 /\ call'["timer"].stage \in {"test", "start"}
    BY <1>1, TypesStay, CallBegins DEF Op
  <1>3. errors' \in BOOLEAN
    BY <1>1 DEF Raised
  <1>4. TimerMoves("disabling")
    BY <1>1, <1>2, <1>3, TypesStay DEF Continue, TimerMoves, TimerAt, Fits, gains
  <1>5. /\ TypeOK' /\ Calls' /\ pc'["timer"] = "disabling" /\ pc'["main"] = pc["main"]
        /\ driver' = driver
    BY <1>4, TimerStep
  <1>6. FromZero'
    BY <1>5 DEF FromZero, Undecided, Before, At
  <1>7. ASSUME Alone, ~callback_raised PROVE Disabling'
    <2>1. ~errors' => driver.goal = 0 /\ ~driver.pending
      BY <1>1, <1>7 DEF IInv, AloneInv, Sending, Finished, At
    <2>2. \A i \in Servo : ~(i < 1)
      BY Numbers
    <2> QED
      BY <1>2, <1>5, <2>1, <2>2 DEF Disabling, Written
  <1>8. AloneInv'
    BY <1>1, <1>5, <1>7 DEF AloneInv, Alone, Continue, Before, At
  <1> QED
    BY <1>5, <1>6, <1>8 DEF IInv

LEMMA DisableDoneKeeps == ASSUME IInv, DisableDone PROVE IInv'
  <1>1. /\ UNCHANGED <<gains, new_target, shut_down_reached>> /\ Shared /\ At("timer", "disabling")
        /\ call' \in [Caller -> Call] /\ call'["main"] = call["main"] /\ call'["timer"].op = "none"
        /\ leader_torque_enabled' = driver.torque_enabled /\ Finished("timer")
        /\ EndCallback(errors \/ Raised("timer"))
    BY TypesStay, CallEnds DEF DisableDone
  <1>2. leader_torque_enabled' \in BOOLEAN
    BY <1>1, TypesStay, CallsTyped DEF Driver
  <1>3. callback_raised' = (callback_raised \/ (errors \/ Raised("timer")))
    BY <1>1 DEF EndCallback
  <1>4. callback_raised' \in BOOLEAN
    BY <1>3
  <1>5. TimerMoves("idle") /\ driver' = driver
    BY <1>1, <1>2, <1>4, TypesStay DEF EndCallback, TimerMoves, TimerAt, Fits, gains, Shared
  <1>6. ASSUME ~callback_raised', Alone PROVE Coherent'
    <2>1. Disabling /\ ~errors /\ call["timer"].stage = "returned"
      BY <1>1, <1>3, <1>6 DEF IInv, AloneInv, Finished
    <2>2. /\ driver.goal = 0 /\ ~driver.pending /\ driver.energized = AllServos(FALSE)
          /\ driver.torque_enabled = FALSE
      BY <2>1 DEF Disabling, Written
    <2>3. leader_torque_enabled' = FALSE
      BY <1>1, <2>2
    <2> QED
      BY <1>5, <2>2, <2>3 DEF Coherent
  <1> QED
    BY <1>5, <1>6, EndsCoherent

LEMMA WriteDoneKeeps == ASSUME IInv, WriteDone PROVE IInv'
  <1>1. /\ UNCHANGED <<leader_torque_enabled, gains, new_target, shut_down_reached>> /\ Shared
        /\ At("timer", "writing") /\ Finished("timer")
        /\ call' \in [Caller -> Call] /\ call'["main"] = call["main"] /\ call'["timer"].op = "none"
        /\ EndCallback(Raised("timer"))
    BY TypesStay, CallEnds DEF WriteDone
  <1>2. callback_raised' = (callback_raised \/ Raised("timer"))
    BY <1>1 DEF EndCallback
  <1>3. callback_raised' \in BOOLEAN
    BY <1>2
  <1>4. TimerMoves("idle") /\ driver' = driver
    BY <1>1, <1>3, TypesStay DEF EndCallback, TimerMoves, TimerAt, Fits, gains, Shared
  <1>5. ASSUME ~callback_raised', Alone PROVE Coherent'
    <2>1. Sending /\ call["timer"].stage = "returned"
      BY <1>1, <1>2, <1>5 DEF IInv, AloneInv, Finished, At
    <2>2. /\ ~driver.pending /\ driver.energized = AllServos(TRUE)
          /\ driver.torque_enabled = TRUE /\ leader_torque_enabled = TRUE
      <3>1. driver.torque_enabled \in BOOLEAN /\ leader_torque_enabled \in BOOLEAN
        BY TypesStay, CallsTyped DEF Driver
      <3> QED
        BY <2>1, <3>1 DEF Sending, Energized
    <2>3. leader_torque_enabled' = TRUE
      BY <1>1, <2>2
    <2> QED
      BY <1>4, <2>2, <2>3 DEF Coherent
  <1> QED
    BY <1>4, <1>5, EndsCoherent

LEMMA GateKeeps == ASSUME IInv, Gate PROVE IInv'
  <1>1. /\ UNCHANGED <<leader_torque_enabled, gains, new_target, shut_down_reached>> /\ Shared
        /\ At("timer", "gate") /\ call["timer"].op \notin {"read", "on", "off", "current"}
        /\ driver' = driver /\ leader_torque_gain' \in Level /\ clock' \in BOOLEAN
    BY TypesStay DEF Gate, IInv, Calls, At, Caller, gains, Shared
  <1>2. CASE ~leader_torque_enabled /\ EndCallback(FALSE) /\ UNCHANGED call
    <2>1. TimerMoves("idle") /\ callback_raised' = callback_raised
      BY <1>1, <1>2, TypesStay DEF EndCallback, TimerMoves, TimerAt, Fits, gains
    <2>2. ~callback_raised' => Coherent' \/ ~Alone
      BY <1>1, <2>1 DEF IInv, AloneInv, At, Coherent
    <2> QED
      BY <2>1, <2>2, EndsCoherent
  <1>3. CASE leader_torque_enabled /\ BeginDisable
    BY <1>1, <1>3, BeginDisableKeeps DEF At, gains
  <1>4. CASE /\ leader_torque_enabled /\ Continue("writing") /\ UNCHANGED errors
             /\ \E level \in ComposedTorque(local.gain) : Begin("timer", "current", level)
    <2>1. PICK level \in ComposedTorque(local.gain) : Begin("timer", "current", level)
      BY <1>4
    <2>2. level \in Level
      BY TypesStay, Numbers DEF Local, ComposedTorque
    <2>3. /\ call' \in [Caller -> Call] /\ call'["main"] = call["main"] /\ call'["timer"].op = "current"
          /\ call'["timer"].stage \in {"test", "start"}
      BY <2>1, <2>2, TypesStay, CallBegins DEF Op
    <2>4. TimerMoves("writing")
      BY <1>1, <1>4, <2>3, TypesStay DEF Continue, TimerMoves, TimerAt, Fits, gains
    <2>5. /\ TypeOK' /\ Calls' /\ pc'["timer"] = "writing" /\ pc'["main"] = pc["main"]
      BY <2>4, TimerStep
    <2>6. FromZero'
      BY <2>5 DEF FromZero, Undecided, Before, At
    <2>7. ASSUME Alone, ~callback_raised PROVE Sending'
      <3>1. Coherent /\ leader_torque_enabled = TRUE
        BY <1>1, <1>4, <2>7, TypesStay DEF IInv, AloneInv, At
      <3>2. driver.energized = AllServos(TRUE) /\ driver.torque_enabled
        BY <3>1 DEF Coherent
      <3> QED
        BY <1>1, <1>4, <2>3, <3>2 DEF Sending, Energized
    <2>8. AloneInv'
      BY <1>4, <2>5, <2>7 DEF AloneInv, Alone, Continue, Before, At
    <2> QED
      BY <2>5, <2>6, <2>8 DEF IInv
  <1> QED
    BY <1>2, <1>3, <1>4 DEF Gate
-----------------------------------------------------------------------------
(* The gain callback, and main. *)

LEMMA GainKeeps ==
  ASSUME IInv, ReceiveTarget \/ CheckTarget \/ ClearClock \/ InstallTarget PROVE IInv'
  <1>1. /\ UNCHANGED <<driver, port, call, leader_torque_enabled, local, errors, callback_raised,
                       shut_down_reached>>
        /\ leader_torque_gain' \in Level /\ leader_torque_gain_target' \in Level /\ new_target' \in Level
        /\ \E step \in {"waiting", "check", "unclock", "install"} : Goto("gain", step)
    BY TypesStay DEF ReceiveTarget, CheckTarget, ClearClock, InstallTarget, GainOnly, Shared, gains,
                     IInv, TypeOK
  <1>2. clock' \in BOOLEAN
    <2>1. clock' = clock \/ clock' = FALSE
      BY DEF ReceiveTarget, CheckTarget, ClearClock, InstallTarget, gains
    <2> QED
      BY <2>1, TypesStay
  <1>3. /\ pc'["timer"] = pc["timer"] /\ pc'["main"] = pc["main"]
        /\ pc'["gain"] \in {"waiting", "check", "unclock", "install"}
        /\ DOMAIN pc' = {"main", "timer", "gain"}
    BY <1>1 DEF IInv, Calls, Goto
  <1>4. TypeOK'
    BY <1>1, <1>2, <1>3 DEF IInv, TypeOK, port
  <1>5. Calls'
    BY <1>1, <1>3 DEF IInv, Calls, At, Caller
  <1>6. FromZero' /\ AloneInv'
    BY <1>1, <1>3 DEF IInv, FromZero, AloneInv, Alone, Undecided, Coherent, Energizing, Sending,
                      Energized, Disabling, Written, At
  <1> QED
    BY <1>4, <1>5, <1>6 DEF IInv

LEMMA SpinEndsKeeps == ASSUME IInv, SpinEnds PROVE IInv'
  <1>1. /\ UNCHANGED <<driver, port, call, leader_torque_enabled, gains, local, errors, callback_raised,
                       new_target, shut_down_reached>>
    BY DEF SpinEnds, MainOnly, port
  <1>2. /\ pc'["timer"] = pc["timer"] /\ pc'["gain"] = pc["gain"] /\ pc["main"] = "spinning"
        /\ pc'["main"] = "stopping" /\ DOMAIN pc' = {"main", "timer", "gain"}
    BY DEF SpinEnds, IInv, Calls, Goto, At
  <1>3. TypeOK'
    BY <1>1, <1>2 DEF IInv, TypeOK, port, gains
  <1>4. Calls'
    BY <1>1, <1>2 DEF IInv, Calls, At, Caller
  <1>5. FromZero' /\ AloneInv'
    BY <1>1, <1>2 DEF IInv, FromZero, AloneInv, Alone, Undecided, Coherent, Energizing, Sending,
                      Energized, Disabling, Written, At
  <1> QED
    BY <1>3, <1>4, <1>5 DEF IInv

\* A step of main after it began to stop: the timer is where it was, no longer alone.
MainMoves(step) ==
  /\ step \in {"zeroing", "disabling", "closing", "closed"} /\ Goto("main", step)
  /\ UNCHANGED <<driver, is_using, lock, gains, local, errors, callback_raised, new_target>>
  /\ port_open' \in BOOLEAN
  /\ call' \in [Caller -> Call] /\ call'["timer"] = call["timer"]
  /\ step = "zeroing" <=> call'["main"].op = "current"
  /\ step = "disabling" <=> call'["main"].op = "off"
  /\ call'["main"].op \notin {"read", "on"} /\ (step = "zeroing" => call'["main"].level = 0)
  /\ leader_torque_enabled' \in BOOLEAN
  /\ shut_down_reached' \in {"nothing", "zero", "off", "done"}

LEMMA MainStep ==
  ASSUME IInv, NEW step, MainMoves(step),
         step = "disabling" => (~callback_raised /\ Undecided' => driver.goal = 0),
         step = "zeroing" => call'["main"].stage # "returned",
         leader_torque_enabled' # leader_torque_enabled =>
           (~callback_raised /\ Undecided' => driver.goal = 0)
  PROVE  IInv'
  <1>1. /\ pc'["timer"] = pc["timer"] /\ pc'["gain"] = pc["gain"] /\ pc'["main"] = step
        /\ DOMAIN pc' = {"main", "timer", "gain"}
    BY DEF MainMoves, Goto, IInv, Calls
  <1>2. TypeOK'
    BY <1>1 DEF IInv, TypeOK, MainMoves, gains, Call, Op, Stages
  <1>3. Calls'
    BY <1>1 DEF IInv, Calls, MainMoves, At, Caller
  <1>4. ~Alone'
    BY <1>1 DEF Alone, MainMoves
  <1>5. Undecided' => Undecided
    BY <1>1 DEF Undecided, MainMoves, At
  <1>6. FromZero'
    BY <1>1, <1>5 DEF IInv, FromZero, MainMoves, At
  <1> QED
    BY <1>2, <1>3, <1>4, <1>6 DEF IInv, AloneInv

LEMMA ShutDownKeeps == ASSUME IInv, ShutDown PROVE IInv'
  <1>1. /\ UNCHANGED <<driver, is_using, lock, gains, local, errors, callback_raised, new_target>>
        /\ UNCHANGED <<port_open, leader_torque_enabled>> /\ Alone
    BY DEF ShutDown, MainOnly, Alone, At
  <1>2. port_open' \in BOOLEAN
    BY <1>1 DEF IInv, TypeOK
  <1>3. CASE driver.torque_enabled
    <2>1. Begin("main", "current", 0) /\ Goto("main", "zeroing") /\ shut_down_reached' = "zero"
      BY <1>3 DEF ShutDown
    <2>2. /\ call' \in [Caller -> Call] /\ call'["timer"] = call["timer"] /\ call'["main"].op = "current"
          /\ call'["main"].level = 0 /\ call'["main"].stage \in {"test", "start"}
      BY <2>1, TypesStay, CallBegins DEF Op
    <2>3. MainMoves("zeroing")
      BY <1>1, <1>2, <2>1, <2>2, TypesStay DEF MainMoves
    <2> QED
      BY <1>1, <2>2, <2>3, MainStep
  <1>4. CASE ~driver.torque_enabled
    <2>1. Begin("main", "off", 0) /\ Goto("main", "disabling") /\ shut_down_reached' = "off"
      BY <1>4 DEF ShutDown
    <2>2. /\ call' \in [Caller -> Call] /\ call'["timer"] = call["timer"] /\ call'["main"].op = "off"
      BY <2>1, TypesStay, CallBegins DEF Op
    <2>3. MainMoves("disabling")
      BY <1>1, <1>2, <2>1, <2>2, TypesStay DEF MainMoves
    <2>4. ~callback_raised /\ Undecided' => driver.goal = 0
      <3>1. Undecided' => pc["timer"] \in Before
        BY <2>1 DEF Undecided, Goto, At, IInv, Calls, Before
      <3>2. ASSUME ~callback_raised, pc["timer"] \in Before PROVE driver.goal = 0
        BY <1>1, <1>4, <3>2 DEF IInv, AloneInv, Coherent
      <3> QED
        BY <3>1, <3>2
    <2> QED
      BY <1>1, <2>3, <2>4, MainStep
  <1> QED
    BY <1>3, <1>4

LEMMA ShutDownZeroedKeeps == ASSUME IInv, ShutDownZeroed PROVE IInv'
  <1>1. /\ UNCHANGED <<driver, is_using, lock, gains, local, errors, callback_raised, new_target>>
        /\ UNCHANGED <<port_open, leader_torque_enabled>> /\ At("main", "zeroing") /\ Finished("main")
    BY DEF ShutDownZeroed, MainOnly
  <1>2. /\ port_open' \in BOOLEAN /\ shut_down_reached \in {"nothing", "zero", "off", "done"}
    BY <1>1 DEF IInv, TypeOK
  <1>3. CASE Raised("main")
    <2>1. EndCall("main") /\ Goto("main", "closing") /\ UNCHANGED shut_down_reached
      BY <1>3 DEF ShutDownZeroed
    <2>2. /\ call' \in [Caller -> Call] /\ call'["timer"] = call["timer"] /\ call'["main"].op = "none"
      BY <2>1, TypesStay, CallEnds
    <2>3. MainMoves("closing")
      BY <1>1, <1>2, <2>1, <2>2, TypesStay DEF MainMoves
    <2> QED
      BY <1>1, <2>3, MainStep
  <1>4. CASE ~Raised("main")
    <2>1. Begin("main", "off", 0) /\ Goto("main", "disabling") /\ shut_down_reached' = "off"
      BY <1>4 DEF ShutDownZeroed
    <2>2. /\ call' \in [Caller -> Call] /\ call'["timer"] = call["timer"] /\ call'["main"].op = "off"
      BY <2>1, TypesStay, CallBegins DEF Op
    <2>3. MainMoves("disabling")
      BY <1>1, <1>2, <2>1, <2>2, TypesStay DEF MainMoves
    <2>4. ~callback_raised /\ Undecided' => driver.goal = 0
      <3>1. Undecided' => Undecided
        BY <2>1 DEF Undecided, Goto, At, IInv, Calls
      <3>2. call["main"].stage = "returned"
        BY <1>1, <1>4 DEF Finished
      <3> QED
        BY <1>1, <3>1, <3>2 DEF IInv, FromZero
    <2> QED
      BY <1>1, <2>3, <2>4, MainStep
  <1> QED
    BY <1>3, <1>4

LEMMA ShutDownDisabledKeeps == ASSUME IInv, ShutDownDisabled PROVE IInv'
  <1>1. /\ UNCHANGED <<driver, is_using, lock, gains, local, errors, callback_raised, new_target>>
        /\ UNCHANGED port_open /\ At("main", "disabling") /\ Goto("main", "closing") /\ EndCall("main")
    BY DEF ShutDownDisabled, MainOnly
  <1>2. /\ port_open' \in BOOLEAN /\ shut_down_reached' \in {"nothing", "zero", "off", "done"}
    BY <1>1 DEF ShutDownDisabled, IInv, TypeOK
  <1>3. leader_torque_enabled' \in BOOLEAN
    <2>1. leader_torque_enabled' = leader_torque_enabled \/ leader_torque_enabled' = FALSE
      BY DEF ShutDownDisabled
    <2> QED
      BY <2>1, TypesStay
  <1>4. /\ call' \in [Caller -> Call] /\ call'["timer"] = call["timer"] /\ call'["main"].op = "none"
    BY <1>1, TypesStay, CallEnds
  <1>5. MainMoves("closing")
    BY <1>1, <1>2, <1>3, <1>4 DEF MainMoves
  <1>6. ~callback_raised /\ Undecided' => driver.goal = 0
    <2>1. Undecided' => Undecided
      BY <1>1 DEF Undecided, Goto, At, IInv, Calls
    <2> QED
      BY <1>1, <2>1 DEF IInv, FromZero
  <1> QED
    BY <1>5, <1>6, MainStep

LEMMA CloseKeeps == ASSUME IInv, Close PROVE IInv'
  <1>1. /\ UNCHANGED <<driver, is_using, lock, gains, local, errors, callback_raised, new_target>>
        /\ UNCHANGED <<call, leader_torque_enabled, shut_down_reached>>
        /\ Goto("main", "closed") /\ At("main", "closing") /\ port_open' = FALSE
    BY DEF Close, MainOnly
  <1>2. port_open' \in BOOLEAN
    BY <1>1
  <1>3. call["main"].op \notin {"current", "off", "read", "on"}
    BY <1>1, TypesStay DEF IInv, Calls, At
  <1>4. shut_down_reached' \in {"nothing", "zero", "off", "done"}
    BY <1>1 DEF IInv, TypeOK
  <1>5. MainMoves("closed")
    BY <1>1, <1>2, <1>3, <1>4, TypesStay DEF MainMoves
  <1> QED
    BY <1>1, <1>5, MainStep

LEMMA DriverStepKeeps == ASSUME IInv, NEW t \in Caller, DriverStep(t) PROVE IInv'
  BY DriverStepTyped, DriverStepCalls, DriverStepFromZero, DriverStepAlone DEF IInv

LEMMA StutterKeeps == ASSUME IInv, UNCHANGED vars PROVE IInv'
  <1>1. UNCHANGED <<driver, is_using, port_open, lock, call, leader_torque_enabled, leader_torque_gain,
                    leader_torque_gain_target, clock, pc, local, errors, callback_raised, new_target,
                    shut_down_reached>>
    BY DEF vars, port, gains
  <1>2. TypeOK' /\ Calls'
    BY <1>1 DEF IInv, TypeOK, Calls, At
  <1>3. FromZero'
    BY <1>1 DEF IInv, FromZero, Undecided, At
  <1>4. AloneInv'
    BY <1>1
       DEF IInv, AloneInv, Alone, Coherent, Energizing, Sending, Energized, Disabling, Written, At
  <1> QED
    BY <1>2, <1>3, <1>4 DEF IInv

LEMMA StepKeepsInv == IInv /\ [Next]_vars => IInv'
  <1> SUFFICES ASSUME IInv, [Next]_vars PROVE IInv'
    OBVIOUS
  <1>1. CASE Main
    BY <1>1, TypesStay, DriverStepKeeps, ShutDownKeeps, ShutDownZeroedKeeps, ShutDownDisabledKeeps,
       CloseKeeps DEF Main
  <1>2. CASE Timer
    BY <1>2, TypesStay, DriverStepKeeps, ReadDoneKeeps, AfterReadFailureKeeps, ZeroDoneKeeps,
       DisableDoneKeeps, RampKeeps, ApplyKeeps, EnableDoneKeeps, GateKeeps, WriteDoneKeeps
       DEF Timer, Callback
  <1>3. CASE Gain \/ ReceiveTarget
    BY <1>3, GainKeeps DEF Gain
  <1>4. CASE TimerFires \/ SpinEnds \/ Terminated \/ UNCHANGED vars
    BY <1>4, TimerFiresKeeps, SpinEndsKeeps, StutterKeeps DEF Terminated
  <1> QED
    BY <1>1, <1>2, <1>3, <1>4 DEF Next

LEMMA InitKeeps == Init => IInv
  <1> SUFFICES ASSUME Init PROVE IInv
    OBVIOUS
  <1>1. /\ driver = [energized |-> AllServos(FALSE), goal |-> 0, torque_enabled |-> FALSE, pending |-> FALSE]
        /\ driver \in Driver
    BY Numbers DEF Init, Driver, AllServos
  <1>2. NoCall \in Call /\ NoCall.op = "none" /\ NoLocals \in Local
    BY Numbers DEF NoCall, Call, Stages, Op, NoLocals, Local
  <1>3. /\ call = [t \in Caller |-> NoCall]
        /\ pc = [main |-> "spinning", timer |-> "idle", gain |-> "waiting"]
        /\ local = NoLocals /\ shut_down_reached = "nothing" /\ lock = "free"
        /\ leader_torque_gain = 0 /\ leader_torque_gain_target = 0 /\ new_target = 0
    BY DEF Init
  <1>4. /\ is_using \in BOOLEAN /\ port_open \in BOOLEAN /\ leader_torque_enabled \in BOOLEAN
        /\ clock \in BOOLEAN /\ errors \in BOOLEAN /\ callback_raised \in BOOLEAN
    BY DEF Init
  <1>5. /\ pc["main"] = "spinning" /\ pc["timer"] = "idle" /\ pc["gain"] = "waiting"
        /\ DOMAIN pc = {"main", "timer", "gain"} /\ \A t \in Caller : call[t] = NoCall
    BY <1>3
  <1>6. TypeOK
    BY <1>1, <1>2, <1>3, <1>4, <1>5, Numbers DEF TypeOK, Call, Op, Stages, Local
  <1>7. Calls
    BY <1>2, <1>5 DEF Calls, At, Caller
  <1>8. Coherent
    <2>1. leader_torque_enabled = FALSE
      BY DEF Init
    <2> QED
      BY <1>1, <2>1 DEF Coherent
  <1>9. FromZero /\ AloneInv
    BY <1>5, <1>8 DEF FromZero, AloneInv, Undecided, Before, Coherent, At
  <1> QED
    BY <1>6, <1>7, <1>9 DEF IInv
-----------------------------------------------------------------------------
(* IInv holds in every state of the single-board leader. *)
THEOREM Inductive == Spec => []IInv
  BY InitKeeps, StepKeepsInv, PTL DEF Spec

(* The leader, its driver and every thread's call are of their types. *)
THEOREM TypeCorrect == Spec => []TypeOK
  <1>1. IInv => TypeOK
    BY DEF IInv
  <1> QED
    BY Inductive, <1>1, PTL

(* Between two callbacks, until one fails or main stops spinning, the loop's *)
(* flag, the driver's flag and every servo agree, for every number of servos *)
(* and attempts (_set_leader_torque_enabled, set_torque_mode).               *)
THEOREM IdleCoherent == Spec => []IdleIsCoherent
  <1>1. IInv => IdleIsCoherent
    BY DEF IInv, AloneInv, IdleIsCoherent, Coherent, Alone, At
  <1> QED
    BY Inductive, <1>1, PTL

(* A servo comes on only from a zero current until a callback fails, also    *)
(* beside a shut_down that has begun (_apply_leader_torque, shut_down).      *)
THEOREM EnergizingFromZero == Spec => EnergizesFromZero
  <1> DEFINE SwitchedOn == \E i \in Servo : ~driver.energized[i] /\ driver'.energized[i]
             FromZeroStep == \A i \in Servo : ~driver.energized[i] /\ driver'.energized[i]
                               => driver.goal = 0 \/ callback_raised
  <1>1. ASSUME IInv, [Next]_vars PROVE [FromZeroStep]_vars
    <2> SUFFICES ASSUME SwitchedOn, ~callback_raised PROVE driver.goal = 0
      OBVIOUS
    <2>1. driver' # driver
      OBVIOUS
    <2>2. PICK t \in Caller : DriverStep(t)
      <3>1. ASSUME ~\E t \in Caller : DriverStep(t) PROVE driver' = driver
        BY <1>1, <3>1, TypesStay
           DEF Next, Main, Timer, Gain, Callback, ShutDown, ShutDownZeroed, ShutDownDisabled, Close,
               ReadDone, AfterReadFailure, ZeroDone, DisableDone, RampRead, RampStoreGain, RampStoreClock,
               Apply, EnableDone, Gate, WriteDone, CheckTarget, ClearClock, InstallTarget, TimerFires,
               ReceiveTarget, SpinEnds, Terminated, Shared, MainOnly, GainOnly, vars
      <3> QED
        BY <2>1, <3>1
    <2>3. call[t].op = "on"
      <3>1. call[t].servo \in Servo /\ driver.energized \in [Servo -> BOOLEAN]
        BY <1>1, CallsTyped DEF IInv, Call, Driver
      <3>2. Wrote(t) /\ call[t].op \in {"on", "off"}
        BY <1>1, <2>2, DriverEffect, DriverFields DEF IInv, Wrote
      <3>3. driver'.energized = [driver.energized EXCEPT ![call[t].servo] = (call[t].op = "on")]
        BY <1>1, <2>2, <3>2, DriverFields DEF IInv
      <3> QED
        BY <3>1, <3>2, <3>3
    <2>4. At("timer", "enabling")
      BY <1>1, <2>3 DEF IInv, Calls, Caller
    <2> QED
      BY <1>1, <2>4 DEF IInv, FromZero
  <1> QED
    BY Inductive, <1>1, PTL DEF Spec, EnergizesFromZero
-----------------------------------------------------------------------------
(* The promise of TorqueGate, one lemma for each way a step looks from outside. *)

LEMMA PhaseIs ==
  /\ Phase \in {"over", "arming", "disarming", "armed", "idle"}
  /\ Phase # "over" <=> ~callback_raised /\ Alone
  /\ Phase # "over" =>
       /\ Phase = "arming" <=> At("timer", "enabling")
       /\ Phase = "disarming" <=> pc["timer"] \in {"zeroing", "disabling"}
       /\ Phase = "armed" <=> /\ pc["timer"] \notin {"enabling", "zeroing", "disabling"}
                              /\ leader_torque_enabled
       /\ Phase = "idle" <=> /\ pc["timer"] \notin {"enabling", "zeroing", "disabling"}
                             /\ ~leader_torque_enabled
  <1> DEFINE elsewhere == pc["timer"] \notin {"enabling", "zeroing", "disabling"}
  <1>1. CASE callback_raised \/ ~Alone
    BY <1>1 DEF Phase, Alone
  <1>2. CASE ~callback_raised /\ Alone
    <2>1. Phase = CASE pc["timer"] = "enabling" -> "arming"
                    [] pc["timer"] \in {"zeroing", "disabling"} -> "disarming"
                    [] OTHER -> IF leader_torque_enabled THEN "armed" ELSE "idle"
      BY <1>2 DEF Phase, Alone
    <2>2. CASE elsewhere
      <3>1. Phase = IF leader_torque_enabled THEN "armed" ELSE "idle"
        BY <2>1, <2>2
      <3> QED
        BY <1>2, <2>2, <3>1 DEF At
    <2>3. CASE ~elsewhere
      BY <1>2, <2>1, <2>3 DEF At
    <2> QED
      BY <2>2, <2>3
  <1> QED
    BY <1>1, <1>2

LEMMA RegistersAre ==
  /\ Session!On <=> \A i \in Servo : driver.energized[i]
  /\ Session!Off <=> driver.goal = 0 /\ \A i \in Servo : ~driver.energized[i]
  BY DEF Session!On, Session!Off

\* The registers stay: the phase stays, the session ends, or it decides.
LEMMA SessionRests ==
  ASSUME UNCHANGED driver, Phase # "over",
         \/ Phase' = Phase
         \/ Phase' = "over"
         \/ Phase = "idle" /\ Phase' = "arming"
         \/ Phase = "armed" /\ Phase' = "disarming"
         \/ Phase = "arming" /\ Phase' = "armed" /\ Session!On
         \/ Phase = "disarming" /\ Phase' = "idle" /\ Session!Off
  PROVE  [Session!Next]_(Session!vars)
  <1>1. UNCHANGED Session!registers
    BY DEF Session!registers
  <1>2. UNCHANGED <<[b \in {1} |-> driver.energized], [b \in {1} |-> driver.goal]>>
    OBVIOUS
  <1>3. Session!On' = Session!On /\ Session!Off' = Session!Off
    BY DEF Session!On, Session!Off
  <1>4. CASE Phase' = Phase
    BY <1>1, <1>4 DEF Session!vars
  <1>5. CASE Phase' = "over"
    <2>1. CASE Phase \in {"idle", "armed"}
      BY <1>1, <1>5, <2>1 DEF Session!Next, Session!Decide
    <2>2. CASE Phase = "arming"
      BY <1>2, <1>5, <2>2 DEF Session!Next, Session!Arm
    <2>3. CASE Phase = "disarming"
      BY <1>2, <1>5, <2>3 DEF Session!Next, Session!Release
    <2> QED
      BY <2>1, <2>2, <2>3, PhaseIs
  <1>6. CASE \/ Phase = "idle" /\ Phase' = "arming"
             \/ Phase = "armed" /\ Phase' = "disarming"
    BY <1>1, <1>6 DEF Session!Next, Session!Decide
  <1>7. CASE Phase = "arming" /\ Phase' = "armed" /\ Session!On
    BY <1>2, <1>3, <1>7 DEF Session!Next, Session!Arm
  <1>8. CASE Phase = "disarming" /\ Phase' = "idle" /\ Session!Off
    BY <1>2, <1>3, <1>8 DEF Session!Next, Session!Release
  <1> QED
    BY <1>4, <1>5, <1>6, <1>7, <1>8

\* A transaction of the callback: nothing, a write to one servo, or a current for all of them.
LEMMA SessionTransacts ==
  ASSUME IInv, DriverStep("timer"), Phase # "over"
  PROVE  [Session!Next]_(Session!vars)
  <1>1. Phase' = Phase
    BY DEF DriverStep, Phase
  <1>2. TypeOK /\ "timer" \in Caller /\ ~callback_raised /\ Alone
    BY PhaseIs, TypesStay
  <1>3. driver \in Driver /\ driver.energized \in [Servo -> BOOLEAN] /\ call["timer"].servo \in Servo
    BY <1>2, CallsTyped DEF Driver, Call
  <1>4. CASE driver'.energized = driver.energized /\ driver'.goal = driver.goal
    BY <1>1, <1>4 DEF Session!vars, Session!registers
  <1>5. CASE Wrote("timer")
    <2>1. /\ driver'.goal = driver.goal
          /\ \A i \in Servo : driver'.energized[i] = IF i = call["timer"].servo THEN call["timer"].op = "on"
                                                     ELSE driver.energized[i]
      BY <1>2, <1>3, <1>5, DriverFields
    <2>2. CASE call["timer"].op = "on"
      <3>1. At("timer", "enabling") /\ driver.goal = 0
        BY <1>2, <2>2 DEF IInv, Calls, FromZero
      <3>2. Phase = "arming"
        BY <3>1, PhaseIs
      <3>3. \A i \in Servo : driver'.energized[i] # driver.energized[i] => driver'.energized[i]
        BY <2>1, <2>2
      <3>4. Session!Arm
        BY <1>1, <2>1, <3>1, <3>2, <3>3 DEF Session!Arm
      <3> QED
        BY <3>4 DEF Session!Next
    <2>3. CASE call["timer"].op = "off"
      <3>1. At("timer", "disabling")
        BY <1>2, <2>3 DEF IInv, Calls
      <3>2. Phase = "disarming"
        BY <3>1, PhaseIs DEF At
      <3>3. \A i \in Servo : driver'.energized[i] => driver.energized[i]
        BY <2>1, <2>3
      <3>4. Session!Release
        BY <1>1, <2>1, <3>2, <3>3 DEF Session!Release
      <3> QED
        BY <3>4 DEF Session!Next
    <2> QED
      BY <1>5, <2>2, <2>3 DEF Wrote
  <1>6. CASE Sent("timer")
    <2>1. driver'.goal = call["timer"].level /\ driver'.energized = driver.energized
      BY <1>2, <1>6, DriverFields
    <2>2. pc["timer"] \in {"zeroing", "writing"}
      BY <1>6 DEF Sent, IInv, Calls
    <2>3. Energized
      BY <1>2, <2>2 DEF IInv, AloneInv, Sending
    <2>4. CASE At("timer", "zeroing")
      <3>1. Phase = "disarming" /\ driver'.goal = 0
        BY <1>2, <2>1, <2>4, PhaseIs DEF IInv, Calls, At
      <3>2. Session!Release
        BY <1>1, <2>1, <3>1 DEF Session!Release
      <3> QED
        BY <3>2 DEF Session!Next
    <2>5. CASE At("timer", "writing")
      <3>1. Phase = "armed" /\ Session!On
        BY <2>3, <2>5, PhaseIs, RegistersAre DEF Energized, AllServos, At
      <3>2. Session!Command
        BY <1>1, <2>1, <3>1 DEF Session!Command
      <3> QED
        BY <3>2 DEF Session!Next
    <2> QED
      BY <2>2, <2>4, <2>5 DEF At
  <1> QED
    BY <1>2, <1>4, <1>5, <1>6, DriverEffect, DriverFields

\* The callback between two driver calls.
LEMMA SessionDecides ==
  ASSUME IInv, Callback \/ TimerFires, Phase # "over"
  PROVE  [Session!Next]_(Session!vars)
  <1>1. UNCHANGED driver
    BY DEF Callback, TimerFires, ReadDone, AfterReadFailure, ZeroDone, DisableDone, RampRead,
           RampStoreGain, RampStoreClock, Apply, EnableDone, Gate, WriteDone, Shared
  <1>2. /\ DOMAIN pc = {"main", "timer", "gain"} /\ ~callback_raised /\ Alone
        /\ callback_raised' \in BOOLEAN
    <2>1. callback_raised' \in BOOLEAN
      BY StepKeepsInv, TypesStay DEF IInv, TypeOK, Next, Timer
    <2> QED
      BY <2>1, PhaseIs DEF IInv, Calls
  <1>3. \A step : Goto("timer", step) => pc'["timer"] = step /\ pc'["main"] = pc["main"]
    BY <1>2 DEF Goto
  <1>4. ASSUME NEW raised \in BOOLEAN, EndCallback(raised)
        PROVE  /\ raised => Phase' = "over"
               /\ ~raised => Phase' = IF leader_torque_enabled' THEN "armed" ELSE "idle"
    BY <1>2, <1>3, <1>4 DEF EndCallback, Phase, Alone
  <1>5. ASSUME NEW step, Goto("timer", step), UNCHANGED callback_raised
        PROVE  /\ step = "enabling" => Phase' = "arming"
               /\ step \in {"zeroing", "disabling"} => Phase' = "disarming"
               /\ step \notin {"enabling", "zeroing", "disabling"} =>
                    Phase' = IF leader_torque_enabled' THEN "armed" ELSE "idle"
    BY <1>2, <1>3, <1>5 DEF Phase, Alone
  <1>6. Phase = CASE At("timer", "enabling") -> "arming"
                  [] pc["timer"] \in {"zeroing", "disabling"} -> "disarming"
                  [] OTHER -> IF leader_torque_enabled THEN "armed" ELSE "idle"
    BY <1>2 DEF Phase, Alone, At
  <1>7. CASE TimerFires
    BY <1>1, <1>5, <1>6, <1>7, SessionRests DEF TimerFires, At
  <1>8. CASE ReadDone
    <2>1. Phase' \in {Phase, "over"}
      <3>1. UNCHANGED leader_torque_enabled
            /\ Phase = IF leader_torque_enabled THEN "armed" ELSE "idle"
        BY <1>6, <1>8 DEF ReadDone, At
      <3>2. Continue("ramp_read") \/ Continue("read_failed") \/ EndCallback(TRUE)
        BY <1>8 DEF ReadDone
      <3>3. CASE EndCallback(TRUE)
        BY <1>4, <3>3
      <3>4. ASSUME NEW step \in {"ramp_read", "read_failed"}, Continue(step) PROVE Phase' = Phase
        BY <1>5, <3>1, <3>4 DEF Continue
      <3> QED
        BY <3>2, <3>3, <3>4
    <2> QED
      BY <1>1, <2>1, SessionRests
  <1>9. CASE RampRead \/ RampStoreGain \/ RampStoreClock
    <2>1. Phase' = Phase
      BY <1>5, <1>6, <1>9 DEF RampRead, RampStoreGain, RampStoreClock, At
    <2> QED
      BY <1>1, <2>1, SessionRests
  <1>10. ASSUME BeginDisable, UNCHANGED leader_torque_enabled, Phase = "armed"
         PROVE  [Session!Next]_(Session!vars)
    <2>1. Phase' = "disarming"
      BY <1>5, <1>10 DEF BeginDisable, Continue
    <2> QED
      BY <1>1, <1>10, <2>1, SessionRests
  <1>11. CASE AfterReadFailure
    <2>1. UNCHANGED leader_torque_enabled /\ (leader_torque_enabled => Phase = "armed")
      BY <1>6, <1>11 DEF AfterReadFailure, At
    <2>2. CASE leader_torque_gain_target = 0 /\ leader_torque_enabled
      BY <1>10, <1>11, <2>1, <2>2 DEF AfterReadFailure
    <2>3. CASE ~(leader_torque_gain_target = 0 /\ leader_torque_enabled)
      <3>1. EndCallback(FALSE) /\ Phase = IF leader_torque_enabled THEN "armed" ELSE "idle"
        BY <1>6, <1>11, <2>3 DEF AfterReadFailure, At
      <3>2. Phase' = Phase
        BY <1>4, <2>1, <3>1
      <3> QED
        BY <1>1, <3>2, SessionRests
    <2> QED
      BY <2>2, <2>3
  <1>12. CASE ZeroDone
    <2>1. Phase' = Phase
      BY <1>5, <1>6, <1>12 DEF ZeroDone, Continue, At
    <2> QED
      BY <1>1, <2>1, SessionRests
  <1>13. CASE DisableDone
    <2>1. Phase = "disarming" /\ leader_torque_enabled' = driver.torque_enabled
      BY <1>6, <1>13 DEF DisableDone, At
    <2>2. CASE errors \/ Raised("timer")
      <3>1. callback_raised' = (callback_raised \/ (errors \/ Raised("timer")))
        BY <1>13 DEF DisableDone, EndCallback
      <3>2. Phase' = "over"
        BY <2>2, <3>1 DEF Phase
      <3> QED
        BY <1>1, <3>2, SessionRests
    <2>3. CASE ~(errors \/ Raised("timer"))
      <3>1. call["timer"].stage = "returned" /\ Disabling
        BY <1>2, <1>13, <2>3 DEF DisableDone, Finished, IInv, AloneInv
      <3>2. ~driver.torque_enabled /\ Session!Off
        BY <2>3, <3>1, RegistersAre DEF Disabling, Written, AllServos
      <3>3. EndCallback(FALSE)
        BY <1>13, <2>3 DEF DisableDone, EndCallback
      <3>4. Phase' = "idle"
        BY <1>4, <2>1, <3>2, <3>3
      <3> QED
        BY <1>1, <2>1, <3>2, <3>4, SessionRests
    <2> QED
      BY <2>2, <2>3
  <1>14. CASE Apply
    <2>1. UNCHANGED leader_torque_enabled /\ Phase = IF leader_torque_enabled THEN "armed" ELSE "idle"
      BY <1>6, <1>14 DEF Apply, At
    <2>2. Phase' = Phase \/ (Phase = "idle" /\ Phase' = "arming")
      BY <1>5, <1>14, <2>1 DEF Apply
    <2> QED
      BY <1>1, <2>2, SessionRests
  <1>15. CASE EnableDone
    <2>1. Phase = "arming"
      BY <1>6, <1>15 DEF EnableDone, At
    <2>2. CASE Raised("timer")
      <3>1. Phase' = "over"
        BY <1>4, <1>15, <2>2 DEF EnableDone
      <3> QED
        BY <1>1, <3>1, SessionRests
    <2>3. CASE ~Raised("timer")
      <3>1. call["timer"].stage = "returned" /\ Energizing
        BY <1>2, <1>15, <2>3 DEF EnableDone, Finished, IInv, AloneInv
      <3>2. Session!On
        BY <3>1, RegistersAre DEF Energizing, Written, AllServos
      <3>3. Phase' = "armed"
        BY <1>5, <1>15, <2>3 DEF EnableDone, Continue
      <3> QED
        BY <1>1, <2>1, <3>2, <3>3, SessionRests
    <2> QED
      BY <2>2, <2>3
  <1>16. CASE Gate
    <2>1. UNCHANGED leader_torque_enabled /\ Phase = IF leader_torque_enabled THEN "armed" ELSE "idle"
      BY <1>6, <1>16 DEF Gate, At
    <2>2. CASE EndCallback(FALSE)
      <3>1. Phase' = Phase
        BY <1>4, <2>1, <2>2
      <3> QED
        BY <1>1, <3>1, SessionRests
    <2>3. CASE leader_torque_enabled /\ BeginDisable
      BY <1>10, <2>1, <2>3
    <2>4. CASE Continue("writing")
      <3>1. Phase' = Phase
        BY <1>5, <2>1, <2>4 DEF Continue
      <3> QED
        BY <1>1, <3>1, SessionRests
    <2> QED
      BY <1>16, <2>2, <2>3, <2>4 DEF Gate
  <1>17. CASE WriteDone
    <2>1. UNCHANGED leader_torque_enabled /\ Phase = IF leader_torque_enabled THEN "armed" ELSE "idle"
      BY <1>6, <1>17 DEF WriteDone, At
    <2>2. Phase' \in {Phase, "over"}
      <3>1. Raised("timer") \in BOOLEAN /\ EndCallback(Raised("timer"))
        BY <1>17 DEF WriteDone, Raised
      <3> QED
        BY <1>4, <2>1, <3>1
    <2> QED
      BY <1>1, <2>2, SessionRests
  <1> QED
    BY <1>7, <1>8, <1>9, <1>11, <1>12, <1>13, <1>14, <1>15, <1>16, <1>17 DEF Callback

LEMMA SessionStep ==
  ASSUME IInv, [Next]_vars, Phase # "over"
  PROVE  [Session!Next]_(Session!vars)
  <1>1. /\ Alone /\ call["main"].op = "none"
    BY MainOutsideDriver, PhaseIs
  <1>2. CASE Timer
    BY <1>2, SessionTransacts, SessionDecides DEF Timer
  <1>3. CASE TimerFires
    BY <1>3, SessionDecides
  <1>4. CASE Main
    <2>1. ~DriverStep("main")
      BY <1>1, DriverEffect, TypesStay
    <2>2. ShutDown
      BY <1>1, <1>4, <2>1 DEF Main, ShutDownZeroed, ShutDownDisabled, Close, Alone, At
    <2>3. UNCHANGED driver /\ pc'["main"] \in {"zeroing", "disabling"}
      BY <2>2 DEF ShutDown, MainOnly, Goto, IInv, Calls
    <2>4. Phase' = "over"
      BY <2>3 DEF Phase
    <2> QED
      BY <2>3, <2>4, SessionRests
  <1>5. CASE SpinEnds
    <2>1. UNCHANGED driver /\ Phase' = Phase
      BY <1>5 DEF SpinEnds, MainOnly, Goto, At, Phase, IInv, Calls
    <2> QED
      BY <2>1, SessionRests
  <1>6. CASE Gain \/ ReceiveTarget
    <2>1. UNCHANGED <<driver, leader_torque_enabled, callback_raised>>
      BY <1>6 DEF Gain, ReceiveTarget, CheckTarget, ClearClock, InstallTarget, GainOnly, Shared
    <2>2. pc'["timer"] = pc["timer"] /\ pc'["main"] = pc["main"]
      BY <1>6 DEF Gain, ReceiveTarget, CheckTarget, ClearClock, InstallTarget, Goto, IInv, Calls
    <2> QED
      BY <2>1, <2>2, SessionRests DEF Phase
  <1>7. CASE Terminated \/ UNCHANGED vars
    <2>1. UNCHANGED driver /\ Phase' = Phase
      BY <1>7 DEF Terminated, vars, Phase
    <2> QED
      BY <2>1, SessionRests
  <1> QED
    BY <1>2, <1>3, <1>4, <1>5, <1>6, <1>7 DEF Next

(* The single-board leader, too, is a session of TorqueGate until a callback *)
(* raises or shut_down begins: transaction by transaction it arms only from  *)
(* zero, commands only what is wholly on and disarms to an idle leader that  *)
(* is off, for every number of servos and attempts (control_loop_callback).  *)
THEOREM KeepsTheSession == Spec => KeepsSession
  <1> DEFINE Allowed == Phase # "over" => [Session!Next]_(Session!vars)
  <1>1. Init => Phase = "idle" /\ Session!Off
    BY RegistersAre DEF Init, Phase, AllServos
  <1>2. IInv /\ [Next]_vars => [Allowed]_vars
    BY SessionStep
  <1> QED
    BY <1>1, <1>2, Inductive, PTL DEF Spec, KeepsSession
-----------------------------------------------------------------------------
(***************************************************************************)
(* shut_down comes to its end.  The driver's lock is held exactly by the   *)
(* thread that is inside set_torque_mode, so main never waits for more     *)
(* than a callback that can go on; and every step after spin() has ended   *)
(* uses up one of finitely many.  Only that a thread that can go on does   *)
(* is left to the scheduler.                                               *)
(***************************************************************************)

Transaction == {"test", "take", "answer"}

\* Inside set_torque_mode's `with self._lock`.
Switching(t) == call[t].op \in {"on", "off"} /\ call[t].stage \in Transaction

CallFits(c) ==
  /\ c.op = "none" => c.stage = "returned"
  /\ c.stage = "start" => c.op # "read"
  /\ c.stage = "flag" => c.op \in {"on", "off"}

LockInv == \A t \in Caller : (lock = t <=> Switching(t)) /\ CallFits(call[t])

\* How a call can go on: along its transaction, to the next attempt, to the next servo.
Advances(c, stage, servo, tries) ==
  \/ /\ servo = c.servo /\ tries = c.tries
     /\ \/ c.stage = "start" /\ stage \in {"test", "raised"}
        \/ c.stage = "test" /\ stage \in {"take", "raised"}
        \/ c.stage = "take" /\ stage \in {"answer", "broken"}
        \/ c.stage = "answer" /\ stage \in {"flag", "returned", "raised"}
        \/ c.stage = "flag" /\ stage = "returned"
  \/ servo = c.servo /\ tries = c.tries + 1 /\ c.stage \in {"test", "answer"} /\ stage = "test"
  \/ servo = c.servo + 1 /\ tries = 1 /\ c.stage = "answer" /\ stage = "test"

CallAdvances(t) ==
  \E stage \in Stages, servo \in Servo, tries \in 1..WriteAttempts :
    GoesOn(t, stage, servo, tries) /\ Advances(call[t], stage, servo, tries)

\* What one step of thread t does to the lock.
LockMoves(t) ==
  /\ lock' = t <=> Switching(t)'
  /\ \A u \in Caller : u # t => (lock' = u <=> lock = u)
  /\ CallFits(call'[t])

LEMMA StageAdvances ==
  ASSUME TypeOK, NEW t \in Caller, NEW stage \in Stages, Stage(t, stage),
         Advances(call[t], stage, call[t].servo, call[t].tries)
  PROVE  CallAdvances(t) /\ call'[t].op = call[t].op /\ call'[t].stage = stage
  <1>1. call[t].servo \in Servo /\ call[t].tries \in 1..WriteAttempts
    BY CallsTyped DEF Call
  <1>2. GoesOn(t, stage, call[t].servo, call[t].tries)
    BY StageGoesOn
  <1> QED
    BY <1>1, <1>2 DEF CallAdvances, GoesOn

LEMMA AttemptAdvances ==
  ASSUME TypeOK, LockInv, NEW t \in Caller, call[t].stage \in {"test", "answer"}, AttemptFailed(t)
  PROVE  CallAdvances(t) /\ LockMoves(t)
  <1>0. call[t] \in Call
    BY CallsTyped
  <1>1. CASE call[t].op \in {"on", "off"} /\ call[t].tries < WriteAttempts
    <2>1. call' = [call EXCEPT ![t].stage = "test", ![t].tries = @ + 1] /\ UNCHANGED lock
      BY <1>1 DEF AttemptFailed
    <2>2. call[t] \in Call /\ call[t].tries + 1 \in 1..WriteAttempts
      BY <1>0, <1>1, Numbers DEF Call
    <2>3. /\ call'[t] = [call[t] EXCEPT !.stage = "test", !.tries = call[t].tries + 1]
          /\ \A u \in Caller : u # t => call'[u] = call[u]
          /\ call' \in [Caller -> Call]
      BY <2>1, <2>2, CallsTyped DEF Call, Stages
    <2>4. GoesOn(t, "test", call[t].servo, call[t].tries + 1)
      BY <2>2, <2>3 DEF GoesOn, Call
    <2>5. CallAdvances(t)
      BY <2>2, <2>4 DEF CallAdvances, Advances, Call, Stages
    <2>6. LockMoves(t)
      BY <1>1, <2>1, <2>4 DEF LockMoves, LockInv, Switching, Transaction, CallFits, GoesOn
    <2> QED
      BY <2>5, <2>6
  <1>2. CASE ~(call[t].op \in {"on", "off"} /\ call[t].tries < WriteAttempts)
    <2>1. Stage(t, "raised") /\ Release(t)
      BY <1>2 DEF AttemptFailed
    <2>2. /\ CallAdvances(t) /\ call'[t].op = call[t].op /\ call'[t].stage = "raised"
      BY <2>1, StageAdvances DEF Stages, Advances
    <2>3. LockMoves(t)
      BY <2>1, <2>2 DEF LockMoves, LockInv, Switching, Transaction, CallFits, Release, Caller
    <2> QED
      BY <2>2, <2>3
  <1> QED
    BY <1>1, <1>2

LEMMA CallGoesOn ==
  ASSUME TypeOK, LockInv, NEW t \in Caller, DriverStep(t)
  PROVE  CallAdvances(t) /\ LockMoves(t)
  <1>0. call[t] \in Call /\ t # "free"
    BY CallsTyped DEF Caller
  <1>1. CASE AcquireLock(t)
    <2>1. /\ Stage(t, "test") /\ lock = "free" /\ lock' = t
          /\ call[t].op \in {"on", "off"} /\ call[t].stage = "start"
      BY <1>1 DEF AcquireLock, InDriver
    <2>2. CallAdvances(t) /\ call'[t].op = call[t].op /\ call'[t].stage = "test"
      BY <2>1, StageAdvances DEF Stages, Advances
    <2> QED
      BY <1>0, <2>1, <2>2
         DEF LockMoves, LockInv, Switching, Transaction, CallFits, Caller
  <1>2. CASE CheckCurrent(t)
    <2>1. PICK stage \in {"test", "raised"} : Stage(t, stage)
      BY <1>2 DEF CheckCurrent
    <2>2. call[t].op = "current" /\ call[t].stage = "start" /\ UNCHANGED lock
      BY <1>2 DEF CheckCurrent, InDriver, port
    <2>3. CallAdvances(t) /\ call'[t].op = call[t].op /\ call'[t].stage = stage
      BY <2>1, <2>2, StageAdvances DEF Stages, Advances
    <2> QED
      BY <2>2, <2>3 DEF LockMoves, LockInv, Switching, CallFits
  <1>3. CASE TestPort(t)
    <2>1. CASE is_using
      BY <1>3, <2>1, AttemptAdvances DEF TestPort
    <2>2. CASE ~is_using
      <3>1. Stage(t, "take") /\ UNCHANGED lock /\ call[t].stage = "test" /\ call[t].op # "none"
        BY <1>3, <2>2 DEF TestPort
      <3>2. CallAdvances(t) /\ call'[t].op = call[t].op /\ call'[t].stage = "take"
        BY <3>1, StageAdvances DEF Stages, Advances
      <3> QED
        BY <3>1, <3>2 DEF LockMoves, LockInv, Switching, Transaction, CallFits
    <2> QED
      BY <2>1, <2>2
  <1>4. CASE TakePort(t)
    <2>0. call[t].stage = "take" /\ call[t].op # "none"
      BY <1>4 DEF TakePort
    <2>1. CASE port_open
      <3>1. Stage(t, "answer") /\ UNCHANGED lock
        BY <1>4, <2>1 DEF TakePort
      <3>2. CallAdvances(t) /\ call'[t].op = call[t].op /\ call'[t].stage = "answer"
        BY <2>0, <3>1, StageAdvances DEF Stages, Advances
      <3> QED
        BY <2>0, <3>1, <3>2 DEF LockMoves, LockInv, Switching, Transaction, CallFits
    <2>2. CASE ~port_open
      <3>1. Stage(t, "broken") /\ Release(t)
        BY <1>4, <2>2 DEF TakePort
      <3>2. CallAdvances(t) /\ call'[t].op = call[t].op /\ call'[t].stage = "broken"
        BY <2>0, <3>1, StageAdvances DEF Stages, Advances
      <3> QED
        BY <1>0, <2>0, <3>1, <3>2
           DEF LockMoves, LockInv, Switching, Transaction, CallFits, Release, Caller
    <2> QED
      BY <2>1, <2>2
  <1>5. CASE Answered(t)
    <2>0. call[t].stage = "answer" /\ call[t].op \in {"on", "off"}
      BY <1>5 DEF Answered, InDriver
    <2>1. CASE call[t].servo < NumServos
      <3>1. GoesOn(t, "test", call[t].servo + 1, 1) /\ UNCHANGED lock
        BY <1>5, <2>1, NextServoGoesOn DEF Answered
      <3>2. call[t].servo + 1 \in Servo /\ 1 \in 1..WriteAttempts
        BY <1>0, <2>1, Numbers DEF Call
      <3>3. CallAdvances(t)
        BY <2>0, <3>1, <3>2 DEF CallAdvances, Advances, Stages
      <3>4. LockMoves(t)
        BY <2>0, <3>1 DEF LockMoves, LockInv, Switching, Transaction, CallFits, GoesOn
      <3> QED
        BY <3>3, <3>4
    <2>2. CASE ~(call[t].servo < NumServos)
      <3>1. Stage(t, "flag") /\ Release(t)
        BY <1>5, <2>2 DEF Answered
      <3>2. CallAdvances(t) /\ call'[t].op = call[t].op /\ call'[t].stage = "flag"
        BY <2>0, <3>1, StageAdvances DEF Stages, Advances
      <3> QED
        BY <1>0, <2>0, <3>1, <3>2
           DEF LockMoves, LockInv, Switching, Transaction, CallFits, Release, Caller
    <2> QED
      BY <2>1, <2>2
  <1>6. CASE AnswerLost(t)
    BY <1>6, AttemptAdvances DEF AnswerLost, InDriver
  <1>7. CASE SetFlag(t)
    <2>1. /\ Stage(t, "returned") /\ UNCHANGED lock
          /\ call[t].stage = "flag" /\ call[t].op \in {"on", "off"}
      BY <1>7 DEF SetFlag, InDriver, port
    <2>2. CallAdvances(t) /\ call'[t].op = call[t].op /\ call'[t].stage = "returned"
      BY <2>1, StageAdvances DEF Stages, Advances
    <2> QED
      BY <2>1, <2>2 DEF LockMoves, LockInv, Switching, Transaction, CallFits
  <1>8. CASE CurrentSent(t) \/ ReadAnswered(t)
    <2>1. PICK stage \in {"returned", "raised"} : Stage(t, stage)
      BY <1>8 DEF CurrentSent, ReadAnswered
    <2>2. UNCHANGED lock /\ call[t].stage = "answer" /\ call[t].op \in {"current", "read"}
      BY <1>8 DEF CurrentSent, ReadAnswered, InDriver
    <2>3. CallAdvances(t) /\ call'[t].op = call[t].op /\ call'[t].stage = stage
      BY <2>1, <2>2, StageAdvances DEF Stages, Advances
    <2> QED
      BY <2>2, <2>3 DEF LockMoves, LockInv, Switching, Transaction, CallFits
  <1> QED
    BY <1>1, <1>2, <1>3, <1>4, <1>5, <1>6, <1>7, <1>8 DEF DriverStep

\* Beginning a call, ending one, or leaving it alone, outside of set_torque_mode.
Begins(t) == \E op \in Op \ {"none"}, level \in Level : Begin(t, op, level)

LEMMA CallStarts ==
  ASSUME TypeOK, NEW t \in Caller, Begins(t)
  PROVE  /\ call' \in [Caller -> Call] /\ \A u \in Caller : u # t => call'[u] = call[u]
         /\ CallFits(call'[t]) /\ ~Switching(t)'
  <1>1. PICK op \in Op \ {"none"}, level \in Level : Begin(t, op, level)
    BY DEF Begins
  <1>2. /\ call' \in [Caller -> Call] /\ \A u \in Caller : u # t => call'[u] = call[u]
        /\ call'[t].op = op
    BY <1>1, CallBegins
  <1>3. call'[t].stage = IF op = "read" THEN "test" ELSE "start"
    BY <1>1, CallsTyped DEF Begin
  <1> QED
    BY <1>2, <1>3 DEF CallFits, Switching, Transaction

LEMMA CallStops ==
  ASSUME TypeOK, NEW t \in Caller, EndCall(t)
  PROVE  /\ call' \in [Caller -> Call] /\ \A u \in Caller : u # t => call'[u] = call[u]
         /\ CallFits(call'[t]) /\ ~Switching(t)' /\ call'[t].stage = "returned"
  <1>1. call' \in [Caller -> Call] /\ \A u \in Caller : u # t => call'[u] = call[u]
    BY CallEnds
  <1>2. call'[t] = NoCall
    BY CallsTyped DEF EndCall
  <1> QED
    BY <1>1, <1>2 DEF NoCall, CallFits, Switching

LEMMA LockKept ==
  ASSUME TypeOK, LockInv, UNCHANGED lock, NEW t \in Caller, ~Switching(t),
         Begins(t) \/ EndCall(t) \/ UNCHANGED call
  PROVE  LockInv'
  <1>1. CASE UNCHANGED call
    BY <1>1 DEF LockInv, Switching
  <1>2. CASE Begins(t) \/ EndCall(t)
    <2>1. /\ \A u \in Caller : u # t => call'[u] = call[u]
          /\ CallFits(call'[t]) /\ ~Switching(t)'
      BY <1>2, CallStarts, CallStops
    <2> QED
      BY <2>1 DEF LockInv, Switching
  <1> QED
    BY <1>1, <1>2
-----------------------------------------------------------------------------
(* The steps that are left, at most: of a call, of the callback, of main, of *)
(* the gain callback.                                                        *)

Attempt  == 3 * WriteAttempts
CallCost == NumServos * Attempt + 2

CallLeft(c) ==
  IF c.stage = "start" THEN CallCost
  ELSE IF c.stage \in Transaction
  THEN (NumServos - c.servo) * Attempt + 3 * (WriteAttempts - c.tries) + 1
         + (CASE c.stage = "test" -> 3 [] c.stage = "take" -> 2 [] c.stage = "answer" -> 1)
  ELSE IF c.stage = "flag" THEN 1 ELSE 0

MainAhead(step) ==
  CASE step = "spinning"  -> 2 * CallCost + 5
    [] step = "stopping"  -> 2 * CallCost + 4
    [] step = "zeroing"   -> CallCost + 3
    [] step = "disabling" -> 2
    [] step = "closing"   -> 1
    [] step = "closed"    -> 0

TimerAhead(step) ==
  CASE step = "reading"     -> 3 * CallCost + 9
    [] step = "ramp_read"   -> 3 * CallCost + 8
    [] step = "ramp_gain"   -> 3 * CallCost + 7
    [] step = "ramp_clock"  -> 3 * CallCost + 6
    [] step = "apply"       -> 3 * CallCost + 5
    [] step = "enabling"    -> 2 * CallCost + 4
    [] step = "gate"        -> 2 * CallCost + 3
    [] step = "read_failed" -> 2 * CallCost + 3
    [] step = "zeroing"     -> CallCost + 2
    [] step \in {"disabling", "writing"} -> 1
    [] step = "idle"        -> 0

GainAhead(step) ==
  CASE step = "check"   -> 3
    [] step = "unclock" -> 2
    [] step = "install" -> 1
    [] step = "waiting" -> 0

StepsLeft ==
  MainAhead(pc["main"]) + CallLeft(call["main"])
    + TimerAhead(pc["timer"]) + CallLeft(call["timer"]) + GainAhead(pc["gain"])

LEMMA ServosLeft ==
  ASSUME NEW s \in Servo
  PROVE  /\ Attempt \in Nat /\ CallCost \in Nat /\ NumServos * Attempt \in Nat
         /\ (NumServos - s) * Attempt \in Nat
         /\ (NumServos - s) * Attempt + Attempt <= NumServos * Attempt
         /\ s + 1 \in Servo =>
              (NumServos - (s + 1)) * Attempt + Attempt = (NumServos - s) * Attempt
  <1>1. /\ NumServos \in Nat /\ s \in Nat /\ s >= 1 /\ s <= NumServos
        /\ Attempt \in Nat
    BY Numbers DEF Attempt
  <1> HIDE DEF Attempt
  <1>2. NumServos * Attempt \in Nat
    BY <1>1
  <1>3. PICK m \in Nat : NumServos = s + m
    <2>1. NumServos - s \in Nat /\ NumServos = s + (NumServos - s)
      BY <1>1
    <2> QED
      BY <2>1
  <1>4. m * Attempt \in Nat /\ NumServos - s = m
    BY <1>1, <1>3
  <1>5. PICK k \in Nat : s = k + 1
    <2>1. s - 1 \in Nat /\ s = (s - 1) + 1
      BY <1>1
    <2> QED
      BY <2>1
  <1>6. NumServos * Attempt = k * Attempt + Attempt + m * Attempt /\ k * Attempt \in Nat
    BY <1>1, <1>3, <1>5
  <1>7. ASSUME s + 1 \in Servo
        PROVE  (NumServos - (s + 1)) * Attempt + Attempt = (NumServos - s) * Attempt
    <2>1. NumServos - (s + 1) \in Nat /\ NumServos - s = (NumServos - (s + 1)) + 1
      BY <1>1, <1>7, Numbers
    <2>2. \A n \in Nat : (n + 1) * Attempt = n * Attempt + Attempt
      BY <1>1
    <2> QED
      BY <2>1, <2>2
  <1>8. CallCost \in Nat
    BY <1>2 DEF CallCost
  <1> QED
    BY <1>1, <1>2, <1>4, <1>6, <1>7, <1>8

LEMMA CallBounded ==
  ASSUME NEW c \in Call
  PROVE  /\ CallLeft(c) \in Nat /\ CallLeft(c) <= CallCost
         /\ c.stage \in {"returned", "raised", "broken"} => CallLeft(c) = 0
  <1>1. /\ c.servo \in Servo /\ c.tries \in 1..WriteAttempts /\ c.stage \in Stages
        /\ WriteAttempts \in Nat /\ Attempt = 3 * WriteAttempts
    BY Numbers DEF Call, Attempt
  <1> DEFINE rest == (NumServos - c.servo) * Attempt
             all  == NumServos * Attempt
             part == CASE c.stage = "test" -> 3 [] c.stage = "take" -> 2 [] c.stage = "answer" -> 1
  <1>2. rest \in Nat /\ all \in Nat /\ rest + Attempt <= all /\ CallCost = all + 2
    BY <1>1, ServosLeft DEF CallCost
  <1>3. c.stage \in Transaction => part \in 1..3
    BY DEF Transaction
  <1>4. CASE c.stage \in Transaction
    <2>1. CallLeft(c) = rest + 3 * (WriteAttempts - c.tries) + 1 + part
      BY <1>4 DEF CallLeft, Transaction
    <2>2. c.stage \notin {"returned", "raised", "broken"}
      BY <1>4 DEF Transaction
    <2> HIDE DEF rest, all, part
    <2> QED
      BY <1>1, <1>2, <1>3, <1>4, <2>1, <2>2
  <1>5. CASE c.stage \notin Transaction
    <2>1. /\ c.stage = "start" => CallLeft(c) = CallCost
          /\ c.stage = "flag" => CallLeft(c) = 1
          /\ c.stage \notin {"start", "flag"} => CallLeft(c) = 0
      BY <1>5 DEF CallLeft
    <2> HIDE DEF rest, all, part
    <2> QED
      BY <1>2, <2>1
  <1> QED
    BY <1>4, <1>5

\* Every step of a call uses one up, also the one that begins another attempt or servo.
LEMMA CallRunsDown ==
  ASSUME TypeOK, NEW t \in Caller, CallAdvances(t)
  PROVE  CallLeft(call'[t]) < CallLeft(call[t])
  <1> DEFINE c == call[t]
             d == call'[t]
  <1>1. c \in Call /\ d \in Call
    BY CallsTyped DEF CallAdvances, GoesOn
  <1>2. PICK stage \in Stages, servo \in Servo, tries \in 1..WriteAttempts :
          /\ d.stage = stage /\ d.servo = servo /\ d.tries = tries
          /\ Advances(c, stage, servo, tries)
    BY DEF CallAdvances, GoesOn
  <1>3. /\ c.servo \in Servo /\ c.tries \in 1..WriteAttempts /\ c.stage \in Stages
        /\ WriteAttempts \in Nat /\ Attempt = 3 * WriteAttempts /\ Servo \subseteq Nat
    BY <1>1, Numbers DEF Call, Attempt
  <1> DEFINE rest == (NumServos - c.servo) * Attempt
             next == (NumServos - d.servo) * Attempt
             all  == NumServos * Attempt
             spare == 3 * (WriteAttempts - c.tries)
             left  == 3 * (WriteAttempts - d.tries)
  <1>4. /\ rest \in Nat /\ next \in Nat /\ all \in Nat /\ rest + Attempt <= all
        /\ next + Attempt <= all /\ CallCost = all + 2
        /\ servo = c.servo + 1 => next + Attempt = rest
        /\ servo = c.servo => next = rest
    BY <1>2, <1>3, ServosLeft DEF CallCost
  <1>5. /\ c.stage = "start" => CallLeft(c) = CallCost
        /\ c.stage = "test" => CallLeft(c) = rest + spare + 4
        /\ c.stage = "take" => CallLeft(c) = rest + spare + 3
        /\ c.stage = "answer" => CallLeft(c) = rest + spare + 2
        /\ c.stage = "flag" => CallLeft(c) = 1
    BY <1>3, <1>4 DEF CallLeft, Transaction
  <1>6. /\ d.stage = "test" => CallLeft(d) = next + left + 4
        /\ d.stage = "take" => CallLeft(d) = next + left + 3
        /\ d.stage = "answer" => CallLeft(d) = next + left + 2
        /\ d.stage = "flag" => CallLeft(d) = 1
        /\ d.stage \in {"returned", "raised", "broken"} => CallLeft(d) = 0
    BY <1>2, <1>3, <1>4 DEF CallLeft, Transaction
  <1>7. /\ spare \in Nat /\ left \in Nat /\ left + 3 <= Attempt
        /\ tries = c.tries => left = spare
        /\ tries = c.tries + 1 => left + 3 = spare
    BY <1>2, <1>3
  <1> HIDE DEF rest, next, all, spare, left
  <1>8. CASE servo = c.servo /\ tries = c.tries
    <2>1. next = rest /\ left = spare
      BY <1>4, <1>7, <1>8
    <2>2. \/ c.stage = "start" /\ stage \in {"test", "raised"}
          \/ c.stage = "test" /\ stage \in {"take", "raised"}
          \/ c.stage = "take" /\ stage \in {"answer", "broken"}
          \/ c.stage = "answer" /\ stage \in {"flag", "returned", "raised"}
          \/ c.stage = "flag" /\ stage = "returned"
      BY <1>2, <1>3, <1>8 DEF Advances
    <2> QED
      BY <1>2, <1>3, <1>4, <1>5, <1>6, <1>7, <2>1, <2>2
  <1>9. CASE ~(servo = c.servo /\ tries = c.tries)
    <2>1. d.stage = "test" /\ c.stage \in {"test", "answer"}
      BY <1>2, <1>9 DEF Advances
    <2>2. \/ servo = c.servo /\ tries = c.tries + 1
          \/ servo = c.servo + 1 /\ tries = 1 /\ c.stage = "answer"
      BY <1>2, <1>9 DEF Advances
    <2> QED
      BY <1>3, <1>4, <1>5, <1>6, <1>7, <2>1, <2>2
  <1> QED
    BY <1>8, <1>9
-----------------------------------------------------------------------------
(* Outside the driver: a step moves its thread closer to its end, by more    *)
(* than the call it begins may take.                                         *)

CallMoves(t, from, to) ==
  /\ ~Switching(t) /\ UNCHANGED lock
  /\ \/ UNCHANGED call /\ to < from
     \/ Begins(t) /\ to + CallCost < from
     \/ EndCall(t) /\ to < from

LEMMA CallMovesOn ==
  ASSUME TypeOK, LockInv, NEW t \in Caller, NEW from \in Nat, NEW to \in Nat,
         CallMoves(t, from, to)
  PROVE  /\ LockInv' /\ to + CallLeft(call'[t]) < from + CallLeft(call[t])
         /\ \A u \in Caller : u # t => call'[u] = call[u]
  <1>1. LockInv'
    BY LockKept DEF CallMoves
  <1>2. CallLeft(call[t]) \in Nat /\ CallCost \in Nat
    BY CallsTyped, CallBounded, ServosLeft, Numbers
  <1>3. CASE UNCHANGED call /\ to < from
    BY <1>1, <1>2, <1>3
  <1>4. CASE Begins(t) /\ to + CallCost < from
    <2>1. call'[t] \in Call /\ \A u \in Caller : u # t => call'[u] = call[u]
      BY <1>4, CallStarts
    <2>2. CallLeft(call'[t]) \in Nat /\ CallLeft(call'[t]) <= CallCost
      BY <2>1, CallBounded
    <2> QED
      BY <1>1, <1>2, <1>4, <2>1, <2>2
  <1>5. CASE EndCall(t) /\ to < from
    <2>1. /\ call'[t] \in Call /\ \A u \in Caller : u # t => call'[u] = call[u]
          /\ call'[t].stage = "returned"
      BY <1>5, CallStops
    <2>2. CallLeft(call'[t]) = 0
      BY <2>1, CallBounded
    <2> QED
      BY <1>1, <1>2, <1>5, <2>1, <2>2
  <1> QED
    BY <1>3, <1>4, <1>5 DEF CallMoves

LEMMA AheadTyped ==
  /\ \A step \in {"spinning", "stopping", "zeroing", "disabling", "closing", "closed"} :
       MainAhead(step) \in Nat
  /\ \A step \in TimerAt : TimerAhead(step) \in Nat
  /\ \A step \in {"waiting", "check", "unclock", "install"} : GainAhead(step) \in Nat
  /\ CallCost \in Nat
  <1>1. CallCost \in Nat
    BY ServosLeft, Numbers
  <1> QED
    BY <1>1 DEF MainAhead, TimerAhead, GainAhead, TimerAt

\* A thread whose call is over, or in none, is not inside set_torque_mode.
LEMMA Outside ==
  ASSUME NEW t \in Caller, call[t].op \notin {"on", "off"} \/ Finished(t)
  PROVE  ~Switching(t)
  BY DEF Switching, Finished, Raised, Transaction

CallbackMoves == \E step \in TimerAt : /\ Goto("timer", step)
                                       /\ CallMoves("timer", TimerAhead(pc["timer"]), TimerAhead(step))

LEMMA DisableBegins ==
  ASSUME BeginDisable
  PROVE  \E step \in {"zeroing", "disabling"} : Goto("timer", step) /\ Begins("timer")
  BY Numbers DEF BeginDisable, Begins, Continue, Op

LEMMA CallbackRunsDown == ASSUME IInv, Callback PROVE CallbackMoves
  <1>0. /\ CallCost \in Nat /\ "timer" \in Caller /\ Calls
    BY AheadTyped DEF Caller, IInv
  <1>1. CASE ReadDone
    <2>1. /\ pc["timer"] = "reading" /\ Finished("timer") /\ EndCall("timer") /\ UNCHANGED lock
      BY <1>1 DEF ReadDone, At, Shared, port
    <2>2. PICK step \in {"ramp_read", "read_failed", "idle"} : Goto("timer", step)
      BY <1>1 DEF ReadDone, Continue, EndCallback
    <2>3. TimerAhead(step) < TimerAhead(pc["timer"])
      BY <1>0, <2>1, <2>2 DEF TimerAhead
    <2> QED
      BY <1>0, <2>1, <2>2, <2>3, Outside DEF CallbackMoves, CallMoves, TimerAt
  <1>2. CASE AfterReadFailure
    <2>1. pc["timer"] = "read_failed" /\ UNCHANGED lock
      BY <1>2 DEF AfterReadFailure, At, Shared, port
    <2>2. call["timer"].op \notin {"on", "off"}
      BY <1>0, <2>1 DEF Calls, At, Caller
    <2>3. CASE BeginDisable
      <3>1. PICK step \in {"zeroing", "disabling"} : Goto("timer", step) /\ Begins("timer")
        BY <2>3, DisableBegins
      <3>2. TimerAhead(step) + CallCost < TimerAhead(pc["timer"])
        BY <1>0, <2>1, <3>1 DEF TimerAhead
      <3> QED
        BY <1>0, <2>1, <2>2, <3>1, <3>2, Outside DEF CallbackMoves, CallMoves, TimerAt
    <2>4. CASE EndCallback(FALSE) /\ UNCHANGED call
      <3>1. Goto("timer", "idle") /\ TimerAhead("idle") < TimerAhead(pc["timer"])
        BY <1>0, <2>1, <2>4 DEF EndCallback, TimerAhead
      <3> QED
        BY <1>0, <2>1, <2>2, <2>4, <3>1, Outside DEF CallbackMoves, CallMoves, TimerAt
    <2> QED
      BY <1>2, <2>3, <2>4 DEF AfterReadFailure
  <1>3. CASE ZeroDone
    <2>1. /\ pc["timer"] = "zeroing" /\ Finished("timer") /\ Begin("timer", "off", 0)
          /\ Goto("timer", "disabling") /\ UNCHANGED lock
      BY <1>3 DEF ZeroDone, At, Shared, port, Continue
    <2>2. Begins("timer")
      BY <2>1, Numbers DEF Begins, Op
    <2>3. TimerAhead("disabling") + CallCost < TimerAhead(pc["timer"])
      BY <1>0, <2>1 DEF TimerAhead
    <2> QED
      BY <1>0, <2>1, <2>2, <2>3, Outside DEF CallbackMoves, CallMoves, TimerAt
  <1>4. CASE DisableDone \/ WriteDone
    <2>1. /\ pc["timer"] \in {"disabling", "writing"} /\ Finished("timer") /\ EndCall("timer")
          /\ Goto("timer", "idle") /\ UNCHANGED lock
      BY <1>4 DEF DisableDone, WriteDone, EndCallback, At, Shared, port
    <2>2. TimerAhead("idle") < TimerAhead(pc["timer"])
      BY <1>0, <2>1 DEF TimerAhead
    <2> QED
      BY <1>0, <2>1, <2>2, Outside DEF CallbackMoves, CallMoves, TimerAt
  <1>5. CASE RampRead \/ RampStoreGain \/ RampStoreClock
    <2>1. /\ UNCHANGED <<lock, call>>
          /\ \/ pc["timer"] = "ramp_read" /\ Goto("timer", "ramp_gain")
             \/ pc["timer"] = "ramp_gain" /\ Goto("timer", "ramp_clock")
             \/ pc["timer"] = "ramp_clock" /\ Goto("timer", "apply")
      BY <1>5 DEF RampRead, RampStoreGain, RampStoreClock, At, Shared, port
    <2>2. call["timer"].op \notin {"on", "off"}
      BY <1>0, <2>1 DEF Calls, At, Caller
    <2>3. /\ TimerAhead("ramp_gain") < TimerAhead("ramp_read")
          /\ TimerAhead("ramp_clock") < TimerAhead("ramp_gain")
          /\ TimerAhead("apply") < TimerAhead("ramp_clock")
      BY <1>0 DEF TimerAhead
    <2> QED
      BY <1>0, <2>1, <2>2, <2>3, Outside DEF CallbackMoves, CallMoves, TimerAt
  <1>6. CASE Apply
    <2>1. pc["timer"] = "apply" /\ UNCHANGED lock
      BY <1>6 DEF Apply, At, Shared, port
    <2>2. call["timer"].op \notin {"on", "off"}
      BY <1>0, <2>1 DEF Calls, At, Caller
    <2>3. \/ Begin("timer", "on", 0) /\ Goto("timer", "enabling")
          \/ Goto("timer", "gate") /\ UNCHANGED call
      BY <1>6 DEF Apply
    <2>4. Begin("timer", "on", 0) => Begins("timer")
      BY Numbers DEF Begins, Op
    <2>5. /\ TimerAhead("enabling") + CallCost < TimerAhead(pc["timer"])
          /\ TimerAhead("gate") < TimerAhead(pc["timer"])
      BY <1>0, <2>1 DEF TimerAhead
    <2> QED
      BY <1>0, <2>1, <2>2, <2>3, <2>4, <2>5, Outside DEF CallbackMoves, CallMoves, TimerAt
  <1>7. CASE EnableDone
    <2>1. pc["timer"] = "enabling" /\ Finished("timer") /\ EndCall("timer") /\ UNCHANGED lock
      BY <1>7 DEF EnableDone, At, Shared, port
    <2>2. PICK step \in {"gate", "idle"} : Goto("timer", step)
      BY <1>7 DEF EnableDone, Continue, EndCallback
    <2>3. TimerAhead(step) < TimerAhead(pc["timer"])
      BY <1>0, <2>1, <2>2 DEF TimerAhead
    <2> QED
      BY <1>0, <2>1, <2>2, <2>3, Outside DEF CallbackMoves, CallMoves, TimerAt
  <1>8. CASE Gate
    <2>1. pc["timer"] = "gate" /\ UNCHANGED lock
      BY <1>8 DEF Gate, At, Shared, port
    <2>2. call["timer"].op \notin {"on", "off"}
      BY <1>0, <2>1 DEF Calls, At, Caller
    <2>3. CASE EndCallback(FALSE) /\ UNCHANGED call
      <3>1. Goto("timer", "idle") /\ TimerAhead("idle") < TimerAhead(pc["timer"])
        BY <1>0, <2>1, <2>3 DEF EndCallback, TimerAhead
      <3> QED
        BY <1>0, <2>1, <2>2, <2>3, <3>1, Outside DEF CallbackMoves, CallMoves, TimerAt
    <2>4. ASSUME NEW step \in {"zeroing", "disabling", "writing"}, Goto("timer", step), Begins("timer")
          PROVE  CallbackMoves
      <3>1. TimerAhead(step) + CallCost < TimerAhead(pc["timer"])
        BY <1>0, <2>1, <2>4 DEF TimerAhead
      <3> QED
        BY <1>0, <2>1, <2>2, <2>4, <3>1, Outside DEF CallbackMoves, CallMoves, TimerAt
    <2>5. CASE BeginDisable
      BY <2>4, <2>5, DisableBegins
    <2>6. CASE (\E level \in ComposedTorque(local.gain) : Begin("timer", "current", level))
               /\ Continue("writing")
      <3>1. ComposedTorque(local.gain) \subseteq Level
        BY Numbers DEF ComposedTorque, IInv, TypeOK
      <3>2. Begins("timer") /\ Goto("timer", "writing")
        BY <2>6, <3>1 DEF Begins, Op, Continue
      <3> QED
        BY <2>4, <3>2
    <2> QED
      BY <1>8, <2>3, <2>5, <2>6 DEF Gate
  <1> QED
    BY <1>1, <1>2, <1>3, <1>4, <1>5, <1>6, <1>7, <1>8 DEF Callback

\* The steps of main outside the driver, from the end of spin() to the closed port.
MainMovesOn ==
  \E step \in {"stopping", "zeroing", "disabling", "closing", "closed"} :
    Goto("main", step) /\ CallMoves("main", MainAhead(pc["main"]), MainAhead(step))

LEMMA MainRunsDown ==
  ASSUME IInv, SpinEnds \/ ShutDown \/ ShutDownZeroed \/ ShutDownDisabled \/ Close
  PROVE  MainMovesOn
  <1>0. /\ CallCost \in Nat /\ "main" \in Caller /\ Calls
    BY AheadTyped DEF Caller, IInv
  <1>1. CASE SpinEnds \/ Close
    <2>1. /\ UNCHANGED <<lock, call>>
          /\ \/ pc["main"] = "spinning" /\ Goto("main", "stopping")
             \/ pc["main"] = "closing" /\ Goto("main", "closed")
      BY <1>1 DEF SpinEnds, Close, At, MainOnly
    <2>2. call["main"].op \notin {"on", "off"}
      BY <1>0, <2>1 DEF Calls, At, Caller
    <2>3. /\ MainAhead("stopping") < MainAhead("spinning")
          /\ MainAhead("closed") < MainAhead("closing")
      BY <1>0 DEF MainAhead
    <2> QED
      BY <1>0, <2>1, <2>2, <2>3, Outside DEF MainMovesOn, CallMoves
  <1>2. CASE ShutDown
    <2>1. pc["main"] = "stopping" /\ UNCHANGED lock
      BY <1>2 DEF ShutDown, At, MainOnly
    <2>2. call["main"].op \notin {"on", "off"}
      BY <1>0, <2>1 DEF Calls, At, Caller
    <2>3. PICK step \in {"zeroing", "disabling"} : Goto("main", step) /\ Begins("main")
      BY <1>2, Numbers DEF ShutDown, Begins, Op
    <2>4. MainAhead(step) + CallCost < MainAhead(pc["main"])
      BY <1>0, <2>1, <2>3 DEF MainAhead
    <2> QED
      BY <1>0, <2>1, <2>2, <2>3, <2>4, Outside DEF MainMovesOn, CallMoves
  <1>3. CASE ShutDownZeroed
    <2>1. pc["main"] = "zeroing" /\ Finished("main") /\ UNCHANGED lock
      BY <1>3 DEF ShutDownZeroed, At, MainOnly
    <2>2. \/ EndCall("main") /\ Goto("main", "closing")
          \/ Begins("main") /\ Goto("main", "disabling")
      BY <1>3, Numbers DEF ShutDownZeroed, Begins, Op
    <2>3. /\ MainAhead("closing") < MainAhead(pc["main"])
          /\ MainAhead("disabling") + CallCost < MainAhead(pc["main"])
      BY <1>0, <2>1 DEF MainAhead
    <2> QED
      BY <1>0, <2>1, <2>2, <2>3, Outside DEF MainMovesOn, CallMoves
  <1>4. CASE ShutDownDisabled
    <2>1. /\ pc["main"] = "disabling" /\ Finished("main") /\ UNCHANGED lock
          /\ EndCall("main") /\ Goto("main", "closing")
      BY <1>4 DEF ShutDownDisabled, At, MainOnly
    <2>2. MainAhead("closing") < MainAhead(pc["main"])
      BY <1>0, <2>1 DEF MainAhead
    <2> QED
      BY <1>0, <2>1, <2>2, Outside DEF MainMovesOn, CallMoves
  <1> QED
    BY <1>1, <1>2, <1>3, <1>4

LEMMA StepsLeftTyped ==
  ASSUME IInv
  PROVE  /\ MainAhead(pc["main"]) \in Nat /\ TimerAhead(pc["timer"]) \in Nat
         /\ GainAhead(pc["gain"]) \in Nat
         /\ CallLeft(call["main"]) \in Nat /\ CallLeft(call["timer"]) \in Nat
         /\ StepsLeft \in Nat
  <1>1. /\ MainAhead(pc["main"]) \in Nat /\ TimerAhead(pc["timer"]) \in Nat
        /\ GainAhead(pc["gain"]) \in Nat
    BY AheadTyped DEF IInv, TypeOK, TimerAt
  <1>2. CallLeft(call["main"]) \in Nat /\ CallLeft(call["timer"]) \in Nat
    BY TypesStay, CallsTyped, CallBounded
  <1> QED
    BY <1>1, <1>2 DEF StepsLeft

\* A step of the threads' own: neither main nor the executor begins anything new.
LEMMA StepRunsDown ==
  ASSUME IInv, LockInv, Main \/ Timer \/ Gain \/ SpinEnds
  PROVE  LockInv' /\ StepsLeft' < StepsLeft
  <1>0. /\ IInv' /\ TypeOK /\ "main" \in Caller /\ "timer" \in Caller
        /\ DOMAIN pc = {"main", "timer", "gain"}
    BY StepKeepsInv, TypesStay DEF Next, IInv, Calls
  <1>1. /\ MainAhead(pc["main"]) \in Nat /\ MainAhead(pc'["main"]) \in Nat
        /\ TimerAhead(pc["timer"]) \in Nat /\ TimerAhead(pc'["timer"]) \in Nat
        /\ GainAhead(pc["gain"]) \in Nat /\ GainAhead(pc'["gain"]) \in Nat
        /\ CallLeft(call["main"]) \in Nat /\ CallLeft(call'["main"]) \in Nat
        /\ CallLeft(call["timer"]) \in Nat /\ CallLeft(call'["timer"]) \in Nat
    <2>1. /\ MainAhead(pc'["main"]) \in Nat /\ TimerAhead(pc'["timer"]) \in Nat
          /\ GainAhead(pc'["gain"]) \in Nat
      BY <1>0, AheadTyped DEF IInv, TypeOK, TimerAt
    <2>2. call'["main"] \in Call /\ call'["timer"] \in Call
      BY <1>0 DEF IInv, TypeOK, Call, Op, Stages
    <2> QED
      BY <1>0, <2>1, <2>2, StepsLeftTyped, CallBounded
  <1>2. ASSUME NEW t \in Caller, DriverStep(t)
        PROVE  LockInv' /\ StepsLeft' < StepsLeft
    <2>1. CallAdvances(t) /\ LockMoves(t) /\ UNCHANGED pc
      BY <1>0, <1>2, CallGoesOn DEF DriverStep
    <2>2. /\ CallLeft(call'[t]) < CallLeft(call[t])
          /\ \A u \in Caller : u # t => call'[u] = call[u]
      <3>1. CallLeft(call'[t]) < CallLeft(call[t])
        BY <1>0, <2>1, CallRunsDown
      <3> QED
        BY <2>1, <3>1 DEF CallAdvances, GoesOn
    <2>3. LockInv'
      BY <2>1, <2>2 DEF LockInv, LockMoves, Switching
    <2>4. \/ CallLeft(call'["main"]) < CallLeft(call["main"]) /\ call'["timer"] = call["timer"]
          \/ CallLeft(call'["timer"]) < CallLeft(call["timer"]) /\ call'["main"] = call["main"]
      BY <2>2 DEF Caller
    <2> QED
      BY <1>1, <2>1, <2>3, <2>4 DEF StepsLeft
  <1>3. CASE Callback
    <2>1. PICK step \in TimerAt :
            Goto("timer", step) /\ CallMoves("timer", TimerAhead(pc["timer"]), TimerAhead(step))
      BY <1>3, CallbackRunsDown DEF CallbackMoves
    <2>2. /\ pc'["timer"] = step /\ pc'["main"] = pc["main"] /\ pc'["gain"] = pc["gain"]
      BY <1>0, <2>1 DEF Goto
    <2>3. /\ LockInv' /\ call'["main"] = call["main"]
          /\ TimerAhead(step) + CallLeft(call'["timer"])
               < TimerAhead(pc["timer"]) + CallLeft(call["timer"])
      BY <1>0, <1>1, <2>1, <2>2, CallMovesOn, TypesStay
    <2> QED
      BY <1>1, <2>2, <2>3 DEF StepsLeft
  <1>4. CASE SpinEnds \/ ShutDown \/ ShutDownZeroed \/ ShutDownDisabled \/ Close
    <2>1. PICK step \in {"stopping", "zeroing", "disabling", "closing", "closed"} :
            Goto("main", step) /\ CallMoves("main", MainAhead(pc["main"]), MainAhead(step))
      BY <1>4, MainRunsDown DEF MainMovesOn
    <2>2. /\ pc'["main"] = step /\ pc'["timer"] = pc["timer"] /\ pc'["gain"] = pc["gain"]
      BY <1>0, <2>1 DEF Goto
    <2>3. /\ LockInv' /\ call'["timer"] = call["timer"]
          /\ MainAhead(step) + CallLeft(call'["main"])
               < MainAhead(pc["main"]) + CallLeft(call["main"])
      BY <1>0, <1>1, <2>1, <2>2, CallMovesOn, TypesStay
    <2> QED
      BY <1>1, <2>2, <2>3 DEF StepsLeft
  <1>5. CASE Gain
    <2>1. /\ UNCHANGED <<lock, call>>
          /\ \/ pc["gain"] = "check" /\ (Goto("gain", "unclock") \/ Goto("gain", "install"))
             \/ pc["gain"] = "unclock" /\ Goto("gain", "install")
             \/ pc["gain"] = "install" /\ Goto("gain", "waiting")
      BY <1>5 DEF Gain, CheckTarget, ClearClock, InstallTarget, At, GainOnly, Shared, port
    <2>2. GainAhead(pc'["gain"]) < GainAhead(pc["gain"])
      BY <1>0, <2>1 DEF Goto, GainAhead
    <2>3. pc'["main"] = pc["main"] /\ pc'["timer"] = pc["timer"]
      BY <1>0, <2>1 DEF Goto
    <2>4. LockInv'
      BY <2>1 DEF LockInv, Switching
    <2> QED
      BY <1>1, <2>1, <2>2, <2>3, <2>4 DEF StepsLeft
  <1> QED
    BY <1>0, <1>2, <1>3, <1>4, <1>5 DEF Main, Timer

LEMMA LockStep == IInv /\ LockInv /\ [Next]_vars => LockInv'
  <1> SUFFICES ASSUME IInv, LockInv, [Next]_vars PROVE LockInv'
    OBVIOUS
  <1>1. CASE TimerFires
    <2>1. UNCHANGED lock /\ Begins("timer") /\ pc["timer"] = "idle"
      BY <1>1, Numbers DEF TimerFires, Begins, Op, Shared, port, At
    <2>2. ~Switching("timer")
      BY <2>1, TypesStay, Outside DEF IInv, Calls, At
    <2> QED
      BY <2>1, <2>2, TypesStay, LockKept
  <1>2. CASE ReceiveTarget \/ Terminated \/ UNCHANGED vars
    <2>1. UNCHANGED <<lock, call>>
      BY <1>2 DEF ReceiveTarget, GainOnly, Shared, Terminated, port, vars
    <2> QED
      BY <2>1 DEF LockInv, Switching
  <1> QED
    BY <1>1, <1>2, StepRunsDown DEF Next

\* Before set_torque_mode, for a lock that is not free.
Waits(t) == call[t].op \in {"on", "off"} /\ call[t].stage = "start" /\ lock # "free"

(* The driver's lock is held exactly by the thread inside set_torque_mode,   *)
(* whatever transaction of it failed, also on a port already closed: two     *)
(* threads are never in it at once, and who waits for it waits for one that  *)
(* itself waits for nobody (set_torque_mode, _write_1_byte_with_retry).      *)
THEOREM LockExcludes ==
  Spec => [](/\ ~(Switching("main") /\ Switching("timer"))
             /\ \A t \in Caller : lock = t <=> Switching(t)
             /\ \A t \in Caller : Waits(t) => \E u \in Caller \ {t} : Switching(u) /\ ~Waits(u))
  <1>1. Init => LockInv
    BY DEF Init, LockInv, NoCall, Switching, CallFits, Caller
  <1>2. IInv /\ LockInv =>
          /\ ~(Switching("main") /\ Switching("timer"))
          /\ \A t \in Caller : lock = t <=> Switching(t)
          /\ \A t \in Caller : Waits(t) => \E u \in Caller \ {t} : Switching(u) /\ ~Waits(u)
    <2> SUFFICES ASSUME IInv, LockInv
                 PROVE  /\ ~(Switching("main") /\ Switching("timer"))
                        /\ \A t \in Caller : lock = t <=> Switching(t)
                        /\ \A t \in Caller :
                             Waits(t) => \E u \in Caller \ {t} : Switching(u) /\ ~Waits(u)
      OBVIOUS
    <2>1. ~(Switching("main") /\ Switching("timer"))
      BY DEF LockInv, Caller
    <2>2. ASSUME NEW t \in Caller, Waits(t)
          PROVE  \E u \in Caller \ {t} : Switching(u) /\ ~Waits(u)
      <3>1. ~Switching(t) /\ lock \in Caller
        BY <2>2 DEF Waits, Switching, Transaction, IInv, TypeOK
      <3>2. Switching(lock) /\ ~Waits(lock) /\ lock # t
        BY <3>1 DEF LockInv, Waits, Switching, Transaction
      <3> QED
        BY <3>1, <3>2
    <2> QED
      BY <2>1, <2>2 DEF LockInv
  <1> QED
    BY Inductive, <1>1, <1>2, LockStep, PTL DEF Spec

(* Once spin() has ended, every step of main, of the callback in flight and  *)
(* of the gain callback uses up one of finitely many, for every number of    *)
(* servos and attempts: shut_down cannot be held up by retries, by failures  *)
(* or by a callback that starts over (shut_down, control_loop_callback).     *)
THEOREM ShutDownRunsDown ==
  Spec => /\ [](StepsLeft \in Nat)
          /\ [][~At("main", "spinning") => StepsLeft' < StepsLeft]_vars
  <1>1. Init => LockInv
    BY DEF Init, LockInv, NoCall, Switching, CallFits, Caller
  <1>2. ASSUME IInv, LockInv, [Next]_vars
        PROVE  [~At("main", "spinning") => StepsLeft' < StepsLeft]_vars
    <2>1. CASE TimerFires \/ ReceiveTarget
      BY <2>1 DEF TimerFires, ReceiveTarget
    <2>2. CASE Main \/ Timer \/ Gain \/ SpinEnds
      BY <1>2, <2>2, StepRunsDown
    <2>3. CASE Terminated \/ UNCHANGED vars
      BY <2>3 DEF Terminated
    <2> QED
      BY <1>2, <2>1, <2>2, <2>3 DEF Next
  <1>3. IInv => StepsLeft \in Nat
    BY StepsLeftTyped
  <1> QED
    BY Inductive, <1>1, <1>2, <1>3, LockStep, PTL DEF Spec
=============================================================================
