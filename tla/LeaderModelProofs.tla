------------------------- MODULE LeaderModelProofs --------------------------
EXTENDS LeaderConfig, LeaderLaws, FeedbackFeed, SequenceTheorems, TLAPS

(***************************************************************************)
(* The leader's coordinates, for every number of joints, home and raw      *)
(* frame, and every contract load_leader_model lets through.               *)
(***************************************************************************)

\* The fields the coordinate changes use hold numbers, also in a defective contract.
Numeric(c) ==
  /\ c.offsets \in [Joint -> Int] /\ c.signs \in [Joint -> Int] /\ c.gain \in [Joint -> Int]
  /\ c.open \in Int

\* A frame is what the last read found, expanded with the contract that was accepted.
FrameInv ==
  /\ launched \in {"no", "refused", "running"}
  /\ physical \in [Slot -> Int] /\ moving \in [Slot -> Int]
  /\ launched = "running" => Acceptable(contract)
  /\ frame # <<>> => launched = "running" /\ frame = Expanded(contract, physical, moving)

\* The motors' torques are those of the last command, or none was given.
TorqueInv ==
  /\ asked \in [Slot -> Int]
  /\ \/ asked = Zero /\ driven = Zero /\ reported = [j \in Joint |-> 0]
     \/ /\ launched = "running"
        /\ driven = GoalCurrents(contract, asked)
        /\ reported = CommandedTorque(contract, driven)

ConfigInv == Numeric(contract) /\ FrameInv /\ TorqueInv

LEMMA ConfigConstants ==
  /\ Dof \in Nat /\ Dof > 0 /\ Home \in [Joint -> Int] /\ GripperSign \in Sign
  /\ RawFrame \subseteq [Slot -> Int] /\ TorqueFrame \subseteq [Slot -> Int]
  /\ Grain \in [Slot -> Nat \ {0}] /\ CurrentLimit \in Nat
  /\ Joint \subseteq Slot /\ Dof \in Slot /\ Dof \notin Joint
  BY ConfigAssumption DEF Joint, Slot

\* load_leader_model: a sign is 1 or -1, so dividing by it is multiplying by it.
LEMMA SignsAreSigns ==
  ASSUME NEW c, Acceptable(c), NEW j \in Joint
  PROVE  RawSign(c, j) \in Sign /\ c.signs[j] \in Sign /\ ModelSign(c, j) \in Sign
  BY DEF Acceptable, RawSign, ModelSign, Sign

LEMMA GainsAreInts ==
  ASSUME NEW c, Numeric(c), NEW s \in Slot PROVE Gain(c, s) \in Int
  BY DEF Numeric, Gain

LEMMA ExpandedFrame ==
  ASSUME NEW c, Numeric(c), Acceptable(c),
         NEW position \in [Slot -> Int], NEW velocity \in [Slot -> Int]
  PROVE  LET f == Expanded(c, position, velocity) IN
         /\ f.position \in [Slot -> Int] /\ f.velocity \in [Slot -> Int]
         /\ \A s \in Slot \ OnBus(c) :
              /\ f.velocity[s] = 0
              /\ s \in Joint => f.position[s] = JointOffset(c, s) + Home[s] * ModelSign(c, s)
              /\ s = Dof => f.position[s] = c.open
         /\ \A s \in Slot : s \in OnBus(c) => f.velocity[s] = velocity[s]
  <1>1. ASSUME NEW s \in Slot PROVE Synthetic(c)[s] \in Int
    <2>1. CASE s \in Joint
      <3>1. c.offsets[s] \in Int /\ Home[s] \in Int /\ ModelSign(c, s) \in {-1, 1}
        BY <2>1, ConfigConstants, SignsAreSigns DEF Numeric, Sign
      <3> QED
        BY <2>1, <3>1 DEF Synthetic, JointOffset
    <2>2. CASE s \notin Joint
      BY <2>2 DEF Synthetic, Numeric
    <2> QED
      BY <2>1, <2>2
  <1> QED
    BY <1>1, ConfigConstants DEF Expanded, Synthetic

LEMMA ContractsAreNumeric ==
  ASSUME NEW c \in Sound, NEW d \in {c} \union Defects(c) PROVE Numeric(d)
  <1>1. /\ c.offsets \in [Joint -> Int] /\ c.signs \in [Joint -> Int] /\ c.gain \in [Joint -> Int]
        /\ c.open \in Int
    BY ConfigConstants DEF Sound, Sign, Joint
  <1>2. CASE d \in {c} \union {[c EXCEPT !.side = "right"], [c EXCEPT !.start = 5], [c EXCEPT !.drop = 0],
                            [c EXCEPT !.closed = c.open], [c EXCEPT !.null = -1]}
    BY <1>1, <1>2 DEF Sound, Numeric
  <1>3. CASE d \in {[c EXCEPT !.connected = q] : q \in SeqOn(-1..Dof) \ {<<>>}}
    BY <1>1, <1>3 DEF Sound, Numeric
  <1>4. CASE d \in {[c EXCEPT !.flips = q] : q \in SeqOn(-1..Dof)}
    BY <1>1, <1>4 DEF Sound, Numeric
  <1>5. CASE d \in {[c EXCEPT !.signs[j] = 0] : j \in Joint}
    <2>1. PICK j \in Joint : d = [c EXCEPT !.signs[j] = 0]
      BY <1>5
    <2>2. d.offsets = c.offsets /\ d.gain = c.gain /\ d.open = c.open
          /\ d.signs = [c.signs EXCEPT ![j] = 0]
      BY <2>1 DEF Sound
    <2> QED
      BY <1>1, <2>2 DEF Numeric
  <1>6. CASE d \in {[c EXCEPT !.gain[j] = g] : j \in Joint, g \in {-1, 0, 3}}
    <2>1. PICK j \in Joint, g \in {-1, 0, 3} : d = [c EXCEPT !.gain[j] = g]
      BY <1>6
    <2>2. d.offsets = c.offsets /\ d.signs = c.signs /\ d.open = c.open
          /\ d.gain = [c.gain EXCEPT ![j] = g]
      BY <2>1 DEF Sound
    <2> QED
      BY <1>1, <2>2 DEF Numeric
  <1> QED
    BY <1>2, <1>3, <1>4, <1>5, <1>6 DEF Defects

LEMMA ConfigInitInv == ConfigInit => ConfigInv
  <1> SUFFICES ASSUME ConfigInit PROVE ConfigInv
    OBVIOUS
  <1>1. Numeric(contract)
    BY ContractsAreNumeric DEF ConfigInit
  <1>2. FrameInv /\ TorqueInv
    BY DEF ConfigInit, FrameInv, TorqueInv, Zero
  <1> QED
    BY <1>1, <1>2 DEF ConfigInv

LEMMA ConfigStep == ConfigInv /\ [ConfigNext]_configVars => ConfigInv'
  <1> SUFFICES ASSUME ConfigInv, [ConfigNext]_configVars PROVE ConfigInv'
    OBVIOUS
  <1> USE DEF ConfigInv
  <1>1. CASE Launch
    <2>1. /\ frame = <<>> /\ launched = "no"
          /\ UNCHANGED <<contract, physical, moving, frame, asked, driven, reported>>
      BY <1>1 DEF Launch, FrameInv
    <2>2. FrameInv'
      BY <1>1, <2>1 DEF Launch, FrameInv
    <2>3. Numeric(contract)' /\ TorqueInv'
      BY <2>1 DEF Numeric, TorqueInv
    <2> QED
      BY <2>2, <2>3
  <1>2. ASSUME NEW position \in RawFrame, NEW velocity \in RawFrame, Read(position, velocity)
        PROVE  ConfigInv'
    <2>1. FrameInv'
      BY <1>2, ConfigConstants DEF Read, FrameInv
    <2>2. Numeric(contract)' /\ TorqueInv'
      BY <1>2 DEF Read, Numeric, TorqueInv
    <2> QED
      BY <2>1, <2>2
  <1>3. ASSUME NEW torque \in TorqueFrame, Command(torque) PROVE ConfigInv'
    <2>1. TorqueInv'
      BY <1>3, ConfigConstants DEF Command, TorqueInv
    <2>2. Numeric(contract)' /\ FrameInv'
      BY <1>3 DEF Command, Numeric, FrameInv
    <2> QED
      BY <2>1, <2>2
  <1>4. CASE UNCHANGED configVars
    BY <1>4 DEF configVars, Numeric, FrameInv, TorqueInv
  <1> QED
    BY <1>1, <1>2, <1>3, <1>4 DEF ConfigNext

LEMMA InvCalibrationsAgree == ConfigInv => CalibrationsAgree
  <1> SUFFICES ASSUME ConfigInv, frame # <<>>
               PROVE  ModelPosition(contract, frame) = DfcToModel(contract, DfcPosition(contract, frame))
    BY DEF CalibrationsAgree
  <1>1. ASSUME NEW j \in Joint
        PROVE  ModelSign(contract, j) * (frame.position[j] - JointOffset(contract, j))
                 = contract.signs[j] * DfcPosition(contract, frame)[j]
    <2> DEFINE p == frame.position[j]
               o == contract.offsets[j]
    <2>1. p \in Int /\ o \in Int
      <3>1. /\ Numeric(contract) /\ Acceptable(contract) /\ frame = Expanded(contract, physical, moving)
            /\ physical \in [Slot -> Int] /\ moving \in [Slot -> Int]
        BY DEF ConfigInv, FrameInv
      <3>2. frame.position \in [Slot -> Int] /\ j \in Slot
        BY <3>1, ExpandedFrame, ConfigConstants
      <3> QED
        BY <3>1, <3>2 DEF Numeric
    <2>2. RawSign(contract, j) \in {-1, 1} /\ contract.signs[j] \in {-1, 1}
      BY SignsAreSigns DEF ConfigInv, FrameInv, Sign
    <2>3. /\ ModelSign(contract, j) = RawSign(contract, j) * contract.signs[j]
          /\ DfcPosition(contract, frame)[j] = RawSign(contract, j) * (p + o)
          /\ JointOffset(contract, j) = -o
      BY DEF ModelSign, DfcPosition, JointOffset
    <2> HIDE DEF p, o
    <2> QED
      BY <2>1, <2>2, <2>3 DEF p
  <1> QED
    BY <1>1 DEF ModelPosition, DfcToModel

LEMMA InvAbsentJointsRest == ConfigInv => AbsentJointsRest
  <1> SUFFICES ASSUME ConfigInv, frame # <<>>, NEW s \in Slot \ OnBus(contract)
               PROVE  /\ driven[s] = 0 /\ frame.velocity[s] = 0
                      /\ s \in Joint => ModelPosition(contract, frame)[s] = Home[s]
                      /\ s = Dof => GripperPosition(frame) = contract.open * GripperSign
    BY DEF AbsentJointsRest
  <1>1. /\ frame.velocity[s] = 0
        /\ s \in Joint => frame.position[s] = JointOffset(contract, s) + Home[s] * ModelSign(contract, s)
        /\ s = Dof => frame.position[s] = contract.open
    BY ExpandedFrame DEF ConfigInv, FrameInv
  <1>2. driven[s] = 0
    BY DEF ConfigInv, TorqueInv, GoalCurrents, Zero
  <1>3. ASSUME s \in Joint PROVE ModelPosition(contract, frame)[s] = Home[s]
    <2>1. JointOffset(contract, s) \in Int /\ Home[s] \in Int /\ ModelSign(contract, s) \in {-1, 1}
      BY <1>3, ConfigConstants, SignsAreSigns DEF ConfigInv, FrameInv, Numeric, JointOffset, Sign
    <2>2. ModelPosition(contract, frame)[s]
            = ModelSign(contract, s) * (frame.position[s] - JointOffset(contract, s))
      BY <1>3 DEF ModelPosition
    <2> QED
      BY <1>1, <1>3, <2>1, <2>2
  <1> QED
    BY <1>1, <1>2, <1>3 DEF GripperPosition

\* An amount of torque in whole counts: none is added, and less than one is lost.
LEMMA WholeCounts ==
  ASSUME NEW x \in Nat, NEW g \in Nat \ {0}, NEW most \in Nat, NEW n,
         n = IF x \div g > most THEN most ELSE x \div g
  PROVE  n \in Nat /\ g * n \in Nat /\ g * n <= x /\ (x - g * n < g \/ n = most)
  <1> DEFINE q == x \div g
             r == x % g
  <1>1. q \in Nat /\ r \in 0..(g - 1) /\ x = g * q + r
    OBVIOUS
  <1> HIDE DEF q, r
  <1>2. n \in Nat /\ n <= q /\ (n = q \/ n = most)
    BY <1>1 DEF q
  <1>3. g * (q - n) \in Nat /\ g * q \in Nat /\ g * n \in Nat /\ g * (q - n) = g * q - g * n
    <2>1. q - n \in Nat /\ g \in Nat
      BY <1>1, <1>2
    <2> QED
      BY <1>1, <1>2, <2>1
  <1> QED
    BY <1>1, <1>2, <1>3

\* set_current: a torque towards zero, by less than a count unless it is clipped.
LEMMA Quantized ==
  ASSUME NEW s \in Slot, NEW torque \in Int
  PROVE  LET counts == GoalCurrent(s, torque)
             given  == Grain[s] * counts
         IN /\ counts \in Int /\ given \in Int
            /\ \/ 0 <= given /\ given <= torque
               \/ torque <= given /\ given <= 0
            /\ \/ torque - given < Grain[s] /\ torque - given > -Grain[s]
               \/ given \in {Grain[s] * CurrentLimit, -(Grain[s] * CurrentLimit)}
  <1> DEFINE x == IF torque < 0 THEN -torque ELSE torque
             g == Grain[s]
             n == IF x \div g > CurrentLimit THEN CurrentLimit ELSE x \div g
  <1>1. x \in Nat /\ g \in Nat \ {0} /\ CurrentLimit \in Nat
    BY ConfigConstants
  <1>2. GoalCurrent(s, torque) = IF torque < 0 THEN -n ELSE n
    BY DEF GoalCurrent
  <1>3. torque = (IF torque < 0 THEN -x ELSE x)
    OBVIOUS
  <1> HIDE DEF x, g
  <1>4. /\ n \in Nat /\ g * n \in Nat /\ g * n <= x
        /\ x - g * n < g \/ n = CurrentLimit
    BY <1>1, WholeCounts
  <1> HIDE DEF n
  <1>5. g * (-n) = -(g * n)
    BY <1>1, <1>4
  <1> DEFINE counts == GoalCurrent(s, torque)
  <1>6. CASE torque < 0
    <2>1. counts = -n /\ torque = -x
      BY <1>2, <1>3, <1>6
    <2>2. counts \in Int /\ g * counts = -(g * n)
      BY <1>4, <1>5, <2>1
    <2> QED
      BY <1>1, <1>4, <2>1, <2>2 DEF g
  <1>7. CASE ~(torque < 0)
    <2>1. counts = n /\ torque = x
      BY <1>2, <1>3, <1>7
    <2> QED
      BY <1>1, <1>4, <2>1 DEF g
  <1> QED
    BY <1>6, <1>7

LEMMA ScalesAreInts ==
  ASSUME NEW c, Numeric(c), Acceptable(c), NEW s \in Slot
  PROVE  Gain(c, s) \in Int /\ MotorSign(c, s) \in {-1, 1}
  BY GainsAreInts, SignsAreSigns, ConfigConstants DEF MotorSign, Sign

LEMMA InvMotorsDoTheWork == ConfigInv => MotorsDoTheWork
  <1> SUFFICES ASSUME ConfigInv, frame # <<>>, NEW j \in Joint \intersect OnBus(contract)
               PROVE  LET scaled == Gain(contract, j) * asked[j]
                          short  == scaled - reported[j]
                      IN /\ Grain[j] * driven[j] * moving[j]
                              = reported[j] * ModelVelocity(contract, frame)[j]
                         /\ reported[j] \in 0..scaled \/ reported[j] \in scaled..0
                         /\ \/ short < Grain[j] /\ short > -Grain[j]
                            \/ reported[j] \in {Grain[j] * CurrentLimit, -(Grain[j] * CurrentLimit)}
    BY DEF MotorsDoTheWork
  <1> DEFINE k == Gain(contract, j) * asked[j]
             m == ModelSign(contract, j)
             v == moving[j]
             d == Grain[j] * driven[j]
             w == reported[j]
             most == Grain[j] * CurrentLimit
  <1>1. /\ j \in Slot /\ asked[j] \in Int /\ k \in Int /\ v \in Int
        /\ Grain[j] \in Nat \ {0} /\ most \in Nat
    <2>1. Gain(contract, j) \in Int /\ j \in Slot /\ asked[j] \in Int /\ v \in Int
      BY ConfigConstants, GainsAreInts DEF ConfigInv, FrameInv, TorqueInv
    <2>2. Grain[j] \in Nat \ {0} /\ CurrentLimit \in Nat
      BY <2>1, ConfigConstants
    <2> QED
      BY <2>1, <2>2
  <1>2. m \in {-1, 1}
    BY SignsAreSigns DEF ConfigInv, FrameInv, Sign
  <1>3. ModelVelocity(contract, frame)[j] = m * v
    BY <1>1, ExpandedFrame DEF ConfigInv, FrameInv, ModelVelocity
  <1>4. /\ d \in Int /\ w = d * m
        /\ (0 <= d /\ d <= k * m) \/ (k * m <= d /\ d <= 0)
        /\ (k * m - d < Grain[j] /\ k * m - d > -Grain[j]) \/ d \in {most, -most}
    <2>1. CASE asked = Zero /\ driven = Zero /\ reported = [i \in Joint |-> 0]
      <3>1. k = 0 /\ d = 0 /\ w = 0
        <4>1. asked[j] = 0 /\ driven[j] = 0 /\ reported[j] = 0
          BY <1>1, <2>1 DEF Zero
        <4>2. Gain(contract, j) \in Int /\ Grain[j] \in Int
          BY <1>1, GainsAreInts DEF ConfigInv
        <4> QED
          BY <4>1, <4>2
      <3> HIDE DEF k, d, w, m
      <3> QED
        BY <1>1, <1>2, <3>1
    <2>2. CASE ~(asked = Zero /\ driven = Zero /\ reported = [i \in Joint |-> 0])
      <3>1. driven = GoalCurrents(contract, asked) /\ reported = CommandedTorque(contract, driven)
        BY <2>2 DEF ConfigInv, TorqueInv
      <3>2. MotorSign(contract, j) = m
        BY DEF MotorSign
      <3>3. driven[j] = GoalCurrent(j, k * m) /\ w = d * m
        BY <1>1, <3>1, <3>2 DEF GoalCurrents, CommandedTorque
      <3>4. k * m \in Int
        BY <1>1, <1>2
      <3> HIDE DEF k, m, w
      <3> QED
        BY <1>1, <3>3, <3>4, Quantized
    <2> QED
      BY <2>1, <2>2
  <1> HIDE DEF k, m, v, d, w, most
  <1>5. d * v = w * (m * v)
    BY <1>1, <1>2, <1>4
  <1>6. w \in Int /\ (w \in 0..k \/ w \in k..0)
    BY <1>1, <1>2, <1>4
  <1>7. (k - w < Grain[j] /\ k - w > -Grain[j]) \/ w \in {most, -most}
    BY <1>1, <1>2, <1>4
  <1> QED
    BY <1>3, <1>5, <1>6, <1>7 DEF k, v, d, w, most

LEMMA InvConfigTypeOK == ConfigInv => ConfigTypeOK
  <1> SUFFICES ASSUME ConfigInv PROVE ConfigTypeOK
    OBVIOUS
  <1>1. ASSUME frame # <<>> PROVE frame \in [position : [Slot -> Int], velocity : [Slot -> Int]]
    <2>1. /\ frame = Expanded(contract, physical, moving) /\ Acceptable(contract)
          /\ physical \in [Slot -> Int] /\ moving \in [Slot -> Int] /\ Numeric(contract)
      BY <1>1 DEF ConfigInv, FrameInv
    <2>2. frame.position \in [Slot -> Int] /\ frame.velocity \in [Slot -> Int]
      BY <2>1, ExpandedFrame
    <2>3. frame = [position |-> frame.position, velocity |-> frame.velocity]
      BY <2>1 DEF Expanded
    <2> QED
      BY <2>2, <2>3
  <1>2. driven \in [Slot -> Int] /\ reported \in [Joint -> Int] /\ asked \in [Slot -> Int]
    <2>1. CASE asked = Zero /\ driven = Zero /\ reported = [j \in Joint |-> 0]
      BY <2>1 DEF Zero
    <2>2. CASE ~(asked = Zero /\ driven = Zero /\ reported = [j \in Joint |-> 0])
      <3>1. /\ driven = GoalCurrents(contract, asked) /\ Acceptable(contract) /\ Numeric(contract)
            /\ reported = CommandedTorque(contract, driven)
            /\ asked \in [Slot -> Int]
        BY <2>2 DEF ConfigInv, FrameInv, TorqueInv
      <3>2. ASSUME NEW s \in Slot
            PROVE  driven[s] \in Int /\ Grain[s] * driven[s] * MotorSign(contract, s) \in Int
        <4>1. Gain(contract, s) \in Int /\ MotorSign(contract, s) \in {-1, 1} /\ asked[s] \in Int
          BY <3>1, ScalesAreInts
        <4>2. Gain(contract, s) * asked[s] * MotorSign(contract, s) \in Int
          BY <4>1
        <4>3. driven[s] \in Int
          BY <3>1, <4>2, Quantized DEF GoalCurrents
        <4>4. Grain[s] \in Int
          BY ConfigConstants
        <4> QED
          BY <4>1, <4>3, <4>4
      <3>3. driven \in [Slot -> Int]
        BY <3>1, <3>2 DEF GoalCurrents
      <3>4. reported \in [Joint -> Int]
        BY <3>1, <3>2, ConfigConstants DEF CommandedTorque
      <3> QED
        BY <3>1, <3>3, <3>4
    <2> QED
      BY <2>1, <2>2
  <1> QED
    BY <1>1, <1>2 DEF ConfigInv, FrameInv, ConfigTypeOK

(* A frame is always the expansion of what the last read found, and the      *)
(* torques always those of the last command, under an accepted contract.     *)
LEMMA ConfigInductive == ConfigSpec => []ConfigInv
  BY ConfigInitInv, ConfigStep, PTL DEF ConfigSpec

(* Frames and torques have every slot of the model, whichever joints are on  *)
(* the bus and whatever the contract's numbers (expand_hardware_state,       *)
(* set_leader_joint_torque).                                                 *)
THEOREM ConfigIsTyped == ConfigSpec => []ConfigTypeOK
  BY ConfigInductive, InvConfigTypeOK, PTL

(* DFC and FACTR agree where the leader is, for every accepted contract.     *)
THEOREM Calibrated == ConfigSpec => []CalibrationsAgree
  BY ConfigInductive, InvCalibrationsAgree, PTL

(* What is not on the bus is at home, still, and sent nothing.               *)
THEOREM AbsentRest == ConfigSpec => []AbsentJointsRest
  BY ConfigInductive, InvAbsentJointsRest, PTL

(* What the leader reports is the work its motors do, and at most what the   *)
(* model asked for, whatever signs, gains, clip and counts of current are set.*)
THEOREM WorkIsDone == ConfigSpec => []MotorsDoTheWork
  BY ConfigInductive, InvMotorsDoTheWork, PTL
-----------------------------------------------------------------------------
(***************************************************************************)
(* The control laws, for every turn, limit, spring and set of speeds: the  *)
(* null-space spring always pulls the short way round.                     *)
(***************************************************************************)

Iteration ==
  [angle : Physical, goal : Int, trigger : Triggers, speed : Int, null : Int, limit : Int,
   friction : Int, spring : Int, tracked : Int]

LawsTyped ==
  /\ branch \in (-MaxBranch)..MaxBranch /\ target \in Targets /\ ditherUp \in BOOLEAN
  /\ iteration \in Iteration

LawsInv == LawsTyped /\ PullsTheShortWay

LEMMA LawsConstants ==
  /\ Turn \in Nat /\ Turn > 0 /\ HalfTurn \in Nat /\ MaxBranch \in Nat /\ SpringMax \in Nat
  /\ LimitMin \in Int /\ LimitMax \in Int /\ Open \in Int /\ Closed \in Int /\ Open \in Triggers
  /\ Triggers \subseteq Int /\ Speeds \subseteq Int /\ Gravities \subseteq Int
  /\ Targets \subseteq Int /\ 0 \in Physical
  BY LawsAssumption DEF HalfTurn, Physical

\* Whole turns do not change what is left of an angle.
LEMMA BranchIsNoError ==
  ASSUME NEW x \in Int, NEW k \in Int, NEW T \in Nat, T > 0, (x + k * T) % T = 0
  PROVE  x % T = 0
  <1>1. PICK q \in Int : x + k * T = q * T
    BY k * T \in Int
  <1>2. (q - k) * T = q * T - k * T /\ k * T \in Int /\ q * T \in Int
    OBVIOUS
  <1>3. x = (q - k) * T
    BY <1>1, <1>2
  <1>4. ((q - k) * T) % T = 0
    BY q - k \in Int
  <1> QED
    BY <1>3, <1>4

\* The terms are torques.
LEMMA TermsTyped ==
  ASSUME NEW q \in Int, NEW error \in Int, NEW trigger \in Triggers, NEW speed \in Int,
         NEW gravity \in Int
  PROVE  /\ NullObjective(error, speed) \in Int /\ Barrier(q, speed) \in Int
         /\ Friction(speed, gravity) \in Int /\ Spring(trigger, speed) \in Int
         /\ Feedback(gravity, speed) \in Int
  <1>1. \A x \in Int : Abs(x) \in Int
    BY DEF Abs
  <1>2. \A x, low, high \in Int : Clamp(x, low, high) \in Int
    BY DEF Clamp
  <1>3. Spring(trigger, speed) \in Int
    <2> DEFINE closure == Clamp(ClosingDirection * (trigger - Open), 0, Abs(Closed - Open))
    <2>1. ClosingDirection \in {1, -1} /\ trigger \in Int
      BY LawsConstants DEF ClosingDirection
    <2>2. closure \in Int
      <3>1. ClosingDirection * (trigger - Open) \in Int /\ Abs(Closed - Open) \in Int
        BY <1>1, <2>1, LawsConstants
      <3> QED
        BY <1>2, <3>1
    <2> HIDE DEF closure
    <2>3. Clamp(-ClosingDirection * closure - speed, -SpringMax, SpringMax) \in Int
      BY <1>2, <2>1, <2>2, LawsConstants
    <2>4. Spring(trigger, speed) = IF closure = 0 THEN 0
            ELSE Clamp(-ClosingDirection * closure - speed, -SpringMax, SpringMax)
      BY DEF Spring, closure
    <2> QED
      BY <2>3, <2>4
  <1> QED
    BY <1>1, <1>3, LawsConstants DEF NullObjective, Barrier, Friction, Feedback

LEMMA LawsStarts == LawsInit => LawsInv
  <1> SUFFICES ASSUME LawsInit PROVE LawsInv
    OBVIOUS
  <1>1. target \in Targets
    BY DEF LawsInit
  <1>2. LawsTyped
    BY <1>1, LawsConstants DEF LawsInit, LawsTyped, Iteration
  <1>3. iteration.null = 0 /\ iteration.speed = 0 /\ iteration.angle = 0 /\ iteration.goal = 0
    BY DEF LawsInit
  <1>4. PullsTheShortWay
    BY <1>3, LawsConstants DEF PullsTheShortWay, Abs
  <1> QED
    BY <1>2, <1>4 DEF LawsInv

\* The pull is the negated periodic error of the angle read, on whatever branch.
LEMMA LawsTickKeeps ==
  ASSUME LawsInv, NEW angle \in Physical, NEW trigger \in Triggers, NEW speed \in Speeds,
         NEW gravity \in Gravities, LawsTick(angle, trigger, speed, gravity)
  PROVE  LawsInv'
  <1> DEFINE q == angle + branch * Turn
  <1>1. PICK e \in PeriodicErrors(q, target) :
          iteration' = [angle |-> angle, goal |-> target, trigger |-> trigger, speed |-> speed,
                        null |-> NullObjective(e, speed), limit |-> Barrier(q, speed),
                        friction |-> Friction(speed, gravity), spring |-> Spring(trigger, speed),
                        tracked |-> Feedback(gravity, speed)]
    BY DEF LawsTick
  <1>2. /\ angle \in Int /\ target \in Int /\ branch \in Int /\ speed \in Int /\ gravity \in Int
        /\ target \in Targets /\ branch * Turn \in Int /\ q \in Int
    BY LawsConstants DEF LawsInv, LawsTyped, Physical
  <1>3. e \in Int /\ -HalfTurn <= e /\ e <= HalfTurn /\ (q - target - e) % Turn = 0
    BY <1>2, LawsConstants DEF PeriodicErrors
  <1>4. (angle - e - target) % Turn = 0
    <2>1. q - target - e = (angle - e - target) + branch * Turn
      BY <1>2, <1>3
    <2>2. angle - e - target \in Int
      BY <1>2, <1>3
    <2> HIDE DEF q
    <2> QED
      BY <1>2, <1>3, <2>1, <2>2, BranchIsNoError, LawsConstants
  <1> HIDE DEF q
  <1>5. LawsTyped'
    <2>1. iteration' \in Iteration
      BY <1>1, <1>2, <1>3, TermsTyped DEF Iteration
    <2>2. ditherUp' \in BOOLEAN /\ UNCHANGED <<branch, target>>
      BY DEF LawsTick, Dither, LawsInv, LawsTyped
    <2> QED
      BY <2>1, <2>2 DEF LawsInv, LawsTyped
  <1>6. PullsTheShortWay'
    <2> DEFINE pull == iteration'.null + iteration'.speed
    <2>1. pull = -e /\ iteration'.angle = angle /\ iteration'.goal = target
      BY <1>1, <1>2, <1>3 DEF NullObjective
    <2>2. Abs(-e) <= HalfTurn
      BY <1>3, LawsConstants DEF Abs
    <2>3. angle + (-e) - target = angle - e - target
      BY <1>2, <1>3
    <2> HIDE DEF pull
    <2>4. Abs(pull) <= HalfTurn /\ (iteration'.angle + pull - iteration'.goal) % Turn = 0
      BY <1>4, <2>1, <2>2, <2>3
    <2> QED
      BY <2>4 DEF PullsTheShortWay, pull
  <1> QED
    BY <1>5, <1>6 DEF LawsInv

LEMMA LawsSteps == LawsInv /\ [LawsNext]_lawVars => LawsInv'
  <1> SUFFICES ASSUME LawsInv, [LawsNext]_lawVars PROVE LawsInv'
    OBVIOUS
  <1>1. CASE Reboot \/ Retarget \/ UNCHANGED lawVars
    <2>1. iteration' = iteration /\ ditherUp' = ditherUp
      BY <1>1 DEF Reboot, Retarget, lawVars
    <2>2. branch' \in (-MaxBranch)..MaxBranch /\ target' \in Targets
      BY <1>1 DEF Reboot, Retarget, lawVars, LawsInv, LawsTyped
    <2> QED
      BY <2>1, <2>2 DEF LawsInv, LawsTyped, PullsTheShortWay
  <1>2. CASE \E angle \in Physical, trigger \in Triggers, speed \in Speeds, gravity \in Gravities :
               LawsTick(angle, trigger, speed, gravity)
    BY <1>2, LawsTickKeeps
  <1> QED
    BY <1>1, <1>2 DEF LawsNext

(* The last iteration and the branch of the encoder are within their types, and*)
(* the posture term of that iteration pulls the short way.                   *)
LEMMA LawsAreInductive == LawsSpec => []LawsInv
  BY LawsStarts, LawsSteps, PTL DEF LawsSpec

(* Types of the control laws' inputs and terms, for every turn and limit.    *)
THEOREM LawsAreTyped == LawsSpec => []LawsTypeOK
  <1>1. LawsInv => LawsTypeOK
    BY DEF LawsInv, LawsTyped, LawsTypeOK, Iteration
  <1> QED
    BY <1>1, LawsAreInductive, PTL

(* Whatever branch the encoder came up on, the posture term pulls at most half a*)
(* turn and towards the posture, for every turn (null_space_torque, angles.py).*)
THEOREM AlwaysPullsTheShortWay == LawsSpec => []PullsTheShortWay
  <1>1. LawsInv => PullsTheShortWay
    BY DEF LawsInv
  <1> QED
    BY <1>1, LawsAreInductive, PTL
-----------------------------------------------------------------------------

(***************************************************************************)
(* The force feedback, for every set of torques, limit, timeout and queue  *)
(* depth: a torque that reaches the servos was sent in a frame without     *)
(* fault, and is within the limit.                                         *)
(***************************************************************************)

WasSent(given) == \E i \in DOMAIN sent : sent[i] = given

\* No torque, or what is left of one that came in a good frame.
Good(torque) ==
  \/ torque = 0
  \/ \E i \in DOMAIN sent : sent[i].fault = "none" /\ torque = Clip(sent[i].torque)

\* Frames are on the way unchanged; what the relay refuses is not on the topic.
OnTheWay ==
  /\ \A k \in DOMAIN wire : WasSent(wire[k])
  /\ \A k \in DOMAIN effort : WasSent(effort[k]) /\ effort[k].fault \notin RelayRefuses

Held == Good(external) /\ Good(chosen) /\ Good(applied)

FeedInv == FeedTypeOK /\ OnTheWay /\ Held

LEMMA FeedConstants ==
  /\ Torque \subseteq Int /\ FeedLimit \in Nat /\ FeedTimeout \in Nat
  /\ FeedDepth \in Nat /\ FeedDepth > 0 /\ MaxFrames \in Nat /\ MaxBreaks \in Nat
  BY FeedAssumption

\* _on_force_feedback clips to [-torque_feedback_max, torque_feedback_max].
LEMMA Clipped ==
  ASSUME NEW torque \in Torque PROVE Clip(torque) \in (-FeedLimit)..FeedLimit
  BY FeedConstants DEF Clip

LEMMA TailOf ==
  ASSUME NEW S, NEW s \in Seq(S), s # <<>>
  PROVE  /\ Tail(s) \in Seq(S) /\ Len(Tail(s)) = Len(s) - 1 /\ Len(s) \in Nat /\ Len(s) > 0
         /\ 1 \in DOMAIN s /\ Head(s) = s[1] /\ s[1] \in S
         /\ \A k \in DOMAIN Tail(s) : k + 1 \in DOMAIN s /\ Tail(s)[k] = s[k + 1]
  OBVIOUS

LEMMA AppendOf ==
  ASSUME NEW S, NEW s \in Seq(S), NEW e \in S
  PROVE  /\ Append(s, e) \in Seq(S) /\ Len(Append(s, e)) = Len(s) + 1 /\ Len(s) \in Nat
         /\ \A k \in DOMAIN s : k \in DOMAIN Append(s, e) /\ Append(s, e)[k] = s[k]
         /\ \A k \in DOMAIN Append(s, e) :
              (k \in DOMAIN s /\ Append(s, e)[k] = s[k]) \/ Append(s, e)[k] = e
         /\ Len(s) + 1 \in DOMAIN Append(s, e) /\ Append(s, e)[Len(s) + 1] = e
  OBVIOUS

\* The steps that touch no frame and no torque.
LEMMA QuietStep ==
  ASSUME FeedInv, \/ FeedOpen \/ FeedElapse \/ FeedTickReads \/ FeedTickWrites
                  \/ UNCHANGED feedVars
  PROVE  FeedInv'
  <1>0. 0 \in (-FeedLimit)..FeedLimit
    BY FeedConstants
  <1>1. FeedTypeOK'
    <2>1. CASE FeedOpen
      BY <2>1 DEF FeedInv, FeedTypeOK, FeedOpen
    <2>2. CASE FeedElapse
      BY <2>2, FeedConstants DEF FeedInv, FeedTypeOK, FeedElapse
    <2>3. CASE FeedTickReads
      BY <2>3, <1>0 DEF FeedInv, FeedTypeOK, FeedTickReads, External
    <2>4. CASE FeedTickWrites
      BY <2>4 DEF FeedInv, FeedTypeOK, FeedTickWrites
    <2>5. CASE UNCHANGED feedVars
      BY <2>5 DEF FeedInv, FeedTypeOK, feedVars
    <2> QED
      BY <2>1, <2>2, <2>3, <2>4, <2>5
  <1>2. /\ UNCHANGED <<wire, effort, sent, external>>
        /\ chosen' = chosen \/ chosen' = 0 \/ chosen' = external
        /\ applied' = applied \/ applied' = chosen
    BY DEF FeedOpen, FeedElapse, FeedTickReads, FeedTickWrites, External, feedVars
  <1>3. OnTheWay' /\ Held'
    BY <1>2 DEF FeedInv, OnTheWay, WasSent, Held, Good
  <1> QED
    BY <1>1, <1>3 DEF FeedInv

LEMMA BreakStep == ASSUME FeedInv, FeedBreak PROVE FeedInv'
  <1>1. <<>> \in Seq(FeedFrame) /\ DOMAIN <<>> = {}
    OBVIOUS
  <1>2. FeedTypeOK'
    <2>1. online' \in BOOLEAN
      BY DEF FeedBreak
    <2>2. wire' \in Seq(FeedFrame)
      BY <1>1 DEF FeedBreak
    <2>3. breaks' \in 0..MaxBreaks
      BY FeedConstants DEF FeedInv, FeedTypeOK, FeedBreak
    <2> QED
      BY <2>1, <2>2, <2>3 DEF FeedInv, FeedTypeOK, FeedBreak
  <1>3. OnTheWay' /\ Held'
    BY <1>1 DEF FeedInv, FeedBreak, OnTheWay, WasSent, Held, Good
  <1> QED
    BY <1>2, <1>3 DEF FeedInv

LEMMA SendStep ==
  ASSUME FeedInv, NEW given \in FeedFrame, SendFrame(given) PROVE FeedInv'
  <1>1. /\ wire' = Append(wire, given) /\ sent' = Append(sent, given) /\ Len(sent) < MaxFrames
        /\ UNCHANGED <<online, effort, external, age, chosen, ticking, applied, breaks>>
    BY DEF SendFrame
  <1>2. wire \in Seq(FeedFrame) /\ sent \in Seq(FeedFrame)
    BY DEF FeedInv, FeedTypeOK
  <1>3. wire' \in Seq(FeedFrame) /\ sent' \in Seq(FeedFrame) /\ Len(sent') <= MaxFrames
    BY <1>1, <1>2, AppendOf, FeedConstants
  <1>4. FeedTypeOK'
    BY <1>1, <1>3 DEF FeedInv, FeedTypeOK
  <1>5. /\ \A k \in DOMAIN sent : k \in DOMAIN sent' /\ sent'[k] = sent[k]
        /\ \A k \in DOMAIN wire' : (k \in DOMAIN wire /\ wire'[k] = wire[k]) \/ wire'[k] = given
        /\ \E k \in DOMAIN sent' : sent'[k] = given
    BY <1>1, <1>2, AppendOf
  <1>6. OnTheWay'
    BY <1>1, <1>5 DEF FeedInv, OnTheWay, WasSent
  <1>7. \A torque : Good(torque) => Good(torque)'
    BY <1>5 DEF Good
  <1>8. Held'
    BY <1>1, <1>5 DEF FeedInv, Held, Good
  <1> QED
    BY <1>4, <1>6, <1>8 DEF FeedInv

\* _handle_inbound_frame drops what it refuses and passes on the rest as it is.
LEMMA RelayStep == ASSUME FeedInv, RelayFrame PROVE FeedInv'
  <1>1. /\ wire' = Tail(wire) /\ wire # <<>>
        /\ UNCHANGED <<online, external, age, chosen, ticking, applied, sent, breaks>>
    BY DEF RelayFrame
  <1>2. wire \in Seq(FeedFrame) /\ effort \in Seq(FeedFrame) /\ Len(effort) <= FeedDepth
    BY DEF FeedInv, FeedTypeOK
  <1>3. /\ wire' \in Seq(FeedFrame) /\ Head(wire) \in FeedFrame /\ WasSent(Head(wire))
        /\ \A k \in DOMAIN wire' : WasSent(wire'[k])
    BY <1>1, <1>2, TailOf DEF FeedInv, OnTheWay
  <1>4. /\ effort' \in Seq(FeedFrame) /\ Len(effort') <= FeedDepth
        /\ \A k \in DOMAIN effort' : WasSent(effort'[k]) /\ effort'[k].fault \notin RelayRefuses
    <2>1. CASE Head(wire).fault \in RelayRefuses
      BY <1>2, <2>1 DEF RelayFrame, FeedInv, OnTheWay
    <2>2. CASE Head(wire).fault \notin RelayRefuses /\ Len(effort) < FeedDepth
      <3>1. effort' = Append(effort, Head(wire))
        BY <2>2 DEF RelayFrame
      <3> QED
        BY <1>2, <1>3, <2>2, <3>1, AppendOf, FeedConstants DEF FeedInv, OnTheWay
    <2>3. CASE Head(wire).fault \notin RelayRefuses /\ ~(Len(effort) < FeedDepth)
      <3>1. effort' = Append(Tail(effort), Head(wire))
        BY <2>3 DEF RelayFrame
      <3>2. effort # <<>>
        BY <2>3, FeedConstants
      <3>3. /\ Tail(effort) \in Seq(FeedFrame) /\ Len(Tail(effort)) = Len(effort) - 1
            /\ Len(effort) \in Nat
            /\ \A k \in DOMAIN Tail(effort) :
                 WasSent(Tail(effort)[k]) /\ Tail(effort)[k].fault \notin RelayRefuses
        BY <1>2, <3>2, TailOf DEF FeedInv, OnTheWay
      <3>4. Len(effort') = Len(Tail(effort)) + 1 /\ effort' \in Seq(FeedFrame)
        BY <1>3, <3>1, <3>3, AppendOf
      <3>5. \A k \in DOMAIN effort' : WasSent(effort'[k]) /\ effort'[k].fault \notin RelayRefuses
        BY <1>3, <2>3, <3>1, <3>3, AppendOf
      <3> QED
        BY <1>2, <3>3, <3>4, <3>5, FeedConstants
    <2> QED
      BY <2>1, <2>2, <2>3
  <1>5. FeedTypeOK'
    BY <1>1, <1>3, <1>4 DEF FeedInv, FeedTypeOK
  <1>6. OnTheWay' /\ Held'
    BY <1>1, <1>3, <1>4 DEF FeedInv, OnTheWay, WasSent, Held, Good
  <1> QED
    BY <1>5, <1>6 DEF FeedInv

\* _on_force_feedback: with what the relay let through, a list of the right length is good.
LEMMA FeedbackStep == ASSUME FeedInv, OnForceFeedback PROVE FeedInv'
  <1> DEFINE given == Head(effort)
  <1>1. /\ effort' = Tail(effort) /\ effort # <<>>
        /\ UNCHANGED <<online, wire, chosen, ticking, applied, sent, breaks>>
    BY DEF OnForceFeedback
  <1>2. effort \in Seq(FeedFrame) /\ Len(effort) <= FeedDepth
    BY DEF FeedInv, FeedTypeOK
  <1>3. /\ effort' \in Seq(FeedFrame) /\ Len(effort') <= FeedDepth
        /\ given \in FeedFrame /\ WasSent(given) /\ given.fault \notin RelayRefuses
        /\ \A k \in DOMAIN effort' : WasSent(effort'[k]) /\ effort'[k].fault \notin RelayRefuses
    BY <1>1, <1>2, TailOf, FeedConstants DEF FeedInv, OnTheWay
  <1>4. \/ UNCHANGED <<external, age>>
        \/ given.fault = "none" /\ external' = Clip(given.torque) /\ age' = 0
    <2>1. given.fault = "wrong_length" \/ given.fault = "none"
      BY <1>3 DEF FeedFrame, Fault
    <2> QED
      BY <2>1 DEF OnForceFeedback
  <1>5. FeedTypeOK'
    <2>1. external' \in (-FeedLimit)..FeedLimit /\ age' \in 0..(FeedTimeout + 1)
      <3>1. given.torque \in Torque
        BY <1>3 DEF FeedFrame
      <3>2. Clip(given.torque) \in (-FeedLimit)..FeedLimit
        BY <3>1, Clipped
      <3>3. 0 \in 0..(FeedTimeout + 1)
        BY FeedConstants
      <3> QED
        BY <1>4, <3>2, <3>3 DEF FeedInv, FeedTypeOK
    <2> QED
      BY <1>1, <1>3, <2>1 DEF FeedInv, FeedTypeOK
  <1>6. Good(external)'
    BY <1>1, <1>3, <1>4 DEF FeedInv, Held, Good, WasSent
  <1>7. OnTheWay' /\ Held'
    BY <1>1, <1>3, <1>6 DEF FeedInv, OnTheWay, WasSent, Held, Good
  <1> QED
    BY <1>5, <1>7 DEF FeedInv

LEMMA FeedStep == FeedInv /\ [FeedNext]_feedVars => FeedInv'
  BY QuietStep, BreakStep, SendStep, RelayStep, FeedbackStep DEF FeedNext

LEMMA FeedInitInv == FeedInit => FeedInv
  <1> SUFFICES ASSUME FeedInit PROVE FeedInv
    OBVIOUS
  <1>1. <<>> \in Seq(FeedFrame) /\ Len(<<>>) = 0 /\ DOMAIN <<>> = {}
    OBVIOUS
  <1>2. FeedTypeOK
    <2>1. online \in BOOLEAN /\ ticking \in BOOLEAN
      BY DEF FeedInit
    <2>2. age \in 0..(FeedTimeout + 1) /\ breaks \in 0..MaxBreaks
      BY FeedConstants DEF FeedInit
    <2>3. \A torque \in {external, chosen, applied} : torque \in (-FeedLimit)..FeedLimit
      BY FeedConstants DEF FeedInit
    <2>4. /\ wire \in Seq(FeedFrame) /\ sent \in Seq(FeedFrame) /\ Len(sent) <= MaxFrames
          /\ effort \in Seq(FeedFrame) /\ Len(effort) <= FeedDepth
      BY <1>1, FeedConstants DEF FeedInit
    <2> QED
      BY <2>1, <2>2, <2>3, <2>4 DEF FeedTypeOK
  <1>3. OnTheWay /\ Held
    BY <1>1 DEF FeedInit, OnTheWay, Held, Good
  <1> QED
    BY <1>2, <1>3 DEF FeedInv

(* Types and bounds of the feed, and with them where every frame and torque  *)
(* under way came from (_handle_inbound_frame, _on_force_feedback).          *)
LEMMA FeedInductive == FeedSpec => []FeedInv
  BY FeedInitInv, FeedStep, PTL DEF FeedSpec

(* The queue keeps its depth, the clock stops at the timeout, and no torque  *)
(* is over the limit, for every value of the constants.                      *)
THEOREM FeedTypeCorrect == FeedSpec => []FeedTypeOK
  <1>1. FeedInv => FeedTypeOK
    BY DEF FeedInv
  <1> QED
    BY FeedInductive, <1>1, PTL

(* No torque reaches the servos that did not come in a frame without fault,  *)
(* although neither the relay nor the leader alone refuses every fault.      *)
THEOREM OnlyGoodFrames == FeedSpec => []OnlyGoodFramesApply
  <1>1. FeedInv => OnlyGoodFramesApply
    BY DEF FeedInv, Held, Good, OnlyGoodFramesApply
  <1> QED
    BY FeedInductive, <1>1, PTL
-----------------------------------------------------------------------------
(***************************************************************************)
(* How a force is let go: once the last frame is older than the timeout, a *)
(* tick is at most four half-ticks from commanding none.  GoSteps counts   *)
(* the reads and writes that are left.                                     *)
(***************************************************************************)

Stale == age > FeedTimeout

GoSteps == IF ticking THEN (IF chosen # 0 THEN 3 ELSE IF applied # 0 THEN 1 ELSE 0)
           ELSE IF applied # 0 THEN 2 ELSE 0

\* The way back to a force: a frame without fault that some client sent.
GoodFrameTaken ==
  effort # <<>> /\ WasSent(Head(effort)) /\ Head(effort).fault = "none"
  /\ external' = Clip(Head(effort).torque) /\ age' = 0

ForceRunsDown ==
  Stale => IF Stale' THEN IF FeedTickReads \/ FeedTickWrites
                          THEN GoSteps' < GoSteps \/ (GoSteps = 0 /\ GoSteps' = 0)
                          ELSE GoSteps' = GoSteps
           ELSE GoodFrameTaken

\* In a stale feed a read chooses no force, and a write applies what was chosen.
LEMMA StaleTick ==
  ASSUME FeedInv, Stale, FeedTickReads \/ FeedTickWrites
  PROVE  Stale' /\ (GoSteps' < GoSteps \/ (GoSteps = 0 /\ GoSteps' = 0))
  <1>1. CASE FeedTickReads
    <2>1. ~ticking /\ ticking' = TRUE /\ chosen' = 0 /\ applied' = applied /\ age' = age
      BY <1>1 DEF FeedTickReads, External, Stale
    <2> QED
      BY <2>1 DEF GoSteps, Stale
  <1>2. CASE FeedTickWrites
    <2>1. ticking /\ ticking' = FALSE /\ applied' = chosen /\ chosen' = chosen /\ age' = age
      BY <1>2 DEF FeedTickWrites
    <2> QED
      BY <2>1 DEF GoSteps, Stale
  <1> QED
    BY <1>1, <1>2

LEMMA StaleOther ==
  ASSUME FeedInv, Stale, FeedNext, ~(FeedTickReads \/ FeedTickWrites)
  PROVE  GoSteps' = GoSteps /\ (Stale' \/ GoodFrameTaken)
  <1>1. CASE OnForceFeedback
    <2>1. UNCHANGED <<ticking, chosen, applied>> /\ effort # <<>>
      BY <1>1 DEF OnForceFeedback
    <2>2. effort \in Seq(FeedFrame)
      BY DEF FeedInv, FeedTypeOK
    <2>3. /\ Head(effort) \in FeedFrame /\ WasSent(Head(effort))
          /\ Head(effort).fault \notin RelayRefuses
      BY <2>1, <2>2, TailOf DEF FeedInv, OnTheWay
    <2>4. Head(effort).fault = "none" \/ Head(effort).fault = "wrong_length"
      BY <2>3 DEF FeedFrame, Fault
    <2>5. Stale' \/ GoodFrameTaken
      BY <1>1, <2>1, <2>3, <2>4 DEF OnForceFeedback, Stale, GoodFrameTaken
    <2> QED
      BY <2>1, <2>5 DEF GoSteps
  <1>2. ~FeedElapse
    BY FeedConstants DEF FeedElapse, Stale, FeedInv, FeedTypeOK
  <1>3. CASE FeedOpen \/ FeedBreak \/ (\E given \in FeedFrame : SendFrame(given)) \/ RelayFrame
    <2>1. UNCHANGED <<ticking, chosen, applied, age>>
      BY <1>3 DEF FeedOpen, FeedBreak, SendFrame, RelayFrame
    <2> QED
      BY <2>1 DEF GoSteps, Stale
  <1> QED
    BY <1>1, <1>2, <1>3 DEF FeedNext

(* "A dropped client or dead relay never leaves a standing force", ticks     *)
(* granted: past the timeout no event raises the number of reads and writes  *)
(* that still separate the servos from a command without external torque,    *)
(* each read and write lowers it, and only a frame without fault, sent by a  *)
(* client, ends that (get_leader_arm_external_joint_torque).                 *)
THEOREM ForceIsLetGo ==
  /\ FeedSpec => [](GoSteps \in 0..3 /\ (GoSteps = 0 => applied = 0))
  /\ FeedSpec => [][ForceRunsDown]_feedVars
  <1>1. GoSteps \in 0..3 /\ (GoSteps = 0 => applied = 0)
    BY DEF GoSteps
  <1>2. ASSUME FeedInv, [FeedNext]_feedVars
        PROVE  [ForceRunsDown]_feedVars
    BY <1>2, StaleTick, StaleOther DEF ForceRunsDown
  <1> QED
    BY <1>1, <1>2, FeedInductive, PTL DEF FeedSpec
=============================================================================
