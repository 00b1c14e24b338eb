---------------------------- MODULE RelayProofs -----------------------------
EXTENDS FactrRelay, SequenceTheorems, TLAPS

(***************************************************************************)
(* The relay beside its leader, for every ramp length and queue depth.     *)
(***************************************************************************)

\* What a state topic carries.
Carried(t) == IF t = "enabled" THEN BOOLEAN ELSE 0..Full[t]

RelayInv ==
  /\ alive \in BOOLEAN /\ leader \in Sample /\ snapshot \in Sample \union {NoSample}
  /\ view \in Sample
  /\ request # NoRequest => /\ request.kind \in Kind /\ request.target \in {0, Full[request.kind]}
                            /\ request = [kind |-> request.kind, target |-> request.target]
  /\ DOMAIN commands = Kind
  /\ \A k \in Kind : commands[k] \in Seq({0, Full[k]}) /\ Len(commands[k]) <= Depth
  /\ frames \in Seq(Sample) /\ Len(frames) <= Depth
  /\ DOMAIN states = Topic
  /\ \A t \in Topic : states[t] \in Seq(Carried(t)) /\ Len(states[t]) <= Depth
  /\ asked \in {0, LeaderSteps} /\ lost \in BOOLEAN
  /\ requests \in 0..MaxRequests /\ restarts \in 0..MaxRestarts

LEMMA RelayConstants ==
  /\ LeaderSteps \in Nat /\ LeaderSteps > 0 /\ FeedbackSteps \in Nat /\ FeedbackSteps > 0
  /\ Depth \in Nat /\ Depth > 0 /\ MaxRequests \in Nat /\ MaxRestarts \in Nat
  /\ Full["leader"] = LeaderSteps /\ Full["feedback"] = FeedbackSteps
  /\ \A k \in Kind : Full[k] \in Nat /\ Full[k] <= LeaderSteps + FeedbackSteps
  BY RelayAssumption DEF Full, Kind

LEMMA GainsUpdated ==
  ASSUME NEW g \in Gains, NEW k \in Kind, NEW v \in 0..Full[k]
  PROVE  [g EXCEPT ![k] = v] \in Gains
  BY RelayConstants DEF Gains

LEMMA SampleUpdated ==
  ASSUME NEW s \in Sample, NEW k \in Kind, NEW v \in 0..Full[k], NEW b \in BOOLEAN
  PROVE  /\ [s EXCEPT !.target[k] = v] \in Sample
         /\ [s EXCEPT !.gain[k] = v] \in Sample
         /\ [s EXCEPT !.on = b] \in Sample
  <1>1. s.target \in Gains /\ s.gain \in Gains /\ s.on \in BOOLEAN
    BY DEF Sample
  <1>2. [s.target EXCEPT ![k] = v] \in Gains /\ [s.gain EXCEPT ![k] = v] \in Gains
    BY <1>1, GainsUpdated
  <1>3. [s EXCEPT !.target = [s.target EXCEPT ![k] = v]] \in Sample
    BY <1>2 DEF Sample
  <1>4. [s EXCEPT !.gain = [s.gain EXCEPT ![k] = v]] \in Sample
    BY <1>2 DEF Sample
  <1>5. [s EXCEPT !.on = b] \in Sample
    BY DEF Sample
  <1> QED
    BY <1>3, <1>4, <1>5

LEMMA QueueKept ==
  ASSUME NEW S, NEW queue \in Seq(S), NEW msg \in S, Len(queue) <= Depth
  PROVE  Put(queue, msg) \in Seq(S) /\ Len(Put(queue, msg)) <= Depth
  <1>1. CASE Len(queue) < Depth
    BY <1>1, RelayConstants DEF Put
  <1>2. CASE ~(Len(queue) < Depth)
    <2>1. queue # <<>> /\ Tail(queue) \in Seq(S) /\ Len(Tail(queue)) = Len(queue) - 1
      BY <1>2, RelayConstants
    <2>2. /\ Append(Tail(queue), msg) \in Seq(S)
          /\ Len(Append(Tail(queue), msg)) = Len(queue)
      BY <2>1
    <2> QED
      BY <1>2, <2>2 DEF Put
  <1> QED
    BY <1>1, <1>2

LEMMA QueueRead ==
  ASSUME NEW S, NEW queue \in Seq(S), queue # <<>>, Len(queue) <= Depth
  PROVE  Head(queue) \in S /\ Tail(queue) \in Seq(S) /\ Len(Tail(queue)) <= Depth
  BY RelayConstants

LEMMA ZeroIsSample == Zero \in Sample
  <1>1. [k \in Kind |-> 0] \in Gains
    BY RelayConstants DEF Gains
  <1> QED
    BY <1>1 DEF Zero, Sample

LEMMA RelayStarts == Init => RelayInv
  <1> SUFFICES ASSUME Init PROVE RelayInv
    OBVIOUS
  <1>1. /\ \A k \in Kind : commands[k] = <<>>
        /\ \A t \in Topic : states[t] = <<>>
        /\ DOMAIN commands = Kind /\ DOMAIN states = Topic
    BY DEF Init
  <1>2. alive \in BOOLEAN /\ lost \in BOOLEAN
    BY DEF Init
  <1> QED
    BY <1>1, <1>2, ZeroIsSample, RelayConstants DEF Init, RelayInv

LEMMA RequestsKeep ==
  RelayInv /\ ((\E k \in Kind : \E t \in {0, Full[k]} : PublishTarget(k, t)) \/ StoreTarget) => RelayInv'
  <1>1. ASSUME RelayInv, NEW k \in Kind, NEW t \in {0, Full[k]}, PublishTarget(k, t)
        PROVE  RelayInv'
    <2>1. /\ DOMAIN commands' = Kind
          /\ \A j \in Kind : commands'[j] = commands[j] \/ (j = k /\ commands'[j] = Put(commands[j], t))
      BY <1>1 DEF PublishTarget, RelayInv
    <2>2. ASSUME NEW j \in Kind
          PROVE  commands'[j] \in Seq({0, Full[j]}) /\ Len(commands'[j]) <= Depth
      <3>1. commands[j] \in Seq({0, Full[j]}) /\ Len(commands[j]) <= Depth
        BY <1>1 DEF RelayInv
      <3>2. ASSUME j = k
            PROVE  Put(commands[j], t) \in Seq({0, Full[j]}) /\ Len(Put(commands[j], t)) <= Depth
        <4>1. t \in {0, Full[j]}
          BY <3>2
        <4> QED
          BY ONLY <3>1, <4>1, QueueKept
      <3> QED
        BY <2>1, <3>1, <3>2
    <2>3. request' = [kind |-> k, target |-> t]
      BY <1>1 DEF PublishTarget
    <2>4. asked' \in {0, LeaderSteps} /\ lost' \in BOOLEAN
      BY <1>1, RelayConstants DEF PublishTarget, RelayInv
    <2>5. requests' \in 0..MaxRequests
          /\ UNCHANGED <<alive, leader, snapshot, view, frames, states, restarts>>
      BY <1>1, RelayConstants DEF PublishTarget, RelayInv
    <2> QED
      BY <1>1, <2>1, <2>2, <2>3, <2>4, <2>5 DEF RelayInv
  <1>2. ASSUME RelayInv, StoreTarget
        PROVE  RelayInv'
    <2>1. /\ request.kind \in Kind /\ request.target \in 0..Full[request.kind] /\ view \in Sample
      BY <1>2, RelayConstants DEF StoreTarget, RelayInv
    <2>2. view' \in Sample
      BY <1>2, <2>1, SampleUpdated DEF StoreTarget
    <2>3. /\ request' = NoRequest
          /\ UNCHANGED <<alive, leader, snapshot, commands, frames, states>>
          /\ UNCHANGED <<asked, lost, requests, restarts>>
      BY <1>2 DEF StoreTarget, topics, history
    <2> QED
      BY <1>2, <2>2, <2>3 DEF RelayInv
  <1> QED
    BY <1>1, <1>2

LEMMA SubscriptionsKeep ==
  RelayInv /\ (UpdateTelemetry \/ \E t \in Topic : UpdateState(t)) => RelayInv'
  <1>1. ASSUME RelayInv, UpdateTelemetry
        PROVE  RelayInv'
    <2>1. Head(frames) \in Sample /\ Tail(frames) \in Seq(Sample) /\ Len(Tail(frames)) <= Depth
      BY <1>1, QueueRead DEF UpdateTelemetry, RelayInv
    <2>2. /\ view' = Head(frames) /\ frames' = Tail(frames)
          /\ UNCHANGED <<alive, leader, snapshot, request, commands, states>>
          /\ UNCHANGED <<asked, lost, requests, restarts>>
      BY <1>1 DEF UpdateTelemetry, history
    <2> QED
      BY <1>1, <2>1, <2>2 DEF RelayInv
  <1>2. ASSUME RelayInv, NEW t \in Topic, UpdateState(t)
        PROVE  RelayInv'
    <2>1. states[t] \in Seq(Carried(t)) /\ states[t] # <<>> /\ Len(states[t]) <= Depth
      BY <1>2 DEF UpdateState, RelayInv
    <2>2. Head(states[t]) \in Carried(t) /\ Tail(states[t]) \in Seq(Carried(t))
          /\ Len(Tail(states[t])) <= Depth
      BY <2>1, QueueRead
    <2>3. view' \in Sample
      <3>1. CASE t = "enabled"
        <4>1. view' = [view EXCEPT !.on = Head(states[t])] /\ view \in Sample
          BY <1>2, <3>1 DEF UpdateState, RelayInv
        <4>2. Head(states[t]) \in BOOLEAN /\ "leader" \in Kind /\ 0 \in 0..Full["leader"]
          BY <2>2, <3>1, RelayConstants DEF Carried, Kind
        <4> QED
          BY <4>1, <4>2, SampleUpdated
      <3>2. CASE t # "enabled"
        <4>1. view' = [view EXCEPT !.gain[t] = Head(states[t])] /\ view \in Sample
          BY <1>2, <3>2 DEF UpdateState, RelayInv
        <4>2. Head(states[t]) \in 0..Full[t] /\ t \in Kind
          BY <2>2, <3>2 DEF Carried, Topic
        <4> QED
          BY <4>1, <4>2, SampleUpdated
      <3> QED
        BY <3>1, <3>2
    <2>4. /\ DOMAIN states' = Topic
          /\ \A s \in Topic : states'[s] \in Seq(Carried(s)) /\ Len(states'[s]) <= Depth
      BY <1>2, <2>2 DEF UpdateState, RelayInv
    <2>5. /\ UNCHANGED <<alive, leader, snapshot, request, commands, frames>>
          /\ UNCHANGED <<asked, lost, requests, restarts>>
      BY <1>2 DEF UpdateState, history
    <2> QED
      BY <1>2, <2>3, <2>4, <2>5 DEF RelayInv
  <1> QED
    BY <1>1, <1>2

LEMMA TakeTargetKeeps ==
  ASSUME RelayInv, NEW k \in Kind, TakeTarget(k)
  PROVE  RelayInv'
  <1> DEFINE new == Head(commands[k])
             taken == [leader EXCEPT !.target[k] = new]
             zeroed == [taken EXCEPT !.gain[k] = 0]
  <1>1. new \in {0, Full[k]} /\ Tail(commands[k]) \in Seq({0, Full[k]}) /\ Len(Tail(commands[k])) <= Depth
    BY QueueRead DEF TakeTarget, RelayInv
  <1>2. leader \in Sample /\ new \in 0..Full[k] /\ 0 \in 0..Full[k]
    BY <1>1, RelayConstants DEF RelayInv
  <1>3. taken \in Sample
    BY <1>2, SampleUpdated
  <1>4. zeroed \in Sample
    <2> HIDE DEF taken
    <2> QED
      BY <1>2, <1>3, SampleUpdated
  <1>5. leader' = taken \/ leader' = zeroed
    <2>1. leader' = [leader EXCEPT
             !.target[k] = new,
             !.gain[k] = IF k = "leader" /\ new > 0 /\ leader.target[k] = 0 THEN 0 ELSE @]
      BY DEF TakeTarget
    <2>2. leader = [target |-> leader.target, gain |-> leader.gain, on |-> leader.on]
          /\ leader.gain \in Gains /\ leader.target \in Gains
      BY <1>2 DEF Sample
    <2>3. leader.gain = [leader.gain EXCEPT ![k] = leader.gain[k]]
      BY <2>2 DEF Gains
    <2> QED
      BY <2>1, <2>2, <2>3
  <1>6. /\ DOMAIN commands' = Kind
        /\ \A j \in Kind : commands'[j] \in Seq({0, Full[j]}) /\ Len(commands'[j]) <= Depth
    BY <1>1 DEF TakeTarget, RelayInv
  <1>7. /\ UNCHANGED <<alive, snapshot, view, request, frames, states>>
        /\ UNCHANGED <<asked, lost, requests, restarts>>
    BY DEF TakeTarget, history
  <1> QED
    BY <1>3, <1>4, <1>5, <1>6, <1>7 DEF RelayInv

LEMMA TicksKeep == RelayInv /\ (TickSucceeds \/ TickFails) => RelayInv'
  <1>1. ASSUME RelayInv, TickSucceeds
        PROVE  RelayInv'
    <2> DEFINE gain == Ramped(leader)
               on == TorqueOn(leader.target["leader"], gain["leader"], leader.on)
    <2>1. leader \in Sample /\ leader.gain \in Gains /\ leader.target \in Gains /\ leader.on \in BOOLEAN
      BY <1>1 DEF RelayInv, Sample
    <2>2. \A k \in Kind : /\ leader.gain[k] \in 0..Full[k] /\ leader.target[k] \in 0..Full[k]
                          /\ Full[k] \in Nat /\ Full[k] <= LeaderSteps + FeedbackSteps
      BY <2>1, RelayConstants DEF Gains
    <2>3. \A k \in Kind : gain[k] \in 0..Full[k]
      BY <2>2 DEF Ramped
    <2>4. gain \in Gains
      <3>1. gain = [k \in Kind |-> gain[k]]
        BY DEF Ramped
      <3>2. \A k \in Kind : gain[k] \in 0..(LeaderSteps + FeedbackSteps) /\ gain[k] <= Full[k]
        BY <2>2, <2>3, RelayConstants
      <3> HIDE DEF gain
      <3> QED
        BY <3>1, <3>2 DEF Gains
    <2>5. on \in BOOLEAN
      BY <2>1 DEF TorqueOn
    <2>6. leader' = [leader EXCEPT !.gain = gain, !.on = on] /\ snapshot' = leader'
      BY <1>1 DEF TickSucceeds
    <2> HIDE DEF gain, on
    <2>7. leader' \in Sample
      BY <2>1, <2>4, <2>5, <2>6 DEF Sample
    <2>8. /\ UNCHANGED <<alive, view, request, commands, frames, states>>
          /\ UNCHANGED <<asked, lost, requests, restarts>>
      BY <1>1 DEF TickSucceeds, topics, history
    <2> QED
      BY <1>1, <2>6, <2>7, <2>8 DEF RelayInv
  <1>2. ASSUME RelayInv, TickFails
        PROVE  RelayInv'
    <2>1. leader \in Sample /\ leader.gain \in Gains /\ "leader" \in Kind /\ 0 \in 0..Full["leader"]
      BY <1>2, RelayConstants DEF RelayInv, Sample, Kind
    <2>2. [leader EXCEPT !.gain["leader"] = 0] \in Sample
      BY <2>1, SampleUpdated
    <2>3. leader' = [[leader EXCEPT !.gain["leader"] = 0] EXCEPT !.on = FALSE]
      BY <1>2, <2>1 DEF TickFails, Sample
    <2>4. leader' \in Sample
      BY <2>1, <2>2, <2>3, SampleUpdated
    <2>5. /\ UNCHANGED <<alive, snapshot, view, request, commands, frames, states>>
          /\ UNCHANGED <<asked, lost, requests, restarts>>
      BY <1>2 DEF TickFails, topics, history
    <2> QED
      BY <1>2, <2>4, <2>5 DEF RelayInv
  <1> QED
    BY <1>1, <1>2

LEMMA PublishingKeeps == RelayInv /\ (PublishTelemetry \/ PublishGainStates) => RelayInv'
  <1>1. ASSUME RelayInv, PublishTelemetry
        PROVE  RelayInv'
    <2>1. snapshot \in Sample /\ frames' = Put(frames, snapshot)
      BY <1>1 DEF PublishTelemetry, RelayInv
    <2>2. frames' \in Seq(Sample) /\ Len(frames') <= Depth
      BY <1>1, <2>1, QueueKept DEF RelayInv
    <2>3. /\ UNCHANGED <<alive, leader, snapshot, view, request, commands, states>>
          /\ UNCHANGED <<asked, lost, requests, restarts>>
      BY <1>1 DEF PublishTelemetry, history
    <2> QED
      BY <1>1, <2>2, <2>3 DEF RelayInv
  <1>2. ASSUME RelayInv, PublishGainStates
        PROVE  RelayInv'
    <2> DEFINE said(t) == IF t = "enabled" THEN leader.on ELSE leader.gain[t]
    <2>1. leader.gain \in Gains /\ leader.on \in BOOLEAN
      BY <1>2 DEF RelayInv, Sample
    <2>2. \A t \in Topic : said(t) \in Carried(t)
      BY <2>1, RelayConstants DEF Topic, Carried, Gains
    <2>3. DOMAIN states' = Topic /\ \A t \in Topic : states'[t] = Put(states[t], said(t))
      BY <1>2 DEF PublishGainStates
    <2> HIDE DEF said
    <2>4. \A t \in Topic : states'[t] \in Seq(Carried(t)) /\ Len(states'[t]) <= Depth
      BY <1>2, <2>2, <2>3, QueueKept DEF RelayInv
    <2>5. /\ UNCHANGED <<alive, leader, snapshot, view, request, commands, frames>>
          /\ UNCHANGED <<asked, lost, requests, restarts>>
      BY <1>2 DEF PublishGainStates, history
    <2> QED
      BY <1>2, <2>3, <2>4, <2>5 DEF RelayInv
  <1> QED
    BY <1>1, <1>2

LEMMA CrashesKeep == RelayInv /\ (RelayRestart \/ LeaderCrash \/ LeaderStart) => RelayInv'
  <1>1. RelayInv /\ RelayRestart => RelayInv'
    <2> SUFFICES ASSUME RelayInv, RelayRestart PROVE RelayInv'
      OBVIOUS
    <2>1. /\ view' = Zero /\ request' = NoRequest /\ frames' = <<>>
          /\ DOMAIN states' = Topic /\ \A t \in Topic : states'[t] = <<>>
      BY DEF RelayRestart
    <2>2. restarts' \in 0..MaxRestarts
          /\ UNCHANGED <<alive, leader, snapshot, commands, asked, lost, requests>>
      BY RelayConstants DEF RelayRestart, RelayInv
    <2>3. <<>> \in Seq(Sample) /\ Len(<<>>) <= Depth /\ \A t \in Topic : <<>> \in Seq(Carried(t))
      BY RelayConstants
    <2>4. frames' \in Seq(Sample) /\ Len(frames') <= Depth
          /\ \A t \in Topic : states'[t] \in Seq(Carried(t)) /\ Len(states'[t]) <= Depth
      BY <2>1, <2>3
    <2> QED
      BY <2>1, <2>2, <2>4, ZeroIsSample DEF RelayInv
  <1>2. RelayInv /\ LeaderCrash => RelayInv'
    <2> SUFFICES ASSUME RelayInv, LeaderCrash PROVE RelayInv'
      OBVIOUS
    <2>1. DOMAIN commands' = Kind /\ \A k \in Kind : commands'[k] = <<>>
      BY DEF LeaderCrash
    <2>2. alive' \in BOOLEAN /\ lost' \in BOOLEAN
      BY DEF LeaderCrash
    <2>3. restarts' \in 0..MaxRestarts
          /\ UNCHANGED <<leader, snapshot, view, request, frames, states, asked, requests>>
      BY RelayConstants DEF LeaderCrash, RelayInv
    <2>4. Len(<<>>) <= Depth /\ \A k \in Kind : <<>> \in Seq({0, Full[k]})
      BY RelayConstants
    <2>5. \A k \in Kind : commands'[k] \in Seq({0, Full[k]}) /\ Len(commands'[k]) <= Depth
      BY <2>1, <2>4
    <2> QED
      BY <2>1, <2>2, <2>3, <2>5 DEF RelayInv
  <1>3. RelayInv /\ LeaderStart => RelayInv'
    <2> SUFFICES ASSUME RelayInv, LeaderStart PROVE RelayInv'
      OBVIOUS
    <2>1. alive' \in BOOLEAN
      BY DEF LeaderStart
    <2>2. /\ leader' = Zero /\ snapshot' = NoSample
          /\ UNCHANGED <<view, request, commands, frames, states>>
          /\ UNCHANGED <<asked, lost, requests, restarts>>
      BY DEF LeaderStart, topics, history
    <2> QED
      BY <2>1, <2>2, ZeroIsSample DEF RelayInv
  <1> QED
    BY <1>1, <1>2, <1>3

LEMMA RelaySteps == RelayInv /\ [Next]_relayVars => RelayInv'
  <1> SUFFICES ASSUME RelayInv, [Next]_relayVars PROVE RelayInv'
    OBVIOUS
  <1>1. CASE UNCHANGED relayVars
    BY <1>1 DEF relayVars, RelayInv
  <1>2. CASE Next
    BY <1>2, RequestsKeep, SubscriptionsKeep, TakeTargetKeeps, TicksKeep, PublishingKeeps, CrashesKeep
    DEF Next
  <1> QED
    BY <1>1, <1>2

(* The relay's copy holds only values of a leader sample, and no topic more than*)
(* Depth messages, whoever wrote last, over any number of crashes.           *)
THEOREM RelayIsTyped == Spec => []TypeOK
  <1>1. RelayInv => TypeOK
    <2> SUFFICES ASSUME RelayInv PROVE TypeOK
      OBVIOUS
    <2>1. request \in [kind : Kind, target : 0..(LeaderSteps + FeedbackSteps)] \union {NoRequest}
      BY RelayConstants DEF RelayInv
    <2>2. ASSUME NEW k \in Kind, NEW i \in 1..Len(commands[k])
          PROVE  commands[k][i] \in {0, Full[k]}
      <3>1. commands[k] \in Seq({0, Full[k]})
        BY DEF RelayInv
      <3> QED
        BY ONLY <3>1, ElementOfSeq
    <2>3. \A i \in 1..Len(frames) : frames[i] \in Sample
      BY DEF RelayInv
    <2> QED
      BY <2>1, <2>2, <2>3 DEF RelayInv, TypeOK
  <1>2. Spec => []RelayInv
    BY RelayStarts, RelaySteps, PTL DEF Spec
  <1> QED
    BY <1>1, <1>2, PTL

\* The target the leader will have once it has read what waits for it.
Pending ==
  IF commands["leader"] = <<>> THEN leader.target["leader"]
  ELSE commands["leader"][Len(commands["leader"])]

\* It is what was asked last; but for a leader that was down since, which is asked for nothing.
LastIsPending ==
  /\ alive => Pending = asked \/ (lost /\ Pending = 0)
  /\ ~alive => lost /\ commands["leader"] = <<>>

LEMMA LastIsPut ==
  ASSUME NEW S, NEW queue \in Seq(S), NEW msg \in S, Len(queue) <= Depth
  PROVE  Put(queue, msg) # <<>> /\ Put(queue, msg)[Len(Put(queue, msg))] = msg
  <1>1. CASE Len(queue) < Depth
    <2>1. Put(queue, msg) = Append(queue, msg)
      BY <1>1 DEF Put
    <2> QED
      BY <2>1
  <1>2. CASE ~(Len(queue) < Depth)
    <2>1. queue # <<>> /\ Put(queue, msg) = Append(Tail(queue), msg)
      BY <1>2, RelayConstants DEF Put
    <2>2. Tail(queue) \in Seq(S) /\ Len(Tail(queue)) \in Nat
      BY <2>1
    <2> QED
      BY <2>1, <2>2
  <1> QED
    BY <1>1, <1>2

\* Reading a message leaves the last of the others, or was reading the last one.
LEMMA LastIsLeft ==
  ASSUME NEW S, NEW queue \in Seq(S), queue # <<>>
  PROVE  IF Tail(queue) = <<>> THEN Head(queue) = queue[Len(queue)]
         ELSE Tail(queue)[Len(Tail(queue))] = queue[Len(queue)]
  <1> DEFINE rest == Tail(queue)
  <1>1. /\ Len(queue) \in Nat /\ Len(queue) > 0 /\ Head(queue) = queue[1]
        /\ rest \in Seq(S) /\ Len(rest) = Len(queue) - 1
        /\ \A i \in 1..Len(rest) : rest[i] = queue[i + 1]
    BY HeadTailProperties
  <1> HIDE DEF rest
  <1>2. CASE rest = <<>>
    <2>1. Len(rest) = 0
      BY <1>2
    <2>2. Len(queue) = 1
      BY <1>1, <2>1
    <2>3. Head(queue) = queue[Len(queue)]
      BY <1>1, <2>2
    <2> QED
      BY <1>2, <2>3 DEF rest
  <1>3. CASE rest # <<>>
    <2>1. Len(rest) \in 1..Len(rest)
      BY <1>1, <1>3, EmptySeq
    <2>2. rest[Len(rest)] = queue[Len(rest) + 1] /\ Len(rest) + 1 = Len(queue)
      BY <1>1, <2>1
    <2> QED
      BY <1>3, <2>2 DEF rest
  <1> QED
    BY <1>2, <1>3

LEMMA PendingStep == ASSUME RelayInv, LastIsPending, [Next]_relayVars PROVE LastIsPending'
  <1>0. "leader" \in Kind /\ commands["leader"] \in Seq({0, Full["leader"]})
        /\ Len(commands["leader"]) <= Depth /\ DOMAIN commands = Kind /\ leader \in Sample
    BY DEF RelayInv, Kind
  <1>1. ASSUME /\ leader'.target["leader"] = leader.target["leader"]
               /\ UNCHANGED <<alive, asked, lost>> /\ commands'["leader"] = commands["leader"]
        PROVE  LastIsPending'
    BY <1>1 DEF LastIsPending, Pending
  <1>2. ASSUME NEW k \in Kind, NEW target \in {0, Full[k]}, PublishTarget(k, target)
        PROVE  LastIsPending'
    <2>1. CASE k # "leader"
      <3>1. commands'["leader"] = commands["leader"] /\ UNCHANGED <<alive, asked, lost, leader>>
        BY <1>0, <1>2, <2>1 DEF PublishTarget
      <3> QED
        BY <1>1, <3>1
    <2>2. CASE k = "leader" /\ alive
      <3>1. /\ commands' = [commands EXCEPT !["leader"] = Put(commands["leader"], target)]
            /\ alive' = alive /\ asked' = target
        BY <1>2, <2>2 DEF PublishTarget
      <3>2. commands'["leader"] = Put(commands["leader"], target)
        BY <1>0, <3>1
      <3>3. Pending' = target
        BY <1>0, <2>2, <3>2, LastIsPut DEF Pending
      <3> QED
        BY <2>2, <3>1, <3>3 DEF LastIsPending
    <2>3. CASE k = "leader" /\ ~alive
      BY <1>2, <2>3 DEF PublishTarget, LastIsPending
    <2> QED
      BY <2>1, <2>2, <2>3
  <1>3. ASSUME NEW k \in Kind, TakeTarget(k) PROVE LastIsPending'
    <2>1. CASE k # "leader"
      <3>1. commands'["leader"] = commands["leader"]
        BY <1>0, <1>3, <2>1 DEF TakeTarget
      <3>2. leader'.target["leader"] = leader.target["leader"] /\ UNCHANGED <<alive, asked, lost>>
        BY <1>0, <1>3, <2>1 DEF TakeTarget, history, Sample, Gains
      <3> QED
        BY <1>1, <3>1, <3>2
    <2>2. CASE k = "leader"
      <3> DEFINE queue == commands["leader"]
      <3>1. /\ queue # <<>> /\ commands'["leader"] = Tail(queue) /\ alive
            /\ UNCHANGED <<alive, asked, lost>>
        BY <1>0, <1>3, <2>2 DEF TakeTarget, history
      <3>2. leader'.target["leader"] = Head(queue)
        BY <1>0, <1>3, <2>2 DEF TakeTarget, Sample, Gains
      <3>3. queue \in Seq({0, Full["leader"]})
        BY <1>0
      <3> HIDE DEF queue
      <3>4. IF Tail(queue) = <<>> THEN Head(queue) = queue[Len(queue)]
            ELSE Tail(queue)[Len(Tail(queue))] = queue[Len(queue)]
        BY <3>1, <3>3, LastIsLeft
      <3>5. Pending = queue[Len(queue)]
        BY <3>1 DEF Pending, queue
      <3>6. Pending' = queue[Len(queue)]
        BY <3>1, <3>2, <3>4 DEF Pending
      <3> QED
        BY <3>1, <3>5, <3>6 DEF LastIsPending
    <2> QED
      BY <2>1, <2>2
  <1>4. CASE TickSucceeds \/ TickFails
    <2>1. leader'.target["leader"] = leader.target["leader"]
      BY <1>0, <1>4 DEF TickSucceeds, TickFails, Sample
    <2>2. UNCHANGED <<alive, asked, lost, commands>>
      BY <1>4 DEF TickSucceeds, TickFails, topics, history
    <2> QED
      BY <1>1, <2>1, <2>2
  <1>5. CASE LeaderCrash
    <2>1. ~alive' /\ lost' /\ commands'["leader"] = <<>>
      BY <1>0, <1>5 DEF LeaderCrash
    <2> QED
      BY <2>1 DEF LastIsPending
  <1>6. CASE LeaderStart
    <2>1. lost /\ commands["leader"] = <<>> /\ UNCHANGED <<lost, commands>>
      BY <1>6 DEF LeaderStart, LastIsPending, topics, history
    <2>2. alive' /\ leader'.target["leader"] = 0
      BY <1>0, <1>6 DEF LeaderStart, Zero
    <2> QED
      BY <2>1, <2>2 DEF LastIsPending, Pending
  <1>7. CASE \/ StoreTarget \/ UpdateTelemetry \/ (\E t \in Topic : UpdateState(t))
             \/ PublishTelemetry \/ PublishGainStates \/ RelayRestart \/ UNCHANGED relayVars
    <2>1. UNCHANGED <<leader, alive, asked, lost, commands>>
      BY <1>7 DEF StoreTarget, UpdateTelemetry, UpdateState, PublishTelemetry, PublishGainStates,
                  RelayRestart, relayVars, topics, history
    <2> QED
      BY <1>1, <2>1
  <1> QED
    BY <1>2, <1>3, <1>4, <1>5, <1>6, <1>7 DEF Next

(* No torque request is lost or overtaken: a leader that was up since the    *)
(* last one has it as its target or will read it last, whatever a full topic *)
(* drops; after a crash it is off or will be (_on_grav_comp_gain_target).    *)
(* This is the safety half of LastRequestWins.                               *)
THEOREM LastRequestIsPending == Spec => []LastIsPending
  <1>1. Init => LastIsPending
    <2> SUFFICES ASSUME Init PROVE LastIsPending
      OBVIOUS
    <2>1. "leader" \in Kind
      BY DEF Kind
    <2>2. commands["leader"] = <<>> /\ leader.target["leader"] = 0 /\ asked = 0 /\ alive
      BY <2>1 DEF Init, Zero
    <2> QED
      BY <2>2 DEF LastIsPending, Pending
  <1>2. RelayInv /\ LastIsPending /\ [Next]_relayVars => LastIsPending'
    BY PendingStep
  <1> QED
    BY <1>1, <1>2, RelayStarts, RelaySteps, PTL DEF Spec
-----------------------------------------------------------------------------
(***************************************************************************)
(* How the relay's copy comes to be the leader's state.  Between requests  *)
(* and crashes the two processes only move closer: the gains reach their   *)
(* targets, a tick takes the snapshot, the topics pass on what is old and  *)
(* get only what is new, and the copy, once it agrees, agrees for good.    *)
(* FramesAgreeAfter(n) says that at most the n oldest frames are out of    *)
(* date.                                                                   *)
(***************************************************************************)

\* A step that is no request of a client and no crash.
Internal == requests' = requests /\ restarts' = restarts

\* Nothing is on its way to a leader that runs.
Idle == alive /\ request = NoRequest /\ \A k \in Kind : commands[k] = <<>>

Away(k) == IF leader.gain[k] < leader.target[k] THEN leader.target[k] - leader.gain[k]
           ELSE leader.gain[k] - leader.target[k]

Steady == /\ Idle
          /\ \A k \in Kind : leader.gain[k] = leader.target[k]
          /\ leader.on <=> leader.target["leader"] > 0

Sampled == Steady /\ snapshot = leader

FramesAgreeAfter(n) == \A i \in DOMAIN frames : i > n => frames[i] = leader

Live(t) == IF t = "enabled" THEN leader.on ELSE leader.gain[t]
StatesAgreeAfter(t, n) == \A i \in DOMAIN states[t] : i > n => states[t][i] = Live(t)

TopicsAgree == FramesAgreeAfter(0) /\ \A t \in Topic : StatesAgreeAfter(t, 0)

Agreed == Sampled /\ TopicsAgree /\ view = leader

\* The ramps: no gain moves away from its target, and each complete tick brings it nearer.
GainsComeNearer ==
  Idle => /\ Idle'
          /\ leader'.target = leader.target
          /\ \A k \in Kind : /\ Away(k)' <= Away(k)
                             /\ TickSucceeds /\ Away(k) > 0 => Away(k)' < Away(k)
          /\ TickSucceeds /\ (\A k \in Kind : Away(k)' = 0) => Sampled'

\* The topics: what is out of date is never more, and each message read is one less.
TopicsComeNearer ==
  \A n \in Nat :
    /\ Sampled /\ FramesAgreeAfter(n) => FramesAgreeAfter(n)'
    /\ Sampled /\ FramesAgreeAfter(n + 1) /\ UpdateTelemetry => FramesAgreeAfter(n)'
    /\ \A t \in Topic :
         /\ Steady /\ StatesAgreeAfter(t, n) => StatesAgreeAfter(t, n)'
         /\ Steady /\ StatesAgreeAfter(t, n + 1) /\ UpdateState(t) => StatesAgreeAfter(t, n)'

\* What is reached stays.
AgreementStays ==
  /\ Steady => Steady' /\ leader' = leader
  /\ Sampled => Sampled'
  /\ Sampled /\ TopicsAgree /\ UpdateTelemetry => Agreed'
  /\ Agreed => Agreed'

ComesNearer == Internal => GainsComeNearer /\ TopicsComeNearer /\ AgreementStays

LEMMA QueuePut ==
  ASSUME NEW S, NEW queue \in Seq(S), NEW msg \in S, NEW n \in Nat,
         \A i \in DOMAIN queue : i > n => queue[i] = msg
  PROVE  \A i \in DOMAIN Put(queue, msg) : i > n => Put(queue, msg)[i] = msg
  <1>0. Len(queue) \in Nat /\ DOMAIN queue = 1..Len(queue)
    OBVIOUS
  <1>1. CASE Len(queue) < Depth
    <2>1. Put(queue, msg) = Append(queue, msg)
      BY <1>1 DEF Put
    <2> QED
      BY <1>0, <2>1
  <1>2. CASE ~(Len(queue) < Depth)
    <2>1. Put(queue, msg) = Append(Tail(queue), msg) /\ queue # <<>>
      BY <1>2, RelayConstants DEF Put
    <2>2. /\ Tail(queue) \in Seq(S) /\ Len(Tail(queue)) = Len(queue) - 1 /\ Len(queue) > 0
          /\ \A i \in 1..Len(Tail(queue)) : Tail(queue)[i] = queue[i + 1]
      BY <1>0, <2>1
    <2>3. /\ Len(Append(Tail(queue), msg)) = Len(queue)
          /\ DOMAIN Append(Tail(queue), msg) = 1..Len(queue)
          /\ \A i \in 1..Len(Tail(queue)) : Append(Tail(queue), msg)[i] = queue[i + 1]
          /\ Append(Tail(queue), msg)[Len(queue)] = msg
      BY <1>0, <2>2
    <2> QED
      BY <1>0, <2>1, <2>2, <2>3
  <1> QED
    BY <1>1, <1>2

LEMMA QueueTaken ==
  ASSUME NEW S, NEW queue \in Seq(S), queue # <<>>
  PROVE  /\ DOMAIN Tail(queue) = 1..(Len(queue) - 1) /\ DOMAIN queue = 1..Len(queue)
         /\ \A i \in 1..(Len(queue) - 1) : Tail(queue)[i] = queue[i + 1]
         /\ Len(queue) \in Nat /\ Len(queue) > 0 /\ Head(queue) = queue[1] /\ queue[1] \in S
  OBVIOUS

\* Between requests and crashes an idle pair of processes ticks, publishes and reads.
LEMMA IdleSteps ==
  ASSUME RelayInv, Idle, Internal, Next
  PROVE  /\ Idle' /\ UNCHANGED <<alive, request, commands>>
         /\ \/ TickSucceeds \/ TickFails \/ UpdateTelemetry \/ (\E t \in Topic : UpdateState(t))
            \/ PublishTelemetry \/ PublishGainStates
  <1>1. requests \in Nat /\ restarts \in Nat
    BY RelayConstants DEF RelayInv
  <1>2. ~(\E k \in Kind : \E target \in {0, Full[k]} : PublishTarget(k, target))
    BY <1>1 DEF Internal, PublishTarget
  <1>3. ~StoreTarget /\ ~LeaderStart /\ ~\E k \in Kind : TakeTarget(k)
    BY DEF Idle, StoreTarget, LeaderStart, TakeTarget
  <1>4. ~RelayRestart /\ ~LeaderCrash
    BY <1>1 DEF Internal, RelayRestart, LeaderCrash
  <1>5. \/ TickSucceeds \/ TickFails \/ UpdateTelemetry \/ (\E t \in Topic : UpdateState(t))
        \/ PublishTelemetry \/ PublishGainStates
    BY <1>2, <1>3, <1>4 DEF Next
  <1>6. UNCHANGED <<alive, request, commands>>
    BY <1>5 DEF TickSucceeds, TickFails, UpdateTelemetry, UpdateState, PublishTelemetry,
       PublishGainStates, topics
  <1> QED
    BY <1>5, <1>6 DEF Idle

LEMMA GainsOf ==
  ASSUME NEW s \in Sample, NEW k \in Kind
  PROVE  s.gain[k] \in Nat /\ s.target[k] \in Nat /\ s.on \in BOOLEAN
  BY RelayConstants DEF Sample, Gains

\* A complete tick.
LEMMA TickTaken ==
  ASSUME RelayInv, TickSucceeds
  PROVE  /\ leader'.target = leader.target /\ snapshot' = leader'
         /\ \A k \in Kind : leader'.gain[k] = IF leader.gain[k] < leader.target[k]
                                               THEN leader.gain[k] + 1
                                               ELSE IF leader.gain[k] > leader.target[k]
                                               THEN leader.gain[k] - 1
                                               ELSE leader.gain[k]
         /\ leader'.on = TorqueOn(leader.target["leader"], leader'.gain["leader"], leader.on)
  <1>1. leader \in Sample
    BY DEF RelayInv
  <1>2. /\ leader' = [leader EXCEPT !.gain = Ramped(leader),
                        !.on = TorqueOn(leader.target["leader"], Ramped(leader)["leader"],
                                        leader.on)]
        /\ snapshot' = leader'
    BY DEF TickSucceeds
  <1>3. /\ leader'.target = leader.target /\ leader'.gain = Ramped(leader)
        /\ leader'.on = TorqueOn(leader.target["leader"], Ramped(leader)["leader"], leader.on)
    BY <1>1, <1>2 DEF Sample
  <1> QED
    BY <1>2, <1>3 DEF Ramped

\* A failed tick of a leader that is to be off.
LEMMA TickFailed ==
  ASSUME RelayInv, TickFails
  PROVE  /\ leader'.target = leader.target /\ leader.target["leader"] = 0 /\ leader.on
         /\ \A k \in Kind : leader'.gain[k] = IF k = "leader" THEN 0 ELSE leader.gain[k]
  <1>1. leader \in Sample /\ leader.gain \in Gains /\ DOMAIN leader.gain = Kind
    BY DEF RelayInv, Sample, Gains
  <1>2. leader' = [leader EXCEPT !.gain["leader"] = 0, !.on = FALSE]
    BY DEF TickFails
  <1>3. /\ leader'.target = leader.target
        /\ leader'.gain = [leader.gain EXCEPT !["leader"] = 0]
    BY <1>1, <1>2 DEF Sample
  <1> QED
    BY <1>1, <1>3 DEF TickFails

LEMMA AwayIsNat == ASSUME RelayInv, NEW k \in Kind PROVE Away(k) \in Nat
  <1>1. leader.gain[k] \in Nat /\ leader.target[k] \in Nat
    BY GainsOf DEF RelayInv
  <1> QED
    BY <1>1 DEF Away

LEMMA GainsStep ==
  ASSUME RelayInv, Internal, Next
  PROVE  GainsComeNearer
  <1> SUFFICES ASSUME Idle
               PROVE  /\ Idle' /\ leader'.target = leader.target
                      /\ \A k \in Kind : /\ Away(k)' <= Away(k)
                                         /\ TickSucceeds /\ Away(k) > 0 => Away(k)' < Away(k)
                      /\ TickSucceeds /\ (\A k \in Kind : Away(k)' = 0) => Sampled'
    BY DEF GainsComeNearer
  <1>0. \A k \in Kind : leader.gain[k] \in Nat /\ leader.target[k] \in Nat
    BY GainsOf DEF RelayInv
  <1>1. Idle'
    BY IdleSteps
  <1>2. CASE TickSucceeds
    <2>1. ASSUME NEW k \in Kind
          PROVE  /\ leader'.gain[k] \in Nat
                 /\ Away(k)' <= Away(k)
                 /\ Away(k) > 0 => Away(k)' < Away(k)
      BY <1>0, <1>2, TickTaken DEF Away
    <2>2. ASSUME \A k \in Kind : Away(k)' = 0
          PROVE  Sampled'
      <3>1. \A k \in Kind : leader'.gain[k] = leader'.target[k]
        BY <1>0, <1>2, <2>1, <2>2, TickTaken DEF Away
      <3>2. leader'.on <=> leader'.target["leader"] > 0
        <4>1. /\ "leader" \in Kind /\ leader.target["leader"] \in Nat
              /\ leader'.gain["leader"] = leader.target["leader"]
          BY <1>0, <1>2, <3>1, TickTaken DEF Kind
        <4>2. leader'.on = TorqueOn(leader.target["leader"], leader'.gain["leader"], leader.on)
          BY <1>2, TickTaken
        <4>3. CASE leader.target["leader"] > 0
          BY <1>2, <4>1, <4>2, <4>3, TickTaken DEF TorqueOn
        <4>4. CASE ~(leader.target["leader"] > 0)
          BY <1>2, <4>1, <4>2, <4>4, TickTaken DEF TorqueOn
        <4> QED
          BY <4>3, <4>4
      <3> QED
        BY <1>1, <1>2, <3>1, <3>2, TickTaken DEF Sampled, Steady
    <2> QED
      BY <1>1, <1>2, <2>1, <2>2, TickTaken
  <1>3. CASE ~TickSucceeds /\ TickFails
    <2>1. ASSUME NEW k \in Kind
          PROVE  Away(k)' <= Away(k)
      <3>1. /\ leader'.target = leader.target /\ leader.target["leader"] = 0
            /\ leader'.gain[k] = IF k = "leader" THEN 0 ELSE leader.gain[k]
            /\ Away(k) \in Nat
        BY <1>3, TickFailed, AwayIsNat
      <3>2. CASE k = "leader"
        BY <3>1, <3>2 DEF Away
      <3>3. CASE k # "leader"
        BY <3>1, <3>3 DEF Away
      <3> QED
        BY <3>2, <3>3
    <2> QED
      BY <1>1, <1>3, <2>1, TickFailed
  <1>4. CASE ~TickSucceeds /\ leader' = leader
    <2>1. \A k \in Kind : Away(k)' = Away(k) /\ Away(k) \in Nat
      BY <1>4, AwayIsNat DEF Away
    <2> QED
      BY <1>1, <1>4, <2>1
  <1>5. CASE UpdateTelemetry \/ (\E t \in Topic : UpdateState(t))
               \/ PublishTelemetry \/ PublishGainStates
    <2>1. leader' = leader
      BY <1>5 DEF UpdateTelemetry, UpdateState, PublishTelemetry, PublishGainStates
    <2> QED
      BY <1>2, <1>4, <2>1
  <1> QED
    BY <1>2, <1>3, <1>5, IdleSteps

\* A leader at its targets stays there: a tick changes nothing, and a failed one has
\* nothing to switch off.
LEMMA SteadyStays ==
  ASSUME RelayInv, RelayInv', Internal, Next, Steady
  PROVE  leader' = leader /\ Steady' /\ (Sampled => Sampled')
  <1>0. Idle /\ Idle'
    BY IdleSteps DEF Steady
  <1>1. leader \in Sample /\ leader' \in Sample
    BY DEF RelayInv
  <1>2. CASE TickSucceeds
    <2>1. \A k \in Kind : leader'.gain[k] = leader.gain[k]
      BY <1>1, <1>2, TickTaken, GainsOf DEF Steady
    <2>2. leader'.gain = leader.gain
      <3>1. leader'.gain \in Gains /\ leader.gain \in Gains
        BY <1>1 DEF Sample
      <3> QED
        BY <2>1, <3>1 DEF Gains
    <2>3. leader'.on = leader.on
      <3>1. /\ "leader" \in Kind /\ leader.on \in BOOLEAN
            /\ leader.gain["leader"] = leader.target["leader"]
            /\ leader.target["leader"] \in Nat
        BY <1>1, GainsOf DEF Kind, Steady
      <3>2. leader'.on = TorqueOn(leader.target["leader"], leader.target["leader"], leader.on)
        BY <1>2, <2>1, <3>1, TickTaken
      <3>3. CASE leader.target["leader"] > 0
        <4>1. leader.on = TRUE
          BY <3>1, <3>3 DEF Steady
        <4>2. leader'.on = TRUE
          BY <3>2, <3>3 DEF TorqueOn
        <4> QED
          BY <4>1, <4>2
      <3>4. CASE ~(leader.target["leader"] > 0)
        <4>1. leader.on = FALSE
          BY <3>1, <3>4 DEF Steady
        <4>2. leader'.on = FALSE
          BY <3>2, <3>4, <4>1 DEF TorqueOn
        <4> QED
          BY <4>1, <4>2
      <3> QED
        BY <3>3, <3>4
    <2>4. leader' = leader
      BY <1>1, <1>2, <2>2, <2>3, TickTaken DEF Sample
    <2>5. snapshot' = leader'
      BY <1>2, TickTaken
    <2> QED
      BY <1>0, <2>4, <2>5 DEF Steady, Sampled
  <1>3. CASE TickFails
    BY <1>1, <1>3, GainsOf DEF TickFails, Steady
  <1>4. CASE UpdateTelemetry \/ (\E t \in Topic : UpdateState(t))
               \/ PublishTelemetry \/ PublishGainStates
    <2>1. leader' = leader /\ snapshot' = snapshot
      BY <1>4 DEF UpdateTelemetry, UpdateState, PublishTelemetry, PublishGainStates
    <2> QED
      BY <1>0, <2>1 DEF Steady, Sampled
  <1> QED
    BY <1>0, <1>2, <1>3, <1>4, IdleSteps

\* Frames: read from the old end, written at the new one.
LEMMA FramesStep ==
  ASSUME RelayInv, RelayInv', Internal, Next, Sampled, NEW n \in Nat
  PROVE  /\ FramesAgreeAfter(n) => FramesAgreeAfter(n)'
         /\ FramesAgreeAfter(n + 1) /\ UpdateTelemetry => FramesAgreeAfter(n)'
  <1>0. Idle /\ leader' = leader /\ snapshot = leader /\ leader \in Sample
        /\ frames \in Seq(Sample)
    BY SteadyStays DEF Sampled, Steady, RelayInv
  <1>1. ASSUME UpdateTelemetry
        PROVE  FramesAgreeAfter(n + 1) => FramesAgreeAfter(n)'
    <2>1. frames' = Tail(frames) /\ frames # <<>>
      BY <1>1 DEF UpdateTelemetry
    <2> QED
      BY <1>0, <2>1, QueueTaken DEF FramesAgreeAfter
  <1>2. FramesAgreeAfter(n) => FramesAgreeAfter(n + 1)
    <2>1. \A i \in DOMAIN frames : i > n + 1 => i > n
      BY <1>0
    <2> QED
      BY <2>1 DEF FramesAgreeAfter
  <1>3. ASSUME FramesAgreeAfter(n)
        PROVE  FramesAgreeAfter(n)'
    <2>1. CASE PublishTelemetry
      <3>1. frames' = Put(frames, leader)
        BY <1>0, <2>1 DEF PublishTelemetry
      <3>2. \A i \in DOMAIN frames : i > n => frames[i] = leader
        BY <1>3 DEF FramesAgreeAfter
      <3>3. \A i \in DOMAIN Put(frames, leader) : i > n => Put(frames, leader)[i] = leader
        BY <1>0, <3>2, QueuePut
      <3> QED
        BY <1>0, <3>1, <3>3 DEF FramesAgreeAfter
    <2>2. CASE TickSucceeds \/ TickFails \/ (\E t \in Topic : UpdateState(t)) \/ PublishGainStates
      <3>1. frames' = frames
        BY <2>2 DEF TickSucceeds, TickFails, UpdateState, PublishGainStates, topics
      <3> QED
        BY <1>0, <1>3, <3>1 DEF FramesAgreeAfter
    <2> QED
      BY <1>0, <1>1, <1>2, <1>3, <2>1, <2>2, IdleSteps
  <1> QED
    BY <1>1, <1>3

LEMMA StatesStep ==
  ASSUME RelayInv, RelayInv', Internal, Next, Steady, NEW n \in Nat, NEW t \in Topic
  PROVE  /\ StatesAgreeAfter(t, n) => StatesAgreeAfter(t, n)'
         /\ StatesAgreeAfter(t, n + 1) /\ UpdateState(t) => StatesAgreeAfter(t, n)'
  <1>0. /\ Idle /\ leader' = leader /\ Live(t)' = Live(t)
        /\ DOMAIN states = Topic /\ states[t] \in Seq(Carried(t)) /\ Live(t) \in Carried(t)
    <2>1. Idle /\ leader' = leader /\ leader \in Sample
      BY SteadyStays DEF Steady, RelayInv
    <2>2. Live(t)' = Live(t)
      BY <2>1 DEF Live
    <2>3. Live(t) \in Carried(t)
      BY <2>1, RelayConstants DEF Live, Carried, Sample, Gains, Topic, Kind
    <2> QED
      BY <2>1, <2>2, <2>3 DEF RelayInv
  <1>1. ASSUME UpdateState(t)
        PROVE  StatesAgreeAfter(t, n + 1) => StatesAgreeAfter(t, n)'
    <2>1. states'[t] = Tail(states[t]) /\ states[t] # <<>>
      BY <1>0, <1>1 DEF UpdateState
    <2> QED
      BY <1>0, <2>1, QueueTaken DEF StatesAgreeAfter
  <1>2. StatesAgreeAfter(t, n) => StatesAgreeAfter(t, n + 1)
    <2>1. \A i \in DOMAIN states[t] : i > n + 1 => i > n
      BY <1>0
    <2> QED
      BY <2>1 DEF StatesAgreeAfter
  <1>3. ASSUME StatesAgreeAfter(t, n)
        PROVE  StatesAgreeAfter(t, n)'
    <2>1. CASE PublishGainStates
      <3>1. states'[t] = Put(states[t], Live(t))
        BY <2>1 DEF PublishGainStates, Live
      <3>2. \A i \in DOMAIN states[t] : i > n => states[t][i] = Live(t)
        BY <1>3 DEF StatesAgreeAfter
      <3>3. \A i \in DOMAIN Put(states[t], Live(t)) :
              i > n => Put(states[t], Live(t))[i] = Live(t)
        BY <1>0, <3>2, QueuePut
      <3> QED
        BY <1>0, <3>1, <3>3 DEF StatesAgreeAfter
    <2>2. ASSUME NEW u \in Topic, u # t, UpdateState(u)
          PROVE  StatesAgreeAfter(t, n)'
      <3>1. states'[t] = states[t]
        BY <1>0, <2>2 DEF UpdateState
      <3> QED
        BY <1>0, <1>3, <3>1 DEF StatesAgreeAfter
    <2>3. CASE TickSucceeds \/ TickFails \/ UpdateTelemetry \/ PublishTelemetry
      <3>1. states' = states
        BY <2>3 DEF TickSucceeds, TickFails, UpdateTelemetry, PublishTelemetry, topics
      <3> QED
        BY <1>0, <1>3, <3>1 DEF StatesAgreeAfter
    <2> QED
      BY <1>0, <1>1, <1>2, <1>3, <2>1, <2>2, <2>3, IdleSteps
  <1> QED
    BY <1>1, <1>3

\* The copy agrees once it was taken from a frame when nothing out of date is left.
LEMMA AgreementStep ==
  ASSUME RelayInv, RelayInv', Internal, Next
  PROVE  AgreementStays
  <1>1. ASSUME Sampled, TopicsAgree
        PROVE  TopicsAgree' /\ Sampled' /\ leader' = leader
    BY <1>1, FramesStep, StatesStep, SteadyStays DEF TopicsAgree, Sampled
  <1>2. ASSUME Sampled, TopicsAgree, UpdateTelemetry
        PROVE  view' = leader
    <2>1. view' = Head(frames) /\ frames # <<>> /\ frames \in Seq(Sample)
      BY <1>2 DEF UpdateTelemetry, RelayInv
    <2> QED
      BY <1>2, <2>1, QueueTaken DEF TopicsAgree, FramesAgreeAfter
  <1>3. ASSUME Agreed
        PROVE  view' = leader
    <2>0. Sampled /\ TopicsAgree /\ view = leader /\ Idle /\ leader \in Sample
      BY <1>3 DEF Agreed, Sampled, Steady, RelayInv
    <2>1. CASE UpdateTelemetry
      BY <1>2, <2>0, <2>1
    <2>2. ASSUME NEW t \in Topic, UpdateState(t)
          PROVE  view' = leader
      <3>1. states[t] # <<>> /\ states[t] \in Seq(Carried(t))
        BY <2>2 DEF UpdateState, RelayInv
      <3>2. Head(states[t]) = Live(t)
        BY <2>0, <3>1, QueueTaken DEF TopicsAgree, StatesAgreeAfter
      <3>3. CASE t = "enabled"
        BY <2>0, <2>2, <3>2, <3>3 DEF UpdateState, Live, Sample
      <3>4. CASE t # "enabled"
        <4>1. view' = [leader EXCEPT !.gain = [leader.gain EXCEPT ![t] = leader.gain[t]]]
          BY <2>0, <2>2, <3>2, <3>4 DEF UpdateState, Live
        <4>2. [leader.gain EXCEPT ![t] = leader.gain[t]] = leader.gain
          BY <2>0 DEF Sample, Gains
        <4> QED
          BY <2>0, <4>1, <4>2 DEF Sample
      <3> QED
        BY <3>3, <3>4
    <2>3. CASE TickSucceeds \/ TickFails \/ PublishTelemetry \/ PublishGainStates
      BY <2>0, <2>3 DEF TickSucceeds, TickFails, PublishTelemetry, PublishGainStates
    <2> QED
      BY <2>0, <2>1, <2>2, <2>3, IdleSteps
  <1> QED
    BY <1>1, <1>2, <1>3, SteadyStays DEF AgreementStays, Agreed, Sampled

(* The relay catches up with its leader for every ramp length and depth:     *)
(* between requests and crashes no gain moves away from its target, no topic *)
(* gets older messages, each tick and each message read comes one nearer,    *)
(* and the relay's copy, once it agrees with all that is on its way, agrees  *)
(* for good, whichever callback writes next (_update_telemetry, the state    *)
(* topics).  Scheduling apart, this is Converges.                            *)
THEOREM RelayCatchesUp == Spec => [][ComesNearer]_relayVars
  <1>1. ASSUME RelayInv, RelayInv', [Next]_relayVars
        PROVE  [ComesNearer]_relayVars
    <2> SUFFICES ASSUME Next, Internal
                 PROVE  GainsComeNearer /\ TopicsComeNearer /\ AgreementStays
      BY <1>1 DEF ComesNearer
    <2>1. TopicsComeNearer
      BY <1>1, FramesStep, StatesStep DEF TopicsComeNearer
    <2> QED
      BY <1>1, <2>1, GainsStep, AgreementStep
  <1> QED
    BY <1>1, RelayStarts, RelaySteps, PTL DEF Spec
=============================================================================
