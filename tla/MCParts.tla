------------------------------ MODULE MCParts ------------------------------
(***************************************************************************)
(* The parts of the system that share no state with one another, each on a *)
(* small instance: the first state chooses which part runs.                *)
(***************************************************************************)
EXTENDS StateRead, FeedbackFeed, JointStream, ApiProcess, DataRecorder, LeaderConfig, LeaderLaws,
        PolicyRollout, FollowerBridge, PacketBus

\* StateRead: two servos and an id of neither.  FeedbackFeed: within and beyond the limit.
MCTorque == {-1, 2}

\* LeaderConfig: a home and frames with both signs, an absent joint among the contracts.
MCHome == [j \in 0..1 |-> 2 * j - 1]
MCGripperSign == -1
MCRawFrame == {[s \in 0..2 |-> IF s = 0 THEN 3 ELSE -1], [s \in 0..2 |-> s - 1]}
\* A torque of each sign; with gain 1 it leaves a fraction of a count, with gain 2 it saturates.
MCTorqueFrame == {[s \in 0..2 |-> IF s = 0 THEN 3 ELSE IF s = 1 THEN -7 ELSE 1]}
MCGrain == [s \in 0..2 |-> IF s = 1 THEN 4 ELSE 2]

\* LeaderLaws: four units to a turn, postures within it and outside, a trigger that closes downwards.
MCTargets == {-3, -1, 0, 2}
MCLimitMin == -1
MCClosed == -2
MCTriggers == {-3, -1, 0}
MCSpeeds == {-2, 0}
MCGravities == {-2}

\* PacketBus: two servos, not in the order of their ids.
MCServoIds == <<2, 1>>

SomeContract == CHOOSE c \in Sound : TRUE

VARIABLE part

Parts == {"read", "feed", "stream", "api", "recorder", "config",
          "laws", "rollout", "bridge", "bus"}

MCInit ==
  /\ part \in Parts
  /\ ReadInit /\ FeedInit /\ StreamInit /\ ApiInit /\ RecorderInit
  /\ ConfigInit /\ LawsInit /\ RolloutInit /\ BridgeInit /\ BusInit
  /\ part # "config" => contract = SomeContract
  /\ part # "stream" => variant = "dual"
  /\ part # "laws" => target = 0

MCRead ==
  /\ part = "read" /\ ReadNext
  /\ UNCHANGED <<part, feedVars, streamVars, apiVars, recorderVars, configVars,
                 lawVars, rolloutVars, bridgeVars, busVars>>

MCFeed ==
  /\ part = "feed" /\ FeedNext
  /\ UNCHANGED <<part, readVars, streamVars, apiVars, recorderVars, configVars,
                 lawVars, rolloutVars, bridgeVars, busVars>>

MCStream ==
  /\ part = "stream" /\ StreamNext
  /\ UNCHANGED <<part, readVars, feedVars, apiVars, recorderVars, configVars,
                 lawVars, rolloutVars, bridgeVars, busVars>>

MCApi ==
  /\ part = "api" /\ ApiNext
  /\ UNCHANGED <<part, readVars, feedVars, streamVars, recorderVars, configVars,
                 lawVars, rolloutVars, bridgeVars, busVars>>

MCRecorder ==
  /\ part = "recorder" /\ RecorderNext
  /\ UNCHANGED <<part, readVars, feedVars, streamVars, apiVars, configVars,
                 lawVars, rolloutVars, bridgeVars, busVars>>

MCConfig ==
  /\ part = "config" /\ ConfigNext
  /\ UNCHANGED <<part, readVars, feedVars, streamVars, apiVars, recorderVars,
                 lawVars, rolloutVars, bridgeVars, busVars>>

MCLaws ==
  /\ part = "laws" /\ LawsNext
  /\ UNCHANGED <<part, readVars, feedVars, streamVars, apiVars, recorderVars,
                 configVars, rolloutVars, bridgeVars, busVars>>

MCRollout ==
  /\ part = "rollout" /\ RolloutNext
  /\ UNCHANGED <<part, readVars, feedVars, streamVars, apiVars, recorderVars,
                 configVars, lawVars, bridgeVars, busVars>>

MCBridge ==
  /\ part = "bridge" /\ BridgeNext
  /\ UNCHANGED <<part, readVars, feedVars, streamVars, apiVars, recorderVars,
                 configVars, lawVars, rolloutVars, busVars>>

MCBus ==
  /\ part = "bus" /\ BusNext
  /\ UNCHANGED <<part, readVars, feedVars, streamVars, apiVars, recorderVars,
                 configVars, lawVars, rolloutVars, bridgeVars>>

vars == <<part, readVars, feedVars, streamVars, apiVars, recorderVars, configVars,
          lawVars, rolloutVars, bridgeVars, busVars>>

MCNext ==
  \/ MCRead \/ MCFeed \/ MCStream \/ MCApi \/ MCRecorder \/ MCConfig
  \/ MCLaws \/ MCRollout \/ MCBridge \/ MCBus

(***************************************************************************)
(* Fairness, by part: the relay's and the leader's threads keep running    *)
(* and every clock advances (feed); the leader's loop iterates, the relay  *)
(* serves and a disconnected client comes back (stream); main and the      *)
(* servers' event loop run (api); the bridge's threads run and the         *)
(* followers keep sending (bridge).                                        *)
(***************************************************************************)
MCFairness ==
  /\ WF_feedVars(part = "feed" /\ RelayFrame) /\ WF_feedVars(part = "feed" /\ OnForceFeedback)
  /\ WF_feedVars(part = "feed" /\ FeedElapse)
  /\ WF_feedVars(part = "feed" /\ FeedTickReads) /\ WF_feedVars(part = "feed" /\ FeedTickWrites)
  /\ WF_streamVars(part = "stream" /\ StreamStep) /\ WF_streamVars(part = "stream" /\ UpdateJointPos)
  /\ WF_streamVars(part = "stream" /\ StreamOpen) /\ WF_streamVars(part = "stream" /\ SendReading)
  /\ WF_streamVars(part = "stream" /\ TakeReading)
  /\ WF_apiVars(part = "api" /\ MainStep)
  /\ \A s \in Server : WF_apiVars(part = "api" /\ ServerStep(s))
  /\ WF_bridgeVars(part = "bridge" /\ StartThread) /\ WF_bridgeVars(part = "bridge" /\ ClearValue)
  /\ WF_bridgeVars(part = "bridge" /\ WaitEnds) /\ WF_bridgeVars(part = "bridge" /\ ForwardOrder)
  /\ \A f \in Feeds : WF_bridgeVars(part = "bridge" /\ UpdateValue(f))

MCSpec == MCInit /\ [][MCNext]_vars /\ MCFairness

(* Every part's state has its type and its bounds. *)
PartsTypeOK ==
  /\ ReadTypeOK /\ FeedTypeOK /\ StreamTypeOK /\ ApiTypeOK /\ RecorderTypeOK
  /\ ConfigTypeOK /\ LawsTypeOK /\ RolloutTypeOK /\ BridgeTypeOK /\ BusTypeOK
=============================================================================
