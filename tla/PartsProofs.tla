---------------------------- MODULE PartsProofs -----------------------------
(***************************************************************************)
(* The parts run side by side, for every value of the constants: one part  *)
(* steps and the others stand still, so each of them sees a behaviour of   *)
(* its own specification, and keeps the invariants proved of it alone.     *)
(***************************************************************************)
EXTENDS MCParts, SampleProofs, LeaderModelProofs, ProcessProofs

LEMMA SampleSteps ==
  [MCNext]_vars => [ReadNext]_readVars /\ [BusNext]_busVars /\ [StreamNext]_streamVars
  BY DEF MCNext, vars, MCRead, MCFeed, MCStream, MCApi, MCRecorder, MCConfig, MCLaws, MCRollout,
         MCBridge, MCBus

LEMMA LeaderSteps ==
  [MCNext]_vars => [ConfigNext]_configVars /\ [LawsNext]_lawVars /\ [FeedNext]_feedVars
  BY DEF MCNext, vars, MCRead, MCFeed, MCStream, MCApi, MCRecorder, MCConfig, MCLaws, MCRollout,
         MCBridge, MCBus

LEMMA ProcessSteps ==
  [MCNext]_vars => /\ [RecorderNext]_recorderVars /\ [RolloutNext]_rolloutVars
                   /\ [ApiNext]_apiVars /\ [BridgeNext]_bridgeVars
  BY DEF MCNext, vars, MCRead, MCFeed, MCStream, MCApi, MCRecorder, MCConfig, MCLaws, MCRollout,
         MCBridge, MCBus

(* Refinement: the parts run side by side implement the specification of     *)
(* every part, whose operations the code keeps in separate objects and       *)
(* processes; fairness apart for the two specifications that state it.       *)
THEOREM EachPartRuns ==
  MCSpec => /\ ReadSpec /\ BusSpec /\ StreamSpec
            /\ ConfigSpec /\ LawsSpec /\ FeedSpec
            /\ RecorderSpec /\ RolloutSpec
            /\ ApiInit /\ [][ApiNext]_apiVars
            /\ BridgeInit /\ [][BridgeNext]_bridgeVars
  <1>1. MCInit => /\ ReadInit /\ BusInit /\ StreamInit /\ ConfigInit /\ LawsInit /\ FeedInit
                  /\ RecorderInit /\ RolloutInit /\ ApiInit /\ BridgeInit
    BY DEF MCInit
  <1> QED
    BY <1>1, SampleSteps, LeaderSteps, ProcessSteps, PTL
       DEF MCSpec, ReadSpec, BusSpec, StreamSpec, ConfigSpec, LawsSpec, FeedSpec, RecorderSpec,
           RolloutSpec

(* Every part keeps its types and bounds while the others run, for every     *)
(* number of servos, joints, topics, orders and requests.                    *)
THEOREM PartsAreTyped == MCSpec => []PartsTypeOK
  <1>1. MCSpec => /\ []ReadTypeOK /\ []BusTypeOK /\ []StreamTypeOK /\ []ConfigTypeOK
                  /\ []LawsTypeOK /\ []FeedTypeOK /\ []RecorderTypeOK /\ []RolloutTypeOK
    BY EachPartRuns, ReadIsTyped, BusIsTyped, StreamIsTyped, ConfigIsTyped, LawsAreTyped,
       FeedTypeCorrect, RecorderIsTyped, RolloutIsTyped
  <1>2. MCSpec => []ApiTypeOK /\ []BridgeTypeOK
    BY EachPartRuns, ApiStaysTyped, BridgeStaysTyped
  <1>3. /\ ReadTypeOK /\ BusTypeOK /\ StreamTypeOK /\ ConfigTypeOK /\ LawsTypeOK
        /\ FeedTypeOK /\ RecorderTypeOK /\ RolloutTypeOK /\ ApiTypeOK /\ BridgeTypeOK
        => PartsTypeOK
    BY DEF PartsTypeOK
  <1> QED
    BY <1>1, <1>2, <1>3, PTL

(* What is proved of each part alone holds of it among the others: no read,  *)
(* frame, episode, calibration, ensemble or answer breaks its invariant, and *)
(* neither a saved episode nor the client's reading ever goes back.          *)
THEOREM PartsAreSafe ==
  MCSpec => /\ []SampleIsOneAnswer /\ []CountersCoverEvents /\ []EventsTellAlerts
            /\ []AnswersAreRecent /\ []PublishesOwnEffort /\ ClientNeverGoesBack
            /\ []CalibrationsAgree /\ []AbsentJointsRest /\ []MotorsDoTheWork
            /\ []PullsTheShortWay /\ []OnlyGoodFramesApply
            /\ []SavedPairsUp /\ EpisodesAreKept /\ []EnsembleIsForNow /\ []RolloutPairsUp
            /\ []TeardownInOrder
  <1>1. MCSpec => /\ []SampleIsOneAnswer /\ []CountersCoverEvents /\ []EventsTellAlerts
                  /\ []AnswersAreRecent /\ []PublishesOwnEffort /\ ClientNeverGoesBack
    BY EachPartRuns, SampleIsAlwaysOneAnswer, CountersAlwaysCover, EventsAlwaysTellAlerts,
       AnswersAreAlwaysRecent, OwnEffortPublished, NeverGoesBack
  <1>2. MCSpec => /\ []CalibrationsAgree /\ []AbsentJointsRest /\ []MotorsDoTheWork
                  /\ []PullsTheShortWay /\ []OnlyGoodFramesApply
    BY EachPartRuns, Calibrated, AbsentRest, WorkIsDone, AlwaysPullsTheShortWay, OnlyGoodFrames
  <1>3. MCSpec => /\ []SavedPairsUp /\ EpisodesAreKept /\ []EnsembleIsForNow
                  /\ []RolloutPairsUp
    BY EachPartRuns, SavedEpisodesPairUp, EpisodesKept, EnsembleIsAlwaysForNow,
       RolloutAlwaysPairsUp
  <1>4. MCSpec => []TeardownInOrder
    BY EachPartRuns, ApiStaysInOrder
  <1> QED
    BY <1>1, <1>2, <1>3, <1>4
=============================================================================
