--------------------------- MODULE PolicyRollout ---------------------------
(***************************************************************************)
(* The policy rollout node (policy_rollout.py, rollout.py): observations   *)
(* by topic, one inference per timer period, the temporal ensemble of the  *)
(* last action chunks, and the recording a keyboard thread saves or drops. *)
(* The timer and the subscriptions share one executor thread; only the     *)
(* keyboard listener runs beside them.                                     *)
(*                                                                         *)
(* An action chunk is the step it was predicted at: its entry i is meant   *)
(* for i steps later.  An observation is whether one came; the policy and  *)
(* its weights are external.                                               *)
(***************************************************************************)
EXTENDS Integers, Sequences, SequencesExt

CONSTANTS StateTopic, Camera,  \* obs_config
          Horizon,    \* pred_horizon, the length act_history is capped at
          Chunk,      \* actions in a prediction
          MaxSteps,   \* bound: inferences
          MaxPresses  \* bound: keys pressed

\* A shorter chunk raises IndexError in action_chunk_ensemble: agent_config.yaml must not.
ASSUME RolloutAssumption ==
  /\ Horizon \in Nat \ {0} /\ Chunk \in Nat /\ Chunk >= Horizon
  /\ MaxSteps \in Nat /\ MaxPresses \in Nat

VARIABLES
  states,     \* state_obs: the topics that were heard
  images,     \* image_obs: the topics in the order of their first image, cam0 first
  history,    \* act_history
  steps,      \* step_cnt
  acting,     \* the timer callback has sent its command, not recorded it
  command,    \* the step of the last command and the entries averaged into it
  dataDict,       \* data_dict: the steps of the entries of two of its lists
  dumping,    \* the keyboard thread has pickled the images, not the actions
  dumped,     \* the file
  presses     \* history: keys pressed

rolloutVars ==
  <<states, images, history, steps, acting, command, dataDict, dumping, dumped, presses>>

NoData == [images |-> <<>>, actions |-> <<>>]

RolloutInit ==
  /\ states = {} /\ images = <<>> /\ history = <<>> /\ steps = 0 /\ acting = FALSE
  /\ command = [step |-> 0, entries |-> {}]
  /\ dataDict = NoData /\ dumping = FALSE /\ dumped = NoData /\ presses = 0
-----------------------------------------------------------------------------
LowDimCallback(topic) ==
  /\ ~acting /\ states' = states \union {topic}
  /\ UNCHANGED <<images, history, steps, acting, command, dataDict, dumping, dumped, presses>>

\* Assigning to a key a dictionary has keeps its place.
ImageCallback(camera) ==
  /\ ~acting
  /\ images' = IF camera \in ToSet(images) THEN images ELSE Append(images, camera)
  /\ UNCHANGED <<states, history, steps, acting, command, dataDict, dumping, dumped, presses>>

\* test_low_dim_obs, test_image_obs
Observed == StateTopic \subseteq states /\ Camera \subseteq ToSet(images)

\* deque(maxlen=Horizon).append
Remembered(chunk) ==
  IF Len(history) < Horizon THEN Append(history, chunk) ELSE Append(Tail(history), chunk)

\* Mutant: the histories are paired oldest first.
EntriesOldestFirst(chunks) == {<<chunks[k], k - 1>> : k \in DOMAIN chunks}

\* action_chunk_ensemble: the oldest prediction is read furthest along.
Entries(chunks) == {<<chunks[k], Len(chunks) - k>> : k \in DOMAIN chunks}

\* timer_callback up to send_command: the images are recorded before the inference.
TimerActs ==
  /\ ~acting /\ steps < MaxSteps /\ Observed
  /\ dataDict' = [dataDict EXCEPT !.images = Append(@, steps)]
  /\ history' = Remembered(steps)
  /\ command' = [step |-> steps, entries |-> Entries(history')]
  /\ acting' = TRUE
  /\ UNCHANGED <<states, images, steps, dumping, dumped, presses>>

\* The rest of the callback: the other lists, then the step count.
TimerRecords ==
  /\ acting
  /\ dataDict' = [dataDict EXCEPT !.actions = Append(@, steps)]
  /\ steps' = steps + 1 /\ acting' = FALSE
  /\ UNCHANGED <<states, images, history, command, dumping, dumped, presses>>
-----------------------------------------------------------------------------
\* Space: save_data pickles list after list while the timer goes on appending.
PressSpace ==
  /\ ~dumping /\ presses < MaxPresses
  /\ dumped' = [images |-> dataDict.images, actions |-> <<>>]
  /\ dumping' = TRUE /\ presses' = presses + 1
  /\ UNCHANGED <<states, images, history, steps, acting, command, dataDict>>

DumpEnds ==
  /\ dumping
  /\ dumped' = [dumped EXCEPT !.actions = dataDict.actions]
  /\ dumping' = FALSE
  /\ UNCHANGED <<states, images, history, steps, acting, command, dataDict, presses>>

\* Mutant: only the images are dropped.
ImagesDropped == [dataDict EXCEPT !.images = <<>>]

\* A new defaultdict: step_cnt and the history stay.
Dropped == NoData

\* Delete, from the same thread as the dump: never during one.
PressDelete ==
  /\ ~dumping /\ presses < MaxPresses
  /\ dataDict' = Dropped /\ presses' = presses + 1
  /\ UNCHANGED <<states, images, history, steps, acting, command, dumping, dumped>>

RolloutNext ==
  \/ \E topic \in StateTopic : LowDimCallback(topic)
  \/ \E camera \in Camera : ImageCallback(camera)
  \/ TimerActs \/ TimerRecords \/ PressSpace \/ DumpEnds \/ PressDelete

RolloutSpec == RolloutInit /\ [][RolloutNext]_rolloutVars
-----------------------------------------------------------------------------
RolloutTypeOK ==
  /\ states \subseteq StateTopic /\ ToSet(images) \subseteq Camera
  /\ Len(history) <= Horizon /\ steps \in 0..MaxSteps
  /\ acting \in BOOLEAN /\ dumping \in BOOLEAN /\ presses \in 0..MaxPresses
  /\ command.step \in 0..MaxSteps
  /\ \A d \in {dataDict, dumped} : Len(d.images) <= MaxSteps /\ Len(d.actions) <= MaxSteps

(***************************************************************************)
(* What action_chunk_ensemble averages into a command are predictions for  *)
(* the very step the command is for, from all of the last Horizon          *)
(* inferences, read inside their chunks, from the first step on and after  *)
(* the history is full.                                                    *)
(***************************************************************************)
EnsembleIsForNow ==
  command.entries # {} =>
    command.entries =
      {<<command.step - i, i>> : i \in {j \in 0..(Horizon - 1) : j <= command.step}}

(***************************************************************************)
(* In a saved rollout, entry k of one list and entry k of another are of   *)
(* the same step; only a Delete pressed during a timer callback, which     *)
(* drops the images of the step whose action is still to be recorded,      *)
(* leaves the images one step ahead.                                       *)
(***************************************************************************)
RolloutPairsUp ==
  \A k \in DOMAIN dumped.images \intersect DOMAIN dumped.actions :
    dumped.images[k] - dumped.actions[k] \in {0, 1}
=============================================================================
