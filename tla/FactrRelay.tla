----------------------------- MODULE FactrRelay -----------------------------
(***************************************************************************)
(* The HTTP relay of one arm (FactrAPI, factr_api.py) beside the leader    *)
(* node it commands.  The relay keeps its own copy of the leader's targets,*)
(* gains and torque flag: written by the HTTP handlers, by the 10 Hz state *)
(* topics and by every telemetry sample.  Telemetry is published from the  *)
(* snapshot of the last SUCCESSFUL control tick, so it is frozen while     *)
(* reads fail; the state topics publish the live attributes.               *)
(*                                                                         *)
(* The control tick is one step here (LeaderTorque and SingleBoardLeader   *)
(* take it apart).  The gravity-compensation gain has the leader target    *)
(* and travels like the feedback gain: it is not kept a third time.        *)
(***************************************************************************)
EXTENDS Naturals, Sequences

CONSTANTS LeaderSteps,    \* ticks of the leader-torque ramp
          FeedbackSteps,  \* ticks of the force-feedback ramp
          Depth,          \* messages a topic keeps for a slow subscriber (10 in the code)
          MaxRequests,    \* bound: HTTP requests
          MaxRestarts     \* bound: crashes, of either process

ASSUME RelayAssumption ==
  /\ LeaderSteps \in Nat \ {0} /\ FeedbackSteps \in Nat \ {0} /\ Depth \in Nat \ {0}
  /\ MaxRequests \in Nat /\ MaxRestarts \in Nat

Kind  == {"leader", "feedback"}
Full  == [leader |-> LeaderSteps, feedback |-> FeedbackSteps]
Topic == Kind \union {"enabled"}   \* the state topics: a gain each, and the torque flag

Gains  == {g \in [Kind -> 0..(LeaderSteps + FeedbackSteps)] : \A k \in Kind : g[k] <= Full[k]}
Sample == [target : Gains, gain : Gains, on : BOOLEAN]
Zero   == [target |-> [k \in Kind |-> 0], gain |-> [k \in Kind |-> 0], on |-> FALSE]
NoSample == [none |-> TRUE]
NoRequest == [none |-> TRUE]

VARIABLES
  alive,     \* the leader process runs
  leader,    \* its gain targets, live gains and leader_torque_enabled
  snapshot,  \* _telemetry_snapshot
  view,      \* the relay's copy of the same attributes
  request,   \* the HTTP handler between its publish and its store
  commands,  \* gain-target messages on their way to the leader
  frames,    \* telemetry on its way to the relay
  states,    \* gain and torque state messages on their way to the relay
  asked,     \* history: the last leader torque target a client asked for
  lost,      \* history: the leader restarted, or was down, since it was asked
  requests, restarts

relayVars == <<alive, leader, snapshot, view, request, commands, frames, states, asked,
               lost, requests, restarts>>
history == <<asked, lost, requests, restarts>>
topics  == <<commands, frames, states>>

Init ==
  /\ alive = TRUE
  /\ leader = Zero /\ snapshot = NoSample
  /\ view = Zero /\ request = NoRequest
  /\ commands = [k \in Kind |-> <<>>] /\ frames = <<>> /\ states = [t \in Topic |-> <<>>]
  /\ asked = 0 /\ lost = FALSE
  /\ requests = 0 /\ restarts = 0

\* Mutant: one message too many.
PutDeeper(queue, msg) == IF Len(queue) <= Depth THEN Append(queue, msg)
                         ELSE Append(Tail(queue), msg)

\* Keep-last history: a full queue drops its oldest message.
Put(queue, msg) == IF Len(queue) < Depth THEN Append(queue, msg)
                   ELSE Append(Tail(queue), msg)
-----------------------------------------------------------------------------
(* The relay's HTTP handlers: publish, then store under the lock. *)

PublishTarget(k, target) ==
  /\ request = NoRequest /\ requests < MaxRequests
  /\ commands' = IF alive THEN [commands EXCEPT ![k] = Put(@, target)] ELSE commands
  /\ request' = [kind |-> k, target |-> target]
  /\ IF k = "leader" THEN asked' = target /\ lost' = ~alive
                     ELSE UNCHANGED <<asked, lost>>
  /\ requests' = requests + 1
  /\ UNCHANGED <<alive, leader, snapshot, view, frames, states, restarts>>

StoreTarget ==
  /\ request # NoRequest
  /\ view' = [view EXCEPT !.target[request.kind] = request.target]
  /\ request' = NoRequest
  /\ UNCHANGED <<alive, leader, snapshot, topics, history>>

(* The relay's subscriptions: one callback group, one callback at a time. *)

\* Mutant: only what the hardware does is taken from a sample, never the targets.
UpdateWithoutTargets ==
  /\ frames # <<>>
  /\ view' = [Head(frames) EXCEPT !.target = view.target]
  /\ frames' = Tail(frames)
  /\ UNCHANGED <<alive, leader, snapshot, request, commands, states, history>>

UpdateTelemetry ==
  /\ frames # <<>>
  /\ view' = Head(frames)
  /\ frames' = Tail(frames)
  /\ UNCHANGED <<alive, leader, snapshot, request, commands, states, history>>

UpdateState(t) ==
  /\ states[t] # <<>>
  /\ view' = IF t = "enabled" THEN [view EXCEPT !.on = Head(states[t])]
                              ELSE [view EXCEPT !.gain[t] = Head(states[t])]
  /\ states' = [states EXCEPT ![t] = Tail(@)]
  /\ UNCHANGED <<alive, leader, snapshot, request, commands, frames, history>>

\* get_status: leader_torque_state
Status(v) ==
  IF v.target["leader"] = 0
  THEN IF ~v.on /\ v.gain["leader"] = 0 THEN "disabled" ELSE "disabling"
  ELSE IF v.on /\ v.gain["leader"] = Full["leader"] THEN "enabled" ELSE "enabling"
-----------------------------------------------------------------------------
(* The leader node. *)

\* Mutant: a fresh enable request is taken, a disable request is not.
TakeEnableOnly(k) ==
  /\ alive /\ commands[k] # <<>>
  /\ leader' = [leader EXCEPT !.target[k] = IF Head(commands[k]) > @ THEN Head(commands[k])
                                            ELSE @]
  /\ commands' = [commands EXCEPT ![k] = Tail(@)]
  /\ UNCHANGED <<alive, snapshot, view, request, frames, states, history>>

\* A fresh enable starts the leader ramp from zero; the feedback gain is only retargeted.
TakeTarget(k) ==
  /\ alive /\ commands[k] # <<>>
  /\ LET new == Head(commands[k])
     IN leader' = [leader EXCEPT
          !.target[k] = new,
          !.gain[k] = IF k = "leader" /\ new > 0 /\ leader.target[k] = 0 THEN 0 ELSE @]
  /\ commands' = [commands EXCEPT ![k] = Tail(@)]
  /\ UNCHANGED <<alive, snapshot, view, request, frames, states, history>>

\* _update_component_gains: one ramp step of each gain towards its target.
Ramped(l) == [k \in Kind |-> IF l.gain[k] < l.target[k] THEN l.gain[k] + 1
                             ELSE IF l.gain[k] > l.target[k] THEN l.gain[k] - 1
                             ELSE l.gain[k]]

\* _apply_leader_torque: on with a positive target, off once the ramp is down.
TorqueOn(target, gain, on) == IF target > 0 THEN TRUE ELSE on /\ gain > 0

\* control_loop_callback after a complete read: ramps, torque mode, then the snapshot.
TickSucceeds ==
  /\ alive
  /\ LET gain == Ramped(leader)
     IN leader' = [leader EXCEPT
          !.gain = gain,
          !.on = TorqueOn(leader.target["leader"], gain["leader"], leader.on)]
  /\ snapshot' = leader'
  /\ UNCHANGED <<alive, view, request, topics, history>>

\* A DynamixelReadError: the tick is skipped, and an off request is honoured at once.
TickFails ==
  /\ alive /\ leader.target["leader"] = 0 /\ leader.on
  /\ leader' = [leader EXCEPT !.gain["leader"] = 0, !.on = FALSE]
  /\ UNCHANGED <<alive, snapshot, view, request, topics, history>>

PublishTelemetry ==
  /\ alive /\ snapshot # NoSample
  /\ frames' = Put(frames, snapshot)
  /\ UNCHANGED <<alive, leader, snapshot, view, request, commands, states, history>>

PublishGainStates ==
  /\ alive
  /\ states' = [t \in Topic |-> Put(states[t], IF t = "enabled" THEN leader.on
                                               ELSE leader.gain[t])]
  /\ UNCHANGED <<alive, leader, snapshot, view, request, commands, frames, history>>
-----------------------------------------------------------------------------
(* Crashes.  Subscriptions are volatile: what waited for the process is gone. *)

RelayRestart ==
  /\ restarts < MaxRestarts
  /\ view' = Zero /\ request' = NoRequest
  /\ frames' = <<>> /\ states' = [t \in Topic |-> <<>>]
  /\ restarts' = restarts + 1
  /\ UNCHANGED <<alive, leader, snapshot, commands, asked, lost, requests>>

LeaderCrash ==
  /\ alive /\ restarts < MaxRestarts
  /\ alive' = FALSE
  /\ commands' = [k \in Kind |-> <<>>]
  /\ lost' = TRUE
  /\ restarts' = restarts + 1
  /\ UNCHANGED <<leader, snapshot, view, request, frames, states, asked, requests>>

\* A new leader process: torque mode off, every gain and target at zero, no sample yet.
LeaderStart ==
  /\ ~alive
  /\ alive' = TRUE
  /\ leader' = Zero /\ snapshot' = NoSample
  /\ UNCHANGED <<view, request, topics, history>>
-----------------------------------------------------------------------------
Next ==
  \/ \E k \in Kind : \E target \in {0, Full[k]} : PublishTarget(k, target)
  \/ StoreTarget
  \/ UpdateTelemetry
  \/ \E t \in Topic : UpdateState(t)
  \/ \E k \in Kind : TakeTarget(k)
  \/ TickSucceeds
  \/ TickFails
  \/ PublishTelemetry
  \/ PublishGainStates
  \/ RelayRestart
  \/ LeaderCrash
  \/ LeaderStart

Spec == Init /\ [][Next]_relayVars

\* The timers, callbacks and threads of two live processes keep being scheduled; a
\* crashed leader is started again.  Clients and crashes are under no fairness, and a
\* control tick is fair only where it has nothing to read.
Scheduling ==
  /\ WF_relayVars(StoreTarget) /\ WF_relayVars(UpdateTelemetry)
  /\ \A t \in Topic : WF_relayVars(UpdateState(t))
  /\ \A k \in Kind : WF_relayVars(TakeTarget(k))
  /\ WF_relayVars(TickFails)
  /\ WF_relayVars(PublishTelemetry) /\ WF_relayVars(PublishGainStates)
  /\ WF_relayVars(LeaderStart)

\* A fault that lasts: reads may fail from some tick on.
FailingReadsSpec == Spec /\ Scheduling

\* A fault that passes: a complete read comes again and again.
RecoveringSpec == FailingReadsSpec /\ WF_relayVars(TickSucceeds)
-----------------------------------------------------------------------------
(* The relay's types: its copy holds only values of a leader sample. *)
TypeOK ==
  /\ alive \in BOOLEAN /\ leader \in Sample /\ snapshot \in Sample \union {NoSample}
  /\ view \in Sample
  /\ request \in [kind : Kind, target : 0..(LeaderSteps + FeedbackSteps)] \union {NoRequest}
  /\ \A k \in Kind : Len(commands[k]) <= Depth
                     /\ \A i \in 1..Len(commands[k]) : commands[k][i] \in {0, Full[k]}
  /\ Len(frames) <= Depth /\ \A i \in 1..Len(frames) : frames[i] \in Sample
  /\ \A t \in Topic : Len(states[t]) <= Depth
  /\ asked \in {0, LeaderSteps} /\ lost \in BOOLEAN
  /\ requests \in 0..MaxRequests /\ restarts \in 0..MaxRestarts

(* Once clients are quiet and crashes over, the relay's copy becomes the    *)
(* leader's state and stays it, whichever of HTTP handler, state topic and  *)
(* (possibly old) telemetry wrote last: no "false disabling target forever" *)
(* after an API restart (_update_telemetry).                                *)
Converges == <>[](view = leader)

(* The last torque request wins end to end: a disable leaves the leader off *)
(* and reported "disabled" even across crashes; an enable the leader was    *)
(* alive to keep is reported "enabled".                                     *)
LastRequestWins ==
  /\ <>[](asked = 0) => <>[](~leader.on /\ Status(view) = "disabled")
  /\ <>[](asked > 0 /\ ~lost) => <>[](leader.on /\ Status(view) = "enabled")

(* get_status: "the authoritative hardware torque state".  Once the torque  *)
(* mode of a live leader stays off, the relay's copy stops saying it is on. *)
ReportsHardwareState == <>[](alive /\ ~leader.on) => <>[]~view.on
=============================================================================
