---------------------------- MODULE FeedbackFeed ----------------------------
(***************************************************************************)
(* The follower's torque on its way to the leader's hand: frames of a      *)
(* client on a WebSocket, filtered by the relay (_handle_inbound_frame),   *)
(* a topic, filtered and clipped by the leader (_on_force_feedback), a     *)
(* latest-value cache with a staleness cutoff, the control tick.           *)
(*                                                                         *)
(* A torque vector is one number.  Clients, relay and leader are separate  *)
(* processes; the tick and the subscription are separate threads.          *)
(***************************************************************************)
EXTENDS Integers, Sequences

CONSTANTS Torque,       \* what a client may send
          FeedLimit,    \* torque_feedback_max
          FeedTimeout,  \* torque_feedback_timeout, in steps of the clock
          FeedDepth,    \* messages the topic keeps (10 in the code)
          MaxFrames,    \* bound: frames sent
          MaxBreaks     \* bound: lost connections

ASSUME FeedAssumption ==
  /\ Torque \subseteq Int /\ FeedLimit \in Nat /\ FeedTimeout \in Nat
  /\ FeedDepth \in Nat \ {0} /\ MaxFrames \in Nat /\ MaxBreaks \in Nat

\* What may be wrong with a frame, by who refuses it.
RelayRefuses == {"not_json", "other_side", "unknown_type", "not_finite"}
Fault == RelayRefuses \union {"none", "wrong_length"}
FeedFrame == [torque : Torque, fault : Fault]

VARIABLES
  online,    \* the client's WebSocket is open
  wire,      \* frames on the WebSocket
  effort,    \* messages of /factr_force_feedback_<side>
  external,  \* _external_torque
  age,       \* time since _external_torque_at, as far as it matters
  chosen,    \* the external torque of the tick under way
  ticking,   \* the tick is between its read and its write
  applied,   \* the external torque in the last command written to the servos
  sent, breaks   \* history: the frames sent; connections lost

feedVars == <<online, wire, effort, external, age, chosen, ticking, applied, sent, breaks>>

\* "0.0 = never": a feed that never came is older than any timeout.
FeedInit ==
  /\ online = FALSE /\ wire = <<>> /\ effort = <<>>
  /\ external = 0 /\ age = FeedTimeout + 1
  /\ chosen = 0 /\ ticking = FALSE /\ applied = 0
  /\ sent = <<>> /\ breaks = 0

Clip(torque) == IF torque > FeedLimit THEN FeedLimit
                ELSE IF torque < -FeedLimit THEN -FeedLimit ELSE torque
-----------------------------------------------------------------------------
FeedOpen ==
  /\ ~online
  /\ online' = TRUE
  /\ UNCHANGED <<wire, effort, external, age, chosen, ticking, applied, sent, breaks>>

FeedBreak ==
  /\ online /\ breaks < MaxBreaks
  /\ online' = FALSE /\ wire' = <<>> /\ breaks' = breaks + 1
  /\ UNCHANGED <<effort, external, age, chosen, ticking, applied, sent>>

SendFrame(frame) ==
  /\ online /\ Len(sent) < MaxFrames
  /\ wire' = Append(wire, frame) /\ sent' = Append(sent, frame)
  /\ UNCHANGED <<online, effort, external, age, chosen, ticking, applied, breaks>>

\* _handle_inbound_frame: a malformed frame is dropped, never fatal.
RelayFrame ==
  /\ wire # <<>>
  /\ wire' = Tail(wire)
  /\ IF Head(wire).fault \in RelayRefuses THEN UNCHANGED effort
     ELSE effort' = IF Len(effort) < FeedDepth THEN Append(effort, Head(wire))
                    ELSE Append(Tail(effort), Head(wire))
  /\ UNCHANGED <<online, external, age, chosen, ticking, applied, sent, breaks>>

\* Mutant: the relay is trusted to have checked the length.
OnForceFeedbackUnchecked ==
  /\ effort # <<>>
  /\ effort' = Tail(effort)
  /\ external' = Clip(Head(effort).torque) /\ age' = 0
  /\ UNCHANGED <<online, wire, chosen, ticking, applied, sent, breaks>>

\* _on_force_feedback: the relay passes lists of any length, the leader does not.
OnForceFeedback ==
  /\ effort # <<>>
  /\ effort' = Tail(effort)
  /\ IF Head(effort).fault = "wrong_length" THEN UNCHANGED <<external, age>>
     ELSE external' = Clip(Head(effort).torque) /\ age' = 0
  /\ UNCHANGED <<online, wire, chosen, ticking, applied, sent, breaks>>

FeedElapse ==
  /\ age <= FeedTimeout
  /\ age' = age + 1
  /\ UNCHANGED <<online, wire, effort, external, chosen, ticking, applied, sent, breaks>>

\* Mutant: the latest value, however old.
LatestExternal == external

\* get_leader_arm_external_joint_torque
External == IF age > FeedTimeout THEN 0 ELSE external

\* A complete read; a failed one changes nothing here: the last command stands.
FeedTickReads ==
  /\ ~ticking
  /\ ticking' = TRUE /\ chosen' = External
  /\ UNCHANGED <<online, wire, effort, external, age, applied, sent, breaks>>

FeedTickWrites ==
  /\ ticking
  /\ ticking' = FALSE /\ applied' = chosen
  /\ UNCHANGED <<online, wire, effort, external, age, chosen, sent, breaks>>

FeedNext ==
  \/ FeedOpen \/ FeedBreak
  \/ \E frame \in FeedFrame : SendFrame(frame)
  \/ RelayFrame \/ OnForceFeedback
  \/ FeedElapse \/ FeedTickReads \/ FeedTickWrites

FeedSpec == FeedInit /\ [][FeedNext]_feedVars
-----------------------------------------------------------------------------
FeedTypeOK ==
  /\ online \in BOOLEAN /\ ticking \in BOOLEAN
  /\ wire \in Seq(FeedFrame) /\ sent \in Seq(FeedFrame)
  /\ effort \in Seq(FeedFrame) /\ Len(effort) <= FeedDepth
  /\ age \in 0..(FeedTimeout + 1)
  /\ \A torque \in {external, chosen, applied} : torque \in (-FeedLimit)..FeedLimit
  /\ Len(sent) <= MaxFrames /\ breaks \in 0..MaxBreaks

(* What reaches the servos is, within the limit, a torque some client sent   *)
(* in a frame without fault: neither filter lets through what only the other *)
(* refuses.                                                                  *)
OnlyGoodFramesApply ==
  applied # 0 => \E i \in DOMAIN sent : sent[i].fault = "none" /\ applied = Clip(sent[i].torque)

(* "A dropped client or dead relay never leaves a standing force": once     *)
(* frames stop for good, the command written last has no external torque in *)
(* it, as long as control ticks keep completing.                            *)
ForceLetsGo == <>[](applied = 0)
=============================================================================
