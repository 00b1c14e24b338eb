----------------------------- MODULE JointStream -----------------------------
(***************************************************************************)
(* The leader's joint positions on their way to the follower: the sample   *)
(* cache of the control read (raw_joint_state.py), publish_joint_pos after *)
(* the torque write (factr_rizon_dual_board.py, factr_rizon_teleop.py),    *)
(* the topic, the relay's latest value, and its 200 Hz WebSocket readings. *)
(*                                                                         *)
(* A sample is the time it was acquired, its stamp; the effort of a        *)
(* message is the stamp of the sample its torques were computed from.      *)
(***************************************************************************)
EXTENDS Naturals, Sequences

CONSTANTS StreamDepth,      \* messages the topic keeps (10 in the code)
          MaxSamples,       \* bound: complete reads, of all leader processes
          MaxStreamFaults   \* bound: restarts and lost connections

ASSUME StreamAssumption ==
  StreamDepth \in Nat \ {0} /\ MaxSamples \in Nat \ {0} /\ MaxStreamFaults \in Nat

VARIABLES
  variant,     \* which leader program: "dual" or "single"
  phase,       \* of its control loop: next is a read, a write, a publish; or it ended
  clock,       \* stamps given so far
  sequence,    \* _sequence of the cache
  stamp,       \* stamp of the cached sample
  commanded,   \* sample of _last_commanded_torque_nm, 0 for the initial zeros
  published,   \* _last_published_joint_sequence
  positions,   \* messages on /joint_pos_<side>
  reading,     \* the relay's joint_pos, 0 for its default
  linked,      \* the client's WebSocket is open
  frames,      \* readings on the WebSocket
  client,      \* the newest stamp the client holds: default readings carry none
  last,        \* history: the stamp published last
  missed,      \* history: the relay restarted after that
  streamFaults

streamLeader == <<variant, phase, clock, sequence, stamp, commanded, published>>
streamRelay  == <<reading, linked, frames>>
streamVars   == <<streamLeader, positions, streamRelay, client, last, missed, streamFaults>>

StreamMessage == [stamp : 1..MaxSamples, effort : 0..MaxSamples]

\* The constructor's warm-up reads leave one sample in the cache.
StreamInit ==
  /\ variant \in {"dual", "single"}
  /\ phase = "read" /\ clock = 1 /\ sequence = 1 /\ stamp = 1
  /\ commanded = 0 /\ published = 0
  /\ positions = <<>> /\ reading = 0 /\ linked = FALSE /\ frames = <<>>
  /\ client = 0 /\ last = 0 /\ missed = FALSE /\ streamFaults = 0
-----------------------------------------------------------------------------
(* The control loop. *)

StreamRead ==
  /\ phase = "read" /\ clock < MaxSamples
  /\ clock' = clock + 1 /\ stamp' = clock + 1 /\ sequence' = sequence + 1
  /\ phase' = "write"
  /\ UNCHANGED <<variant, commanded, published, positions, streamRelay, client, last, missed,
                 streamFaults>>

\* A failed read: the dual loop skips the tick, the single one still publishes.
StreamReadFails ==
  /\ phase = "read" /\ variant = "single"
  /\ phase' = "publish"
  /\ UNCHANGED <<variant, clock, sequence, stamp, commanded, published, positions, streamRelay,
                 client, last, missed, streamFaults>>

StreamWrite ==
  /\ phase = "write"
  /\ commanded' = stamp /\ phase' = "publish"
  /\ UNCHANGED <<variant, clock, sequence, stamp, published, positions, streamRelay, client,
                 last, missed, streamFaults>>

\* A write that raises ends the program, between its read and its publish.
StreamWriteFails ==
  /\ phase = "write" /\ streamFaults < MaxStreamFaults
  /\ phase' = "ended" /\ streamFaults' = streamFaults + 1
  /\ UNCHANGED <<variant, clock, sequence, stamp, commanded, published, positions, streamRelay,
                 client, last, missed>>

\* Mutant: a full queue refuses the newest message.
PutPositionUnlessFull(msg) ==
  IF Len(positions) < StreamDepth THEN Append(positions, msg) ELSE positions

PutPosition(msg) ==
  IF Len(positions) < StreamDepth THEN Append(positions, msg) ELSE Append(Tail(positions), msg)

\* Mutant: the sample is published as often as the callback runs.
PublishAlways ==
  /\ phase = "publish"
  /\ phase' = "read"
  /\ positions' = PutPosition([stamp |-> stamp, effort |-> commanded])
  /\ last' = stamp /\ published' = sequence /\ missed' = FALSE
  /\ UNCHANGED <<variant, clock, sequence, stamp, commanded, streamRelay, client, streamFaults>>

\* publish_joint_pos
PublishJointPos ==
  /\ phase = "publish"
  /\ phase' = "read"
  /\ IF sequence <= published THEN UNCHANGED <<positions, last, published, missed>>
     ELSE /\ positions' = PutPosition([stamp |-> stamp, effort |-> commanded])
          /\ last' = stamp /\ published' = sequence /\ missed' = FALSE
  /\ UNCHANGED <<variant, clock, sequence, stamp, commanded, streamRelay, client, streamFaults>>

\* A new leader process, after any end of the old one.
StreamRestart ==
  /\ clock < MaxSamples
  /\ \/ phase = "ended" /\ UNCHANGED streamFaults
     \/ streamFaults < MaxStreamFaults /\ streamFaults' = streamFaults + 1
  /\ phase' = "read" /\ clock' = clock + 1 /\ stamp' = clock + 1 /\ sequence' = 1
  /\ commanded' = 0 /\ published' = 0
  /\ UNCHANGED <<variant, positions, streamRelay, client, last, missed>>
-----------------------------------------------------------------------------
(* The relay and its client. *)

\* Mutant: callbacks of one subscription overtake each other.
UpdateJointPosAnyOrder ==
  /\ \E i \in DOMAIN positions :
       /\ reading' = positions[i].stamp
       /\ positions' = SubSeq(positions, 1, i - 1) \o SubSeq(positions, i + 1, Len(positions))
  /\ UNCHANGED <<streamLeader, linked, frames, client, last, missed, streamFaults>>

UpdateJointPos ==
  /\ positions # <<>>
  /\ reading' = Head(positions).stamp /\ positions' = Tail(positions)
  /\ UNCHANGED <<streamLeader, linked, frames, client, last, missed, streamFaults>>

StreamOpen ==
  /\ ~linked
  /\ linked' = TRUE
  /\ UNCHANGED <<streamLeader, positions, reading, frames, client, last, missed, streamFaults>>

\* _stream_sender: the latest reading every period, new or not.
SendReading ==
  /\ linked /\ frames = <<>>
  /\ frames' = <<reading>>
  /\ UNCHANGED <<streamLeader, positions, reading, linked, client, last, missed, streamFaults>>

TakeReading ==
  /\ frames # <<>>
  /\ client' = IF Head(frames) = 0 THEN client ELSE Head(frames)
  /\ frames' = Tail(frames)
  /\ UNCHANGED <<streamLeader, positions, reading, linked, last, missed, streamFaults>>

StreamBreak ==
  /\ linked /\ streamFaults < MaxStreamFaults
  /\ linked' = FALSE /\ frames' = <<>> /\ streamFaults' = streamFaults + 1
  /\ UNCHANGED <<streamLeader, positions, reading, client, last, missed>>

StreamRelayRestart ==
  /\ streamFaults < MaxStreamFaults
  /\ positions' = <<>> /\ reading' = 0 /\ linked' = FALSE /\ frames' = <<>>
  /\ missed' = TRUE /\ streamFaults' = streamFaults + 1
  /\ UNCHANGED <<streamLeader, client, last>>

\* The leader's control loop takes its next step.
StreamStep == StreamRead \/ StreamReadFails \/ StreamWrite \/ PublishJointPos

StreamNext ==
  \/ StreamRead \/ StreamReadFails \/ StreamWrite \/ StreamWriteFails \/ PublishJointPos
  \/ StreamRestart
  \/ UpdateJointPos \/ StreamOpen \/ SendReading \/ TakeReading
  \/ StreamBreak \/ StreamRelayRestart

StreamSpec == StreamInit /\ [][StreamNext]_streamVars
-----------------------------------------------------------------------------
StreamTypeOK ==
  /\ variant \in {"dual", "single"} /\ phase \in {"read", "write", "publish", "ended"}
  /\ {clock, stamp, sequence} \subseteq 1..MaxSamples
  /\ {commanded, published, reading, client, last} \subseteq 0..MaxSamples
  /\ positions \in Seq(StreamMessage) /\ Len(positions) <= StreamDepth
  /\ linked \in BOOLEAN /\ missed \in BOOLEAN
  /\ frames \in Seq(0..MaxSamples) /\ Len(frames) <= 1
  /\ streamFaults \in 0..MaxStreamFaults

(* Each sample goes out at most once, in order, with the effort of its own   *)
(* control iteration; the only other effort is the zero that goes with the   *)
(* warm-up sample, which the single-board program publishes when its first   *)
(* read fails (publish_joint_pos: "Duplicate/stale reads are suppressed").   *)
PublishesOwnEffort ==
  /\ \A i \in DOMAIN positions :
       \/ positions[i].effort = positions[i].stamp
       \/ variant = "single" /\ positions[i].effort = 0
  /\ \A i, j \in DOMAIN positions : i < j => positions[i].stamp < positions[j].stamp

(* A client's stamps never go back, over every restart of the leader, whose  *)
(* sequence numbers start again, and of the relay, whose default has none.   *)
ClientNeverGoesBack == [][client' >= client]_client

(* Whatever the queue dropped on the way, the sample published last is what  *)
(* the client ends up with, unless the relay restarted since.                *)
NewestReachesClient == <>[](missed \/ client = last)
=============================================================================
