---------------------------- MODULE DataRecorder ----------------------------
(***************************************************************************)
(* The data recorder (bc/data_record.py): a keyboard listener thread that  *)
(* starts, stops, saves and deletes episodes, and the executor thread      *)
(* whose subscription callbacks fill the log in three appends, with no     *)
(* lock between them.  A log is the lengths of its lists, for one topic;   *)
(* episode files outlive the process.                                      *)
(***************************************************************************)
EXTENDS Integers, FiniteSetsExt, Functions

CONSTANTS MaxEpisodes,  \* bound: episode numbers
          MaxRecorded,  \* bound: messages recorded into one log
          MaxStarts,    \* bound: recordings started
          MaxCrashes    \* bound: ends of the process

ASSUME RecorderAssumption == {MaxEpisodes, MaxRecorded, MaxStarts, MaxCrashes} \subseteq Nat

VARIABLES
  recording,  \* self.recording
  log,        \* self.data_log: are the topics in, and the length of each list
  keys,       \* the keyboard thread: where it is in on_press_key
  recorder,   \* the executor thread: where it is in a callback
  episodes,   \* ep_<n>.pkl: [number -> what is in the file]
  starts, crashes

recorderVars == <<recording, log, keys, recorder, episodes, starts, crashes>>

EmptyLog == [topics |-> FALSE, data |-> 0, stamps |-> 0, all |-> 0]
NewFile  == [complete |-> FALSE, data |-> 0, stamps |-> 0]
Idle     == [at |-> "idle", file |-> 0]
Saving(at, n) == [at |-> at, file |-> n]

RecorderInit ==
  /\ recording = FALSE /\ log = EmptyLog /\ keys = Idle /\ recorder = "idle"
  /\ episodes = <<>> /\ starts = 0 /\ crashes = 0
-----------------------------------------------------------------------------
(* on_press_key. *)

\* A new log is in place before its topics are, and both before recording.
PressStart ==
  /\ keys = Idle /\ ~recording /\ starts < MaxStarts /\ recorder # "dead"
  /\ log' = EmptyLog /\ keys' = Saving("filling", 0) /\ starts' = starts + 1
  /\ UNCHANGED <<recording, recorder, episodes, crashes>>

FillTopics ==
  /\ keys.at = "filling"
  /\ log' = [log EXCEPT !.topics = TRUE] /\ keys' = Saving("arming", 0)
  /\ UNCHANGED <<recording, recorder, episodes, starts, crashes>>

StartRecording ==
  /\ keys.at = "arming"
  /\ recording' = TRUE /\ keys' = Idle
  /\ UNCHANGED <<log, recorder, episodes, starts, crashes>>

\* Mutant: recording ends when the episode is saved.
StopLate ==
  /\ keys = Idle /\ recording
  /\ keys' = Saving("counting", 0)
  /\ UNCHANGED <<recording, log, recorder, episodes, starts, crashes>>

PressStop ==
  /\ keys = Idle /\ recording
  /\ recording' = FALSE /\ keys' = Saving("counting", 0)
  /\ UNCHANGED <<log, recorder, episodes, starts, crashes>>

\* The number of the episode is the count of files; open(..., 'wb') truncates.
OpenEpisode ==
  /\ keys.at = "counting"
  /\ LET n == Cardinality(DOMAIN episodes)
     IN /\ n <= MaxEpisodes
        /\ episodes' = [i \in DOMAIN episodes \union {n} |->
                          IF i = n THEN NewFile ELSE episodes[i]]
        /\ keys' = Saving("data", n)
  /\ UNCHANGED <<recording, log, recorder, starts, crashes>>

\* pickle walks the log as it then is: the data, the timestamps, all timestamps.
DumpData ==
  /\ keys.at = "data"
  /\ episodes' = [episodes EXCEPT ![keys.file].data = log.data]
  /\ keys' = Saving("stamps", keys.file)
  /\ UNCHANGED <<recording, log, recorder, starts, crashes>>

DumpTimestamps ==
  /\ keys.at = "stamps"
  /\ episodes' = [episodes EXCEPT ![keys.file].stamps = log.stamps, ![keys.file].complete = TRUE]
  /\ keys' = Saving("summary", keys.file)
  /\ UNCHANGED <<recording, log, recorder, starts, crashes>>

\* The summary indexes all_timestamps: an empty log ends the listener thread.
Summarize ==
  /\ keys.at = "summary"
  /\ keys' = IF log.all = 0 THEN Saving("dead", 0) ELSE Idle
  /\ UNCHANGED <<recording, log, recorder, episodes, starts, crashes>>

\* Mutant: the episodes are sorted the other way round.
DeleteFirst ==
  /\ keys = Idle /\ DOMAIN episodes # {} /\ recorder # "dead"
  /\ episodes' = Restrict(episodes, DOMAIN episodes \ {Min(DOMAIN episodes)})
  /\ UNCHANGED <<recording, log, keys, recorder, starts, crashes>>

\* delete_last_trajectory, also in the middle of a recording.
DeleteLast ==
  /\ keys = Idle /\ DOMAIN episodes # {} /\ recorder # "dead"
  /\ episodes' = Restrict(episodes, DOMAIN episodes \ {Max(DOMAIN episodes)})
  /\ UNCHANGED <<recording, log, keys, recorder, starts, crashes>>
-----------------------------------------------------------------------------
(* create_callback's callback, on the executor thread. *)

Message ==
  /\ recorder = "idle" /\ recording
  /\ recorder' = "data"
  /\ UNCHANGED <<recording, log, keys, episodes, starts, crashes>>

\* A topic the new log does not have yet: the KeyError ends the node.
AppendData ==
  /\ recorder = "data" /\ log.data < MaxRecorded
  /\ IF log.topics THEN log' = [log EXCEPT !.data = @ + 1] /\ recorder' = "stamp"
                   ELSE recorder' = "dead" /\ UNCHANGED log
  /\ UNCHANGED <<recording, keys, episodes, starts, crashes>>

AppendTimestamp ==
  /\ recorder = "stamp" /\ log.stamps < MaxRecorded
  /\ IF log.topics THEN log' = [log EXCEPT !.stamps = @ + 1] /\ recorder' = "all"
                   ELSE recorder' = "dead" /\ UNCHANGED log
  /\ UNCHANGED <<recording, keys, episodes, starts, crashes>>

AppendAll ==
  /\ recorder = "all"
  /\ log' = [log EXCEPT !.all = @ + 1] /\ recorder' = "idle"
  /\ UNCHANGED <<recording, keys, episodes, starts, crashes>>

\* The process ends, by a dead node or otherwise, and is started again.
RecorderRestart ==
  /\ crashes < MaxCrashes
  /\ recording' = FALSE /\ log' = EmptyLog /\ keys' = Idle /\ recorder' = "idle"
  /\ crashes' = crashes + 1
  /\ UNCHANGED <<episodes, starts>>

RecorderNext ==
  \/ PressStart \/ FillTopics \/ StartRecording \/ PressStop
  \/ OpenEpisode \/ DumpData \/ DumpTimestamps \/ Summarize \/ DeleteLast
  \/ Message \/ AppendData \/ AppendTimestamp \/ AppendAll
  \/ RecorderRestart

RecorderSpec == RecorderInit /\ [][RecorderNext]_recorderVars
-----------------------------------------------------------------------------
RecorderTypeOK ==
  /\ recording \in BOOLEAN
  /\ log \in [topics : BOOLEAN, data : 0..MaxRecorded, stamps : 0..MaxRecorded, all : Nat]
  /\ recorder \in {"idle", "data", "stamp", "all", "dead"}
  /\ \A n \in DOMAIN episodes : episodes[n] \in
       [complete : BOOLEAN, data : 0..MaxRecorded, stamps : 0..MaxRecorded]
  /\ DOMAIN episodes \subseteq 0..MaxEpisodes

(* No episode is ever written over: its content, once complete, stays until *)
(* it is deleted, although numbers are counts of files, are used again      *)
(* after a deletion, and a crash leaves a file that is only begun.          *)
EpisodesAreKept ==
  [][\A n \in DOMAIN episodes \intersect DOMAIN episodes' :
       episodes[n].complete => episodes'[n] = episodes[n]]_recorderVars

(* In a saved episode a topic's data and its timestamps pair up but for the  *)
(* one callback that was under way when recording stopped, and, from the     *)
(* second recording on, for one left over from the recording before.         *)
SavedPairsUp ==
  \A n \in DOMAIN episodes :
    episodes[n].complete =>
      episodes[n].stamps - episodes[n].data \in -1..(IF starts > 1 THEN 2 ELSE 1)
=============================================================================
