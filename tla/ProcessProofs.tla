--------------------------- MODULE ProcessProofs ---------------------------
EXTENDS DataRecorder, PolicyRollout, ApiProcess, FollowerBridge, FiniteSetTheorems,
        SequenceTheorems, TLAPS

(***************************************************************************)
(* The data recorder, for any number of episodes, messages and restarts of *)
(* the process: episode numbers are 0 to n-1, so the count of files is a   *)
(* free number; and how far the lists of a log may be apart.               *)
(***************************************************************************)

File == [complete : BOOLEAN, data : 0..MaxRecorded, stamps : 0..MaxRecorded]
KeysAt == {"idle", "filling", "arming", "counting", "data", "stamps", "summary", "dead"}

RecorderTyped ==
  /\ recording \in BOOLEAN
  /\ log \in [topics : BOOLEAN, data : 0..MaxRecorded, stamps : 0..MaxRecorded, all : Nat]
  /\ keys \in [at : KeysAt, file : Nat]
  /\ recorder \in {"idle", "data", "stamp", "all", "dead"}
  /\ \A n \in DOMAIN episodes : episodes[n] \in File
  /\ starts \in Nat

\* The numbers in use have no gap, and the file being written is not complete.
Numbered(n) == n \in Nat /\ DOMAIN episodes = 0..(n - 1)

Written ==
  /\ \E n \in Nat : Numbered(n)
  /\ keys.at \in {"data", "stamps"} =>
       keys.file \in DOMAIN episodes /\ ~episodes[keys.file].complete

\* Recording is off while a log is set up or saved; nothing is recorded before a start;
\* a log without topics is empty.
RecordingOff ==
  /\ keys.at \in {"filling", "arming", "counting", "data", "stamps", "summary"} => ~recording
  /\ keys.at \in {"filling", "arming"} => starts >= 1
  /\ recording => starts >= 1
  /\ recorder \in {"data", "stamp", "all"} => starts >= 1
  /\ ~log.topics => log.data = 0 /\ log.stamps = 0

RecorderInv == RecorderTyped /\ Written /\ RecordingOff

\* A callback under way when the log was renewed leaves a timestamp without its datum.
Leftover == IF starts > 1 THEN 1 ELSE 0

RecordingsPaired ==
  /\ recorder = "stamp" => log.stamps - log.data \in -1..(Leftover - 1)
  /\ recorder # "stamp" => log.stamps - log.data \in 0..Leftover

\* Between the two dumps only the callback under way can have added its datum.
HalfDumped ==
  keys.at = "stamps" =>
    \/ log.data = episodes[keys.file].data
    \/ log.data = episodes[keys.file].data + 1 /\ recorder # "data"

PairInv == RecorderInv /\ RecordingsPaired /\ HalfDumped /\ SavedPairsUp

LEMMA MaxOfInterval == ASSUME NEW n \in Nat, n > 0 PROVE Max(0..(n - 1)) = n - 1
  <1> DEFINE IsMax(x) == \A y \in 0..(n - 1) : x >= y
  <1>1. n - 1 \in 0..(n - 1) /\ IsMax(n - 1)
    OBVIOUS
  <1>2. Max(0..(n - 1)) \in 0..(n - 1) /\ IsMax(Max(0..(n - 1)))
    BY <1>1 DEF Max
  <1> QED
    BY <1>1, <1>2

\* The count of the files is the first number that is free.
LEMMA CountIsFree ==
  ASSUME NEW n, Numbered(n) PROVE Cardinality(DOMAIN episodes) = n
  <1>1. Cardinality(0..(n - 1)) = IF 0 > n - 1 THEN 0 ELSE (n - 1) - 0 + 1
    BY FS_Interval DEF Numbered
  <1> QED
    BY <1>1 DEF Numbered

\* The steps that leave the files alone.
Untouched ==
  \/ PressStart \/ FillTopics \/ StartRecording \/ PressStop \/ Summarize
  \/ Message \/ AppendData \/ AppendTimestamp \/ AppendAll
  \/ RecorderRestart \/ UNCHANGED recorderVars

LEMMA UntouchedKeepsInv ==
  ASSUME RecorderInv, Untouched PROVE RecorderInv' /\ episodes' = episodes
  <1> USE DEF RecorderInv, Idle, Saving, EmptyLog
  <1>1. episodes' = episodes
    BY DEF Untouched, PressStart, FillTopics, StartRecording, PressStop, Summarize, Message,
           AppendData, AppendTimestamp, AppendAll, RecorderRestart, recorderVars
  <1>2. RecorderTyped'
    <2>1. CASE PressStart
      BY <1>1, RecorderAssumption, <2>1 DEF RecorderTyped, KeysAt, PressStart
    <2>2. CASE FillTopics
      BY <1>1, RecorderAssumption, <2>2 DEF RecorderTyped, KeysAt, FillTopics
    <2>3. CASE StartRecording
      BY <1>1, RecorderAssumption, <2>3 DEF RecorderTyped, KeysAt, StartRecording
    <2>4. CASE PressStop
      BY <1>1, RecorderAssumption, <2>4 DEF RecorderTyped, KeysAt, PressStop
    <2>5. CASE Summarize
      BY <1>1, RecorderAssumption, <2>5 DEF RecorderTyped, KeysAt, Summarize
    <2>6. CASE Message
      BY <1>1, RecorderAssumption, <2>6 DEF RecorderTyped, KeysAt, Message
    <2>7. CASE AppendData
      BY <1>1, RecorderAssumption, <2>7 DEF RecorderTyped, KeysAt, AppendData
    <2>8. CASE AppendTimestamp
      BY <1>1, RecorderAssumption, <2>8 DEF RecorderTyped, KeysAt, AppendTimestamp
    <2>9. CASE AppendAll
      BY <1>1, RecorderAssumption, <2>9 DEF RecorderTyped, KeysAt, AppendAll
    <2>10. CASE RecorderRestart
      <3>1. recording' \in BOOLEAN /\ starts' = starts
        BY <2>10 DEF RecorderRestart
      <3>2. log' \in [topics : BOOLEAN, data : 0..MaxRecorded, stamps : 0..MaxRecorded, all : Nat]
        BY <2>10, RecorderAssumption DEF RecorderRestart
      <3>3. keys' \in [at : KeysAt, file : Nat] /\ recorder' = "idle"
        BY <2>10 DEF RecorderRestart, KeysAt
      <3> QED
        BY <1>1, <3>1, <3>2, <3>3 DEF RecorderTyped
    <2>11. CASE UNCHANGED recorderVars
      BY <1>1, RecorderAssumption, <2>11 DEF RecorderTyped, KeysAt, recorderVars
    <2> QED
      BY <2>1, <2>2, <2>3, <2>4, <2>5, <2>6, <2>7, <2>8, <2>9, <2>10, <2>11 DEF Untouched
  <1>3. keys'.at \in {"data", "stamps"} => keys' = keys
    BY DEF Untouched, PressStart, FillTopics, StartRecording, PressStop, Summarize, Message,
           AppendData, AppendTimestamp, AppendAll, RecorderRestart, recorderVars
  <1>4. Written'
    BY <1>1, <1>3 DEF Written, Numbered
  <1>5. RecordingOff'
    <2>1. CASE PressStart
      BY <2>1 DEF RecorderTyped, RecordingOff, PressStart
    <2>2. CASE FillTopics
      BY <2>2 DEF RecorderTyped, RecordingOff, FillTopics
    <2>3. CASE StartRecording
      BY <2>3 DEF RecorderTyped, RecordingOff, StartRecording
    <2>4. CASE PressStop
      BY <2>4 DEF RecorderTyped, RecordingOff, PressStop
    <2>5. CASE Summarize
      BY <2>5 DEF RecorderTyped, RecordingOff, Summarize
    <2>6. CASE Message
      BY <2>6 DEF RecorderTyped, RecordingOff, Message
    <2>7. CASE AppendData
      BY <2>7 DEF RecorderTyped, RecordingOff, AppendData
    <2>8. CASE AppendTimestamp
      BY <2>8 DEF RecorderTyped, RecordingOff, AppendTimestamp
    <2>9. CASE AppendAll
      BY <2>9 DEF RecorderTyped, RecordingOff, AppendAll
    <2>10. CASE RecorderRestart
      BY <2>10 DEF RecorderTyped, RecordingOff, RecorderRestart
    <2>11. CASE UNCHANGED recorderVars
      BY <2>11 DEF RecorderTyped, RecordingOff, recorderVars
    <2> QED
      BY <2>1, <2>2, <2>3, <2>4, <2>5, <2>6, <2>7, <2>8, <2>9, <2>10, <2>11 DEF Untouched
  <1> QED
    BY <1>1, <1>2, <1>4, <1>5

\* A new file has a free number; it is not complete until its second dump.
LEMMA OpenKeepsInv ==
  ASSUME RecorderInv, OpenEpisode
  PROVE  RecorderInv' /\ \A n \in DOMAIN episodes : n \in DOMAIN episodes' /\ episodes'[n] = episodes[n]
  <1> USE DEF RecorderInv, Saving
  <1>1. PICK n \in Nat : Numbered(n)
    BY DEF Written
  <1>2. /\ episodes' = [i \in DOMAIN episodes \union {n} |-> IF i = n THEN NewFile ELSE episodes[i]]
        /\ keys' = [at |-> "data", file |-> n] /\ keys.at = "counting"
        /\ UNCHANGED <<recording, log, recorder, starts>>
    BY <1>1, CountIsFree DEF OpenEpisode
  <1>3. DOMAIN episodes' = 0..n /\ n \notin DOMAIN episodes
    BY <1>1, <1>2 DEF Numbered
  <1>4. NewFile \in File /\ ~NewFile.complete
    BY RecorderAssumption DEF NewFile, File
  <1>5. RecorderTyped'
    BY <1>1, <1>2, <1>4 DEF RecorderTyped, KeysAt
  <1>6. Written'
    <2>1. (n + 1 \in Nat) /\ Numbered(n + 1)'
      BY <1>3 DEF Numbered
    <2> QED
      BY <1>2, <1>3, <1>4, <2>1 DEF Written
  <1>7. RecordingOff'
    BY <1>2 DEF RecordingOff
  <1> QED
    BY <1>2, <1>3, <1>5, <1>6, <1>7

\* A dump changes one file, which is not complete yet.
LEMMA DumpKeepsInv ==
  ASSUME RecorderInv, DumpData \/ DumpTimestamps
  PROVE  /\ RecorderInv' /\ DOMAIN episodes' = DOMAIN episodes
         /\ \A n \in DOMAIN episodes : n # keys.file => episodes'[n] = episodes[n]
         /\ keys.file \in DOMAIN episodes /\ ~episodes[keys.file].complete
  <1> USE DEF RecorderInv, Saving
  <1>0. /\ keys.file \in DOMAIN episodes /\ ~episodes[keys.file].complete
        /\ episodes[keys.file] \in File /\ keys.file \in Nat
        /\ log.data \in 0..MaxRecorded /\ log.stamps \in 0..MaxRecorded
    BY DEF DumpData, DumpTimestamps, Written, RecorderTyped
  <1>1. CASE DumpData
    <2>1. /\ episodes' = [episodes EXCEPT ![keys.file].data = log.data]
          /\ keys' = [at |-> "stamps", file |-> keys.file] /\ keys.at = "data"
          /\ UNCHANGED <<recording, log, recorder, starts>>
      BY <1>1 DEF DumpData
    <2>2. /\ episodes'[keys.file] = [episodes[keys.file] EXCEPT !.data = log.data]
          /\ \A n \in DOMAIN episodes : n # keys.file => episodes'[n] = episodes[n]
          /\ DOMAIN episodes' = DOMAIN episodes
      BY <1>0, <2>1
    <2>3. episodes'[keys.file] \in File /\ ~episodes'[keys.file].complete
      BY <1>0, <2>2 DEF File
    <2>4. RecorderTyped'
      BY <1>0, <2>1, <2>2, <2>3 DEF RecorderTyped, KeysAt
    <2>5. Written' /\ RecordingOff'
      BY <1>0, <2>1, <2>2, <2>3 DEF Written, Numbered, RecordingOff
    <2> QED
      BY <1>0, <2>2, <2>4, <2>5
  <1>2. CASE DumpTimestamps
    <2>1. /\ episodes' = [episodes EXCEPT ![keys.file].stamps = log.stamps,
                                           ![keys.file].complete = TRUE]
          /\ keys' = [at |-> "summary", file |-> keys.file] /\ keys.at = "stamps"
          /\ UNCHANGED <<recording, log, recorder, starts>>
      BY <1>2 DEF DumpTimestamps
    <2>2. /\ episodes'[keys.file]
                = [episodes[keys.file] EXCEPT !.stamps = log.stamps, !.complete = TRUE]
          /\ \A n \in DOMAIN episodes : n # keys.file => episodes'[n] = episodes[n]
          /\ DOMAIN episodes' = DOMAIN episodes
      BY <1>0, <2>1
    <2>3. episodes'[keys.file] \in File
      BY <1>0, <2>2 DEF File
    <2>4. RecorderTyped'
      BY <1>0, <2>1, <2>2, <2>3 DEF RecorderTyped, KeysAt
    <2>5. Written' /\ RecordingOff'
      BY <1>0, <2>1, <2>2 DEF Written, Numbered, RecordingOff
    <2> QED
      BY <1>0, <2>2, <2>4, <2>5
  <1> QED
    BY <1>1, <1>2

\* The last file is deleted: the numbers still have no gap.
LEMMA DeleteKeepsInv ==
  ASSUME RecorderInv, DeleteLast
  PROVE  RecorderInv' /\ \A n \in DOMAIN episodes' : n \in DOMAIN episodes /\ episodes'[n] = episodes[n]
  <1> USE DEF RecorderInv, Idle
  <1>1. PICK n \in Nat : Numbered(n)
    BY DEF Written
  <1>2. n > 0 /\ Max(DOMAIN episodes) = n - 1
    <2>1. n > 0
      BY <1>1 DEF Numbered, DeleteLast
    <2> QED
      BY <1>1, <2>1, MaxOfInterval DEF Numbered
  <1>3. /\ episodes' = [i \in DOMAIN episodes \ {n - 1} |-> episodes[i]]
        /\ UNCHANGED <<recording, log, keys, recorder, starts>> /\ keys.at = "idle"
    BY <1>2 DEF DeleteLast, Restrict
  <1>4. DOMAIN episodes' = 0..((n - 1) - 1) /\ n - 1 \in Nat
    BY <1>1, <1>2, <1>3 DEF Numbered
  <1>5. RecorderTyped'
    BY <1>3 DEF RecorderTyped
  <1>6. Written' /\ RecordingOff'
    BY <1>3, <1>4 DEF Written, Numbered, RecordingOff
  <1> QED
    BY <1>3, <1>5, <1>6

LEMMA RecorderCases ==
  [RecorderNext]_recorderVars =>
    Untouched \/ OpenEpisode \/ DumpData \/ DumpTimestamps \/ DeleteLast
  BY DEF RecorderNext, Untouched

\* Whatever a step does, a complete file stays as it is, or goes as a whole.
LEMMA StepKeepsFiles ==
  ASSUME RecorderInv, [RecorderNext]_recorderVars
  PROVE  /\ RecorderInv'
         /\ \A n \in DOMAIN episodes \intersect DOMAIN episodes' :
              episodes[n].complete => episodes'[n] = episodes[n]
  BY RecorderCases, UntouchedKeepsInv, OpenKeepsInv, DumpKeepsInv, DeleteKeepsInv

\* Only one append is under way: it moves the difference by one and back.
LEMMA PairedStep == ASSUME PairInv, Untouched PROVE RecordingsPaired'
  <1> USE DEF PairInv, RecorderInv, EmptyLog, RecordingsPaired, Leftover
  <1>1. /\ log.data \in Nat /\ log.stamps \in Nat /\ starts \in Nat
        /\ log \in [topics : BOOLEAN, data : 0..MaxRecorded, stamps : 0..MaxRecorded, all : Nat]
    BY RecorderAssumption DEF RecorderTyped
  <1>2. RecordingsPaired'
    <2>1. CASE PressStart
      BY <1>1, <2>1 DEF RecordingOff, PressStart
    <2>2. CASE FillTopics
      BY <1>1, <2>2 DEF RecordingOff, FillTopics
    <2>3. CASE StartRecording
      BY <1>1, <2>3 DEF RecordingOff, StartRecording
    <2>4. CASE PressStop
      BY <1>1, <2>4 DEF RecordingOff, PressStop
    <2>5. CASE Summarize
      BY <1>1, <2>5 DEF RecordingOff, Summarize
    <2>6. CASE Message
      BY <1>1, <2>6 DEF RecordingOff, Message
    <2>7. CASE AppendData
      BY <1>1, <2>7 DEF RecordingOff, AppendData
    <2>8. CASE AppendTimestamp
      BY <1>1, <2>8 DEF RecordingOff, AppendTimestamp
    <2>9. CASE AppendAll
      BY <1>1, <2>9 DEF RecordingOff, AppendAll
    <2>10. CASE RecorderRestart
      BY <1>1, <2>10 DEF RecordingOff, RecorderRestart
    <2>11. CASE UNCHANGED recorderVars
      BY <1>1, <2>11 DEF RecordingOff, recorderVars
    <2> QED
      BY <2>1, <2>2, <2>3, <2>4, <2>5, <2>6, <2>7, <2>8, <2>9, <2>10, <2>11 DEF Untouched
  <1> QED
    BY <1>2

LEMMA HalfDumpedStep == ASSUME PairInv, Untouched PROVE HalfDumped'
  <1> USE DEF PairInv, RecorderInv, Saving, Idle, HalfDumped
  <1>1. /\ log.data \in Nat
        /\ log \in [topics : BOOLEAN, data : 0..MaxRecorded, stamps : 0..MaxRecorded, all : Nat]
    BY RecorderAssumption DEF RecorderTyped
  <1>2. HalfDumped'
    <2>1. CASE PressStart
      BY <1>1, UntouchedKeepsInv, <2>1 DEF RecordingOff, PressStart
    <2>2. CASE FillTopics
      BY <1>1, UntouchedKeepsInv, <2>2 DEF RecordingOff, FillTopics
    <2>3. CASE StartRecording
      BY <1>1, UntouchedKeepsInv, <2>3 DEF RecordingOff, StartRecording
    <2>4. CASE PressStop
      BY <1>1, UntouchedKeepsInv, <2>4 DEF RecordingOff, PressStop
    <2>5. CASE Summarize
      BY <1>1, UntouchedKeepsInv, <2>5 DEF RecordingOff, Summarize
    <2>6. CASE Message
      BY <1>1, UntouchedKeepsInv, <2>6 DEF RecordingOff, Message
    <2>7. CASE AppendData
      BY <1>1, UntouchedKeepsInv, <2>7 DEF RecordingOff, AppendData
    <2>8. CASE AppendTimestamp
      BY <1>1, UntouchedKeepsInv, <2>8 DEF RecordingOff, AppendTimestamp
    <2>9. CASE AppendAll
      BY <1>1, UntouchedKeepsInv, <2>9 DEF RecordingOff, AppendAll
    <2>10. CASE RecorderRestart
      BY <1>1, UntouchedKeepsInv, <2>10 DEF RecordingOff, RecorderRestart
    <2>11. CASE UNCHANGED recorderVars
      BY <1>1, UntouchedKeepsInv, <2>11 DEF RecordingOff, recorderVars
    <2> QED
      BY <2>1, <2>2, <2>3, <2>4, <2>5, <2>6, <2>7, <2>8, <2>9, <2>10, <2>11 DEF Untouched
  <1> QED
    BY <1>2

LEMMA SavedStep == ASSUME PairInv, Untouched PROVE SavedPairsUp'
  <1>1. episodes' = episodes /\ starts \in Nat
    BY UntouchedKeepsInv DEF PairInv, RecorderInv, RecorderTyped
  <1>2. starts' \in {starts, starts + 1}
    BY <1>1 DEF Untouched, PressStart, FillTopics, StartRecording, PressStop, Summarize, Message,
                AppendData, AppendTimestamp, AppendAll, RecorderRestart, recorderVars
  <1>3. \A n \in DOMAIN episodes : episodes[n].stamps \in Nat /\ episodes[n].data \in Nat
    BY RecorderAssumption DEF PairInv, RecorderInv, RecorderTyped, File
  <1> QED
    BY <1>1, <1>2, <1>3 DEF PairInv, SavedPairsUp

LEMMA UntouchedKeepsPairs == ASSUME PairInv, Untouched PROVE PairInv'
  BY UntouchedKeepsInv, PairedStep, HalfDumpedStep, SavedStep DEF PairInv

LEMMA OpenKeepsPairs == ASSUME PairInv, OpenEpisode PROVE PairInv'
  <1>1. /\ RecorderInv'
        /\ \A n \in DOMAIN episodes : n \in DOMAIN episodes' /\ episodes'[n] = episodes[n]
    BY OpenKeepsInv DEF PairInv
  <1>2. UNCHANGED <<log, recorder, starts>> /\ keys'.at = "data"
    BY DEF OpenEpisode, Saving
  <1>3. \A n \in DOMAIN episodes' : n \in DOMAIN episodes \/ ~episodes'[n].complete
    BY DEF OpenEpisode, NewFile
  <1> QED
    BY <1>1, <1>2, <1>3 DEF PairInv, RecordingsPaired, Leftover, HalfDumped, SavedPairsUp

LEMMA DumpKeepsPairs == ASSUME PairInv, DumpData \/ DumpTimestamps PROVE PairInv'
  <1>0. /\ RecorderInv' /\ DOMAIN episodes' = DOMAIN episodes
        /\ \A n \in DOMAIN episodes : n # keys.file => episodes'[n] = episodes[n]
        /\ keys.file \in DOMAIN episodes /\ ~episodes[keys.file].complete
        /\ episodes[keys.file] \in File /\ starts \in Nat
        /\ log.data \in Nat /\ log.stamps \in Nat
    BY DumpKeepsInv, RecorderAssumption DEF PairInv, RecorderInv, RecorderTyped
  <1>1. UNCHANGED <<log, recorder, starts>>
    BY DEF DumpData, DumpTimestamps
  <1>2. RecordingsPaired'
    BY <1>1 DEF PairInv, RecordingsPaired, Leftover
  <1>3. CASE DumpData
    <2>1. /\ keys'.file = keys.file
          /\ episodes'[keys.file] = [episodes[keys.file] EXCEPT !.data = log.data]
      BY <1>0, <1>3 DEF DumpData, Saving
    <2>2. episodes'[keys.file].data = log.data /\ ~episodes'[keys.file].complete
      BY <1>0, <2>1 DEF File
    <2>3. HalfDumped'
      BY <1>1, <2>1, <2>2 DEF HalfDumped
    <2>4. SavedPairsUp'
      BY <1>0, <1>1, <2>2 DEF PairInv, SavedPairsUp
    <2> QED
      BY <1>0, <1>2, <2>3, <2>4 DEF PairInv
  <1>4. CASE DumpTimestamps
    <2>1. /\ keys'.at = "summary" /\ keys.at = "stamps"
          /\ episodes'[keys.file]
                = [episodes[keys.file] EXCEPT !.stamps = log.stamps, !.complete = TRUE]
      BY <1>0, <1>4 DEF DumpTimestamps, Saving
    <2>2. /\ episodes'[keys.file].data = episodes[keys.file].data
          /\ episodes'[keys.file].stamps = log.stamps
          /\ episodes[keys.file].data \in Nat
      BY <1>0, <2>1, RecorderAssumption DEF File
    <2>3. log.stamps - log.data \in -1..Leftover
      BY <1>0 DEF PairInv, RecordingsPaired, Leftover
    <2>4. log.data = episodes[keys.file].data \/ log.data = episodes[keys.file].data + 1
      BY <2>1 DEF PairInv, HalfDumped
    <2>5. episodes'[keys.file].stamps - episodes'[keys.file].data \in -1..(Leftover + 1)
      BY <1>0, <2>2, <2>3, <2>4 DEF Leftover
    <2>6. SavedPairsUp'
      BY <1>0, <1>1, <2>5 DEF PairInv, SavedPairsUp, Leftover
    <2>7. HalfDumped'
      BY <2>1 DEF HalfDumped
    <2> QED
      BY <1>0, <1>2, <2>6, <2>7 DEF PairInv
  <1> QED
    BY <1>3, <1>4

LEMMA DeleteKeepsPairs == ASSUME PairInv, DeleteLast PROVE PairInv'
  <1>1. /\ RecorderInv'
        /\ \A n \in DOMAIN episodes' : n \in DOMAIN episodes /\ episodes'[n] = episodes[n]
    BY DeleteKeepsInv DEF PairInv
  <1>2. UNCHANGED <<log, recorder, starts>> /\ keys'.at = "idle"
    BY DEF DeleteLast, Idle
  <1> QED
    BY <1>1, <1>2 DEF PairInv, RecordingsPaired, Leftover, HalfDumped, SavedPairsUp

LEMMA StepKeepsPairs == PairInv /\ [RecorderNext]_recorderVars => PairInv'
  BY RecorderCases, UntouchedKeepsPairs, OpenKeepsPairs, DumpKeepsPairs, DeleteKeepsPairs

LEMMA RecorderInitInv == RecorderInit => PairInv
  <1> SUFFICES ASSUME RecorderInit PROVE PairInv
    OBVIOUS
  <1> USE DEF RecorderInit, Idle, EmptyLog
  <1>0. DOMAIN episodes = {} /\ 0..(0 - 1) = {}
    OBVIOUS
  <1>1. RecorderTyped
    <2>1. log \in [topics : BOOLEAN, data : 0..MaxRecorded, stamps : 0..MaxRecorded, all : Nat]
      BY RecorderAssumption
    <2>2. keys \in [at : KeysAt, file : Nat] /\ recording \in BOOLEAN /\ starts \in Nat
      BY DEF KeysAt
    <2> QED
      BY <1>0, <2>1, <2>2 DEF RecorderTyped
  <1>2. Written /\ RecordingOff
    BY <1>0 DEF Written, Numbered, RecordingOff
  <1>3. RecordingsPaired /\ HalfDumped
    BY DEF RecordingsPaired, HalfDumped, Leftover
  <1>4. SavedPairsUp
    BY <1>0 DEF SavedPairsUp
  <1> QED
    BY <1>1, <1>2, <1>3, <1>4 DEF PairInv, RecorderInv

(* Types and the numbers of the files in every state of the recorder         *)
(* (data_record.py, on_press_key and delete_last_trajectory).                *)
LEMMA RecorderInductive == RecorderSpec => []RecorderInv
  <1>1. RecorderInit => RecorderInv
    BY RecorderInitInv DEF PairInv
  <1>2. RecorderInv /\ [RecorderNext]_recorderVars => RecorderInv'
    BY StepKeepsFiles
  <1> QED
    BY <1>1, <1>2, PTL DEF RecorderSpec

(* The log, the files and their numbers stay within their types and bounds.  *)
THEOREM RecorderIsTyped == RecorderSpec => []RecorderTypeOK
  <1> DEFINE Few == DOMAIN episodes \subseteq 0..MaxEpisodes
  <1>1. RecorderInit => Few
    BY DEF RecorderInit
  <1>2. ASSUME RecorderInv, Few, [RecorderNext]_recorderVars PROVE Few'
    <2>1. CASE Untouched
      BY <1>2, <2>1, UntouchedKeepsInv
    <2>2. CASE OpenEpisode
      <3>1. PICK n \in Nat : Numbered(n)
        BY <1>2 DEF RecorderInv, Written
      <3>2. DOMAIN episodes' = DOMAIN episodes \union {n} /\ n <= MaxEpisodes
        BY <2>2, <3>1, CountIsFree DEF OpenEpisode
      <3> QED
        BY <1>2, <3>1, <3>2, RecorderAssumption
    <2>3. CASE DumpData \/ DumpTimestamps
      BY <1>2, <2>3, DumpKeepsInv
    <2>4. CASE DeleteLast
      BY <1>2, <2>4, DeleteKeepsInv
    <2> QED
      BY <1>2, <2>1, <2>2, <2>3, <2>4, RecorderCases
  <1>3. RecorderInv /\ Few => RecorderTypeOK
    BY DEF RecorderInv, RecorderTyped, File, RecorderTypeOK
  <1> HIDE DEF Few
  <1> QED
    BY RecorderInductive, <1>1, <1>2, <1>3, PTL DEF RecorderSpec

(* No episode is written over, for any number of recordings, deletions and   *)
(* ends of the process in any place.                                         *)
THEOREM EpisodesKept == RecorderSpec => EpisodesAreKept
  <1>1. RecorderInv /\ [RecorderNext]_recorderVars =>
          [\A n \in DOMAIN episodes \intersect DOMAIN episodes' :
             episodes[n].complete => episodes'[n] = episodes[n]]_recorderVars
    BY StepKeepsFiles
  <1> QED
    BY RecorderInductive, <1>1, PTL DEF RecorderSpec, EpisodesAreKept

(* The lists of a saved episode pair up but for the callback under way at    *)
(* the end, and one left over from an earlier recording.                     *)
THEOREM SavedEpisodesPairUp == RecorderSpec => []SavedPairsUp
  <1>1. PairInv => SavedPairsUp
    BY DEF PairInv
  <1> QED
    BY RecorderInitInv, StepKeepsPairs, <1>1, PTL DEF RecorderSpec
-----------------------------------------------------------------------------
(***************************************************************************)
(* The rollout of a policy, for every horizon and chunk: every command is  *)
(* ensembled from predictions of this very step, and the recorded lists pair*)
(* up.                                                                     *)
(***************************************************************************)

\* A list of consecutive steps, the last of them the one before step.
EndsBefore(list, step) == \A k \in DOMAIN list : list[k] = step - Len(list) + k - 1

\* The inferences made: the timer callback steps the count only after its command.
Inferences == IF acting THEN steps + 1 ELSE steps

\* act_history holds the last Horizon inferences, in order.
HistoryIsRecent ==
  /\ history \in Seq(Nat) /\ Len(history) <= Horizon
  /\ Len(history) = Inferences \/ (Len(history) = Horizon /\ Horizon <= Inferences)
  /\ EndsBefore(history, Inferences)

\* Each list of data_dict ends with the latest step recorded in it.
ListsEndNow ==
  LET pictures == dataDict.images
      targets == dataDict.actions
  IN /\ Len(pictures) <= Inferences /\ Len(targets) <= steps
     /\ EndsBefore(pictures, Inferences)
     /\ EndsBefore(targets, steps)
     /\ ~acting => Len(targets) - Len(pictures) \in {0, 1}
     /\ acting => Len(pictures) - Len(targets) \in {0, 1}

\* What was pickled so far is still the beginning of the list it came from.
DumpIsPrefix ==
  dumping => /\ Len(dumped.images) <= Len(dataDict.images)
             /\ \A k \in DOMAIN dumped.images : dumped.images[k] = dataDict.images[k]
             /\ dumped.actions = <<>>

Lists == [images : Seq(Nat), actions : Seq(Nat)]

RolloutTyped ==
  /\ states \subseteq StateTopic /\ images \in Seq(Camera)
  /\ steps \in Nat /\ Inferences <= MaxSteps
  /\ acting \in BOOLEAN /\ dumping \in BOOLEAN /\ presses \in 0..MaxPresses
  /\ command.step \in 0..MaxSteps
  /\ dataDict \in Lists /\ dumped \in Lists
  /\ Len(dumped.images) <= MaxSteps /\ Len(dumped.actions) <= MaxSteps

RolloutInv ==
  /\ RolloutTyped /\ HistoryIsRecent /\ ListsEndNow /\ DumpIsPrefix
  /\ EnsembleIsForNow /\ RolloutPairsUp

LEMMA RolloutConstants ==
  /\ Horizon \in Nat /\ Horizon > 0 /\ MaxSteps \in Nat /\ MaxPresses \in Nat
  BY RolloutAssumption

LEMMA ListUpdated ==
  ASSUME NEW lists \in Lists, NEW entry \in Nat
  PROVE  LET pictured == [lists EXCEPT !.images = Append(@, entry)]
             acted == [lists EXCEPT !.actions = Append(@, entry)]
         IN /\ pictured \in Lists /\ pictured.images = Append(lists.images, entry)
            /\ pictured.actions = lists.actions
            /\ acted \in Lists /\ acted.actions = Append(lists.actions, entry)
            /\ acted.images = lists.images
  <1>1. /\ lists.images \in Seq(Nat) /\ Append(lists.images, entry) \in Seq(Nat)
        /\ lists.actions \in Seq(Nat) /\ Append(lists.actions, entry) \in Seq(Nat)
    BY DEF Lists
  <1>2. ASSUME NEW longer \in Seq(Nat)
        PROVE  /\ [lists EXCEPT !.images = longer] \in Lists
               /\ [lists EXCEPT !.images = longer].images = longer
               /\ [lists EXCEPT !.images = longer].actions = lists.actions
               /\ [lists EXCEPT !.actions = longer] \in Lists
               /\ [lists EXCEPT !.actions = longer].actions = longer
               /\ [lists EXCEPT !.actions = longer].images = lists.images
    BY DEF Lists
  <1> QED
    BY <1>1, <1>2

LEMMA RunGrows ==
  ASSUME NEW list \in Seq(Nat), NEW step \in Nat, EndsBefore(list, step)
  PROVE  EndsBefore(Append(list, step), step + 1)
  <1> DEFINE longer == Append(list, step)
  <1>1. /\ Len(list) \in Nat /\ Len(longer) = Len(list) + 1 /\ DOMAIN longer = 1..(Len(list) + 1)
        /\ DOMAIN list = 1..Len(list)
    OBVIOUS
  <1>2. \A k \in 1..Len(list) : longer[k] = step - Len(list) + k - 1
    BY DEF EndsBefore
  <1>3. longer[Len(list) + 1] = step
    OBVIOUS
  <1> HIDE DEF longer
  <1>4. ASSUME NEW k \in DOMAIN longer PROVE longer[k] = (step + 1) - Len(longer) + k - 1
    <2>1. CASE k = Len(list) + 1
      BY <1>1, <1>3, <2>1
    <2>2. CASE k \in 1..Len(list)
      BY <1>1, <1>2, <2>2
    <2> QED
      BY <1>1, <2>1, <2>2
  <1>5. EndsBefore(longer, step + 1)
    BY <1>4 DEF EndsBefore
  <1> QED
    BY <1>5 DEF longer

LEMMA RunLosesOldest ==
  ASSUME NEW list \in Seq(Nat), NEW step \in Nat, list # <<>>, EndsBefore(list, step)
  PROVE  EndsBefore(Tail(list), step)
  <1>1. /\ Len(list) \in Nat /\ Len(Tail(list)) = Len(list) - 1
        /\ DOMAIN Tail(list) = 1..(Len(list) - 1) /\ DOMAIN list = 1..Len(list)
    OBVIOUS
  <1>2. \A k \in 1..(Len(list) - 1) : Tail(list)[k] = list[k + 1]
    OBVIOUS
  <1> QED
    BY <1>1, <1>2 DEF EndsBefore

\* The inference of a step pushes the oldest one out of a full history and no other.
LEMMA RememberedIsRecent ==
  ASSUME RolloutTyped, HistoryIsRecent, ~acting
  PROVE  LET longer == Remembered(steps) IN
         /\ longer \in Seq(Nat) /\ Len(longer) <= Horizon
         /\ Len(longer) = steps + 1 \/ (Len(longer) = Horizon /\ Horizon <= steps + 1)
         /\ EndsBefore(longer, steps + 1)
  <1>0. /\ steps \in Nat /\ history \in Seq(Nat) /\ EndsBefore(history, steps)
        /\ Len(history) <= Horizon
        /\ Len(history) = steps \/ (Len(history) = Horizon /\ Horizon <= steps)
    BY DEF RolloutTyped, HistoryIsRecent, Inferences
  <1>1. CASE Len(history) < Horizon
    <2>1. Remembered(steps) = Append(history, steps)
      BY <1>1 DEF Remembered
    <2>2. EndsBefore(Append(history, steps), steps + 1)
      BY <1>0, RunGrows
    <2> QED
      BY <1>0, <1>1, <2>1, <2>2, RolloutConstants
  <1>2. CASE Len(history) = Horizon
    <2>1. history # <<>> /\ Tail(history) \in Seq(Nat) /\ Len(Tail(history)) = Horizon - 1
      BY <1>0, <1>2, RolloutConstants
    <2>2. Remembered(steps) = Append(Tail(history), steps)
      BY <1>2, RolloutConstants DEF Remembered
    <2>3. EndsBefore(Append(Tail(history), steps), steps + 1)
      BY <1>0, <2>1, RunGrows, RunLosesOldest
    <2> QED
      BY <1>0, <1>2, <2>1, <2>2, <2>3, RolloutConstants
  <1> QED
    BY <1>0, <1>1, <1>2, RolloutConstants

LEMMA RolloutStarts == RolloutInit => RolloutInv
  <1> SUFFICES ASSUME RolloutInit PROVE RolloutInv
    OBVIOUS
  <1>1. RolloutTyped
    <2>1. NoData \in Lists /\ Len(NoData.images) = 0 /\ Len(NoData.actions) = 0
      BY DEF NoData, Lists
    <2>2. /\ states \subseteq StateTopic /\ images \in Seq(Camera) /\ steps \in Nat
          /\ Inferences <= MaxSteps /\ presses \in 0..MaxPresses
      BY RolloutConstants DEF RolloutInit, Inferences
    <2>4. acting \in BOOLEAN /\ dumping \in BOOLEAN
      BY DEF RolloutInit
    <2>3. command.step \in 0..MaxSteps
      BY RolloutConstants DEF RolloutInit
    <2> QED
      BY <2>1, <2>2, <2>3, <2>4, RolloutConstants DEF RolloutInit, RolloutTyped
  <1>4. HistoryIsRecent
    BY RolloutConstants DEF RolloutInit, HistoryIsRecent, Inferences, EndsBefore
  <1>2. ListsEndNow /\ DumpIsPrefix
    BY DEF RolloutInit, ListsEndNow, DumpIsPrefix, Inferences, NoData, EndsBefore
  <1>3. EnsembleIsForNow /\ RolloutPairsUp
    BY DEF RolloutInit, EnsembleIsForNow, RolloutPairsUp, NoData
  <1> QED
    BY <1>1, <1>2, <1>3, <1>4 DEF RolloutInv

\* The command averages the predictions for its own step.
LEMMA TimerActsKeeps == RolloutInv /\ TimerActs => RolloutInv'
  <1> SUFFICES ASSUME RolloutInv, TimerActs PROVE RolloutInv'
    OBVIOUS
  <1> USE RolloutConstants DEF RolloutInv
  <1>0. /\ ~acting /\ acting' = TRUE /\ steps' = steps /\ steps \in Nat
        /\ Inferences = steps /\ Inferences' = steps + 1 /\ steps < MaxSteps
    BY DEF TimerActs, Inferences, RolloutTyped
  <1>1. HistoryIsRecent'
    <2>1. history' = Remembered(steps)
      BY DEF TimerActs
    <2> QED
      BY ONLY <1>0, <2>1, RememberedIsRecent, RolloutTyped, HistoryIsRecent, RolloutInv
      DEF RolloutInv, HistoryIsRecent
  <1>2. /\ dataDict'.images = Append(dataDict.images, steps)
        /\ dataDict'.actions = dataDict.actions /\ dataDict' \in Lists
        /\ dataDict.images \in Seq(Nat) /\ dataDict.actions \in Seq(Nat)
    BY <1>0, ListUpdated DEF TimerActs, RolloutTyped, Lists
  <1>3. RolloutTyped'
    <2>1. command'.step = steps
      BY DEF TimerActs
    <2> QED
      BY <1>0, <1>2, <2>1 DEF TimerActs, RolloutTyped
  <1>4. ListsEndNow'
    <2>1. EndsBefore(dataDict.images, steps) /\ EndsBefore(dataDict.actions, steps)
      BY <1>0 DEF ListsEndNow
    <2>2. EndsBefore(dataDict'.images, steps + 1)
      BY <1>0, <1>2, <2>1, RunGrows
    <2> QED
      BY <1>0, <1>2, <2>1, <2>2 DEF ListsEndNow
  <1>5. DumpIsPrefix'
    <2>1. \A k \in DOMAIN dataDict.images : dataDict'.images[k] = dataDict.images[k]
      BY <1>0, <1>2
    <2>2. dumped.images \in Seq(Nat)
      BY DEF RolloutTyped, Lists
    <2>3. Len(dataDict'.images) = Len(dataDict.images) + 1
      BY <1>0, <1>2
    <2>4. dumping' = dumping /\ dumped' = dumped
      BY DEF TimerActs
    <2> SUFFICES ASSUME dumping PROVE DumpIsPrefix'
      BY <2>4 DEF DumpIsPrefix
    <2>5. DOMAIN dumped.images \subseteq DOMAIN dataDict.images
      BY <1>2, <2>2 DEF DumpIsPrefix
    <2> QED
      BY <1>2, <2>1, <2>2, <2>3, <2>4, <2>5 DEF DumpIsPrefix
  <1>6. EnsembleIsForNow'
    <2> DEFINE window == {j \in 0..(Horizon - 1) : j <= steps}
    <2>1. command' = [step |-> steps, entries |-> Entries(history')]
      BY DEF TimerActs
    <2> DEFINE len == Len(history')
    <2>2. /\ len \in Nat /\ DOMAIN history' = 1..len
          /\ len = steps + 1 \/ (len = Horizon /\ Horizon <= steps + 1)
          /\ len <= Horizon
          /\ \A k \in 1..len : history'[k] = steps + 1 - len + k - 1
      BY <1>0, <1>1 DEF HistoryIsRecent, EndsBefore
    <2> HIDE DEF len
    <2>3. window = 0..(len - 1)
      BY ONLY <1>0, <2>2, RolloutConstants
    <2>4. \A k \in 1..len : len - k \in window /\ history'[k] = steps - (len - k)
      BY ONLY <1>0, <2>2, <2>3
    <2>5. \A i \in window : /\ len - i \in 1..len /\ history'[len - i] = steps - i
                            /\ len - (len - i) = i
      BY ONLY <1>0, <2>2, <2>3
    <2>6. Entries(history') = {<<steps - i, i>> : i \in window}
      <3>1. Entries(history') = {<<history'[k], len - k>> : k \in 1..len}
        BY <2>2 DEF Entries, len
      <3>2. \A k \in 1..len : <<history'[k], len - k>> \in {<<steps - i, i>> : i \in window}
        BY ONLY <2>4
      <3>3. \A i \in window : <<steps - i, i>> \in {<<history'[k], len - k>> : k \in 1..len}
        <4> SUFFICES ASSUME NEW i \in window
                     PROVE  \E k \in 1..len : <<steps - i, i>> = <<history'[k], len - k>>
          OBVIOUS
        <4>1. /\ len - i \in 1..len
              /\ <<steps - i, i>> = <<history'[len - i], len - (len - i)>>
          BY ONLY <2>5, i \in window
        <4> QED
          BY ONLY <4>1
      <3> QED
        BY ONLY <3>1, <3>2, <3>3
    <2> QED
      BY <2>1, <2>6 DEF EnsembleIsForNow
  <1>7. RolloutPairsUp'
    BY DEF TimerActs, RolloutPairsUp
  <1> QED
    BY <1>1, <1>3, <1>4, <1>5, <1>6, <1>7

LEMMA TimerRecordsKeeps == RolloutInv /\ TimerRecords => RolloutInv'
  <1> SUFFICES ASSUME RolloutInv, TimerRecords PROVE RolloutInv'
    OBVIOUS
  <1> USE RolloutConstants DEF RolloutInv
  <1>0. /\ acting /\ acting' = FALSE /\ steps' = steps + 1 /\ steps \in Nat
        /\ Inferences = steps + 1 /\ Inferences' = steps + 1
    BY DEF TimerRecords, Inferences, RolloutTyped
  <1>1. HistoryIsRecent'
    BY <1>0 DEF TimerRecords, HistoryIsRecent
  <1>2. /\ dataDict'.actions = Append(dataDict.actions, steps)
        /\ dataDict'.images = dataDict.images /\ dataDict' \in Lists
        /\ dataDict.images \in Seq(Nat) /\ dataDict.actions \in Seq(Nat)
    BY <1>0, ListUpdated DEF TimerRecords, RolloutTyped, Lists
  <1>3. RolloutTyped'
    <2>1. Inferences' <= MaxSteps
      BY <1>0 DEF RolloutTyped
    <2>2. UNCHANGED <<states, images, command, dumping, dumped, presses>>
      BY DEF TimerRecords
    <2>3. steps' \in Nat
      BY <1>0
    <2>4. acting' \in BOOLEAN
      BY DEF TimerRecords
    <2> QED
      BY <1>2, <2>1, <2>2, <2>3, <2>4 DEF RolloutTyped
  <1>4. ListsEndNow'
    <2>1. EndsBefore(dataDict.actions, steps) /\ EndsBefore(dataDict.images, steps + 1)
      BY <1>0 DEF ListsEndNow
    <2>2. EndsBefore(dataDict'.actions, steps + 1)
      BY <1>0, <1>2, <2>1, RunGrows
    <2> QED
      BY <1>0, <1>2, <2>1, <2>2 DEF ListsEndNow
  <1>5. DumpIsPrefix' /\ EnsembleIsForNow' /\ RolloutPairsUp'
    BY <1>2 DEF TimerRecords, DumpIsPrefix, EnsembleIsForNow, RolloutPairsUp
  <1> QED
    BY <1>1, <1>3, <1>4, <1>5

\* The lists the dump pairs are one list as it was and the other as it is now.
LEMMA KeyboardKeeps ==
  RolloutInv /\ (PressSpace \/ DumpEnds \/ PressDelete) => RolloutInv'
  <1> USE RolloutConstants DEF RolloutInv
  <1>1. RolloutInv /\ PressSpace => RolloutInv'
    <2> SUFFICES ASSUME RolloutInv, PressSpace PROVE RolloutInv'
      OBVIOUS
    <2>1. RolloutTyped'
      BY DEF PressSpace, RolloutTyped, Lists, Inferences, ListsEndNow
    <2>2. HistoryIsRecent' /\ ListsEndNow' /\ EnsembleIsForNow'
      BY DEF PressSpace, HistoryIsRecent, ListsEndNow, EnsembleIsForNow, Inferences
    <2>3. DumpIsPrefix' /\ RolloutPairsUp'
      BY DEF PressSpace, DumpIsPrefix, RolloutPairsUp, RolloutTyped, Lists
    <2> QED
      BY <2>1, <2>2, <2>3
  <1>2. RolloutInv /\ DumpEnds => RolloutInv'
    <2> SUFFICES ASSUME RolloutInv, DumpEnds PROVE RolloutInv'
      OBVIOUS
    <2>1. dumped' \in Lists /\ dumped'.images = dumped.images /\ dumped'.actions = dataDict.actions
      BY DEF DumpEnds, RolloutTyped, Lists
    <2>2. RolloutTyped'
      <3>1. Len(dumped.images) <= MaxSteps /\ Len(dataDict.actions) <= MaxSteps
        BY DEF RolloutTyped, Lists, ListsEndNow, Inferences
      <3> QED
        BY <2>1, <3>1 DEF DumpEnds, RolloutTyped, Inferences
    <2>3. HistoryIsRecent' /\ ListsEndNow' /\ EnsembleIsForNow' /\ DumpIsPrefix'
      BY DEF DumpEnds, HistoryIsRecent, ListsEndNow, EnsembleIsForNow, Inferences, DumpIsPrefix
    <2>4. RolloutPairsUp'
      <3> SUFFICES ASSUME NEW k \in DOMAIN dumped'.images \intersect DOMAIN dumped'.actions
                   PROVE  dumped'.images[k] - dumped'.actions[k] \in {0, 1}
        BY DEF RolloutPairsUp
      <3>1. k \in DOMAIN dataDict.images /\ dumped'.images[k] = dataDict.images[k]
        <4>1. dumped.images \in Seq(Nat) /\ dataDict.images \in Seq(Nat) /\ dumping
          BY DEF DumpEnds, RolloutTyped, Lists
        <4> QED
          BY <2>1, <4>1 DEF DumpIsPrefix
      <3>2. dumped'.actions[k] = dataDict.actions[k] /\ k \in DOMAIN dataDict.actions
        BY <2>1
      <3>3. /\ dataDict.images \in Seq(Nat) /\ dataDict.actions \in Seq(Nat)
            /\ acting \in BOOLEAN /\ steps \in Nat
        BY DEF RolloutTyped, Lists
      <3> DEFINE pictured == Len(dataDict.images)
                 acted == Len(dataDict.actions)
      <3>4. pictured \in Nat /\ acted \in Nat /\ k \in Int
        BY <3>1, <3>3
      <3>5. /\ dumped'.images[k] = Inferences - pictured + k - 1
            /\ dumped'.actions[k] = steps - acted + k - 1
        BY <3>1, <3>2 DEF ListsEndNow, EndsBefore
      <3>6. /\ Inferences = (IF acting THEN steps + 1 ELSE steps)
            /\ ~acting => acted - pictured \in {0, 1}
            /\ acting => pictured - acted \in {0, 1}
        BY DEF ListsEndNow, Inferences
      <3> HIDE DEF pictured, acted
      <3>7. dumped'.images[k] - dumped'.actions[k] = Inferences - steps + (acted - pictured)
        BY ONLY <3>3, <3>4, <3>5, <3>6
      <3>8. CASE acting
        <4>1. Inferences - steps = 1 /\ acted - pictured \in {-1, 0}
          BY ONLY <3>3, <3>4, <3>6, <3>8
        <4> QED
          BY ONLY <3>7, <4>1
      <3>9. CASE ~acting
        <4>1. Inferences - steps = 0 /\ acted - pictured \in {0, 1}
          BY ONLY <3>3, <3>4, <3>6, <3>9
        <4> QED
          BY ONLY <3>7, <4>1
      <3> QED
        BY ONLY <3>8, <3>9
    <2> QED
      BY <2>2, <2>3, <2>4
  <1>3. RolloutInv /\ PressDelete => RolloutInv'
    <2> SUFFICES ASSUME RolloutInv, PressDelete PROVE RolloutInv'
      OBVIOUS
    <2>1. RolloutTyped'
      BY DEF PressDelete, Dropped, NoData, RolloutTyped, Lists, Inferences
    <2>2. HistoryIsRecent' /\ EnsembleIsForNow' /\ DumpIsPrefix' /\ RolloutPairsUp'
      BY DEF PressDelete, HistoryIsRecent, EnsembleIsForNow, Inferences, DumpIsPrefix, RolloutPairsUp
    <2>3. ListsEndNow'
      BY DEF PressDelete, Dropped, NoData, ListsEndNow, RolloutTyped, Inferences, EndsBefore
    <2> QED
      BY <2>1, <2>2, <2>3
  <1> QED
    BY <1>1, <1>2, <1>3

LEMMA RolloutSteps == RolloutInv /\ [RolloutNext]_rolloutVars => RolloutInv'
  <1> SUFFICES ASSUME RolloutInv, [RolloutNext]_rolloutVars PROVE RolloutInv'
    OBVIOUS
  <1> DEFINE kept == <<history, steps, acting, command, dataDict, dumping, dumped, presses>>
  <1>1. ASSUME UNCHANGED kept, (states \subseteq StateTopic)', (images \in Seq(Camera))'
        PROVE  RolloutInv'
    BY <1>1 DEF RolloutInv, RolloutTyped, HistoryIsRecent, ListsEndNow, DumpIsPrefix,
                EnsembleIsForNow, RolloutPairsUp, Inferences
  <1>2. ASSUME NEW topic \in StateTopic, LowDimCallback(topic) PROVE RolloutInv'
    BY <1>1, <1>2 DEF LowDimCallback, RolloutInv, RolloutTyped
  <1>3. ASSUME NEW camera \in Camera, ImageCallback(camera) PROVE RolloutInv'
    BY <1>1, <1>3 DEF ImageCallback, RolloutInv, RolloutTyped
  <1>4. CASE UNCHANGED rolloutVars
    BY <1>1, <1>4 DEF rolloutVars, RolloutInv, RolloutTyped
  <1> QED
    BY <1>2, <1>3, <1>4, TimerActsKeeps, TimerRecordsKeeps, KeyboardKeeps DEF RolloutNext

(* The history and the recorded lists are consecutive steps that end now, and a*)
(* dump under way is the beginning of its list (rollout.py, policy_rollout.py).*)
LEMMA RolloutIsInductive == RolloutSpec => []RolloutInv
  BY RolloutStarts, RolloutSteps, PTL DEF RolloutSpec

(* Types of the rollout, and its history never exceeds the horizon.          *)
THEOREM RolloutIsTyped == RolloutSpec => []RolloutTypeOK
  <1>1. RolloutInv => RolloutTypeOK
    <2> SUFFICES ASSUME RolloutInv PROVE RolloutTypeOK
      OBVIOUS
    <2>1. ToSet(images) \subseteq Camera
      BY DEF RolloutInv, RolloutTyped, ToSet
    <2>2. steps \in Nat /\ Inferences \in Nat /\ steps <= Inferences /\ Inferences <= MaxSteps
      BY DEF RolloutInv, RolloutTyped, Inferences
    <2>3. Len(dataDict.images) <= MaxSteps /\ Len(dataDict.actions) <= MaxSteps
      BY <2>2, RolloutConstants DEF RolloutInv, RolloutTyped, Lists, ListsEndNow
    <2> QED
      BY <2>1, <2>2, <2>3, RolloutConstants
      DEF RolloutInv, RolloutTyped, RolloutTypeOK, HistoryIsRecent
  <1> QED
    BY <1>1, RolloutIsInductive, PTL

(* What is averaged into a command are predictions for this very step, from all of*)
(* the last inferences, for every horizon (action_chunk_ensemble).           *)
THEOREM EnsembleIsAlwaysForNow == RolloutSpec => []EnsembleIsForNow
  <1>1. RolloutInv => EnsembleIsForNow
    BY DEF RolloutInv
  <1> QED
    BY <1>1, RolloutIsInductive, PTL

(* In a saved recording the k-th picture and the k-th action are of one step or of*)
(* two that follow each other, whenever the key came (on_press_key, timer_callback).*)
THEOREM RolloutAlwaysPairsUp == RolloutSpec => []RolloutPairsUp
  <1>1. RolloutInv => RolloutPairsUp
    BY DEF RolloutInv
  <1> QED
    BY <1>1, RolloutIsInductive, PTL
-----------------------------------------------------------------------------
(***************************************************************************)
(* The teardown of the API process, for any number of signals.             *)
(***************************************************************************)

\* main is past _serve_all only when both servers are done, past rclpy.shutdown
\* only when ROS is down, and past a join only when the thread ended or took too long.
InOrderDown ==
  /\ api \in {"serving", "teardown", "joining", "exited"}
  /\ server \in [Server -> {"queued", "starting", "serving", "raising", "done"}]
  /\ node \in [Node -> {"spinning", "destroying", "done"}]
  /\ joined \in 0..2 /\ rosUp \in BOOLEAN
  /\ api # "serving" => \A s \in Server : server[s] = "done"
  /\ ~rosUp <=> api \in {"joining", "exited"}
  /\ api = "joining" => joined < 2
  /\ api \in {"serving", "teardown"} => joined = 0
  /\ api = "exited" => joined = 2
  /\ \A n \in Node : n <= joined => node[n] = "done" \/ n \in gaveUp

LEMMA ServersInOrder ==
  ASSUME InOrderDown, NEW s \in Server, ServerStep(s) PROVE InOrderDown'
  <1>1. UNCHANGED <<rosUp, node, joined, gaveUp>>
    BY DEF ServerStep, ServerStarts, ServerBinds, ServerFails, ServerExits, ServerRaises, ServerDone
  <1>2. CASE ServerFails(s)
    BY <1>1, <1>2 DEF InOrderDown, ServerFails, Awaiting
  <1>3. CASE \/ ServerStarts(s) \/ ServerBinds(s) \/ ServerExits(s) \/ ServerRaises(s)
             \/ ServerDone(s)
    <2>1. UNCHANGED api
      BY <1>3 DEF ServerStarts, ServerBinds, ServerExits, ServerRaises, ServerDone
    <2>2. server[s] # "done"
      BY <1>3 DEF ServerStarts, ServerBinds, ServerExits, ServerRaises, ServerDone
    <2>3. api = "serving"
      BY <2>2 DEF InOrderDown
    <2>4. server' \in [Server -> {"queued", "starting", "serving", "raising", "done"}]
      BY <1>3 DEF ServerStarts, ServerBinds, ServerExits, ServerRaises, ServerDone, InOrderDown
    <2> QED
      BY <1>1, <2>1, <2>3, <2>4 DEF InOrderDown
  <1> QED
    BY <1>2, <1>3 DEF ServerStep

LEMMA MainInOrder == ASSUME InOrderDown, MainStep PROVE InOrderDown'
  <1>1. CASE ServeAllReturns
    BY <1>1 DEF InOrderDown, ServeAllReturns, Served
  <1>2. CASE RosShutdown
    <2>1. rosUp' \in BOOLEAN /\ ~rosUp'
      BY <1>2 DEF RosShutdown
    <2>2. /\ api = "teardown" /\ api' = "joining" /\ joined = 0
          /\ UNCHANGED <<server, node, joined, gaveUp>>
      BY <1>2 DEF RosShutdown, InOrderDown
    <2> QED
      BY <2>1, <2>2 DEF InOrderDown
  <1>3. CASE JoinThread
    BY <1>3 DEF InOrderDown, JoinThread, Node
  <1>4. CASE JoinThreadTimesOut
    BY <1>4 DEF InOrderDown, JoinThreadTimesOut, Node
  <1> QED
    BY <1>1, <1>2, <1>3, <1>4 DEF MainStep

LEMMA NodesInOrder ==
  ASSUME InOrderDown, NEW n \in Node, SpinReturns(n) \/ NodeDestroyed(n) PROVE InOrderDown'
  BY DEF InOrderDown, SpinReturns, NodeDestroyed

LEMMA StepInOrder == InOrderDown /\ [ApiNext]_apiVars => InOrderDown'
  <1>1. ASSUME InOrderDown, Signal PROVE InOrderDown'
    BY <1>1 DEF InOrderDown, Signal
  <1>2. ASSUME InOrderDown, UNCHANGED apiVars PROVE InOrderDown'
    BY <1>2 DEF InOrderDown, apiVars
  <1> QED
    BY <1>1, <1>2, ServersInOrder, MainInOrder, NodesInOrder DEF ApiNext

LEMMA ApiStaysInOrder == ApiInit /\ [][ApiNext]_apiVars => []TeardownInOrder
  <1>1. ApiInit => InOrderDown
    BY DEF ApiInit, InOrderDown, Node
  <1>2. InOrderDown => TeardownInOrder
    BY DEF InOrderDown, TeardownInOrder, Node
  <1> QED
    BY <1>1, <1>2, StepInOrder, PTL

(* The ROS side outlives the servers, and the process outlives the ROS side  *)
(* but for a thread that took too long, whatever signals arrive meanwhile    *)
(* (factr_api.py, main's finally).                                           *)
THEOREM TearsDownInOrder == ApiSpec => []TeardownInOrder
  BY ApiStaysInOrder, PTL DEF ApiSpec

\* Every signal a server holds back was sent: each is raised again at most as often.
Conserved ==
  /\ handler \in {RequestStopHandler} \union Server
  /\ original \in [Server -> {RequestStopHandler} \union Server]
  /\ shouldExit \in [Server -> BOOLEAN] /\ captured \in [Server -> Nat]
  /\ gaveUp \subseteq Node /\ signals \in 0..MaxSignals
  /\ captured[1] + captured[2] <= signals

ApiInv == InOrderDown /\ Conserved

LEMMA SignalConserves == ASSUME ApiInv, Signal PROVE Conserved'
  <1>1. /\ captured[1] \in Nat /\ captured[2] \in Nat /\ signals \in Nat /\ signals < MaxSignals
        /\ captured[1] + captured[2] <= signals
    BY ApiAssumption DEF ApiInv, Conserved, Server, Signal
  <1>2. /\ captured'[1] = captured[1] + (IF handler = 1 THEN 1 ELSE 0)
        /\ captured'[2] = captured[2] + (IF handler = 2 THEN 1 ELSE 0)
        /\ captured' \in [Server -> Nat]
    BY <1>1 DEF Signal, Captured, ApiInv, Conserved, Server
  <1>3. captured'[1] + captured'[2] <= signals' /\ signals' \in 0..MaxSignals
    BY <1>1, <1>2, ApiAssumption DEF Signal
  <1>4. shouldExit' \in [Server -> BOOLEAN]
    BY DEF Signal, Stopped
  <1> QED
    BY <1>2, <1>3, <1>4 DEF Signal, ApiInv, Conserved

\* A raised signal leaves the server's list and enters at most one other.
LEMMA RaisingConserves ==
  ASSUME ApiInv, NEW s \in Server, ServerRaises(s) PROVE Conserved'
  <1> DEFINE before == [captured EXCEPT ![s] = @ - 1]
  <1>1. /\ captured[1] \in Nat /\ captured[2] \in Nat /\ signals \in Nat /\ s \in {1, 2}
        /\ captured[1] + captured[2] <= signals /\ captured[s] > 0
        /\ captured \in [Server -> Nat]
    BY ApiAssumption DEF ApiInv, Conserved, Server, ServerRaises
  <1>2. /\ before \in [Server -> Nat] /\ before[1] + before[2] + 1 <= signals
        /\ before[1] \in Nat /\ before[2] \in Nat
    BY <1>1 DEF Server
  <1>3. /\ captured'[1] = before[1] + (IF handler = 1 THEN 1 ELSE 0)
        /\ captured'[2] = before[2] + (IF handler = 2 THEN 1 ELSE 0)
        /\ captured' \in [Server -> Nat]
    BY <1>2 DEF ServerRaises, Captured, Server
  <1> HIDE DEF before
  <1>4. captured'[1] + captured'[2] <= signals
    BY <1>1, <1>2, <1>3
  <1>5. shouldExit' \in [Server -> BOOLEAN]
    BY DEF ServerRaises, Stopped
  <1> QED
    BY <1>3, <1>4, <1>5 DEF ServerRaises, ApiInv, Conserved

LEMMA QuietConserves ==
  ASSUME ApiInv, UNCHANGED <<handler, original, shouldExit, captured, signals>>,
         gaveUp' \subseteq Node
  PROVE  Conserved'
  BY DEF ApiInv, Conserved

LEMMA ApiStep == ApiInv /\ [ApiNext]_apiVars => ApiInv'
  <1> SUFFICES ASSUME ApiInv, [ApiNext]_apiVars PROVE ApiInv'
    OBVIOUS
  <1>0. gaveUp \subseteq Node
    BY DEF ApiInv, Conserved
  <1>1. InOrderDown'
    BY StepInOrder DEF ApiInv
  <1>2. ASSUME NEW s \in Server, ServerStep(s) PROVE Conserved'
    <2>1. CASE ServerRaises(s)
      BY <2>1, RaisingConserves
    <2>2. CASE ServerStarts(s)
      BY <2>2 DEF ServerStarts, ApiInv, Conserved
    <2>3. CASE ServerFails(s)
      <3>1. 3 - s \in Server
        BY DEF Server
      <3> QED
        BY <2>3, <3>1 DEF ServerFails, ApiInv, Conserved
    <2>4. CASE ServerBinds(s) \/ ServerDone(s)
      BY <2>4 DEF ServerBinds, ServerDone, ApiInv, Conserved
    <2>5. CASE ServerExits(s)
      BY <2>5 DEF ServerExits, ApiInv, Conserved
    <2> QED
      BY <1>2, <2>1, <2>2, <2>3, <2>4, <2>5 DEF ServerStep
  <1>3. ASSUME MainStep PROVE Conserved'
    <2>1. CASE ServeAllReturns \/ RosShutdown \/ JoinThread
      <3>1. UNCHANGED <<handler, original, shouldExit, captured, signals, gaveUp>>
        BY <2>1 DEF ServeAllReturns, RosShutdown, JoinThread
      <3> QED
        BY <1>0, <3>1, QuietConserves
    <2>2. CASE JoinThreadTimesOut
      <3>1. joined + 1 \in Node
        BY <2>2 DEF JoinThreadTimesOut, ApiInv, InOrderDown, Node
      <3> QED
        BY <1>0, <2>2, <3>1, QuietConserves DEF JoinThreadTimesOut
    <2> QED
      BY <1>3, <2>1, <2>2 DEF MainStep
  <1>4. ASSUME NEW n \in Node, SpinReturns(n) \/ NodeDestroyed(n) PROVE Conserved'
    <2>1. UNCHANGED <<handler, original, shouldExit, captured, signals, gaveUp>>
      BY <1>4 DEF SpinReturns, NodeDestroyed
    <2> QED
      BY <1>0, <2>1, QuietConserves
  <1>5. ASSUME UNCHANGED apiVars PROVE Conserved'
    <2>1. UNCHANGED <<handler, original, shouldExit, captured, signals, gaveUp>>
      BY <1>5 DEF apiVars
    <2> QED
      BY <1>0, <2>1, QuietConserves
  <1> QED
    BY <1>1, <1>2, <1>3, <1>4, <1>5, SignalConserves DEF ApiNext, ApiInv

LEMMA ApiInitInv == ApiInit => ApiInv
  BY ApiAssumption DEF ApiInit, ApiInv, InOrderDown, Conserved, Node, Server

LEMMA ApiStaysTyped == ApiInit /\ [][ApiNext]_apiVars => []ApiTypeOK
  <1>1. ApiInv => ApiTypeOK
    <2> SUFFICES ASSUME ApiInv PROVE ApiTypeOK
      OBVIOUS
    <2>1. captured \in [Server -> 0..MaxSignals]
      BY ApiAssumption DEF ApiInv, Conserved, Server
    <2> QED
      BY <2>1 DEF ApiInv, InOrderDown, Conserved, ApiTypeOK
  <1> QED
    BY <1>1, ApiInitInv, ApiStep, PTL

(* The signal handler is always main's or a server's, what a server holds    *)
(* back was sent, and main gives up on no thread but the two it started.     *)
THEOREM ApiIsTyped == ApiSpec => []ApiTypeOK
  BY ApiStaysTyped, PTL DEF ApiSpec

\* The servers start in order; what a server restores is main's handler or that of server 1.
Restores ==
  /\ server[1] = "queued" => server[2] = "queued" /\ handler = RequestStopHandler
  /\ original[1] = RequestStopHandler /\ original[2] # 2
  /\ \A s \in Server : server[s] = "raising" => handler = original[s]

\* Two servers never raise at once, and a server that ended was told to.
Alone ==
  /\ server[1] = "raising" => server[2] # "raising"
  /\ \A s \in Server : server[s] \in {"raising", "done"} => shouldExit[s]

\* The handler of server 2 is only there while it runs, that of server 1 before and after.
Listens ==
  /\ handler = 2 => server[2] \in {"starting", "serving"}
  /\ handler = 1 => IF server[2] = "queued" THEN server[1] \in {"starting", "serving"}
                                            ELSE server[2] \in {"raising", "done"}

\* A server that does not know of a signal yet hears of it from the other one.
Told ==
  signals > 0 =>
    \A s \in Server :
      \/ shouldExit[s]
      \/ shouldExit[3 - s] /\ captured[3 - s] > 0 /\ server[3 - s] \notin {"queued", "done"}

SignalInv == api = "serving" => Restores /\ Alone /\ Listens /\ Told

LEMMA SignalTells == ASSUME ApiInv, SignalInv, Signal PROVE SignalInv'
  <1> SUFFICES ASSUME api' = "serving" PROVE (Restores /\ Alone /\ Listens /\ Told)'
    BY DEF SignalInv
  <1>1. Restores /\ Alone /\ Listens /\ UNCHANGED <<server, handler, original>>
    BY DEF Signal, SignalInv
  <1>2. /\ captured \in [Server -> Nat] /\ handler \in {0, 1, 2}
        /\ shouldExit \in [Server -> BOOLEAN]
    BY DEF ApiInv, Conserved, Server, RequestStopHandler
  <1>3. /\ \A s \in Server : shouldExit[s] \/ handler \in {0, s} => shouldExit'[s]
        /\ \A s \in Server : captured'[s] = captured[s] + (IF handler = s THEN 1 ELSE 0)
    BY DEF Signal, Stopped, Captured, RequestStopHandler
  <1>4. (Restores /\ Alone /\ Listens)'
    BY <1>1, <1>3 DEF Restores, Alone, Listens
  <1>5. CASE handler = 0
    BY <1>3, <1>4, <1>5 DEF Told
  <1>6. CASE handler = 1
    <2>1. shouldExit'[1] /\ captured'[1] > 0
      <3>1. 1 \in Server /\ captured[1] \in Nat
        BY <1>2 DEF Server
      <3>2. shouldExit'[1] /\ captured'[1] = captured[1] + 1
        BY <1>3, <1>6, <3>1
      <3> QED
        BY <3>1, <3>2
    <2>2. server[2] \in {"raising", "done"} => shouldExit'[2]
      BY <1>1, <1>3 DEF Alone, Server
    <2>3. server[2] = "queued" => server[1] \in {"starting", "serving"}
      BY <1>1, <1>6 DEF Listens
    <2>4. server[2] # "queued" => server[2] \in {"raising", "done"}
      BY <1>1, <1>6 DEF Listens
    <2> QED
      BY <1>1, <1>4, <2>1, <2>2, <2>3, <2>4 DEF Told, Server
  <1>7. CASE handler = 2
    <2>1. shouldExit'[2] /\ captured'[2] > 0 /\ server[2] \in {"starting", "serving"}
      <3>1. 2 \in Server /\ captured[2] \in Nat
        BY <1>2 DEF Server
      <3>2. shouldExit'[2] /\ captured'[2] = captured[2] + 1
        BY <1>3, <1>7, <3>1
      <3> QED
        BY <1>1, <1>7, <3>1, <3>2 DEF Listens
    <2> QED
      BY <1>1, <1>4, <2>1 DEF Told, Server
  <1> QED
    BY <1>2, <1>5, <1>6, <1>7, <1>4

LEMMA ServerTells ==
  ASSUME ApiInv, SignalInv, NEW s \in Server, ServerStep(s) PROVE SignalInv'
  <1>1. CASE ServerStarts(s)
    BY <1>1 DEF ServerStarts, Awaiting, ApiInv, InOrderDown, Conserved, Server, RequestStopHandler,
                SignalInv, Restores, Alone, Listens, Told
  <1>2. CASE ServerBinds(s)
    BY <1>2 DEF ServerBinds, Awaiting, ApiInv, InOrderDown, Conserved, Server, RequestStopHandler,
                SignalInv, Restores, Alone, Listens, Told
  <1>3. CASE ServerFails(s)
    BY <1>3 DEF ServerFails, SignalInv
  <1>4. CASE ServerExits(s)
    BY <1>4 DEF ServerExits, Awaiting, ApiInv, InOrderDown, Conserved, Server, RequestStopHandler,
                SignalInv, Restores, Alone, Listens, Told
  <1>5. CASE ServerRaises(s)
    BY <1>5 DEF ServerRaises, Stopped, Captured, ApiInv, InOrderDown, Conserved, Server,
                RequestStopHandler, SignalInv, Restores, Alone, Listens, Told
  <1>6. CASE ServerDone(s)
    BY <1>6 DEF ServerDone, ApiInv, InOrderDown, Conserved, Server, RequestStopHandler,
                SignalInv, Restores, Alone, Listens, Told
  <1> QED
    BY <1>1, <1>2, <1>3, <1>4, <1>5, <1>6 DEF ServerStep

LEMMA TellingStep == ApiInv /\ SignalInv /\ [ApiNext]_apiVars => SignalInv'
  <1> SUFFICES ASSUME ApiInv, SignalInv, [ApiNext]_apiVars PROVE SignalInv'
    OBVIOUS
  <1>1. ASSUME UNCHANGED <<api, server, handler, original, shouldExit, captured, signals>>
        PROVE  SignalInv'
    BY <1>1 DEF SignalInv, Restores, Alone, Listens, Told
  <1>2. CASE MainStep
    <2>1. api' # "serving"
      BY <1>2 DEF MainStep, ServeAllReturns, RosShutdown, JoinThread, JoinThreadTimesOut
    <2> QED
      BY <2>1 DEF SignalInv
  <1>3. ASSUME NEW n \in Node, SpinReturns(n) \/ NodeDestroyed(n) PROVE SignalInv'
    BY <1>1, <1>3 DEF SpinReturns, NodeDestroyed
  <1>4. CASE UNCHANGED apiVars
    BY <1>1, <1>4 DEF apiVars
  <1> QED
    BY <1>2, <1>3, <1>4, SignalTells, ServerTells DEF ApiNext

(* While the servers run, every one of them has been told of a signal, or    *)
(* the other one was, still runs, and raises it again when it ends; so that  *)
(* SignalStopsAll only needs the servers to go on.                           *)
THEOREM SignalsReachBoth == ApiSpec => []SignalInv
  <1>1. ApiInit => SignalInv
    BY DEF ApiInit, SignalInv, Restores, Alone, Listens, Told, Server, RequestStopHandler
  <1> QED
    BY <1>1, ApiInitInv, ApiStep, TellingStep, PTL DEF ApiSpec
-----------------------------------------------------------------------------
(***************************************************************************)
(* The follower bridge, for every depth of the order topic and any number  *)
(* of orders: the queue holds the last orders, in order, and the follower  *)
(* has the last of them as soon as it is empty.                            *)
(***************************************************************************)

BridgeTyped ==
  /\ made \in 0..4 /\ listening \subseteq Feeds /\ got \subseteq listening
  /\ bridge \in {"constructing", "spinning", "down"}
  /\ orders \in Seq(Nat) /\ Len(orders) <= OrderDepth
  /\ ordered \in 0..MaxOrders /\ forwarded \in Nat

\* The queue ends in the last order given and skips none; what left it was forwarded or older.
LastOrdersWait ==
  /\ \A i \in DOMAIN orders : orders[i] = ordered - Len(orders) + i
  /\ forwarded <= ordered - Len(orders)
  /\ orders = <<>> => forwarded = ordered

BridgeInv == BridgeTyped /\ LastOrdersWait

LEMMA SocketsAreFeeds == ASSUME NEW n \in 0..4, n < 4 PROVE Socket[n + 1] \in Feeds
  BY DEF Socket, Feeds

\* A new order enters at the end; a full queue loses the oldest.
LEMMA PublishingKeepsTheLast == ASSUME BridgeInv, PublishOrder PROVE BridgeInv'
  <1> DEFINE N == Len(orders)
  <1>1. /\ orders \in Seq(Nat) /\ N \in Nat /\ N <= OrderDepth /\ DOMAIN orders = 1..N
        /\ ordered \in Nat /\ ordered < MaxOrders /\ forwarded \in Nat
        /\ \A i \in 1..N : orders[i] = ordered - N + i
        /\ forwarded <= ordered - N /\ MaxOrders \in Nat /\ OrderDepth \in Nat /\ OrderDepth > 0
        /\ ordered' = ordered + 1
    BY BridgeAssumption DEF BridgeInv, BridgeTyped, LastOrdersWait, PublishOrder
  <1>2. UNCHANGED <<made, listening, got, bridge, forwarded>>
    BY DEF PublishOrder
  <1>3. CASE N < OrderDepth
    <2>1. orders' = Append(orders, ordered + 1)
      BY <1>3 DEF PublishOrder
    <2>2. /\ orders' \in Seq(Nat) /\ Len(orders') = N + 1 /\ DOMAIN orders' = 1..(N + 1)
          /\ \A i \in 1..N : orders'[i] = orders[i]
          /\ orders'[N + 1] = ordered + 1
      BY <1>1, <2>1
    <2>3. orders' # <<>>
      BY <1>1, <2>2
    <2>4. LastOrdersWait'
      <3>1. ASSUME NEW i \in 1..(N + 1) PROVE orders'[i] = ordered' - (N + 1) + i
        <4>1. CASE i \in 1..N
          BY <1>1, <2>2, <4>1
        <4>2. CASE i = N + 1
          BY <1>1, <2>2, <4>2
        <4> QED
          BY <1>1, <4>1, <4>2
      <3>2. forwarded' <= ordered' - (N + 1)
        BY <1>1, <1>2
      <3> QED
        BY <2>2, <2>3, <3>1, <3>2 DEF LastOrdersWait
    <2> QED
      BY <1>1, <1>2, <1>3, <2>2, <2>4 DEF BridgeInv, BridgeTyped
  <1>4. CASE ~(N < OrderDepth)
    <2>1. orders' = Append(Tail(orders), ordered + 1) /\ N > 0 /\ orders # <<>>
      BY <1>1, <1>4 DEF PublishOrder
    <2>2. /\ Tail(orders) \in Seq(Nat) /\ Len(Tail(orders)) = N - 1
          /\ \A i \in 1..(N - 1) : Tail(orders)[i] = orders[i + 1]
      BY <1>1, <2>1, HeadTailProperties
    <2>3. /\ orders' \in Seq(Nat) /\ Len(orders') = N /\ DOMAIN orders' = 1..N
          /\ \A i \in 1..(N - 1) : orders'[i] = orders[i + 1]
          /\ orders'[N] = ordered + 1
      BY <1>1, <2>1, <2>2
    <2>4. orders' # <<>>
      BY <2>1, <2>3
    <2>5. LastOrdersWait'
      <3>1. ASSUME NEW i \in 1..N PROVE orders'[i] = ordered' - N + i
        <4>1. CASE i \in 1..(N - 1)
          BY <1>1, <2>3, <4>1
        <4>2. CASE i = N
          BY <1>1, <2>3, <4>2
        <4>3. i \in 1..(N - 1) \/ i = N
          <5> HIDE DEF N
          <5> QED
            BY <1>1
        <4> QED
          BY <4>1, <4>2, <4>3
      <3>2. forwarded' <= ordered' - N
        BY <1>1, <1>2
      <3> QED
        BY <2>3, <2>4, <3>1, <3>2 DEF LastOrdersWait
    <2> QED
      BY <1>1, <1>2, <2>3, <2>5 DEF BridgeInv, BridgeTyped
  <1> QED
    BY <1>3, <1>4

LEMMA ForwardingKeepsTheLast == ASSUME BridgeInv, ForwardOrder PROVE BridgeInv'
  <1> DEFINE N == Len(orders)
  <1>1. /\ orders \in Seq(Nat) /\ N \in Nat /\ N <= OrderDepth /\ DOMAIN orders = 1..N /\ N > 0
        /\ ordered \in Nat /\ orders # <<>>
        /\ \A i \in 1..N : orders[i] = ordered - N + i
        /\ orders' = Tail(orders) /\ forwarded' = Head(orders) /\ OrderDepth \in Nat
    BY BridgeAssumption DEF BridgeInv, BridgeTyped, LastOrdersWait, ForwardOrder
  <1>2. /\ orders' \in Seq(Nat) /\ Len(orders') = N - 1 /\ DOMAIN orders' = 1..(N - 1)
        /\ \A i \in 1..(N - 1) : orders'[i] = orders[i + 1]
        /\ forwarded' = orders[1]
    BY <1>1, HeadTailProperties
  <1>3. forwarded' = ordered - N + 1 /\ forwarded' \in Nat
    BY <1>1, <1>2
  <1>4. UNCHANGED <<made, listening, got, bridge, ordered>>
    BY DEF ForwardOrder
  <1>5. orders' = <<>> => N = 1
    <2>1. orders' = <<>> => Len(orders') = 0
      OBVIOUS
    <2> HIDE DEF N
    <2> QED
      BY <1>1, <1>2, <2>1
  <1>6. LastOrdersWait'
    <2>1. \A i \in 1..(N - 1) : orders'[i] = ordered' - (N - 1) + i
      BY <1>1, <1>2, <1>4
    <2>2. forwarded' <= ordered' - (N - 1)
      BY <1>1, <1>3, <1>4
    <2>3. N = 1 => forwarded' = ordered'
      BY <1>1, <1>3, <1>4
    <2> QED
      BY <1>2, <1>5, <2>1, <2>2, <2>3 DEF LastOrdersWait
  <1> QED
    BY <1>1, <1>2, <1>3, <1>4, <1>6 DEF BridgeInv, BridgeTyped

LEMMA BridgeStep == BridgeInv /\ [BridgeNext]_bridgeVars => BridgeInv'
  <1> SUFFICES ASSUME BridgeInv, [BridgeNext]_bridgeVars PROVE BridgeInv'
    OBVIOUS
  <1>1. ASSUME UNCHANGED <<orders, ordered, forwarded>> PROVE LastOrdersWait'
    BY <1>1 DEF BridgeInv, LastOrdersWait
  <1>2. CASE StartThread
    <2>1. Socket[made + 1] \in Feeds
      BY <1>2, SocketsAreFeeds DEF StartThread, BridgeInv, BridgeTyped
    <2> QED
      BY <1>1, <1>2, <2>1 DEF StartThread, BridgeInv, BridgeTyped
  <1>3. CASE ClearValue
    BY <1>1, <1>3 DEF ClearValue, BridgeInv, BridgeTyped
  <1>4. CASE WaitEnds \/ TimerRaisesNoPosition
    BY <1>1, <1>4 DEF WaitEnds, TimerRaisesNoPosition, BridgeInv, BridgeTyped
  <1>5. ASSUME NEW f \in Feeds, UpdateValue(f) PROVE BridgeInv'
    BY <1>1, <1>5 DEF UpdateValue, StillListening, BridgeInv, BridgeTyped
  <1>6. CASE UNCHANGED bridgeVars
    BY <1>1, <1>6 DEF bridgeVars, BridgeInv, BridgeTyped
  <1> QED
    BY <1>2, <1>3, <1>4, <1>5, <1>6, PublishingKeepsTheLast, ForwardingKeepsTheLast DEF BridgeNext

LEMMA BridgeStays == BridgeInit /\ [][BridgeNext]_bridgeVars => []BridgeInv
  <1>1. BridgeInit => BridgeInv
    BY BridgeAssumption DEF BridgeInit, BridgeInv, BridgeTyped, LastOrdersWait
  <1> QED
    BY <1>1, BridgeStep, PTL

LEMMA BridgeStaysTyped == BridgeInit /\ [][BridgeNext]_bridgeVars => []BridgeTypeOK
  <1>1. BridgeInv => BridgeTypeOK
    BY BridgeAssumption DEF BridgeInv, BridgeTyped, LastOrdersWait, BridgeTypeOK
  <1> QED
    BY <1>1, BridgeStays, PTL

(* Orders reach the follower in the order they were given, and when none is  *)
(* waiting it has the last one, however many were given before the bridge    *)
(* spun (left_franka_cmd_callback).                                          *)
THEOREM BridgeIsInductive == BridgeSpec => []BridgeInv
  BY BridgeStays, PTL DEF BridgeSpec

(* Values only come from threads that run, and no order is forwarded that    *)
(* was not given.                                                            *)
THEOREM BridgeIsTyped == BridgeSpec => []BridgeTypeOK
  BY BridgeStaysTyped, PTL DEF BridgeSpec
=============================================================================
