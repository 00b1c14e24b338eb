------------------------------ MODULE StateRead ------------------------------
(***************************************************************************)
(* One driver's state reads and register writes and what it records of     *)
(* them (driver.py): the aggregate Fast Sync Read answer, the sample made  *)
(* of it, the retries of a torque-mode or operating-mode write, the        *)
(* counters and the ring of diagnostic events.  A transaction is recorded  *)
(* in several acquisitions of _diagnostics_lock, those of the thread that  *)
(* reads between those of a thread that writes; the telemetry thread takes *)
(* a snapshot under the same lock, so in any state of this module.         *)
(*                                                                         *)
(* A servo's data is the number of the read it came from.                  *)
(***************************************************************************)
EXTENDS DiagnosticRing, FiniteSets

CONSTANTS Servo,     \* _ids
          Foreign,   \* an id of no servo of this board
          Status,    \* status error bytes, with 0 for no error
          HardwareAlert,   \* DXL_ALERT_MASK: the byte that makes no write fail
          WriteAttempts,   \* STARTUP_WRITE_ATTEMPTS
          MaxReads,  \* bound: reads
          MaxWrites  \* bound: writes

ASSUME StateReadAssumption ==
  /\ Foreign \notin Servo /\ Servo # {} /\ IsFiniteSet(Servo)
  /\ 0 \in Status /\ HardwareAlert \in Status \ {0}
  /\ WriteAttempts \in Nat \ {0} /\ MaxReads \in Nat /\ MaxWrites \in Nat

Block == [id : Servo \union {Foreign}, error : Status]
\* No answer is an empty one.
Answer == UNION {[1..n -> Block] : n \in 0..Cardinality(Servo)}
Counter == {"communication_failure", "communication_retry", "position_jump", "status_alert"}
\* Who records: at most one thread reads, and one writes (set_torque_mode holds the driver's
\* _lock; set_operating_mode, which does not, runs before there is a second thread).
Source == {"read", "write"}
None == [none |-> TRUE]

VARIABLES
  reads,       \* transactions begun
  data,        \* data_dict of the sync read group: [Servo -> read, 0 before any]
  sample,      \* what get_positions_and_velocities returned last
  readSeq,     \* _read_sequence
  lastErrors,  \* _last_status_errors: the servos with an error, and which
  count,       \* the counters of the snapshot
  events,      \* _diagnostic_events
  eventSeq,    \* _event_sequence
  pending,     \* by source: the lock acquisitions still to be made for its transaction
  writes,      \* history: writes begun
  unheard      \* history: writes that were given up, counted as failures without an event

readVars == <<reads, data, sample, readSeq, lastErrors, count, events, eventSeq, pending,
              writes, unheard>>

ReadInit ==
  /\ reads = 0 /\ data = [s \in Servo |-> 0] /\ sample = None
  /\ readSeq = 0 /\ lastErrors = <<>>
  /\ count = [c \in Counter |-> 0]
  /\ events = <<>> /\ eventSeq = 0 /\ pending = [source \in Source |-> <<>>]
  /\ writes = 0 /\ unheard = 0

-----------------------------------------------------------------------------
(* The answer. *)

Ids(blocks) == {blocks[i].id : i \in DOMAIN blocks}

\* Mutant: a block may come twice.
AcceptsTwice(blocks) == Len(blocks) = Cardinality(Servo) /\ Ids(blocks) \subseteq Servo

\* fastSyncRead: every expected servo once, and nobody else.
Accepts(blocks) == Len(blocks) = Cardinality(Servo) /\ Ids(blocks) = Servo

\* The blocks stored before the first foreign or repeated one: they stay stored.
Stored(blocks) ==
  {i \in DOMAIN blocks : /\ Len(blocks) = Cardinality(Servo)
                         /\ \A j \in 1..i : /\ blocks[j].id \in Servo
                                            /\ \A k \in 1..(j - 1) : blocks[k].id # blocks[j].id}

Received(blocks) ==
  [s \in Servo |-> IF \E i \in Stored(blocks) : blocks[i].id = s THEN reads + 1 ELSE data[s]]

\* The nonzero error bytes of an answer.
Alerts(blocks) ==
  [s \in {blocks[i].id : i \in {j \in DOMAIN blocks : blocks[j].error # 0}} |->
    LET i == CHOOSE j \in DOMAIN blocks : blocks[j].id = s IN blocks[i].error]

(* The record of a transaction: which lock acquisitions follow, in which order. *)

Append1(kind, errors) == [op |-> "append", kind |-> kind, errors |-> errors, times |-> 0]
CountUp(kind, times) == [op |-> "count", kind |-> kind, errors |-> <<>>, times |-> times]

\* Mutant: the event first, the counter after it.
CountedLate(kind, times, errors) == <<Append1(kind, errors), CountUp(kind, times)>>

\* A counter under one acquisition of the lock, its event under the next.
Counted(kind, times, errors) == <<CountUp(kind, times), Append1(kind, errors)>>

\* Mutant: only servos that had no alert before.
NewAlertsOnly(alerts) == {s \in DOMAIN alerts : s \notin DOMAIN lastErrors}

NewAlerts(alerts) ==
  {s \in DOMAIN alerts : s \in DOMAIN lastErrors => lastErrors[s] # alerts[s]}

ClearedAlerts(alerts) == DOMAIN lastErrors \ DOMAIN alerts

\* _record_successful_read
Record(jumped, alerts) ==
  (IF jumped THEN Counted("position_jump", 1, <<>>) ELSE <<>>)
  \o (IF NewAlerts(alerts) = {} THEN <<>>
      ELSE Counted("status_alert", 1, [s \in NewAlerts(alerts) |-> alerts[s]]))
  \o (IF ClearedAlerts(alerts) = {} THEN <<>>
      ELSE <<Append1("status_alert_cleared", [s \in ClearedAlerts(alerts) |-> 0])>>)

\* _check_write_result appends an alert that nothing counts; the retries follow it.
WriteRecord(s, failed, alert) ==
  (IF alert THEN <<Append1("status_alert", [t \in {s} |-> HardwareAlert])>> ELSE <<>>)
  \o (IF failed = 0 THEN <<>> ELSE Counted("communication_retry", failed, <<>>))
-----------------------------------------------------------------------------
\* A complete answer; jumped: some servo moved by the threshold since the last sample.
ReadSucceeds(blocks, jumped) ==
  /\ pending["read"] = <<>> /\ reads < MaxReads /\ Accepts(blocks)
  /\ jumped => readSeq > 0
  /\ reads' = reads + 1
  /\ data' = Received(blocks) /\ sample' = [read |-> reads + 1, data |-> data']
  /\ readSeq' = readSeq + 1
  /\ lastErrors' = Alerts(blocks)
  /\ pending' = [pending EXCEPT !["read"] = Record(jumped, Alerts(blocks))]
  /\ UNCHANGED <<count, events, eventSeq, writes, unheard>>

\* No answer, or one the parser refuses: the first acquisition counts the failure
\* (the loop is never given tries, so one failed attempt).
ReadFails(blocks) ==
  /\ pending["read"] = <<>> /\ reads < MaxReads /\ ~Accepts(blocks)
  /\ reads' = reads + 1
  /\ data' = Received(blocks)
  /\ count' = [count EXCEPT !["communication_failure"] = @ + 1, !["communication_retry"] = @ + 1]
  /\ pending' = [pending EXCEPT !["read"] = <<Append1("communication_failure", <<>>)>>]
  /\ UNCHANGED <<sample, readSeq, lastErrors, events, eventSeq, writes, unheard>>

\* The serial port raises: nothing of the read is recorded.
ReadRaises ==
  /\ pending["read"] = <<>> /\ reads < MaxReads
  /\ reads' = reads + 1
  /\ UNCHANGED <<data, sample, readSeq, lastErrors, count, events, eventSeq, pending,
                 writes, unheard>>

\* _write_1_byte_with_retry: acknowledged after some failed attempts, with an alert or none.
WriteSucceeds(s, failed, alert) ==
  /\ pending["write"] = <<>> /\ writes < MaxWrites
  /\ writes' = writes + 1
  /\ pending' = [pending EXCEPT !["write"] = WriteRecord(s, failed, alert)]
  /\ UNCHANGED <<reads, data, sample, readSeq, lastErrors, count, events, eventSeq, unheard>>

\* Every attempt failed: the retries and the failure are counted, and nothing is appended.
WriteFails ==
  /\ pending["write"] = <<>> /\ writes < MaxWrites
  /\ writes' = writes + 1 /\ unheard' = unheard + 1
  /\ count' = [count EXCEPT !["communication_failure"] = @ + 1,
                            !["communication_retry"] = @ + WriteAttempts]
  /\ UNCHANGED <<reads, data, sample, readSeq, lastErrors, events, eventSeq, pending>>

\* An instruction error, or a serial exception: raised before even the failed attempts are
\* counted.
WriteRaises ==
  /\ pending["write"] = <<>> /\ writes < MaxWrites
  /\ writes' = writes + 1
  /\ UNCHANGED <<reads, data, sample, readSeq, lastErrors, count, events, eventSeq, pending,
                 unheard>>

RecordCount(source) ==
  /\ pending[source] # <<>> /\ Head(pending[source]).op = "count"
  /\ LET entry == Head(pending[source])
     IN count' = [count EXCEPT ![entry.kind] = @ + entry.times]
  /\ pending' = [pending EXCEPT ![source] = Tail(@)]
  /\ UNCHANGED <<reads, data, sample, readSeq, lastErrors, events, eventSeq, writes, unheard>>

\* _append_event
RecordEvent(source) ==
  /\ pending[source] # <<>> /\ Head(pending[source]).op = "append"
  /\ eventSeq' = eventSeq + 1
  /\ LET entry == Head(pending[source])
     IN events' = Pushed(events, [sequence |-> eventSeq + 1, source |-> source,
                                  kind |-> entry.kind, errors |-> entry.errors])
  /\ pending' = [pending EXCEPT ![source] = Tail(@)]
  /\ UNCHANGED <<reads, data, sample, readSeq, lastErrors, count, writes, unheard>>

ReadNext ==
  \/ \E blocks \in Answer :
       \/ \E jumped \in BOOLEAN : ReadSucceeds(blocks, jumped)
       \/ ReadFails(blocks)
  \/ ReadRaises
  \/ \E s \in Servo, failed \in 0..(WriteAttempts - 1), alert \in BOOLEAN :
       WriteSucceeds(s, failed, alert)
  \/ WriteFails \/ WriteRaises
  \/ \E source \in Source : RecordCount(source) \/ RecordEvent(source)

ReadSpec == ReadInit /\ [][ReadNext]_readVars
-----------------------------------------------------------------------------
\* Also that every sample has every servo: nothing is returned before its answer is whole.
ReadTypeOK ==
  /\ reads \in 0..MaxReads /\ readSeq \in 0..reads /\ eventSeq \in Nat
  /\ data \in [Servo -> 0..MaxReads]
  /\ sample # None => sample.read \in 1..MaxReads /\ sample.data \in [Servo -> 0..MaxReads]
  /\ DOMAIN lastErrors \subseteq Servo /\ count \in [Counter -> Nat]
  /\ Len(events) <= RingSize /\ writes \in 0..MaxWrites /\ unheard \in 0..writes

(* The positions a successful read returns all come from the answer of that *)
(* read, however many corrupt answers had left parts of themselves in the   *)
(* group's data_dict (DiagnosticGroupSyncRead.fastSyncRead).                *)
SampleIsOneAnswer == sample # None => \A s \in Servo : sample.data[s] = sample.read

\* The events a counter counts: an alert that came with a write's answer is of none.
IsOf(event, c) == event.kind = c /\ (c = "status_alert" => event.source = "read")
Visible(c) == {i \in DOMAIN events : IsOf(events[i], c)}

\* Failures of which no event ever tells.
Unheard(c) == IF c = "communication_failure" THEN unheard ELSE 0

(* A snapshot taken between two acquisitions never shows an event its        *)
(* counter does not count, an alert on a write excepted; while nothing was   *)
(* evicted, a counter is ahead by the writes given up, which leave no event, *)
(* and by one event more at most (retries are counted by attempts, and those *)
(* of failures too).  The retained events are numbered without a gap.        *)
CountersCoverEvents ==
  /\ \A c \in Counter :
       /\ count[c] >= Cardinality(Visible(c)) + Unheard(c)
       /\ eventSeq <= RingSize /\ c # "communication_retry" =>
            count[c] <= Cardinality(Visible(c)) + Unheard(c) + 1
  /\ \A i \in DOMAIN events : events[i].sequence = eventSeq - Len(events) + i

\* The servos whose alert an event tells: reads alone compare it with the one before.
AlertsTold(event) == IF event.source = "read" THEN DOMAIN event.errors ELSE {}

(* Between reads, whoever replays the retained alert and clear events of     *)
(* reads, and passes over those of writes, knows the alert the last read     *)
(* found on every servo they name: a changed error byte is news, and no read *)
(* in between is lost on it, whatever a write appends among them.            *)
EventsTellAlerts ==
  pending["read"] = <<>> =>
    \A i \in DOMAIN events : \A s \in AlertsTold(events[i]) :
      (\A j \in (i + 1)..Len(events) : s \notin AlertsTold(events[j])) =>
        events[i].errors[s] = (IF s \in DOMAIN lastErrors THEN lastErrors[s] ELSE 0)
=============================================================================
