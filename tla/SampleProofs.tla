---------------------------- MODULE SampleProofs ----------------------------
EXTENDS StateRead, PacketBus, JointStream, FiniteSetTheorems, SequenceTheorems, TLAPS

(***************************************************************************)
(* A driver's reads and writes, for every set of servos, every ring, any   *)
(* number of attempts and alert bytes of any servos: a sample is one answer*)
(* of every servo, the counters cover the events they were raised for, and *)
(* the alert events of reads tell the alerts.                              *)
(***************************************************************************)

Kind == Counter \union {"status_alert_cleared"}
Errors == UNION {[servos -> Status] : servos \in SUBSET Servo}
Entry == [op : {"count", "append"}, kind : Kind, errors : Errors, times : Nat]
Event == [sequence : Nat, source : Source, kind : Kind, errors : Errors]

\* The present error byte of a servo.
Present(s) == IF s \in DOMAIN lastErrors THEN lastErrors[s] ELSE 0

Named(entry) == DOMAIN entry.errors

\* The kind is counted, unless it is a write's alert.
Owing(source, kind) == kind \in Counter /\ (kind = "status_alert" => source = "read")

\* What a write may have to record.
OnWrites(kind) == kind \in {"status_alert", "communication_retry"}

\* The counter of the event about to be appended is already one ahead.
OwedBy(source, c) ==
  IF /\ pending[source] # <<>> /\ Head(pending[source]).op = "append"
     /\ Head(pending[source]).kind = c /\ Owing(source, c)
  THEN 1 ELSE 0

Owed(c) == OwedBy("read", c) + OwedBy("write", c)

ReadTyped ==
  /\ reads \in 0..MaxReads /\ readSeq \in 0..reads /\ eventSeq \in Nat
  /\ data \in [Servo -> 0..MaxReads]
  /\ sample # None => sample \in [read : 1..MaxReads, data : [Servo -> 0..MaxReads]]
  /\ lastErrors \in Errors /\ count \in [Counter -> Nat]
  /\ events \in Seq(Event) /\ pending \in [Source -> Seq(Entry)]
  /\ writes \in 0..MaxWrites /\ unheard \in 0..writes

\* Every count is followed by its append, and a counted append not at the head has its count;
\* only retries are counted more than once, and writes record alerts and retries.
Paired(source, list) ==
  /\ \A i \in DOMAIN list : list[i].op = "count" =>
       /\ Owing(source, list[i].kind) /\ list[i].errors = <<>> /\ list[i].times >= 1
       /\ list[i].kind # "communication_retry" => list[i].times = 1
       /\ i + 1 \in DOMAIN list /\ list[i + 1].op = "append" /\ list[i + 1].kind = list[i].kind
  /\ \A i \in DOMAIN list : i > 1 /\ list[i].op = "append" /\ Owing(source, list[i].kind) =>
       list[i - 1].op = "count" /\ list[i - 1].kind = list[i].kind
  /\ source = "write" => \A i \in DOMAIN list : OnWrites(list[i].kind)

\* ... nor does it begin with one: the list is whole.
Whole(source, list) ==
  /\ Paired(source, list)
  /\ list # <<>> => list[1].op = "count" \/ ~Owing(source, list[1].kind)

\* The list tells the alerts of the servos it names.
Tells(list, alerts) ==
  \A i \in DOMAIN list : \A s \in Named(list[i]) :
    list[i].errors[s] = IF s \in DOMAIN alerts THEN alerts[s] ELSE 0

\* The ring holds the last events, and each counter is ahead by what is owed, what was
\* evicted and what was never told.
RingCounted ==
  /\ Len(events) = IF eventSeq <= RingSize THEN eventSeq ELSE RingSize
  /\ \A i \in DOMAIN events : events[i].sequence = eventSeq - Len(events) + i
  /\ \A c \in Counter :
       /\ count[c] >= Cardinality(Visible(c)) + Owed(c) + Unheard(c)
       /\ eventSeq <= RingSize /\ c # "communication_retry" =>
            count[c] = Cardinality(Visible(c)) + Owed(c) + Unheard(c)

\* What a read has still to append tells the present alerts.
PendingTells == Tells(pending["read"], lastErrors)

\* A read's last event about a servo tells its present alert, unless the news is still to be
\* appended.
RingTells ==
  \A i \in DOMAIN events : \A s \in AlertsTold(events[i]) :
    /\ \A j \in (i + 1)..Len(events) : s \notin AlertsTold(events[j])
    /\ \A j \in DOMAIN pending["read"] : s \notin Named(pending["read"][j])
    => events[i].errors[s] = Present(s)

ReadInv ==
  /\ ReadTyped /\ RingCounted /\ PendingTells /\ RingTells /\ SampleIsOneAnswer
  /\ \A source \in Source : Paired(source, pending[source])

LEMMA ReadConstants ==
  /\ RingSize \in Nat /\ RingSize > 0 /\ MaxReads \in Nat /\ MaxWrites \in Nat
  /\ 0 \in Status /\ HardwareAlert \in Status /\ WriteAttempts \in Nat /\ WriteAttempts >= 1
  /\ IsFiniteSet(Servo) /\ Cardinality(Servo) \in Nat
  BY RingAssumption, StateReadAssumption, FS_CardinalityType

LEMMA NoErrors == <<>> \in Errors /\ DOMAIN <<>> = {}
  <1>1. <<>> \in [{} -> Status]
    OBVIOUS
  <1>2. {} \in SUBSET Servo
    OBVIOUS
  <1> QED
    BY <1>1, <1>2 DEF Errors

LEMMA AnswerIsSeq ==
  ASSUME NEW blocks \in Answer
  PROVE  /\ blocks \in Seq(Block) /\ Len(blocks) \in Nat /\ DOMAIN blocks = 1..Len(blocks)
         /\ \A i \in DOMAIN blocks : blocks[i] \in Block
  <1>1. PICK n \in 0..Cardinality(Servo) : blocks \in [1..n -> Block]
    BY DEF Answer
  <1>2. blocks \in Seq(Block)
    BY <1>1, SeqDef, ReadConstants
  <1> QED
    BY <1>2, LenProperties

\* As many blocks as servos and every servo among them: no servo twice.
LEMMA AcceptedIsWhole ==
  ASSUME NEW blocks \in Answer, Accepts(blocks)
  PROVE  Stored(blocks) = DOMAIN blocks
  <1> DEFINE ids == [i \in 1..Len(blocks) |-> blocks[i].id]
  <1>1. Len(blocks) = Cardinality(Servo) /\ DOMAIN blocks = 1..Len(blocks) /\ Len(blocks) \in Nat
        /\ Ids(blocks) = Servo
    BY AnswerIsSeq DEF Accepts
  <1>2. IsFiniteSet(1..Len(blocks)) /\ Cardinality(1..Len(blocks)) = Len(blocks)
    BY <1>1, FS_Interval
  <1>3. \A i \in 1..Len(blocks) : ids[i] = blocks[i].id /\ blocks[i].id \in Servo
    BY <1>1 DEF Ids
  <1>4. ids \in Surjection(1..Len(blocks), Servo)
    <2>1. ids \in [1..Len(blocks) -> Servo]
      BY <1>3
    <2>2. \A s \in Servo : \E i \in 1..Len(blocks) : ids[i] = s
      BY <1>1, <1>3 DEF Ids
    <2> QED
      BY <2>1, <2>2 DEF Surjection
  <1>5. ids \in Injection(1..Len(blocks), Servo)
    BY <1>1, <1>2, <1>4, FS_SurjSameCardinalityImpliesInj
  <1>6. \A j, k \in 1..Len(blocks) : blocks[j].id = blocks[k].id => j = k
    BY <1>3, <1>5 DEF Injection, IsInjective
  <1> QED
    BY <1>1, <1>3, <1>6 DEF Stored

LEMMA AcceptedIsReceived ==
  ASSUME NEW blocks \in Answer, Accepts(blocks)
  PROVE  \A s \in Servo : Received(blocks)[s] = reads + 1
  <1>1. \A s \in Servo : \E i \in Stored(blocks) : blocks[i].id = s
    BY AcceptedIsWhole DEF Accepts, Ids
  <1> QED
    BY <1>1 DEF Received

LEMMA AlertsTyped ==
  ASSUME NEW blocks \in Answer, Accepts(blocks)
  PROVE  Alerts(blocks) \in Errors
  <1> DEFINE named == {blocks[i].id : i \in {j \in DOMAIN blocks : blocks[j].error # 0}}
             first(s) == CHOOSE j \in DOMAIN blocks : blocks[j].id = s
  <1>1. \A i \in DOMAIN blocks : blocks[i].error \in Status /\ blocks[i].id \in Servo
    BY AnswerIsSeq DEF Block, Accepts, Ids
  <1>2. named \in SUBSET Servo
    BY <1>1
  <1>3. \A s \in named : first(s) \in DOMAIN blocks
    <2> SUFFICES ASSUME NEW s \in named PROVE first(s) \in DOMAIN blocks
      OBVIOUS
    <2>1. \E j \in DOMAIN blocks : blocks[j].id = s
      OBVIOUS
    <2> QED
      BY <2>1
  <1>4. Alerts(blocks) = [s \in named |-> blocks[first(s)].error]
    BY DEF Alerts
  <1> HIDE DEF named, first
  <1>5. Alerts(blocks) \in [named -> Status]
    BY <1>1, <1>3, <1>4
  <1> QED
    BY <1>2, <1>5 DEF Errors

LEMMA ConcatIndex ==
  ASSUME NEW a \in Seq(Entry), NEW b \in Seq(Entry)
  PROVE  /\ a \o b \in Seq(Entry) /\ Len(a \o b) = Len(a) + Len(b)
         /\ Len(a) \in Nat /\ Len(b) \in Nat
         /\ DOMAIN a = 1..Len(a) /\ DOMAIN b = 1..Len(b) /\ DOMAIN (a \o b) = 1..(Len(a) + Len(b))
         /\ \A i \in 1..Len(a) : (a \o b)[i] = a[i]
         /\ \A i \in 1..Len(b) : (a \o b)[Len(a) + i] = b[i]
  <1>1. /\ a \o b \in Seq(Entry) /\ Len(a \o b) = Len(a) + Len(b)
        /\ \A i \in 1..Len(a) + Len(b) :
             (a \o b)[i] = IF i <= Len(a) THEN a[i] ELSE b[i - Len(a)]
    BY ConcatProperties
  <1>2. Len(a) \in Nat /\ Len(b) \in Nat /\ DOMAIN a = 1..Len(a) /\ DOMAIN b = 1..Len(b)
    BY LenProperties
  <1> QED
    BY <1>1, <1>2, LenProperties

LEMMA WholeConcat ==
  ASSUME NEW a \in Seq(Entry), NEW b \in Seq(Entry), NEW source,
         Whole(source, a), Whole(source, b)
  PROVE  Whole(source, a \o b)
  <1> DEFINE ab == a \o b
  <1>1. /\ Len(a) \in Nat /\ Len(b) \in Nat /\ DOMAIN a = 1..Len(a) /\ DOMAIN b = 1..Len(b)
        /\ DOMAIN ab = 1..(Len(a) + Len(b))
        /\ \A i \in 1..Len(a) : ab[i] = a[i]
        /\ \A i \in 1..(Len(a) + Len(b)) : i \notin 1..Len(a) =>
             i - Len(a) \in 1..Len(b) /\ ab[i] = b[i - Len(a)]
        /\ \A i \in 1..Len(b) : ab[Len(a) + i] = b[i]
    <2>1. \A i \in 1..(Len(a) + Len(b)) : i \notin 1..Len(a) =>
             i - Len(a) \in 1..Len(b) /\ i = Len(a) + (i - Len(a))
      BY ConcatIndex
    <2> QED
      BY <2>1, ConcatIndex
  <1> HIDE DEF ab
  <1>2. ASSUME NEW i \in DOMAIN ab, ab[i].op = "count"
        PROVE  /\ Owing(source, ab[i].kind) /\ ab[i].errors = <<>> /\ ab[i].times >= 1
               /\ ab[i].kind # "communication_retry" => ab[i].times = 1
               /\ i + 1 \in DOMAIN ab /\ ab[i + 1].op = "append" /\ ab[i + 1].kind = ab[i].kind
    <2>1. CASE i \in 1..Len(a)
      <3>1. i + 1 \in 1..Len(a)
        BY <1>1, <1>2, <2>1 DEF Whole, Paired
      <3> QED
        BY <1>1, <1>2, <2>1, <3>1 DEF Whole, Paired
    <2>2. CASE i \notin 1..Len(a)
      <3> DEFINE k == i - Len(a)
      <3>1. k \in 1..Len(b) /\ ab[i] = b[k] /\ k + 1 = (i + 1) - Len(a)
        BY <1>1, <1>2, <2>2
      <3>2. k + 1 \in 1..Len(b) /\ i + 1 = Len(a) + (k + 1)
        BY <1>1, <1>2, <3>1 DEF Whole, Paired
      <3>3. ab[i + 1] = b[k + 1] /\ i + 1 \in DOMAIN ab
        BY <1>1, <3>2
      <3> QED
        BY <1>1, <1>2, <3>1, <3>3 DEF Whole, Paired
    <2> QED
      BY <2>1, <2>2
  <1>3. ASSUME NEW i \in DOMAIN ab, i > 1, ab[i].op = "append", Owing(source, ab[i].kind)
        PROVE  ab[i - 1].op = "count" /\ ab[i - 1].kind = ab[i].kind
    <2>1. CASE i \in 1..Len(a)
      <3>1. i - 1 \in 1..Len(a)
        BY <1>1, <1>3, <2>1
      <3> QED
        BY <1>1, <1>3, <2>1, <3>1 DEF Whole, Paired
    <2>2. CASE i \notin 1..Len(a)
      <3> DEFINE k == i - Len(a)
      <3>1. k \in 1..Len(b) /\ ab[i] = b[k] /\ k - 1 = (i - 1) - Len(a)
        BY <1>1, <1>3, <2>2
      <3>2. b # <<>> /\ k # 1
        BY <1>1, <1>3, <3>1 DEF Whole
      <3>3. k - 1 \in 1..Len(b) /\ i - 1 = Len(a) + (k - 1)
        BY <1>1, <1>3, <3>1, <3>2
      <3>4. ab[i - 1] = b[k - 1]
        BY <1>1, <3>3
      <3>5. k \in DOMAIN b /\ k > 1 /\ b[k].op = "append" /\ Owing(source, b[k].kind)
        BY <1>1, <1>3, <3>1, <3>2
      <3>6. b[k - 1].op = "count" /\ b[k - 1].kind = b[k].kind
        BY <3>5 DEF Whole, Paired
      <3> QED
        BY <3>1, <3>4, <3>6
    <2> QED
      BY <2>1, <2>2
  <1>w. ASSUME source = "write", NEW i \in DOMAIN ab PROVE OnWrites(ab[i].kind)
    <2>1. CASE i \in 1..Len(a)
      BY <1>1, <1>w, <2>1 DEF Whole, Paired
    <2>2. CASE i \notin 1..Len(a)
      <3>1. i - Len(a) \in DOMAIN b /\ ab[i] = b[i - Len(a)]
        BY <1>1, <2>2
      <3> QED
        BY <1>w, <3>1 DEF Whole, Paired
    <2> QED
      BY <2>1, <2>2
  <1>4. ab # <<>> => ab[1].op = "count" \/ ~Owing(source, ab[1].kind)
    <2>1. CASE a = <<>>
      <3>1. Len(a) = 0
        BY <2>1
      <3>2. ab # <<>> => 1 \in 1..Len(b) /\ ab[1] = b[1]
        BY <1>1, <3>1, ConcatIndex, EmptySeq DEF ab
      <3> QED
        BY <1>1, <3>2 DEF Whole
    <2>2. CASE a # <<>>
      BY <1>1, <2>2 DEF Whole
    <2> QED
      BY <2>1, <2>2
  <1> QED
    BY <1>2, <1>3, <1>4, <1>w DEF Whole, Paired, ab

\* Both lists' tellings, and both lists' servos.
LEMMA TellsConcat ==
  ASSUME NEW a \in Seq(Entry), NEW b \in Seq(Entry), NEW alerts, Tells(a, alerts), Tells(b, alerts)
  PROVE  /\ Tells(a \o b, alerts)
         /\ \A s : (\E i \in DOMAIN a : s \in Named(a[i])) \/ (\E i \in DOMAIN b : s \in Named(b[i]))
                  => \E i \in DOMAIN (a \o b) : s \in Named((a \o b)[i])
  <1> DEFINE ab == a \o b
  <1>1. /\ Len(a) \in Nat /\ Len(b) \in Nat /\ DOMAIN a = 1..Len(a) /\ DOMAIN b = 1..Len(b)
        /\ DOMAIN ab = 1..(Len(a) + Len(b))
        /\ \A i \in 1..Len(a) : ab[i] = a[i]
        /\ \A i \in 1..Len(b) : ab[Len(a) + i] = b[i]
    BY ConcatIndex
  <1> HIDE DEF ab
  <1>2. \A i \in DOMAIN ab : i \in 1..Len(a) \/ (i - Len(a) \in 1..Len(b) /\ i = Len(a) + (i - Len(a)))
    BY <1>1
  <1>3. \A i \in DOMAIN ab : (\E k \in DOMAIN a : ab[i] = a[k]) \/ (\E k \in DOMAIN b : ab[i] = b[k])
    BY <1>1, <1>2
  <1>4. Tells(ab, alerts)
    <2> SUFFICES ASSUME NEW i \in DOMAIN ab, NEW s \in Named(ab[i])
                 PROVE  ab[i].errors[s] = IF s \in DOMAIN alerts THEN alerts[s] ELSE 0
      BY DEF Tells
    <2>1. CASE \E k \in DOMAIN a : ab[i] = a[k]
      BY <2>1 DEF Tells
    <2>2. CASE \E k \in DOMAIN b : ab[i] = b[k]
      BY <2>2 DEF Tells
    <2> QED
      BY <1>3, <2>1, <2>2
  <1>5. /\ \A i \in DOMAIN a : i \in DOMAIN ab /\ ab[i] = a[i]
        /\ \A i \in DOMAIN b : Len(a) + i \in DOMAIN ab /\ ab[Len(a) + i] = b[i]
    BY <1>1
  <1> QED
    BY <1>4, <1>5, Zenon DEF ab

\* A whole list of a counter and its event.
CountAndEvent(source, list, errors) ==
  /\ list \in Seq(Entry) /\ Whole(source, list) /\ DOMAIN list = {1, 2}
  /\ Named(list[1]) = {} /\ Named(list[2]) = DOMAIN errors /\ list[2].errors = errors

LEMMA CountedIsWhole ==
  ASSUME NEW source, NEW kind, Owing(source, kind), source = "write" => OnWrites(kind),
         NEW errors \in Errors,
         NEW times \in Nat, times >= 1, kind # "communication_retry" => times = 1
  PROVE  CountAndEvent(source, Counted(kind, times, errors), errors)
  <1> DEFINE list == Counted(kind, times, errors)
  <1>1. /\ CountUp(kind, times) \in Entry /\ Append1(kind, errors) \in Entry
    BY NoErrors DEF CountUp, Append1, Entry, Kind, Owing
  <1>2. /\ list \in Seq(Entry) /\ DOMAIN list = 1..2 /\ Len(list) = 2
        /\ list[1] = [op |-> "count", kind |-> kind, errors |-> <<>>, times |-> times]
        /\ list[2] = [op |-> "append", kind |-> kind, errors |-> errors, times |-> 0]
    BY <1>1 DEF Counted, CountUp, Append1
  <1> HIDE DEF list
  <1>3. Paired(source, list)
    <2>1. ASSUME NEW i \in DOMAIN list, list[i].op = "count"
          PROVE  /\ Owing(source, list[i].kind) /\ list[i].errors = <<>> /\ list[i].times >= 1
                 /\ list[i].kind # "communication_retry" => list[i].times = 1
                 /\ i + 1 \in DOMAIN list /\ list[i + 1].op = "append"
                 /\ list[i + 1].kind = list[i].kind
      <3>1. i = 1
        BY <1>2, <2>1
      <3> QED
        BY <1>2, <3>1
    <2>2. ASSUME NEW i \in DOMAIN list, i > 1
          PROVE  list[i - 1].op = "count" /\ list[i - 1].kind = list[i].kind
      <3>1. i = 2 /\ i - 1 = 1
        BY <1>2, <2>2
      <3> QED
        BY <1>2, <3>1
    <2>3. source = "write" => \A i \in DOMAIN list : OnWrites(list[i].kind)
      BY <1>2
    <2> QED
      BY <2>1, <2>2, <2>3 DEF Paired
  <1>4. Whole(source, list)
    BY <1>2, <1>3 DEF Whole
  <1>5. Named(list[1]) = {} /\ Named(list[2]) = DOMAIN errors /\ list[2].errors = errors
    BY <1>2, NoErrors DEF Named
  <1> QED
    BY <1>2, <1>4, <1>5 DEF list, CountAndEvent

\* An event nothing counts.
LEMMA AppendedIsWhole ==
  ASSUME NEW source, NEW kind \in Kind, ~Owing(source, kind), source = "write" => OnWrites(kind),
         NEW errors \in Errors
  PROVE  LET list == <<Append1(kind, errors)>> IN
         /\ list \in Seq(Entry) /\ Whole(source, list) /\ DOMAIN list = {1}
         /\ Named(list[1]) = DOMAIN errors /\ list[1].errors = errors
  <1> DEFINE list == <<Append1(kind, errors)>>
  <1>1. /\ list[1] \in Entry /\ list \in Seq(Entry) /\ DOMAIN list = {1}
        /\ list[1] = [op |-> "append", kind |-> kind, errors |-> errors, times |-> 0]
    BY DEF Append1, Entry
  <1> HIDE DEF list
  <1>2. Whole(source, list)
    BY <1>1 DEF Whole, Paired
  <1> QED
    BY <1>1, <1>2 DEF Named, list

LEMMA NothingIsWhole ==
  ASSUME NEW source
  PROVE  <<>> \in Seq(Entry) /\ Whole(source, <<>>) /\ \A alerts : Tells(<<>>, alerts)
  BY DEF Whole, Paired, Tells

\* What a read leaves to record, and whom it names.
LEMMA RecordTells ==
  ASSUME NEW alerts \in Errors, lastErrors \in Errors, NEW jumped \in BOOLEAN
  PROVE  LET record == Record(jumped, alerts) IN
         /\ record \in Seq(Entry) /\ Whole("read", record) /\ Tells(record, alerts)
         /\ \A s \in NewAlerts(alerts) \union ClearedAlerts(alerts) :
              \E i \in DOMAIN record : s \in Named(record[i])
  <1> DEFINE moved == IF jumped THEN Counted("position_jump", 1, <<>>) ELSE <<>>
             fresh == [s \in NewAlerts(alerts) |-> alerts[s]]
             gone == [s \in ClearedAlerts(alerts) |-> 0]
             raised == IF NewAlerts(alerts) = {} THEN <<>> ELSE Counted("status_alert", 1, fresh)
             cleared == IF ClearedAlerts(alerts) = {} THEN <<>>
                        ELSE <<Append1("status_alert_cleared", gone)>>
  <1>0. PICK known \in SUBSET Servo, old \in SUBSET Servo :
          alerts \in [known -> Status] /\ lastErrors \in [old -> Status]
    BY DEF Errors
  <1>1. fresh \in Errors /\ gone \in Errors /\ <<>> \in Errors
    <2>1. NewAlerts(alerts) \in SUBSET Servo /\ NewAlerts(alerts) \subseteq known
      BY <1>0 DEF NewAlerts
    <2>2. ClearedAlerts(alerts) \in SUBSET Servo
      BY <1>0 DEF ClearedAlerts
    <2>3. fresh \in [NewAlerts(alerts) -> Status]
      BY <1>0, <2>1
    <2>4. gone \in [ClearedAlerts(alerts) -> Status]
      BY ReadConstants
    <2> QED
      BY <2>1, <2>2, <2>3, <2>4, NoErrors DEF Errors
  <1>2. /\ DOMAIN fresh = NewAlerts(alerts) /\ DOMAIN gone = ClearedAlerts(alerts)
        /\ \A s \in DOMAIN fresh : fresh[s] = IF s \in DOMAIN alerts THEN alerts[s] ELSE 0
        /\ \A s \in DOMAIN gone : gone[s] = IF s \in DOMAIN alerts THEN alerts[s] ELSE 0
    BY DEF NewAlerts, ClearedAlerts
  <1>3. Record(jumped, alerts) = moved \o raised \o cleared
    BY DEF Record
  <1> HIDE DEF fresh, gone
  <1>4. /\ moved \in {<<>>, Counted("position_jump", 1, <<>>)}
        /\ raised \in {<<>>, Counted("status_alert", 1, fresh)}
        /\ cleared \in {<<>>, <<Append1("status_alert_cleared", gone)>>}
        /\ NewAlerts(alerts) # {} => raised = Counted("status_alert", 1, fresh)
        /\ ClearedAlerts(alerts) # {} => cleared = <<Append1("status_alert_cleared", gone)>>
    OBVIOUS
  <1>5. ASSUME NEW kind, Owing("read", kind), kind # "communication_retry", NEW errors \in Errors,
               \A s \in DOMAIN errors : errors[s] = IF s \in DOMAIN alerts THEN alerts[s] ELSE 0
        PROVE  LET list == Counted(kind, 1, errors) IN
               /\ list \in Seq(Entry) /\ Whole("read", list) /\ Tells(list, alerts)
               /\ \A s \in DOMAIN errors : \E i \in DOMAIN list : s \in Named(list[i])
    <2> DEFINE list == Counted(kind, 1, errors)
    <2>0. /\ 1 \in Nat /\ 1 >= 1 /\ ("read" = "write" => OnWrites(kind))
          /\ (kind # "communication_retry" => 1 = 1)
      OBVIOUS
    <2>1. CountAndEvent("read", Counted(kind, 1, errors), errors)
      BY <1>5, <2>0, CountedIsWhole
    <2> HIDE DEF list
    <2>2. list \in Seq(Entry) /\ Whole("read", list) /\ DOMAIN list = {1, 2}
          /\ Named(list[1]) = {} /\ Named(list[2]) = DOMAIN errors /\ list[2].errors = errors
      BY <2>1 DEF CountAndEvent, list
    <2>3. Tells(list, alerts)
      BY <1>5, <2>2 DEF Tells
    <2> QED
      BY <2>2, <2>3 DEF list
  <1>6. <<>> \in Seq(Entry) /\ Whole("read", <<>>) /\ Tells(<<>>, alerts)
    BY NothingIsWhole
  <1>7. moved \in Seq(Entry) /\ Whole("read", moved) /\ Tells(moved, alerts)
    <2>1. Owing("read", "position_jump") /\ <<>> \in Errors /\ DOMAIN <<>> = {}
      BY NoErrors DEF Owing, Counter
    <2> QED
      BY <1>4, <1>5, <1>6, <2>1
  <1>8. /\ raised \in Seq(Entry) /\ Whole("read", raised) /\ Tells(raised, alerts)
        /\ \A s \in NewAlerts(alerts) : \E i \in DOMAIN raised : s \in Named(raised[i])
    <2>1. Owing("read", "status_alert")
      BY DEF Owing, Counter
    <2> QED
      BY <1>1, <1>2, <1>4, <1>5, <1>6, <2>1
  <1>9. /\ cleared \in Seq(Entry) /\ Whole("read", cleared) /\ Tells(cleared, alerts)
        /\ \A s \in ClearedAlerts(alerts) : \E i \in DOMAIN cleared : s \in Named(cleared[i])
    <2> DEFINE list == <<Append1("status_alert_cleared", gone)>>
    <2>1. "status_alert_cleared" \in Kind /\ ~Owing("read", "status_alert_cleared")
      BY DEF Kind, Owing, Counter
    <2>2. /\ list \in Seq(Entry) /\ Whole("read", list) /\ DOMAIN list = {1}
          /\ Named(list[1]) = DOMAIN gone /\ list[1].errors = gone
      BY <1>1, <2>1, AppendedIsWhole
    <2> HIDE DEF list
    <2>3. Tells(list, alerts) /\ \A s \in DOMAIN gone : \E i \in DOMAIN list : s \in Named(list[i])
      BY <1>2, <2>2 DEF Tells
    <2> QED
      BY <1>2, <1>4, <1>6, <2>2, <2>3 DEF list
  <1> HIDE DEF moved, raised, cleared
  <1> DEFINE first == moved \o raised
  <1>10. /\ first \in Seq(Entry) /\ Whole("read", first) /\ Tells(first, alerts)
         /\ \A s \in NewAlerts(alerts) : \E i \in DOMAIN first : s \in Named(first[i])
    BY <1>7, <1>8, ConcatIndex, WholeConcat, TellsConcat
  <1> HIDE DEF first
  <1>11. /\ first \o cleared \in Seq(Entry) /\ Whole("read", first \o cleared)
         /\ Tells(first \o cleared, alerts)
    BY <1>9, <1>10, ConcatIndex, WholeConcat, TellsConcat
  <1>12. \A s \in NewAlerts(alerts) \union ClearedAlerts(alerts) :
           \E i \in DOMAIN (first \o cleared) : s \in Named((first \o cleared)[i])
    BY <1>9, <1>10, TellsConcat
  <1> QED
    BY <1>3, <1>11, <1>12 DEF first

\* What a write leaves to record: its alert, which nothing counts, and its retries.
LEMMA WriteRecordIsWhole ==
  ASSUME NEW s \in Servo, NEW failed \in 0..(WriteAttempts - 1), NEW alert \in BOOLEAN
  PROVE  WriteRecord(s, failed, alert) \in Seq(Entry) /\ Whole("write", WriteRecord(s, failed, alert))
  <1> DEFINE raised == IF alert THEN <<Append1("status_alert", [t \in {s} |-> HardwareAlert])>>
                       ELSE <<>>
             retried == IF failed = 0 THEN <<>> ELSE Counted("communication_retry", failed, <<>>)
  <1>1. raised \in Seq(Entry) /\ Whole("write", raised)
    <2>1. [t \in {s} |-> HardwareAlert] \in [{s} -> Status] /\ {s} \in SUBSET Servo
      BY ReadConstants
    <2>2. [t \in {s} |-> HardwareAlert] \in Errors
      BY <2>1 DEF Errors
    <2>3. /\ "status_alert" \in Kind /\ ~Owing("write", "status_alert")
          /\ OnWrites("status_alert")
      BY DEF Kind, Counter, Owing, OnWrites
    <2> QED
      BY <2>2, <2>3, AppendedIsWhole, NothingIsWhole
  <1>2. retried \in Seq(Entry) /\ Whole("write", retried)
    <2>1. /\ Owing("write", "communication_retry") /\ OnWrites("communication_retry")
          /\ <<>> \in Errors
      BY NoErrors DEF Counter, Owing, OnWrites
    <2>2. failed \in Nat /\ (failed # 0 => failed >= 1)
      BY ReadConstants
    <2> QED
      BY <2>1, <2>2, CountedIsWhole, NothingIsWhole DEF CountAndEvent
  <1>3. WriteRecord(s, failed, alert) = raised \o retried
    BY DEF WriteRecord
  <1> HIDE DEF raised, retried
  <1> QED
    BY <1>1, <1>2, <1>3, ConcatIndex, WholeConcat

\* Counting the events of a kind, through an append and an eviction.
Of(list, kind) == {i \in DOMAIN list : IsOf(list[i], kind)}

LEMMA OfIsFinite ==
  ASSUME NEW list \in Seq(Event), NEW kind
  PROVE  IsFiniteSet(Of(list, kind)) /\ Cardinality(Of(list, kind)) \in Nat
  <1>1. IsFiniteSet(1..Len(list)) /\ Of(list, kind) \in SUBSET (1..Len(list))
    BY FS_Interval DEF Of
  <1> QED
    BY <1>1, FS_Subset, FS_CardinalityType

LEMMA OfAppend ==
  ASSUME NEW list \in Seq(Event), NEW event \in Event, NEW kind
  PROVE  Cardinality(Of(Append(list, event), kind))
           = Cardinality(Of(list, kind)) + (IF IsOf(event, kind) THEN 1 ELSE 0)
  <1> DEFINE longer == Append(list, event)
  <1>1. /\ Len(list) \in Nat /\ DOMAIN list = 1..Len(list) /\ DOMAIN longer = 1..(Len(list) + 1)
        /\ \A i \in 1..Len(list) : longer[i] = list[i]
        /\ longer[Len(list) + 1] = event
    OBVIOUS
  <1> HIDE DEF longer
  <1>2. Of(longer, kind) = IF IsOf(event, kind) THEN Of(list, kind) \union {Len(list) + 1}
                           ELSE Of(list, kind)
    BY <1>1 DEF Of
  <1>3. Len(list) + 1 \notin Of(list, kind)
    BY <1>1 DEF Of
  <1>4. IsFiniteSet(Of(list, kind)) /\ Cardinality(Of(list, kind)) \in Nat
    BY OfIsFinite
  <1>5. Cardinality(Of(list, kind) \union {Len(list) + 1}) = Cardinality(Of(list, kind)) + 1
    BY <1>3, <1>4, FS_AddElement
  <1> QED
    BY <1>2, <1>4, <1>5 DEF longer

LEMMA OfTail ==
  ASSUME NEW list \in Seq(Event), list # <<>>, NEW kind
  PROVE  Cardinality(Of(Tail(list), kind)) <= Cardinality(Of(list, kind))
  <1> DEFINE kept == Of(list, kind) \ {1}
             shift == [i \in kept |-> i - 1]
  <1>1. /\ Len(list) \in Nat /\ Len(list) > 0 /\ DOMAIN list = 1..Len(list)
        /\ DOMAIN Tail(list) = 1..(Len(list) - 1)
        /\ \A i \in 1..(Len(list) - 1) : Tail(list)[i] = list[i + 1]
    OBVIOUS
  <1>2. IsFiniteSet(kept) /\ Cardinality(kept) <= Cardinality(Of(list, kind))
    BY OfIsFinite, FS_Subset
  <1>3. shift \in Surjection(kept, Of(Tail(list), kind))
    <2>1. shift \in [kept -> Of(Tail(list), kind)]
      BY <1>1 DEF Of
    <2>2. \A i \in Of(Tail(list), kind) : i + 1 \in kept /\ shift[i + 1] = i
      BY <1>1 DEF Of
    <2> QED
      BY <2>1, <2>2 DEF Surjection
  <1>4. Cardinality(Of(Tail(list), kind)) <= Cardinality(kept)
    BY <1>2, <1>3, FS_Surjection
  <1>5. Tail(list) \in Seq(Event)
    OBVIOUS
  <1>6. /\ Cardinality(kept) \in Nat /\ Cardinality(Of(list, kind)) \in Nat
        /\ Cardinality(Of(Tail(list), kind)) \in Nat
    BY <1>2, <1>5, OfIsFinite, FS_CardinalityType
  <1> QED
    BY <1>2, <1>4, <1>6

\* A push keeps the order, puts the event last and loses the oldest when the ring is full.
LEMMA RingPushed ==
  ASSUME NEW event \in Event, events \in Seq(Event), Len(events) <= RingSize
  PROVE  LET ring == Pushed(events, event)
             lost == IF Len(events) < RingSize THEN 0 ELSE 1
         IN /\ ring \in Seq(Event) /\ Len(ring) = Len(events) + 1 - lost
            /\ ring[Len(ring)] = event
            /\ \A i \in 1..(Len(ring) - 1) : i + lost \in 1..Len(events) /\ ring[i] = events[i + lost]
            /\ \A c \in Counter :
                 LET more == IF IsOf(event, c) THEN 1 ELSE 0 IN
                 /\ Cardinality(Of(ring, c)) <= Cardinality(Of(events, c)) + more
                 /\ lost = 0 => Cardinality(Of(ring, c)) = Cardinality(Of(events, c)) + more
  <1>0. Len(events) \in Nat /\ DOMAIN events = 1..Len(events)
    BY LenProperties
  <1>1. CASE Len(events) < RingSize
    <2>1. Pushed(events, event) = Append(events, event)
      BY <1>1 DEF Pushed
    <2>2. \A c \in Counter : Cardinality(Of(Append(events, event), c))
            = Cardinality(Of(events, c)) + (IF IsOf(event, c) THEN 1 ELSE 0)
      BY OfAppend
    <2>3. \A c \in Counter : Cardinality(Of(events, c)) \in Nat
      BY OfIsFinite
    <2> QED
      BY <1>0, <1>1, <2>1, <2>2, <2>3, AppendProperties
  <1>2. CASE Len(events) = RingSize
    <2>1. Pushed(events, event) = Append(Tail(events), event)
      BY <1>2, ReadConstants DEF Pushed
    <2>2. /\ events # <<>> /\ Tail(events) \in Seq(Event) /\ Len(Tail(events)) = Len(events) - 1
          /\ \A i \in 1..(Len(events) - 1) : Tail(events)[i] = events[i + 1]
      BY <1>0, <1>2, ReadConstants
    <2>3. \A c \in Counter : Cardinality(Of(Append(Tail(events), event), c))
            = Cardinality(Of(Tail(events), c)) + (IF IsOf(event, c) THEN 1 ELSE 0)
      BY <2>2, OfAppend
    <2>4. \A c \in Counter : /\ Cardinality(Of(Tail(events), c)) <= Cardinality(Of(events, c))
                             /\ Cardinality(Of(Tail(events), c)) \in Nat
                             /\ Cardinality(Of(events, c)) \in Nat
      BY <2>2, OfTail, OfIsFinite
    <2>5. \A c \in Counter : Cardinality(Of(Append(Tail(events), event), c))
            <= Cardinality(Of(events, c)) + (IF IsOf(event, c) THEN 1 ELSE 0)
      BY <2>3, <2>4
    <2>6. LET ring == Append(Tail(events), event) IN
          /\ ring \in Seq(Event) /\ Len(ring) = Len(events) /\ ring[Len(ring)] = event
          /\ \A i \in 1..(Len(events) - 1) : i + 1 \in 1..Len(events) /\ ring[i] = events[i + 1]
      BY <1>0, <2>2, AppendProperties
    <2> QED
      BY <1>0, <1>2, <2>1, <2>5, <2>6, ReadConstants
  <1>3. \A n, m \in Nat : n <= m => n < m \/ n = m
    OBVIOUS
  <1>4. Len(events) < RingSize \/ Len(events) = RingSize
    BY <1>0, <1>3, ReadConstants
  <1> QED
    BY ONLY <1>1, <1>2, <1>4, Zenon

LEMMA ReadStarts == ReadInit => ReadInv
  <1> SUFFICES ASSUME ReadInit PROVE ReadInv
    OBVIOUS
  <1>1. ReadTyped
    BY NoErrors, ReadConstants DEF ReadInit, ReadTyped
  <1>2. /\ \A source \in Source : Paired(source, pending[source])
        /\ PendingTells /\ RingTells /\ SampleIsOneAnswer
    BY DEF ReadInit, Source, Paired, PendingTells, Tells, RingTells, SampleIsOneAnswer
  <1>3. RingCounted
    <2>1. \A c \in Counter : Visible(c) = {} /\ Owed(c) = 0 /\ Unheard(c) = 0 /\ count[c] = 0
      BY DEF ReadInit, Visible, Owed, OwedBy, Unheard, Source
    <2>2. \A c \in Counter : Cardinality(Visible(c)) = 0
      BY <2>1, FS_EmptySet
    <2>3. Len(events) = 0 /\ eventSeq = 0 /\ DOMAIN events = {}
      BY DEF ReadInit
    <2> QED
      BY <2>1, <2>2, <2>3, ReadConstants DEF RingCounted
  <1> QED
    BY <1>1, <1>2, <1>3 DEF ReadInv

\* The numbers the counters are compared with.
LEMMA ReadNumbers ==
  ASSUME ReadInv, NEW c \in Counter
  PROVE  /\ Visible(c) = Of(events, c) /\ Cardinality(Visible(c)) \in Nat
         /\ count[c] \in Nat /\ Unheard(c) \in Nat /\ eventSeq \in Nat /\ unheard \in Nat
         /\ Owed(c) = OwedBy("read", c) + OwedBy("write", c)
         /\ OwedBy("read", c) \in {0, 1} /\ OwedBy("write", c) \in {0, 1}
  <1>1. events \in Seq(Event) /\ count \in [Counter -> Nat] /\ eventSeq \in Nat /\ unheard \in Nat
    BY ReadConstants DEF ReadInv, ReadTyped
  <1>2. Visible(c) = Of(events, c)
    BY DEF Visible, Of
  <1> QED
    BY <1>1, <1>2, OfIsFinite DEF Owed, OwedBy, Unheard

\* A transaction's record begins: what it counts is not ahead yet.
LEMMA NothingOwed ==
  ASSUME NEW source \in Source, NEW list \in Seq(Entry), Whole(source, list),
         pending \in [Source -> Seq(Entry)], pending[source] = <<>>,
         pending' = [pending EXCEPT ![source] = list]
  PROVE  /\ pending' \in [Source -> Seq(Entry)] /\ pending'[source] = list
         /\ \A other \in Source : other # source => pending'[other] = pending[other]
         /\ \A c : Owed(c)' = Owed(c)
  <1>1. /\ pending' \in [Source -> Seq(Entry)] /\ pending'[source] = list
        /\ \A other \in Source : other # source => pending'[other] = pending[other]
    OBVIOUS
  <1>2. ASSUME NEW c PROVE OwedBy(source, c)' = OwedBy(source, c)
    <2>1. list # <<>> => Head(list) = list[1]
      OBVIOUS
    <2>2. list # <<>> => list[1].op = "count" \/ ~Owing(source, list[1].kind)
      BY DEF Whole
    <2> QED
      BY <1>1, <2>1, <2>2 DEF OwedBy
  <1>3. ASSUME NEW c, NEW other \in Source, other # source PROVE OwedBy(other, c)' = OwedBy(other, c)
    BY <1>1, <1>3 DEF OwedBy
  <1>4. "read" \in Source /\ "write" \in Source
    BY DEF Source
  <1>5. \A c : OwedBy("read", c)' = OwedBy("read", c) /\ OwedBy("write", c)' = OwedBy("write", c)
    BY <1>2, <1>3, <1>4
  <1> QED
    BY <1>1, <1>5 DEF Owed

\* Whoever starts a read finds the last one recorded, and the events of reads up to date.
LEMMA ReadSucceedsKeeps ==
  ASSUME ReadInv, NEW blocks \in Answer, NEW jumped \in BOOLEAN, ReadSucceeds(blocks, jumped)
  PROVE  ReadInv'
  <1> DEFINE alerts == Alerts(blocks)
             record == Record(jumped, alerts)
  <1>1. /\ reads \in Nat /\ reads < MaxReads /\ lastErrors \in Errors /\ alerts \in Errors
        /\ lastErrors' = alerts /\ pending' = [pending EXCEPT !["read"] = record]
        /\ pending["read"] = <<>> /\ pending \in [Source -> Seq(Entry)]
        /\ UNCHANGED <<count, events, eventSeq, writes, unheard>>
    BY AlertsTyped, ReadConstants DEF ReadSucceeds, ReadInv, ReadTyped
  <1>2. /\ record \in Seq(Entry) /\ Whole("read", record) /\ Tells(record, alerts)
        /\ \A s \in NewAlerts(alerts) \union ClearedAlerts(alerts) :
             \E i \in DOMAIN record : s \in Named(record[i])
    BY <1>1, RecordTells
  <1>s. "read" \in Source
    BY DEF Source
  <1> HIDE DEF record
  <1>3. /\ pending' \in [Source -> Seq(Entry)] /\ pending'["read"] = record
        /\ \A other \in Source : other # "read" => pending'[other] = pending[other]
        /\ \A c : Owed(c)' = Owed(c)
    BY <1>1, <1>2, <1>s, NothingOwed
  <1>4. ReadTyped'
    <2>1. Received(blocks) \in [Servo -> 0..MaxReads]
      BY <1>1, ReadConstants DEF Received, ReadInv, ReadTyped
    <2>2. /\ data' = Received(blocks) /\ sample' = [read |-> reads + 1, data |-> data']
          /\ reads' = reads + 1 /\ readSeq' = readSeq + 1
      BY DEF ReadSucceeds
    <2>3. sample' \in [read : 1..MaxReads, data : [Servo -> 0..MaxReads]]
      BY <1>1, <2>1, <2>2, ReadConstants
    <2> QED
      BY <1>1, <1>3, <2>1, <2>2, <2>3, ReadConstants DEF ReadInv, ReadTyped
  <1>5. \A source \in Source : Paired(source, pending'[source])
    BY <1>2, <1>3 DEF ReadInv, Whole
  <1>6. PendingTells'
    BY <1>1, <1>2, <1>3 DEF PendingTells, Tells
  <1>7. RingCounted'
    <2>1. \A c : Visible(c)' = Visible(c) /\ Unheard(c)' = Unheard(c)
      BY <1>1 DEF Visible, Unheard
    <2> QED
      BY <1>1, <1>3, <2>1 DEF ReadInv, RingCounted
  <1>8. RingTells'
    <2> SUFFICES ASSUME NEW i \in DOMAIN events, NEW s \in AlertsTold(events[i]),
                        \A j \in (i + 1)..Len(events) : s \notin AlertsTold(events[j]),
                        \A j \in DOMAIN record : s \notin Named(record[j])
                 PROVE  events[i].errors[s] = IF s \in DOMAIN alerts THEN alerts[s] ELSE 0
      BY <1>1, <1>3 DEF RingTells, Named, Present
    <2>1. events[i].errors[s] = Present(s)
      BY <1>1 DEF ReadInv, RingTells
    <2>2. s \notin NewAlerts(alerts) /\ s \notin ClearedAlerts(alerts)
      BY <1>2
    <2> QED
      BY <2>1, <2>2 DEF Present, NewAlerts, ClearedAlerts
  <1>9. SampleIsOneAnswer'
    <2>1. /\ sample'.read = reads + 1 /\ sample'.data = Received(blocks) /\ Accepts(blocks)
      BY DEF ReadSucceeds
    <2> QED
      BY <2>1, AcceptedIsReceived DEF SampleIsOneAnswer
  <1> QED
    BY <1>4, <1>5, <1>6, <1>7, <1>8, <1>9 DEF ReadInv

LEMMA ReadFailsKeeps ==
  ASSUME ReadInv, NEW blocks \in Answer, ReadFails(blocks)
  PROVE  ReadInv'
  <1> DEFINE failure == Append1("communication_failure", <<>>)
  <1>1. /\ reads \in Nat /\ reads < MaxReads /\ reads' = reads + 1 /\ pending["read"] = <<>>
        /\ pending \in [Source -> Seq(Entry)] /\ count \in [Counter -> Nat]
        /\ pending' = [pending EXCEPT !["read"] = <<failure>>] /\ data' = Received(blocks)
        /\ count' = [count EXCEPT !["communication_failure"] = @ + 1,
                                  !["communication_retry"] = @ + 1]
        /\ UNCHANGED <<sample, readSeq, lastErrors, events, eventSeq, writes, unheard>>
    BY ReadConstants DEF ReadFails, ReadInv, ReadTyped
  <1>2. failure \in Entry /\ failure.op = "append" /\ failure.kind = "communication_failure"
        /\ Named(failure) = {}
    BY NoErrors DEF Append1, Entry, Kind, Counter, Named
  <1> HIDE DEF failure
  <1>3. /\ pending' \in [Source -> Seq(Entry)] /\ pending'["read"] = <<failure>>
        /\ pending'["write"] = pending["write"]
    BY <1>1, <1>2 DEF Source
  <1>4. /\ DOMAIN pending'["read"] = {1} /\ pending'["read"][1] = failure
        /\ Head(pending'["read"]) = failure /\ pending'["read"] # <<>>
    BY <1>2, <1>3
  <1>5. ReadTyped'
    <2>1. Received(blocks) \in [Servo -> 0..MaxReads]
      BY <1>1, ReadConstants DEF Received, ReadInv, ReadTyped
    <2>2. count' \in [Counter -> Nat]
      BY <1>1 DEF Counter
    <2> QED
      BY <1>1, <1>3, <2>1, <2>2, ReadConstants DEF ReadInv, ReadTyped
  <1>6. \A source \in Source : Paired(source, pending'[source])
    <2>1. Paired("read", pending'["read"])
      BY <1>2, <1>4 DEF Paired
    <2>2. Paired("write", pending'["write"])
      BY <1>3 DEF ReadInv, Source
    <2> QED
      BY <2>1, <2>2 DEF Source
  <1>7. PendingTells' /\ RingTells' /\ SampleIsOneAnswer'
    <2>1. PendingTells'
      BY <1>2, <1>4 DEF PendingTells, Tells
    <2>2. RingTells'
      BY <1>1, <1>2, <1>4 DEF ReadInv, RingTells, Present
    <2>3. SampleIsOneAnswer'
      BY <1>1 DEF ReadInv, SampleIsOneAnswer
    <2> QED
      BY <2>1, <2>2, <2>3
  <1>8. RingCounted'
    <2>1. \A c \in Counter : /\ OwedBy("read", c) = 0 /\ OwedBy("write", c)' = OwedBy("write", c)
                             /\ OwedBy("read", c)' = IF c = "communication_failure" THEN 1 ELSE 0
      BY <1>1, <1>2, <1>3, <1>4 DEF OwedBy, Owing
    <2>2. \A c \in Counter : /\ Visible(c)' = Visible(c) /\ Unheard(c)' = Unheard(c)
                             /\ count'[c] = IF c \in {"communication_failure", "communication_retry"}
                                            THEN count[c] + 1 ELSE count[c]
      BY <1>1 DEF Visible, Unheard
    <2>3. ASSUME NEW c \in Counter
          PROVE  /\ count'[c] >= Cardinality(Visible(c)) + Owed(c)' + Unheard(c)
                 /\ eventSeq <= RingSize /\ c # "communication_retry" =>
                      count'[c] = Cardinality(Visible(c)) + Owed(c)' + Unheard(c)
      <3>1. Owed(c)' = OwedBy("read", c)' + OwedBy("write", c)'
        BY DEF Owed
      <3>2. /\ count[c] >= Cardinality(Visible(c)) + Owed(c) + Unheard(c)
            /\ eventSeq <= RingSize /\ c # "communication_retry" =>
                 count[c] = Cardinality(Visible(c)) + Owed(c) + Unheard(c)
        BY DEF ReadInv, RingCounted
      <3>3. Cardinality(Visible(c)) \in Nat /\ count[c] \in Nat /\ Unheard(c) \in Nat
            /\ OwedBy("write", c) \in {0, 1} /\ Owed(c) = OwedBy("read", c) + OwedBy("write", c)
        BY ReadNumbers
      <3> QED
        BY <2>1, <2>2, <3>1, <3>2, <3>3
    <2> QED
      BY <1>1, <2>2, <2>3 DEF ReadInv, RingCounted
  <1> QED
    BY <1>5, <1>6, <1>7, <1>8 DEF ReadInv

\* A write that was acknowledged is recorded beside what a read still records.
LEMMA WriteSucceedsKeeps ==
  ASSUME ReadInv, NEW s \in Servo, NEW failed \in 0..(WriteAttempts - 1), NEW alert \in BOOLEAN,
         WriteSucceeds(s, failed, alert)
  PROVE  ReadInv'
  <1> DEFINE record == WriteRecord(s, failed, alert)
  <1>1. record \in Seq(Entry) /\ Whole("write", record)
    BY WriteRecordIsWhole
  <1>2. /\ pending["write"] = <<>> /\ pending \in [Source -> Seq(Entry)]
        /\ pending' = [pending EXCEPT !["write"] = record]
        /\ writes < MaxWrites /\ writes' = writes + 1
        /\ UNCHANGED <<reads, data, sample, readSeq, lastErrors, count, events, eventSeq, unheard>>
    BY DEF WriteSucceeds, ReadInv, ReadTyped
  <1> HIDE DEF record
  <1>3. /\ pending' \in [Source -> Seq(Entry)] /\ pending'["write"] = record
        /\ pending'["read"] = pending["read"] /\ \A c : Owed(c)' = Owed(c)
    BY <1>1, <1>2, NothingOwed DEF Source
  <1>4. ReadTyped'
    BY <1>2, <1>3, ReadConstants DEF ReadInv, ReadTyped
  <1>5. \A source \in Source : Paired(source, pending'[source])
    BY <1>1, <1>3 DEF ReadInv, Whole, Source
  <1>6. PendingTells' /\ RingTells' /\ SampleIsOneAnswer'
    BY <1>2, <1>3 DEF ReadInv, PendingTells, Tells, RingTells, Present, SampleIsOneAnswer
  <1>7. RingCounted'
    <2>1. \A c : Visible(c)' = Visible(c) /\ Unheard(c)' = Unheard(c)
      BY <1>2 DEF Visible, Unheard
    <2> QED
      BY <1>2, <1>3, <2>1 DEF ReadInv, RingCounted
  <1> QED
    BY <1>4, <1>5, <1>6, <1>7 DEF ReadInv

\* A write that is given up is counted, and no event is owed for it.
LEMMA WriteFailsKeeps == ReadInv /\ WriteFails => ReadInv'
  <1> SUFFICES ASSUME ReadInv, WriteFails PROVE ReadInv'
    OBVIOUS
  <1>1. /\ writes < MaxWrites /\ writes' = writes + 1 /\ unheard' = unheard + 1
        /\ count \in [Counter -> Nat] /\ unheard \in Nat
        /\ count' = [count EXCEPT !["communication_failure"] = @ + 1,
                                  !["communication_retry"] = @ + WriteAttempts]
        /\ UNCHANGED <<reads, data, sample, readSeq, lastErrors, events, eventSeq, pending>>
    BY ReadConstants DEF WriteFails, ReadInv, ReadTyped
  <1>2. ReadTyped'
    <2>1. count' \in [Counter -> Nat]
      BY <1>1, ReadConstants DEF Counter
    <2> QED
      BY <1>1, <2>1, ReadConstants DEF ReadInv, ReadTyped
  <1>3. /\ \A source \in Source : Paired(source, pending'[source])
        /\ PendingTells' /\ RingTells' /\ SampleIsOneAnswer'
    BY <1>1 DEF ReadInv, PendingTells, Tells, RingTells, Present, SampleIsOneAnswer
  <1>4. RingCounted'
    <2>1. \A c \in Counter : /\ Visible(c)' = Visible(c) /\ Owed(c)' = Owed(c)
                             /\ Unheard(c)' = Unheard(c) + (IF c = "communication_failure" THEN 1 ELSE 0)
      BY <1>1 DEF Visible, Owed, OwedBy, Unheard
    <2>2. \A c \in Counter :
            count'[c] = count[c] + (IF c = "communication_failure" THEN 1
                                    ELSE IF c = "communication_retry" THEN WriteAttempts ELSE 0)
      BY <1>1
    <2>3. ASSUME NEW c \in Counter
          PROVE  /\ count'[c] >= Cardinality(Visible(c)) + Owed(c) + Unheard(c)'
                 /\ eventSeq <= RingSize /\ c # "communication_retry" =>
                      count'[c] = Cardinality(Visible(c)) + Owed(c) + Unheard(c)'
      <3>1. /\ count[c] >= Cardinality(Visible(c)) + Owed(c) + Unheard(c)
            /\ eventSeq <= RingSize /\ c # "communication_retry" =>
                 count[c] = Cardinality(Visible(c)) + Owed(c) + Unheard(c)
        BY DEF ReadInv, RingCounted
      <3>2. Cardinality(Visible(c)) \in Nat /\ count[c] \in Nat /\ Unheard(c) \in Nat
            /\ Owed(c) \in Nat
        BY ReadNumbers
      <3> QED
        BY <2>1, <2>2, <3>1, <3>2, ReadConstants
    <2> QED
      BY <1>1, <2>1, <2>3 DEF ReadInv, RingCounted
  <1> QED
    BY <1>2, <1>3, <1>4 DEF ReadInv

\* What stays to be recorded when its head is done.
LEMMA TailOfList ==
  ASSUME NEW list \in Seq(Entry), list # <<>>, NEW source, Paired(source, list)
  PROVE  LET rest == Tail(list) IN
         /\ rest \in Seq(Entry) /\ Len(list) \in Nat /\ Len(rest) = Len(list) - 1
         /\ DOMAIN list = 1..Len(list) /\ DOMAIN rest = 1..(Len(list) - 1)
         /\ Head(list) = list[1] /\ Head(list) \in Entry /\ 1 \in DOMAIN list
         /\ rest # <<>> => 1 \in DOMAIN rest /\ Head(rest) = rest[1]
         /\ \A i \in DOMAIN rest : i + 1 \in DOMAIN list /\ rest[i] = list[i + 1]
         /\ Paired(source, rest) /\ \A alerts : Tells(list, alerts) => Tells(rest, alerts)
  <1> DEFINE rest == Tail(list)
  <1>1. /\ rest \in Seq(Entry) /\ Len(list) \in Nat /\ Len(rest) = Len(list) - 1
        /\ DOMAIN list = 1..Len(list) /\ DOMAIN rest = 1..(Len(list) - 1)
        /\ Head(list) = list[1] /\ Head(list) \in Entry /\ 1 \in DOMAIN list
        /\ \A i \in DOMAIN rest : i + 1 \in DOMAIN list /\ rest[i] = list[i + 1]
    OBVIOUS
  <1> HIDE DEF rest
  <1>2. rest # <<>> => 1 \in DOMAIN rest /\ Head(rest) = rest[1]
    BY <1>1
  <1>3. Paired(source, rest)
    <2>1. ASSUME NEW i \in DOMAIN rest, rest[i].op = "count"
          PROVE  /\ Owing(source, rest[i].kind) /\ rest[i].errors = <<>> /\ rest[i].times >= 1
                 /\ rest[i].kind # "communication_retry" => rest[i].times = 1
                 /\ i + 1 \in DOMAIN rest /\ rest[i + 1].op = "append"
                 /\ rest[i + 1].kind = rest[i].kind
      <3>1. (i + 1) + 1 \in DOMAIN list
        BY <1>1, <2>1 DEF Paired
      <3>2. i + 1 \in DOMAIN rest /\ rest[i + 1] = list[(i + 1) + 1]
        BY <1>1, <3>1
      <3> QED
        BY <1>1, <2>1, <3>2 DEF Paired
    <2>2. ASSUME NEW i \in DOMAIN rest, i > 1, rest[i].op = "append", Owing(source, rest[i].kind)
          PROVE  rest[i - 1].op = "count" /\ rest[i - 1].kind = rest[i].kind
      <3>1. i - 1 \in DOMAIN rest /\ (i - 1) + 1 = (i + 1) - 1 /\ i + 1 > 1
        BY <1>1, <2>2
      <3>2. rest[i - 1] = list[(i + 1) - 1]
        BY <1>1, <3>1
      <3> QED
        BY <1>1, <2>2, <3>1, <3>2 DEF Paired
    <2>3. source = "write" => \A i \in DOMAIN rest : OnWrites(rest[i].kind)
      BY <1>1 DEF Paired
    <2> QED
      BY <2>1, <2>2, <2>3 DEF Paired
  <1>4. \A alerts : Tells(list, alerts) => Tells(rest, alerts)
    BY <1>1 DEF Tells
  <1> QED
    BY <1>1, <1>2, <1>3, <1>4 DEF rest

\* A source records the head of its list: what that does to the lists and to what is owed.
LEMMA PendingDrained ==
  ASSUME ReadInv, NEW source \in Source, pending[source] # <<>>,
         pending' = [pending EXCEPT ![source] = Tail(@)]
  PROVE  /\ pending' \in [Source -> Seq(Entry)] /\ pending'[source] = Tail(pending[source])
         /\ pending[source] \in Seq(Entry) /\ Paired(source, pending[source])
         /\ \A other \in Source : Paired(other, pending'[other])
         /\ \A other \in Source : other # source => pending'[other] = pending[other]
         /\ lastErrors' = lastErrors => PendingTells'
         /\ \A c \in Counter : Owed(c)' = Owed(c) - OwedBy(source, c) + OwedBy(source, c)'
  <1>1. /\ pending \in [Source -> Seq(Entry)] /\ pending[source] \in Seq(Entry)
        /\ \A other \in Source : Paired(other, pending[other])
    BY DEF ReadInv, ReadTyped
  <1>2. /\ Tail(pending[source]) \in Seq(Entry) /\ Paired(source, Tail(pending[source]))
        /\ \A alerts : Tells(pending[source], alerts) => Tells(Tail(pending[source]), alerts)
    BY <1>1, TailOfList
  <1>3. /\ pending' \in [Source -> Seq(Entry)] /\ pending'[source] = Tail(pending[source])
        /\ \A other \in Source : other # source => pending'[other] = pending[other]
    BY <1>1, <1>2
  <1>4. \A other \in Source : Paired(other, pending'[other])
    BY <1>1, <1>2, <1>3
  <1>5. ASSUME lastErrors' = lastErrors PROVE PendingTells'
    <2>1. Tells(pending["read"], lastErrors) /\ "read" \in Source
      BY DEF ReadInv, PendingTells, Source
    <2>2. Tells(pending'["read"], lastErrors)
      BY <1>2, <1>3, <2>1
    <2> QED
      BY <1>5, <2>2 DEF PendingTells, Tells, Named
  <1>6. ASSUME NEW c \in Counter
        PROVE  Owed(c)' = Owed(c) - OwedBy(source, c) + OwedBy(source, c)'
    <2>1. \A other \in Source : other # source => OwedBy(other, c)' = OwedBy(other, c)
      BY <1>3 DEF OwedBy
    <2>2. Owed(c)' = OwedBy("read", c)' + OwedBy("write", c)'
      BY DEF Owed
    <2>3. OwedBy("read", c)' \in {0, 1} /\ OwedBy("write", c)' \in {0, 1}
      BY DEF OwedBy
    <2>4. source = "read" \/ source = "write"
      BY DEF Source
    <2>5. "read" \in Source /\ "write" \in Source /\ "read" # "write"
      BY DEF Source
    <2> QED
      BY <2>1, <2>2, <2>3, <2>4, <2>5, ReadNumbers
  <1> QED
    BY <1>1, <1>3, <1>4, <1>5, <1>6

\* A count is owed its event at once.
LEMMA RecordCountKeeps ==
  ASSUME ReadInv, NEW source \in Source, RecordCount(source)
  PROVE  ReadInv'
  <1> DEFINE list == pending[source]
             rest == pending'[source]
             kind == Head(list).kind
             times == Head(list).times
  <1>1. /\ list # <<>> /\ Head(list).op = "count" /\ pending' = [pending EXCEPT ![source] = Tail(@)]
        /\ count' = [count EXCEPT ![kind] = @ + times]
        /\ UNCHANGED <<reads, data, sample, readSeq, lastErrors, events, eventSeq, writes, unheard>>
    BY DEF RecordCount
  <1>2. /\ pending' \in [Source -> Seq(Entry)] /\ rest = Tail(list) /\ list \in Seq(Entry)
        /\ Paired(source, list) /\ \A other \in Source : Paired(other, pending'[other])
        /\ \A other \in Source : other # source => pending'[other] = pending[other]
        /\ PendingTells'
        /\ \A c \in Counter : Owed(c)' = Owed(c) - OwedBy(source, c) + OwedBy(source, c)'
    BY <1>1, PendingDrained
  <1>3. /\ Len(list) \in Nat /\ DOMAIN list = 1..Len(list) /\ DOMAIN rest = 1..(Len(list) - 1)
        /\ Head(list) = list[1] /\ Head(list) \in Entry /\ 1 \in DOMAIN list
        /\ rest # <<>> => 1 \in DOMAIN rest /\ Head(rest) = rest[1]
        /\ \A i \in DOMAIN rest : i + 1 \in DOMAIN list /\ rest[i] = list[i + 1]
    BY <1>1, <1>2, TailOfList
  <1> HIDE DEF list, rest
  <1>4. /\ kind \in Counter /\ Owing(source, kind) /\ Named(Head(list)) = {}
        /\ times \in Nat /\ times >= 1 /\ (kind # "communication_retry" => times = 1)
        /\ rest # <<>> /\ Head(rest).op = "append" /\ Head(rest).kind = kind
    <2>1. /\ Owing(source, kind) /\ list[1].errors = <<>> /\ 1 + 1 \in DOMAIN list /\ times >= 1
          /\ kind # "communication_retry" => times = 1
          /\ list[1 + 1].op = "append" /\ list[1 + 1].kind = kind
      <3>1. list[1].op = "count" /\ kind = list[1].kind /\ times = list[1].times
        BY <1>1, <1>3
      <3> HIDE DEF kind, times
      <3> QED
        BY <1>2, <1>3, <3>1 DEF Paired
    <2>2. 1 \in DOMAIN rest /\ rest[1] = list[1 + 1]
      BY <1>3, <2>1
    <2>3. rest # <<>>
      BY <2>2
    <2>4. times \in Nat /\ kind \in Counter
      BY <1>3, <2>1 DEF Entry, Owing
    <2> QED
      BY <1>3, <2>1, <2>2, <2>3, <2>4, NoErrors DEF Named
  <1> HIDE DEF kind, times
  <1>5. count \in [Counter -> Nat] /\ count' \in [Counter -> Nat]
        /\ \A c \in Counter : count'[c] = IF c = kind THEN count[c] + times ELSE count[c]
    BY <1>1, <1>4 DEF ReadInv, ReadTyped
  <1>6. ReadTyped'
    BY <1>1, <1>2, <1>5 DEF ReadInv, ReadTyped
  <1>7. RingCounted'
    <2>1. \A c \in Counter : /\ OwedBy(source, c) = 0
                             /\ OwedBy(source, c)' = IF c = kind THEN 1 ELSE 0
      BY <1>1, <1>4 DEF OwedBy, list, rest
    <2>2. \A c \in Counter : Visible(c)' = Visible(c) /\ Unheard(c)' = Unheard(c)
      BY <1>1 DEF Visible, Unheard
    <2>3. ASSUME NEW c \in Counter
          PROVE  /\ count'[c] >= Cardinality(Visible(c)) + Owed(c)' + Unheard(c)
                 /\ eventSeq <= RingSize /\ c # "communication_retry" =>
                      count'[c] = Cardinality(Visible(c)) + Owed(c)' + Unheard(c)
      <3>1. /\ count[c] >= Cardinality(Visible(c)) + Owed(c) + Unheard(c)
            /\ eventSeq <= RingSize /\ c # "communication_retry" =>
                 count[c] = Cardinality(Visible(c)) + Owed(c) + Unheard(c)
        BY DEF ReadInv, RingCounted
      <3>2. Cardinality(Visible(c)) \in Nat /\ count[c] \in Nat /\ Unheard(c) \in Nat
            /\ Owed(c) \in Nat
        BY ReadNumbers
      <3>3. Owed(c)' = Owed(c) + IF c = kind THEN 1 ELSE 0
        BY <1>2, <2>1, <3>2
      <3> QED
        BY <1>4, <1>5, <3>1, <3>2, <3>3
    <2> QED
      BY <1>1, <2>2, <2>3 DEF ReadInv, RingCounted
  <1>8. RingTells'
    <2> SUFFICES ASSUME NEW i \in DOMAIN events, NEW s \in AlertsTold(events[i]),
                        \A j \in (i + 1)..Len(events) : s \notin AlertsTold(events[j]),
                        \A j \in DOMAIN pending'["read"] : s \notin Named(pending'["read"][j])
                 PROVE  events[i].errors[s] = Present(s)
      BY <1>1 DEF RingTells, Present
    <2>1. ASSUME NEW j \in DOMAIN pending["read"] PROVE s \notin Named(pending["read"][j])
      <3>1. CASE source # "read"
        BY <1>2, <3>1 DEF Source
      <3>2. CASE source = "read" /\ j = 1
        BY <1>3, <1>4, <3>2 DEF list
      <3>3. CASE source = "read" /\ j # 1
        <4>1. j - 1 \in DOMAIN rest /\ (j - 1) + 1 = j
          BY <1>3, <3>3 DEF list
        <4>2. rest[j - 1] = list[j]
          BY <1>3, <4>1
        <4> QED
          BY <3>3, <4>1, <4>2 DEF rest, list
      <3> QED
        BY <3>1, <3>2, <3>3
    <2> QED
      BY <2>1 DEF ReadInv, RingTells
  <1>9. SampleIsOneAnswer'
    BY <1>1 DEF ReadInv, SampleIsOneAnswer
  <1> QED
    BY <1>2, <1>6, <1>7, <1>8, <1>9 DEF ReadInv

\* The event that was owed enters the ring.
LEMMA RecordEventKeeps ==
  ASSUME ReadInv, NEW source \in Source, RecordEvent(source)
  PROVE  ReadInv'
  <1> DEFINE list == pending[source]
             rest == pending'[source]
             head == Head(list)
             event == [sequence |-> eventSeq + 1, source |-> source, kind |-> head.kind,
                       errors |-> head.errors]
             lost == IF Len(events) < RingSize THEN 0 ELSE 1
  <1>1. /\ list # <<>> /\ head.op = "append" /\ pending' = [pending EXCEPT ![source] = Tail(@)]
        /\ eventSeq' = eventSeq + 1 /\ events' = Pushed(events, event)
        /\ UNCHANGED <<reads, data, sample, readSeq, lastErrors, count, writes, unheard>>
    BY DEF RecordEvent
  <1>2. /\ pending' \in [Source -> Seq(Entry)] /\ rest = Tail(list) /\ list \in Seq(Entry)
        /\ Paired(source, list) /\ \A other \in Source : Paired(other, pending'[other])
        /\ \A other \in Source : other # source => pending'[other] = pending[other]
        /\ PendingTells'
        /\ \A c \in Counter : Owed(c)' = Owed(c) - OwedBy(source, c) + OwedBy(source, c)'
    BY <1>1, PendingDrained
  <1>3. /\ Len(list) \in Nat /\ DOMAIN list = 1..Len(list) /\ DOMAIN rest = 1..(Len(list) - 1)
        /\ head = list[1] /\ head \in Entry /\ 1 \in DOMAIN list
        /\ rest # <<>> => 1 \in DOMAIN rest /\ Head(rest) = rest[1]
        /\ \A i \in DOMAIN rest : i + 1 \in DOMAIN list /\ rest[i] = list[i + 1]
    BY <1>1, <1>2, TailOfList
  <1>4. /\ events \in Seq(Event) /\ Len(events) <= RingSize /\ eventSeq \in Nat
        /\ Len(events) = IF eventSeq <= RingSize THEN eventSeq ELSE RingSize
        /\ Len(events) \in Nat /\ DOMAIN events = 1..Len(events)
    BY ReadConstants, LenProperties DEF ReadInv, ReadTyped, RingCounted
  <1> HIDE DEF list, rest
  <1>5. event \in Event /\ event.kind = head.kind /\ event.errors = head.errors
        /\ event.sequence = eventSeq + 1 /\ event.source = source
    BY <1>3, <1>4 DEF Event, Entry
  <1> HIDE DEF event
  <1>6. /\ events' \in Seq(Event) /\ Len(events') = Len(events) + 1 - lost
        /\ events'[Len(events')] = event
        /\ \A i \in 1..(Len(events') - 1) : /\ i + lost \in 1..Len(events)
                                            /\ events'[i] = events[i + lost]
        /\ \A c \in Counter :
             LET more == IF IsOf(event, c) THEN 1 ELSE 0 IN
             /\ Cardinality(Of(events', c)) <= Cardinality(Of(events, c)) + more
             /\ lost = 0 => Cardinality(Of(events', c)) = Cardinality(Of(events, c)) + more
    BY <1>1, <1>4, <1>5, RingPushed
  <1>7. Len(events') \in Nat /\ DOMAIN events' = 1..Len(events')
    BY <1>6, LenProperties
  <1>8. lost \in {0, 1} /\ (lost = 0 <=> Len(events) < RingSize)
    OBVIOUS
  <1> HIDE DEF lost
  <1>9. ReadTyped'
    BY <1>1, <1>2, <1>4, <1>6 DEF ReadInv, ReadTyped
  <1>10. RingCounted'
    <2>1. Len(events') = IF eventSeq' <= RingSize THEN eventSeq' ELSE RingSize
      BY <1>1, <1>4, <1>6, <1>8, ReadConstants
    <2>2. ASSUME NEW i \in DOMAIN events' PROVE events'[i].sequence = eventSeq' - Len(events') + i
      <3>1. CASE i = Len(events')
        BY <1>1, <1>4, <1>5, <1>6, <1>7, <3>1
      <3>2. CASE i # Len(events')
        <4>1. i \in 1..(Len(events') - 1)
          BY <1>7, <2>2, <3>2
        <4>2. events'[i].sequence = eventSeq - Len(events) + (i + lost)
          BY <1>4, <1>6, <4>1 DEF ReadInv, RingCounted
        <4>3. /\ Len(events') = Len(events) + 1 - lost /\ eventSeq' = eventSeq + 1
              /\ events'[i].sequence = eventSeq - Len(events) + (i + lost)
              /\ i \in Int /\ lost \in Int /\ Len(events) \in Int /\ eventSeq \in Int
          BY <1>1, <1>4, <1>6, <1>8, <4>1, <4>2
        <4> QED
          BY ONLY <4>3
      <3> QED
        BY <3>1, <3>2
    <2>3. \A c \in Counter : /\ OwedBy(source, c) = (IF IsOf(event, c) THEN 1 ELSE 0)
                             /\ OwedBy(source, c)' = 0
      <3>1. \A c \in Counter : OwedBy(source, c) = IF IsOf(event, c) THEN 1 ELSE 0
        <4> SUFFICES ASSUME NEW c \in Counter
                     PROVE  OwedBy(source, c) = IF IsOf(event, c) THEN 1 ELSE 0
          OBVIOUS
        <4>1. IsOf(event, c) <=> head.kind = c /\ Owing(source, c)
          BY <1>5 DEF IsOf, Owing
        <4> QED
          BY <1>1, <4>1 DEF OwedBy, list
      <3>2. rest # <<>> => 1 + 1 \in DOMAIN list /\ Head(rest) = list[1 + 1]
        BY <1>3
      <3>3. ASSUME rest # <<>>, Head(rest).op = "append", Owing(source, Head(rest).kind)
            PROVE  FALSE
        <4>1. 1 + 1 \in DOMAIN list /\ 1 + 1 > 1 /\ (1 + 1) - 1 = 1
          BY <3>2, <3>3
        <4>2. list[1 + 1].op = "append" /\ Owing(source, list[1 + 1].kind)
          BY <3>2, <3>3
        <4>3. list[(1 + 1) - 1].op = "count"
          BY <1>2, <4>1, <4>2 DEF Paired
        <4>4. list[1].op = "append"
          BY <1>1, <1>3
        <4> QED
          BY <4>1, <4>3, <4>4
      <3> QED
        BY <3>1, <3>3 DEF OwedBy, rest
    <2>4. \A c \in Counter : /\ Visible(c)' = Of(events', c) /\ Cardinality(Of(events', c)) \in Nat
                             /\ Unheard(c)' = Unheard(c) /\ count'[c] = count[c]
      BY <1>1, <1>6, OfIsFinite DEF Visible, Of, Unheard
    <2>5. ASSUME NEW c \in Counter
          PROVE  /\ count[c] >= Cardinality(Of(events', c)) + Owed(c)' + Unheard(c)
                 /\ eventSeq' <= RingSize /\ c # "communication_retry" =>
                      count[c] = Cardinality(Of(events', c)) + Owed(c)' + Unheard(c)
      <3> DEFINE before == Cardinality(Of(events, c))
                 after == Cardinality(Of(events', c))
                 more == IF IsOf(event, c) THEN 1 ELSE 0
                 owed == Owed(c)'
      <3>1. after <= before + more /\ (lost = 0 => after = before + more)
        BY <1>6
      <3>2. /\ before \in Nat /\ after \in Nat /\ count[c] \in Nat /\ more \in Nat
            /\ Owed(c) \in Nat /\ Unheard(c) \in Nat
        BY <2>4, ReadNumbers
      <3>3. owed = Owed(c) - more
        BY <1>2, <2>3, <3>2
      <3>4. /\ count[c] >= before + Owed(c) + Unheard(c)
            /\ eventSeq <= RingSize /\ c # "communication_retry" =>
                 count[c] = before + Owed(c) + Unheard(c)
        BY ReadNumbers DEF ReadInv, RingCounted
      <3>5. eventSeq' <= RingSize => lost = 0 /\ eventSeq <= RingSize
        BY <1>1, <1>4, <1>8, ReadConstants
      <3> HIDE DEF before, after, more, owed
      <3>6. /\ count[c] >= after + owed + Unheard(c)
            /\ eventSeq' <= RingSize /\ c # "communication_retry" =>
                 count[c] = after + owed + Unheard(c)
        BY ONLY <3>1, <3>2, <3>3, <3>4, <3>5
      <3> QED
        BY <3>6 DEF after, owed
    <2> QED
      BY <2>1, <2>2, <2>4, <2>5 DEF RingCounted
  <1>11. RingTells'
    <2>1. source = "read" => \A s \in Named(head) : head.errors[s] = Present(s)
      BY <1>3 DEF ReadInv, PendingTells, Tells, Present, list
    <2>2. AlertsTold(event) = IF source = "read" THEN Named(head) ELSE {}
      BY <1>5 DEF AlertsTold, Named
    <2> SUFFICES ASSUME NEW i \in DOMAIN events', NEW s \in AlertsTold(events'[i]),
                        \A j \in (i + 1)..Len(events') : s \notin AlertsTold(events'[j]),
                        \A j \in DOMAIN pending'["read"] : s \notin Named(pending'["read"][j])
                 PROVE  events'[i].errors[s] = Present(s)
      BY <1>1 DEF RingTells, Present
    <2>3. CASE i = Len(events')
      BY <1>5, <1>6, <2>1, <2>2, <2>3
    <2>4. CASE i # Len(events')
      <3> DEFINE k == i + lost
      <3>1. i \in 1..(Len(events') - 1) /\ k \in 1..Len(events) /\ events'[i] = events[k]
        BY <1>6, <1>7, <2>4
      <3>2. ASSUME NEW j \in (k + 1)..Len(events) PROVE s \notin AlertsTold(events[j])
        <4>1. i \in Nat /\ i > 0
          BY <1>7, <3>1
        <4>2. /\ Len(events') = Len(events) + 1 - lost /\ lost \in {0, 1} /\ i \in Nat /\ i > 0
              /\ Len(events) \in Nat /\ Len(events') \in Nat /\ j \in (i + lost + 1)..Len(events)
          BY <1>4, <1>6, <1>7, <1>8, <3>2, <4>1
        <4>3. j - lost \in (i + 1)..Len(events') /\ j - lost \in 1..(Len(events') - 1)
              /\ (j - lost) + lost = j
          BY ONLY <4>2
        <4>4. events'[j - lost] = events[j]
          BY <1>6, <4>3
        <4> QED
          BY <4>3, <4>4
      <3>3. s \notin AlertsTold(event)
        <4>1. Len(events') \in (i + 1)..Len(events')
          BY <1>7, <3>1
        <4> QED
          BY <1>6, <4>1
      <3>4. ASSUME NEW j \in DOMAIN pending["read"] PROVE s \notin Named(pending["read"][j])
        <4>1. CASE source # "read"
          BY <1>2, <4>1 DEF Source
        <4>2. CASE source = "read" /\ j = 1
          BY <1>3, <2>2, <3>3, <4>2 DEF list
        <4>3. CASE source = "read" /\ j # 1
          <5>1. j - 1 \in DOMAIN rest /\ (j - 1) + 1 = j
            BY <1>3, <4>3 DEF list
          <5>2. rest[j - 1] = list[j]
            BY <1>3, <5>1
          <5> QED
            BY <4>3, <5>1, <5>2 DEF rest, list
        <4> QED
          BY <4>1, <4>2, <4>3
      <3>5. events[k].errors[s] = Present(s)
        BY <1>4, <3>1, <3>2, <3>4 DEF ReadInv, RingTells
      <3> QED
        BY <3>1, <3>5
    <2> QED
      BY <2>3, <2>4
  <1>12. SampleIsOneAnswer'
    BY <1>1 DEF ReadInv, SampleIsOneAnswer
  <1> QED
    BY <1>2, <1>9, <1>10, <1>11, <1>12 DEF ReadInv

\* Serial exceptions and refused instructions are not recorded.
LEMMA RaisesKeeps == ReadInv /\ (ReadRaises \/ WriteRaises \/ UNCHANGED readVars) => ReadInv'
  <1> SUFFICES ASSUME ReadInv, ReadRaises \/ WriteRaises \/ UNCHANGED readVars PROVE ReadInv'
    OBVIOUS
  <1>1. /\ UNCHANGED <<data, sample, readSeq, lastErrors, count>>
        /\ UNCHANGED <<events, eventSeq, pending, unheard>>
        /\ reads \in Nat /\ reads' \in Nat /\ reads <= reads' /\ reads' <= MaxReads
        /\ writes \in Nat /\ writes' \in Nat /\ writes <= writes' /\ writes' <= MaxWrites
    BY ReadConstants DEF ReadRaises, WriteRaises, readVars, ReadInv, ReadTyped
  <1>2. ReadTyped'
    BY <1>1, ReadConstants DEF ReadInv, ReadTyped
  <1>3. /\ \A source \in Source : Paired(source, pending'[source])
        /\ PendingTells' /\ RingTells' /\ SampleIsOneAnswer'
    BY <1>1 DEF ReadInv, PendingTells, RingTells, Present, SampleIsOneAnswer
  <1>4. RingCounted'
    BY <1>1 DEF ReadInv, RingCounted, Visible, Owed, OwedBy, Unheard
  <1> QED
    BY <1>2, <1>3, <1>4 DEF ReadInv

LEMMA ReadSteps == ReadInv /\ [ReadNext]_readVars => ReadInv'
  <1> SUFFICES ASSUME ReadInv, [ReadNext]_readVars PROVE ReadInv'
    OBVIOUS
  <1>1. CASE UNCHANGED readVars
    BY <1>1, RaisesKeeps
  <1>2. CASE ReadNext
    BY <1>2, ReadSucceedsKeeps, ReadFailsKeeps, WriteSucceedsKeeps, WriteFailsKeeps, RaisesKeeps,
       RecordCountKeeps, RecordEventKeeps DEF ReadNext
  <1> QED
    BY <1>1, <1>2

(* What is counted and not yet appended, and which news is still to come, at *)
(* every point between two lock acquisitions (_record_event, _detect_status_alerts).*)
LEMMA ReadIsInductive == ReadSpec => []ReadInv
  BY ReadStarts, ReadSteps, PTL DEF ReadSpec

(* Samples have every servo, and the ring never holds more than RingSize     *)
(* events, for every set of servos (read_state, _diagnostic_events).         *)
THEOREM ReadIsTyped == ReadSpec => []ReadTypeOK
  <1>1. ReadInv => ReadTypeOK
    <2> SUFFICES ASSUME ReadInv PROVE ReadTypeOK
      OBVIOUS
    <2>1. DOMAIN lastErrors \subseteq Servo
      BY DEF ReadInv, ReadTyped, Errors
    <2>2. Len(events) <= RingSize
      BY ReadConstants DEF ReadInv, ReadTyped, RingCounted
    <2> QED
      BY <2>1, <2>2 DEF ReadInv, ReadTyped, ReadTypeOK
  <1> QED
    BY <1>1, ReadIsInductive, PTL

(* A returned sample is made of one answer only, whatever corrupt answers left*)
(* in data_dict before it (DiagnosticGroupSyncRead.fastSyncRead).            *)
THEOREM SampleIsAlwaysOneAnswer == ReadSpec => []SampleIsOneAnswer
  <1>1. ReadInv => SampleIsOneAnswer
    BY DEF ReadInv
  <1> QED
    BY <1>1, ReadIsInductive, PTL

(* No snapshot shows an event its counter does not count, for every ring size*)
(* (diagnostics_snapshot against _record_event).                             *)
THEOREM CountersAlwaysCover == ReadSpec => []CountersCoverEvents
  <1>1. ReadInv => CountersCoverEvents
    <2> SUFFICES ASSUME ReadInv PROVE CountersCoverEvents
      OBVIOUS
    <2>1. ASSUME NEW c \in Counter
          PROVE  /\ count[c] >= Cardinality(Visible(c)) + Unheard(c)
                 /\ eventSeq <= RingSize /\ c # "communication_retry" =>
                      count[c] <= Cardinality(Visible(c)) + Unheard(c) + 1
      <3>1. /\ count[c] >= Cardinality(Visible(c)) + Owed(c) + Unheard(c)
            /\ eventSeq <= RingSize /\ c # "communication_retry" =>
                 count[c] = Cardinality(Visible(c)) + Owed(c) + Unheard(c)
        BY DEF ReadInv, RingCounted
      <3>2. c # "communication_retry" => OwedBy("write", c) = 0
        <4>1. pending["write"] \in Seq(Entry) /\ Paired("write", pending["write"])
          BY DEF ReadInv, ReadTyped, Source
        <4>2. pending["write"] # <<>> => 1 \in DOMAIN pending["write"]
                                         /\ Head(pending["write"]) = pending["write"][1]
          BY <4>1
        <4> QED
          BY <4>1, <4>2 DEF Paired, OnWrites, OwedBy, Owing
      <3>3. /\ Cardinality(Visible(c)) \in Nat /\ count[c] \in Nat /\ Unheard(c) \in Nat
            /\ Owed(c) = OwedBy("read", c) + OwedBy("write", c)
            /\ OwedBy("read", c) \in {0, 1} /\ OwedBy("write", c) \in {0, 1}
        BY ReadNumbers
      <3> QED
        BY <3>1, <3>2, <3>3
    <2> QED
      BY <2>1 DEF ReadInv, RingCounted, CountersCoverEvents
  <1> QED
    BY <1>1, ReadIsInductive, PTL

(* Between reads the retained events give the present alert of every servo they*)
(* name, for every number of servos and ring size (_detect_status_alerts).   *)
THEOREM EventsAlwaysTellAlerts == ReadSpec => []EventsTellAlerts
  <1>1. ReadInv => EventsTellAlerts
    BY DEF ReadInv, RingTells, EventsTellAlerts, Present
  <1> QED
    BY <1>1, ReadIsInductive, PTL
-----------------------------------------------------------------------------
(***************************************************************************)
(* The bus, for every order of servos and any number of requests: a packet *)
(* that is taken for an answer was sent for this request or for the one of *)
(* the transaction that failed before it.                                  *)
(***************************************************************************)

\* Packets on their way to the transaction: received, or still to come.
InFlight == {buffer[i][1] : i \in DOMAIN buffer} \union {coming[i] : i \in DOMAIN coming}

Pkt == [from : Sender, number : Nat \ {0}]

BusTyped ==
  /\ using \in BOOLEAN /\ awaited \in Seq(Sender) /\ polled \in [Sender -> Nat]
  /\ coming \in Seq(Pkt)
  /\ buffer \in Seq(Pkt \X BOOLEAN)
  /\ accepted \in Seq(Sender \X Pkt)
  /\ failures \in Nat /\ requests \in Nat /\ requests <= MaxRequests
  /\ exceptions \in Nat /\ exceptions <= failures
  /\ awaited = <<>> /\ using => exceptions > 0

\* A transaction fails at most once, and asks every sender at most once.
Bounded ==
  /\ failures + (IF awaited = <<>> THEN 0 ELSE 1) <= requests
  /\ \A s \in Sender : polled[s] <= requests
  /\ \A i \in DOMAIN accepted : accepted[i][2].number <= requests
  /\ IsInjective(awaited)

\* One sender's packets are in the order of its requests, from the buffer on to the bus.
InTurn ==
  /\ \A i, j \in DOMAIN buffer :
       i < j /\ buffer[i][1].from = buffer[j][1].from => buffer[i][1].number < buffer[j][1].number
  /\ \A i, j \in DOMAIN coming :
       i < j /\ coming[i].from = coming[j].from => coming[i].number < coming[j].number
  /\ \A i \in DOMAIN buffer, j \in DOMAIN coming :
       buffer[i][1].from = coming[j].from => buffer[i][1].number < coming[j].number

\* A packet under way is of the latest request, or one older for each failure; while its
\* sender is awaited the transaction under way has not been answered yet.
NotFarBehind ==
  \A p \in InFlight :
    /\ p.number <= polled[p.from]
    /\ polled[p.from] - p.number <= failures
    /\ p.from \notin ToSet(awaited) => polled[p.from] - p.number < failures

BusInv == BusTyped /\ Bounded /\ InTurn /\ NotFarBehind /\ AnswersAreRecent

LEMMA BusConstants ==
  /\ ServoIds \in Seq(Nat) /\ IsInjective(ServoIds) /\ MaxRequests \in Nat
  /\ AllDevices \notin Device
  BY BusAssumption DEF Device

\* A request asks a sender once.
LEMMA RequestsAreInjective ==
  ASSUME NEW request \in Request
  PROVE  /\ request \in Seq(Sender) /\ IsInjective(request)
         /\ Len(request) \in Nat /\ DOMAIN request = 1..Len(request)
  <1>1. ASSUME NEW s \in Sender
        PROVE  <<s>> \in Seq(Sender) /\ IsInjective(<<s>>)
    BY DEF IsInjective
  <1>2. ServoIds \in Seq(Sender) /\ IsInjective(ServoIds)
    <2>1. PICK n \in Nat : ServoIds \in [1..n -> Nat]
      BY BusConstants, SeqDef
    <2>2. ServoIds \in [1..n -> Sender]
      BY <2>1 DEF Sender, Device, ToSet
    <2> QED
      BY <2>2, SeqDef, BusConstants
  <1>3. <<>> \in Seq(Sender) /\ IsInjective(<<>>)
    BY DEF IsInjective
  <1>4. CASE \E s \in Device : request = StatusOf(s)
    BY <1>1, <1>4 DEF StatusOf, Sender
  <1>5. CASE request = SyncRead
    BY <1>2, <1>5 DEF SyncRead
  <1>8. CASE request = NoAnswer
    BY <1>3, <1>8 DEF NoAnswer
  <1>7. CASE request = FastSyncRead
    BY <1>1, <1>7 DEF FastSyncRead, Sender
  <1>6. request \in Seq(Sender) /\ IsInjective(request)
    BY <1>4, <1>5, <1>7, <1>8 DEF Request
  <1> QED
    BY <1>6, LenProperties

\* Every sender asked puts one packet on the bus, numbered as the request to it.
LEMMA AnswersOfRequest ==
  ASSUME BusTyped, NEW request \in Request
  PROVE  /\ Answers(request) \in Seq(Pkt) /\ Len(Answers(request)) = Len(request)
         /\ \A i \in 1..Len(request) :
              /\ Answers(request)[i].from = request[i]
              /\ Answers(request)[i].number = polled[request[i]] + 1
  <1>1. request \in Seq(Sender) /\ Len(request) \in Nat /\ DOMAIN request = 1..Len(request)
    BY RequestsAreInjective
  <1>2. \A i \in 1..Len(request) : request[i] \in Sender /\ polled[request[i]] + 1 \in Nat \ {0}
    BY <1>1 DEF BusTyped
  <1>3. Answers(request) \in [1..Len(request) -> Pkt]
    BY <1>1, <1>2 DEF Answers, Pkt
  <1>4. Answers(request) \in Seq(Pkt)
    BY <1>1, <1>3, SeqDef
  <1>5. Len(Answers(request)) = Len(request)
    BY <1>1, <1>3, <1>4, LenProperties
  <1> QED
    BY <1>1, <1>4, <1>5 DEF Answers

LEMMA ConcatAt ==
  ASSUME NEW S, NEW a \in Seq(S), NEW b \in Seq(S)
  PROVE  /\ a \o b \in Seq(S) /\ Len(a \o b) = Len(a) + Len(b)
         /\ \A i \in 1..(Len(a) + Len(b)) :
              (a \o b)[i] = IF i <= Len(a) THEN a[i] ELSE b[i - Len(a)]
  BY ConcatProperties

LEMMA BusStarts == BusInit => BusInv
  <1> SUFFICES ASSUME BusInit PROVE BusInv
    OBVIOUS
  <1>1. BusTyped
    <2>1. using = FALSE /\ polled \in [Sender -> Nat]
      BY DEF BusInit
    <2>2. awaited \in Seq(Sender) /\ coming \in Seq(Pkt) /\ buffer \in Seq(Pkt \X BOOLEAN)
          /\ accepted \in Seq(Sender \X Pkt)
      BY DEF BusInit
    <2>3. failures \in Nat /\ requests \in Nat /\ requests <= MaxRequests
          /\ exceptions \in Nat /\ exceptions <= failures
      BY BusConstants DEF BusInit
    <2>4. using \in BOOLEAN
      BY <2>1
    <2> QED
      BY <2>1, <2>2, <2>3, <2>4 DEF BusTyped
  <1>2. Bounded
    BY BusConstants DEF BusInit, Bounded, IsInjective
  <1>3. InTurn /\ NotFarBehind /\ AnswersAreRecent
    BY DEF BusInit, InTurn, NotFarBehind, AnswersAreRecent, InFlight
  <1> QED
    BY <1>1, <1>2, <1>3 DEF BusInv

\* Asked again: the packets under way are one request older, and in turn with the new ones.
LEMMA SentKeeps ==
  ASSUME BusInv, NEW request \in Request, awaited = <<>>, Sent(request), buffer' = buffer
  PROVE  /\ polled' \in [Sender -> Nat] /\ coming' \in Seq(Pkt) /\ InTurn'
         /\ \A s \in Sender : polled'[s] <= polled[s] + 1
         /\ \A p \in InFlight' :
              /\ p.number <= polled'[p.from] /\ polled'[p.from] - p.number <= failures
              /\ p.from \notin ToSet(request) => polled'[p.from] - p.number < failures
  <1> DEFINE answers == Answers(request)
  <1>1. /\ awaited = <<>> /\ coming' = coming \o answers /\ buffer' = buffer
        /\ polled' = [s \in Sender |-> polled[s] + IF s \in ToSet(request) THEN 1 ELSE 0]
    BY DEF Sent
  <1>2. /\ BusTyped /\ polled \in [Sender -> Nat] /\ coming \in Seq(Pkt) /\ failures \in Nat
        /\ requests \in Nat /\ buffer \in Seq(Pkt \X BOOLEAN)
    BY DEF BusInv, BusTyped
  <1>3. /\ request \in Seq(Sender) /\ IsInjective(request)
        /\ Len(request) \in Nat /\ DOMAIN request = 1..Len(request)
    BY RequestsAreInjective
  <1>4. /\ answers \in Seq(Pkt) /\ Len(answers) = Len(request)
        /\ \A i \in 1..Len(request) : /\ answers[i].from = request[i]
                                      /\ answers[i].number = polled[request[i]] + 1
    BY <1>2, AnswersOfRequest
  <1> HIDE DEF answers
  <1>5. /\ coming' \in Seq(Pkt) /\ Len(coming') = Len(coming) + Len(request)
        /\ Len(coming) \in Nat /\ DOMAIN coming = 1..Len(coming)
        /\ DOMAIN coming' = 1..(Len(coming) + Len(request))
        /\ \A i \in DOMAIN coming' :
             coming'[i] = IF i <= Len(coming) THEN coming[i] ELSE answers[i - Len(coming)]
    <2>0. /\ coming \o answers \in Seq(Pkt)
          /\ Len(coming \o answers) = Len(coming) + Len(answers)
          /\ \A i \in 1..(Len(coming) + Len(answers)) :
               (coming \o answers)[i] = IF i <= Len(coming) THEN coming[i] ELSE answers[i - Len(coming)]
      <3>1. coming \in Seq(Pkt) /\ answers \in Seq(Pkt)
        BY <1>2, <1>4
      <3> QED
        BY <3>1, ConcatAt, Zenon
    <2>1. /\ coming' \in Seq(Pkt) /\ Len(coming') = Len(coming) + Len(answers)
          /\ \A i \in 1..(Len(coming) + Len(answers)) :
               coming'[i] = IF i <= Len(coming) THEN coming[i] ELSE answers[i - Len(coming)]
      BY <1>1, <2>0
    <2>2. /\ Len(coming) \in Nat /\ DOMAIN coming = 1..Len(coming)
          /\ DOMAIN coming' = 1..Len(coming')
      BY <1>2, <2>1, LenProperties
    <2> QED
      BY <1>4, <2>1, <2>2
  <1>6. \A i \in DOMAIN coming' :
          \/ i \in DOMAIN coming /\ coming'[i] = coming[i]
          \/ i > Len(coming) /\ i - Len(coming) \in 1..Len(request)
               /\ coming'[i] = answers[i - Len(coming)]
    BY <1>3, <1>5
  <1>7. /\ polled' \in [Sender -> Nat]
        /\ \A s \in Sender : polled'[s] = IF s \in ToSet(request) THEN polled[s] + 1 ELSE polled[s]
    BY <1>1, <1>2
  <1>8. \A i \in 1..Len(request) : request[i] \in ToSet(request) /\ request[i] \in Sender
    BY <1>3 DEF ToSet
  <1>11. \A p \in InFlight : /\ p \in Pkt /\ p.number <= polled[p.from]
                             /\ polled[p.from] - p.number < failures
    <2>1. \A p \in InFlight : p \in Pkt
      BY <1>2 DEF InFlight
    <2>2. ToSet(awaited) = {}
      BY <1>1 DEF ToSet
    <2> QED
      BY <2>1, <2>2 DEF BusInv, NotFarBehind
  <1>12. \A i \in DOMAIN coming : coming[i] \in InFlight
    BY DEF InFlight
  <1>13. \A i \in DOMAIN buffer : buffer[i][1] \in InFlight
    BY DEF InFlight
  <1>14. InTurn'
    <2>1. ASSUME NEW i \in DOMAIN coming', NEW j \in DOMAIN coming', i < j,
                 coming'[i].from = coming'[j].from
          PROVE  coming'[i].number < coming'[j].number
      <3>1. CASE j \in DOMAIN coming /\ coming'[j] = coming[j]
        <4>1. i \in DOMAIN coming /\ coming'[i] = coming[i]
          BY <1>5, <2>1, <3>1
        <4> QED
          BY <2>1, <3>1, <4>1 DEF BusInv, InTurn
      <3>2. CASE j > Len(coming) /\ j - Len(coming) \in 1..Len(request)
                  /\ coming'[j] = answers[j - Len(coming)]
        <4> DEFINE s == request[j - Len(coming)]
        <4>1. coming'[j].from = s /\ coming'[j].number = polled[s] + 1 /\ s \in Sender
          BY <1>4, <1>8, <3>2
        <4>2. CASE i \in DOMAIN coming /\ coming'[i] = coming[i]
          <5>1. coming[i].number <= polled[s] /\ coming[i] \in Pkt
            BY <1>11, <1>12, <2>1, <4>1, <4>2
          <5> QED
            BY <1>2, <4>1, <4>2, <5>1 DEF Pkt
        <4>3. CASE i > Len(coming) /\ i - Len(coming) \in 1..Len(request)
                    /\ coming'[i] = answers[i - Len(coming)]
          <5>1. request[i - Len(coming)] = s
            BY <1>4, <2>1, <4>1, <4>3
          <5>2. i - Len(coming) = j - Len(coming)
            BY <1>3, <3>2, <4>3, <5>1 DEF IsInjective
          <5> QED
            BY <1>5, <2>1, <5>2
        <4> QED
          BY <1>6, <4>2, <4>3
      <3> QED
        BY <1>6, <3>1, <3>2
    <2>2. ASSUME NEW i \in DOMAIN buffer, NEW j \in DOMAIN coming',
                 buffer[i][1].from = coming'[j].from
          PROVE  buffer[i][1].number < coming'[j].number
      <3>1. CASE j \in DOMAIN coming /\ coming'[j] = coming[j]
        BY <2>2, <3>1 DEF BusInv, InTurn
      <3>2. CASE j > Len(coming) /\ j - Len(coming) \in 1..Len(request)
                  /\ coming'[j] = answers[j - Len(coming)]
        <4> DEFINE s == request[j - Len(coming)]
        <4>1. coming'[j].from = s /\ coming'[j].number = polled[s] + 1 /\ s \in Sender
          BY <1>4, <1>8, <3>2
        <4>2. buffer[i][1].number <= polled[s] /\ buffer[i][1] \in Pkt
          BY <1>11, <1>13, <2>2, <4>1
        <4> QED
          BY <1>2, <4>1, <4>2 DEF Pkt
      <3> QED
        BY <1>6, <3>1, <3>2
    <2> QED
      BY <1>1, <2>1, <2>2 DEF BusInv, InTurn
  <1>15. \A p \in InFlight' :
           /\ p.number <= polled'[p.from] /\ polled'[p.from] - p.number <= failures
           /\ p.from \notin ToSet(request) => polled'[p.from] - p.number < failures
    <2>1. \A p \in InFlight : /\ p.number <= polled'[p.from] /\ polled'[p.from] - p.number <= failures
                              /\ p.from \notin ToSet(request) => polled'[p.from] - p.number < failures
      BY <1>2, <1>7, <1>11 DEF Pkt
    <2>2. \A i \in 1..Len(request) : /\ answers[i].number = polled'[answers[i].from]
                                     /\ answers[i].from \in ToSet(request)
                                     /\ polled'[answers[i].from] - answers[i].number <= failures
      BY <1>2, <1>4, <1>7, <1>8
    <2>3. \A p \in InFlight' : p \in InFlight \/ \E i \in 1..Len(request) : p = answers[i]
      BY <1>1, <1>6 DEF InFlight
    <2>4. \A i \in 1..Len(request) : answers[i].number <= polled'[answers[i].from]
      BY <1>2, <1>4, <1>7, <1>8
    <2> SUFFICES ASSUME NEW p \in InFlight'
                 PROVE  /\ p.number <= polled'[p.from] /\ polled'[p.from] - p.number <= failures
                        /\ p.from \notin ToSet(request) => polled'[p.from] - p.number < failures
      OBVIOUS
    <2>5. CASE p \in InFlight
      BY <2>1, <2>5
    <2>6. CASE \E i \in 1..Len(request) : p = answers[i]
      BY <2>2, <2>4, <2>6
    <2> QED
      BY <2>3, <2>5, <2>6
  <1> QED
    BY <1>2, <1>5, <1>7, <1>14, <1>15

LEMMA TxPacketKeeps ==
  ASSUME BusInv, NEW request \in Request, TxPacket(request)
  PROVE  BusInv'
  <1>1. /\ awaited = <<>> /\ requests < MaxRequests /\ using' = (request # NoAnswer)
        /\ awaited' = request /\ accepted' = <<>> /\ requests' = requests + 1 /\ Sent(request)
        /\ buffer' = buffer /\ failures' = failures /\ exceptions' = exceptions
    BY DEF TxPacket
  <1>2. request \in Seq(Sender) /\ IsInjective(request)
    BY RequestsAreInjective
  <1>3. /\ polled' \in [Sender -> Nat] /\ coming' \in Seq(Pkt) /\ InTurn'
        /\ \A s \in Sender : polled'[s] <= polled[s] + 1
        /\ \A p \in InFlight' :
             /\ p.number <= polled'[p.from] /\ polled'[p.from] - p.number <= failures
             /\ p.from \notin ToSet(request) => polled'[p.from] - p.number < failures
    BY <1>1, SentKeeps
  <1>4. BusTyped'
    <2>1. using' \in BOOLEAN /\ (awaited' = <<>> => ~using')
      BY <1>1 DEF NoAnswer
    <2>2. accepted' \in Seq(Sender \X Pkt)
      BY <1>1
    <2> QED
      BY <1>1, <1>2, <1>3, <2>1, <2>2, BusConstants DEF BusInv, BusTyped
  <1>5. Bounded'
    <2>1. \A s \in Sender : polled[s] \in Nat /\ polled'[s] \in Nat
      BY <1>3 DEF BusInv, BusTyped
    <2>2. requests \in Nat /\ failures \in Nat /\ failures <= requests
          /\ \A s \in Sender : polled[s] <= requests
      BY <1>1 DEF BusInv, BusTyped, Bounded
    <2>3. \A s \in Sender : polled'[s] <= requests + 1
      BY <1>3, <2>1, <2>2
    <2>4. failures' + (IF awaited' = <<>> THEN 0 ELSE 1) <= requests'
      BY <1>1, <2>2
    <2>5. \A i \in DOMAIN accepted' : accepted'[i][2].number <= requests'
      BY <1>1
    <2> QED
      BY <1>1, <1>2, <2>3, <2>4, <2>5 DEF Bounded
  <1>6. NotFarBehind' /\ AnswersAreRecent'
    BY <1>1, <1>3 DEF NotFarBehind, AnswersAreRecent
  <1> QED
    BY <1>3, <1>4, <1>5, <1>6 DEF BusInv

\* The exception counts as the failure that makes up for the answers nobody will wait for.
LEMMA TxRaisesKeeps ==
  ASSUME BusInv, NEW request \in Request, TxRaises(request)
  PROVE  BusInv'
  <1>1. /\ awaited = <<>> /\ requests < MaxRequests /\ using' = TRUE /\ accepted' = <<>>
        /\ Sent(request) \/ UNCHANGED <<polled, coming>>
        /\ requests' = requests + 1 /\ failures' = failures + 1 /\ exceptions' = exceptions + 1
        /\ awaited' = awaited /\ buffer' = buffer
    BY DEF TxRaises
  <1>2. /\ polled \in [Sender -> Nat] /\ coming \in Seq(Pkt) /\ failures \in Nat
        /\ requests \in Nat /\ exceptions \in Nat /\ exceptions <= failures
        /\ InTurn /\ ToSet(awaited) = {}
        /\ \A p \in InFlight : p \in Pkt
    BY <1>1 DEF BusInv, BusTyped, ToSet, InFlight
  <1>3. /\ polled' \in [Sender -> Nat] /\ coming' \in Seq(Pkt) /\ InTurn'
        /\ \A s \in Sender : polled'[s] <= polled[s] + 1
        /\ \A p \in InFlight' :
             p.number <= polled'[p.from] /\ polled'[p.from] - p.number <= failures
    <2>1. CASE Sent(request)
      BY <1>1, <2>1, SentKeeps
    <2>2. CASE UNCHANGED <<polled, coming>>
      <3>1. InFlight' = InFlight
        BY <1>1, <2>2 DEF InFlight
      <3>2. InTurn'
        BY <1>1, <1>2, <2>2 DEF InTurn
      <3> QED
        BY <1>2, <2>2, <3>1, <3>2 DEF BusInv, NotFarBehind
    <2> QED
      BY <1>1, <2>1, <2>2
  <1>4. BusTyped'
    <2>1. using' \in BOOLEAN /\ accepted' \in Seq(Sender \X Pkt) /\ awaited' \in Seq(Sender)
      BY <1>1
    <2> QED
      BY <1>1, <1>2, <1>3, <2>1, BusConstants DEF BusInv, BusTyped
  <1>5. Bounded'
    <2>1. \A s \in Sender : polled[s] \in Nat /\ polled'[s] \in Nat
      BY <1>2, <1>3
    <2> QED
      BY <1>1, <1>2, <1>3, <2>1 DEF BusInv, Bounded
  <1>6. NotFarBehind' /\ AnswersAreRecent'
    <2>1. \A p \in InFlight' : p.number \in Nat /\ polled'[p.from] \in Nat
      <3>1. InFlight' \subseteq Pkt
        BY <1>3, <1>4 DEF InFlight, BusTyped
      <3> QED
        BY <1>3, <3>1 DEF Pkt
    <2>2. \A p \in InFlight' : polled'[p.from] - p.number < failures + 1
                               /\ polled'[p.from] - p.number <= failures + 1
      BY <1>2, <1>3, <2>1
    <2> QED
      BY <1>1, <1>3, <2>2 DEF NotFarBehind, AnswersAreRecent
  <1> QED
    BY <1>3, <1>4, <1>5, <1>6 DEF BusInv

LEMMA TxFailsKeeps == BusInv /\ (TxFails \/ PortBusy) => BusInv'
  <1> SUFFICES ASSUME BusInv, TxFails \/ PortBusy PROVE BusInv'
    OBVIOUS
  <1>1. /\ awaited = <<>> /\ requests < MaxRequests /\ accepted' = <<>> /\ requests' = requests + 1
        /\ failures' = failures + 1 /\ UNCHANGED <<using, awaited, polled, coming, buffer, exceptions>>
    BY DEF TxFails, PortBusy
  <1>2. BusTyped'
    BY <1>1, BusConstants DEF BusInv, BusTyped
  <1>3. Bounded' /\ InTurn'
    BY <1>1 DEF BusInv, BusTyped, Bounded, InTurn
  <1>4. \A p \in InFlight : p \in Pkt
    BY DEF InFlight, BusInv, BusTyped
  <1>5. NotFarBehind'
    <2>1. InFlight' = InFlight
      BY <1>1 DEF InFlight
    <2>2. \A p \in InFlight : p.from \in Sender /\ p.number \in Nat /\ polled[p.from] \in Nat
      BY <1>4 DEF Pkt, BusInv, BusTyped
    <2>3. failures \in Nat
      BY DEF BusInv, BusTyped
    <2> QED
      BY <1>1, <2>1, <2>2, <2>3 DEF BusInv, NotFarBehind
  <1>6. AnswersAreRecent'
    BY <1>1 DEF AnswersAreRecent
  <1> QED
    BY <1>2, <1>3, <1>5, <1>6 DEF BusInv

LEMMA TailIndex ==
  ASSUME NEW S, NEW list \in Seq(S), list # <<>>
  PROVE  /\ Head(list) \in S /\ Tail(list) \in Seq(S) /\ Len(list) \in Nat /\ Len(list) > 0
         /\ DOMAIN list = 1..Len(list) /\ DOMAIN Tail(list) = 1..(Len(list) - 1)
         /\ Head(list) = list[1] /\ 1 \in DOMAIN list
         /\ \A i \in DOMAIN Tail(list) : i + 1 \in DOMAIN list /\ Tail(list)[i] = list[i + 1]
  OBVIOUS

\* The first packet to come goes behind those received, or nowhere.
LEMMA ArrivalKeeps ==
  ASSUME BusInv, PacketLost \/ \E intact \in BOOLEAN : PacketArrives(intact)
  PROVE  BusInv'
  <1>1. /\ coming # <<>> /\ coming' = Tail(coming)
        /\ UNCHANGED <<using, awaited, polled, accepted, failures, requests, exceptions>>
    BY DEF PacketLost, PacketArrives
  <1>2. coming \in Seq(Pkt) /\ buffer \in Seq(Pkt \X BOOLEAN) /\ InTurn
    BY DEF BusInv, BusTyped
  <1>3. /\ Head(coming) \in Pkt /\ coming' \in Seq(Pkt) /\ Len(coming) \in Nat
        /\ DOMAIN coming = 1..Len(coming) /\ DOMAIN coming' = 1..(Len(coming) - 1)
        /\ Head(coming) = coming[1] /\ 1 \in DOMAIN coming
        /\ \A i \in DOMAIN coming' : i + 1 \in DOMAIN coming /\ coming'[i] = coming[i + 1]
    BY <1>1, <1>2, TailIndex
  <1>4. \A i, j \in DOMAIN coming' :
          i < j /\ coming'[i].from = coming'[j].from => coming'[i].number < coming'[j].number
    <2>1. \A i, j \in DOMAIN coming' : i < j => i + 1 < j + 1
      BY <1>3
    <2> QED
      BY <1>2, <1>3, <2>1 DEF InTurn
  <1>5. CASE PacketLost
    <2>1. buffer' = buffer
      BY <1>5 DEF PacketLost
    <2>2. InTurn'
      BY <1>2, <1>3, <1>4, <2>1 DEF InTurn
    <2>3. InFlight' \subseteq InFlight
      BY <1>3, <2>1 DEF InFlight
    <2>4. BusTyped' /\ Bounded' /\ NotFarBehind' /\ AnswersAreRecent'
      BY <1>1, <1>3, <2>1, <2>3
      DEF BusInv, BusTyped, Bounded, NotFarBehind, AnswersAreRecent
    <2> QED
      BY <2>2, <2>4 DEF BusInv
  <1>6. ASSUME NEW intact \in BOOLEAN, PacketArrives(intact)
        PROVE  BusInv'
    <2>1. buffer' = Append(buffer, <<Head(coming), intact>>)
      BY <1>6 DEF PacketArrives
    <2>2. <<Head(coming), intact>> \in Pkt \X BOOLEAN /\ <<Head(coming), intact>>[1] = Head(coming)
      BY <1>3
    <2>3. /\ buffer' \in Seq(Pkt \X BOOLEAN) /\ Len(buffer) \in Nat /\ DOMAIN buffer = 1..Len(buffer)
          /\ DOMAIN buffer' = 1..(Len(buffer) + 1)
          /\ \A i \in DOMAIN buffer : i \in DOMAIN buffer' /\ buffer'[i] = buffer[i]
          /\ buffer'[Len(buffer) + 1][1] = coming[1]
          /\ \A i \in DOMAIN buffer' : i \in DOMAIN buffer \/ i = Len(buffer) + 1
      BY <1>2, <1>3, <2>1, <2>2, AppendProperties
    <2>4. InTurn'
      <3>1. ASSUME NEW i \in DOMAIN buffer', NEW j \in DOMAIN buffer', i < j,
                   buffer'[i][1].from = buffer'[j][1].from
            PROVE  buffer'[i][1].number < buffer'[j][1].number
        <4>1. i \in DOMAIN buffer /\ buffer'[i] = buffer[i]
          BY <2>3, <3>1
        <4>2. CASE j \in DOMAIN buffer
          BY <1>2, <2>3, <3>1, <4>1, <4>2 DEF InTurn
        <4>3. CASE j = Len(buffer) + 1
          BY <1>2, <1>3, <2>3, <3>1, <4>1, <4>3 DEF InTurn
        <4> QED
          BY <2>3, <4>2, <4>3
      <3>2. ASSUME NEW i \in DOMAIN buffer', NEW j \in DOMAIN coming',
                   buffer'[i][1].from = coming'[j].from
            PROVE  buffer'[i][1].number < coming'[j].number
        <4>1. CASE i \in DOMAIN buffer
          BY <1>2, <1>3, <2>3, <3>2, <4>1 DEF InTurn
        <4>2. CASE i = Len(buffer) + 1
          <5>1. 1 < j + 1
            BY <1>3
          <5> QED
            BY <1>2, <1>3, <2>3, <3>2, <4>2, <5>1 DEF InTurn
        <4> QED
          BY <2>3, <4>1, <4>2
      <3> QED
        BY <1>4, <3>1, <3>2 DEF InTurn
    <2>5. InFlight' \subseteq InFlight
      BY <1>3, <2>3 DEF InFlight
    <2>6. BusTyped' /\ Bounded' /\ NotFarBehind' /\ AnswersAreRecent'
      BY <1>1, <1>3, <2>3, <2>5
      DEF BusInv, BusTyped, Bounded, NotFarBehind, AnswersAreRecent
    <2> QED
      BY <2>4, <2>6 DEF BusInv
  <1> QED
    BY <1>5, <1>6

\* A receive, whatever it does with the packet, leaves those behind it in turn.
LEMMA ReceivedBehind ==
  ASSUME BusInv, buffer # <<>>, buffer' = Tail(buffer), coming' = coming
  PROVE  /\ buffer' \in Seq(Pkt \X BOOLEAN) /\ Head(buffer)[1] \in Pkt
         /\ Head(buffer)[1] \in InFlight /\ InFlight' \subseteq InFlight /\ InTurn'
         /\ \A p \in InFlight' : p.from = Head(buffer)[1].from => Head(buffer)[1].number < p.number
  <1>1. buffer \in Seq(Pkt \X BOOLEAN) /\ InTurn
    BY DEF BusInv, BusTyped
  <1>2. /\ Head(buffer) \in Pkt \X BOOLEAN /\ buffer' \in Seq(Pkt \X BOOLEAN) /\ Len(buffer) \in Nat
        /\ DOMAIN buffer = 1..Len(buffer) /\ DOMAIN buffer' = 1..(Len(buffer) - 1)
        /\ Head(buffer) = buffer[1] /\ 1 \in DOMAIN buffer
        /\ \A i \in DOMAIN buffer' : i + 1 \in DOMAIN buffer /\ buffer'[i] = buffer[i + 1]
    BY <1>1, TailIndex
  <1>0. coming' = coming
    OBVIOUS
  <1>3. InFlight' \subseteq InFlight /\ Head(buffer)[1] \in InFlight
    <2>1. \A i \in DOMAIN buffer : buffer[i][1] \in InFlight
      BY DEF InFlight
    <2>2. \A i \in DOMAIN buffer' : buffer'[i][1] \in InFlight
      BY <1>2, <2>1
    <2> QED
      BY ONLY <1>0, <1>2, <2>1, <2>2 DEF InFlight
  <1>4. InTurn'
    <2>1. \A i, j \in DOMAIN buffer' : i < j => i + 1 < j + 1
      BY <1>2
    <2>2. \A i, j \in DOMAIN buffer' :
            i < j /\ buffer'[i][1].from = buffer'[j][1].from
              => buffer'[i][1].number < buffer'[j][1].number
      BY <1>1, <1>2, <2>1 DEF InTurn
    <2>3. \A i \in DOMAIN buffer', j \in DOMAIN coming :
            buffer'[i][1].from = coming[j].from => buffer'[i][1].number < coming[j].number
      BY <1>1, <1>2 DEF InTurn
    <2> QED
      BY ONLY <1>0, <1>1, <2>2, <2>3 DEF InTurn
  <1>5. ASSUME NEW p \in InFlight', p.from = Head(buffer)[1].from
        PROVE  Head(buffer)[1].number < p.number
    <2>1. CASE \E i \in DOMAIN buffer' : p = buffer'[i][1]
      <3>1. PICK i \in DOMAIN buffer' : p = buffer'[i][1]
        BY <2>1
      <3>2. 1 < i + 1
        BY <1>2
      <3> QED
        BY <1>1, <1>2, <1>5, <3>1, <3>2 DEF InTurn
    <2>2. CASE \E i \in DOMAIN coming : p = coming[i]
      BY <1>1, <1>2, <1>5, <2>2 DEF InTurn
    <2> QED
      BY <2>1, <2>2 DEF InFlight
  <1> QED
    BY <1>2, <1>3, <1>4, <1>5

\* The expected packet is taken and its sender no longer awaited, or another is dropped.
LEMMA RxPacketKeeps == BusInv /\ RxPacket => BusInv'
  <1> SUFFICES ASSUME BusInv, RxPacket PROVE BusInv'
    OBVIOUS
  <1> DEFINE packet == Head(buffer)[1]
             asker == Head(awaited)
  <1>1. /\ awaited # <<>> /\ buffer # <<>> /\ buffer' = Tail(buffer) /\ using' = FALSE
        /\ UNCHANGED <<polled, coming, failures, requests, exceptions>>
    BY DEF RxPacket
  <1>2. /\ awaited \in Seq(Sender) /\ polled \in [Sender -> Nat] /\ failures \in Nat
        /\ accepted \in Seq(Sender \X Pkt) /\ IsInjective(awaited) /\ requests \in Nat
    BY DEF BusInv, BusTyped, Bounded
  <1>3. /\ buffer' \in Seq(Pkt \X BOOLEAN) /\ packet \in Pkt
        /\ packet \in InFlight /\ InFlight' \subseteq InFlight /\ InTurn'
        /\ \A p \in InFlight' : p.from = packet.from => packet.number < p.number
    BY <1>1, ReceivedBehind
  <1>4. \A p \in InFlight : p \in Pkt /\ p.from \in Sender /\ p.number \in Nat /\ polled[p.from] \in Nat
    <2>1. \A p \in InFlight : p \in Pkt
      BY DEF InFlight, BusInv, BusTyped
    <2> QED
      BY <1>2, <2>1 DEF Pkt
  <1> HIDE DEF packet
  <1>5. CASE ~IsExpected(packet)
    <2>1. UNCHANGED <<awaited, accepted>>
      BY <1>5 DEF RxPacket, packet
    <2> QED
      BY <1>1, <1>3, <2>1
      DEF BusInv, BusTyped, Bounded, NotFarBehind, AnswersAreRecent
  <1>6. CASE IsExpected(packet)
    <2>1. awaited' = Tail(awaited) /\ accepted' = Append(accepted, <<asker, packet>>)
      BY <1>6 DEF RxPacket, packet
    <2>2. /\ asker \in Sender /\ awaited' \in Seq(Sender) /\ Len(awaited) \in Nat
          /\ DOMAIN awaited = 1..Len(awaited) /\ DOMAIN awaited' = 1..(Len(awaited) - 1)
          /\ asker = awaited[1] /\ 1 \in DOMAIN awaited
          /\ \A i \in DOMAIN awaited' : i + 1 \in DOMAIN awaited /\ awaited'[i] = awaited[i + 1]
      BY <1>1, <1>2, <2>1, TailIndex
    <2> HIDE DEF asker
    <2>3. packet.from = asker
      BY <1>6 DEF IsExpected, asker
    <2>4. IsInjective(awaited')
      <3>1. \A i, j \in DOMAIN awaited' : i + 1 = j + 1 => i = j
        BY <2>2
      <3> QED
        BY <1>2, <2>2, <3>1 DEF IsInjective
    <2>5. \A s : s \in ToSet(awaited) => s \in ToSet(awaited') \/ s = asker
      <3>1. \A i \in DOMAIN awaited : i = 1 \/ (i - 1 \in DOMAIN awaited' /\ (i - 1) + 1 = i)
        BY <2>2
      <3>2. \A i \in DOMAIN awaited : i # 1 => awaited'[i - 1] = awaited[i]
        BY <2>2, <3>1
      <3> QED
        BY <2>2, <3>1, <3>2 DEF ToSet
    <2>6. packet.number <= polled[asker] /\ polled[asker] - packet.number <= failures
      BY <1>3, <2>3 DEF BusInv, NotFarBehind
    <2>7. NotFarBehind'
      <3> SUFFICES ASSUME NEW p \in InFlight'
                   PROVE  /\ p.number <= polled[p.from] /\ polled[p.from] - p.number <= failures
                          /\ p.from \notin ToSet(awaited') => polled[p.from] - p.number < failures
        BY <1>1 DEF NotFarBehind
      <3>1. /\ p.number <= polled[p.from] /\ polled[p.from] - p.number <= failures
            /\ p.from \notin ToSet(awaited) => polled[p.from] - p.number < failures
        BY <1>3 DEF BusInv, NotFarBehind
      <3>2. p.from = asker => polled[p.from] - p.number < failures
        <4>1. p.from = asker => packet.number < p.number /\ packet.number \in Nat
          BY <1>3, <1>4, <2>3
        <4>2. p.number \in Nat /\ polled[p.from] \in Nat
          BY <1>3, <1>4
        <4> QED
          BY <1>2, <2>6, <4>1, <4>2
      <3> QED
        BY <2>5, <3>1, <3>2
    <2>8. AnswersAreRecent'
      <3>1. /\ Len(accepted) \in Nat /\ DOMAIN accepted' = 1..(Len(accepted) + 1)
            /\ DOMAIN accepted = 1..Len(accepted)
            /\ \A i \in DOMAIN accepted : accepted'[i] = accepted[i]
            /\ accepted'[Len(accepted) + 1] = <<asker, packet>>
            /\ \A i \in DOMAIN accepted' : i \in DOMAIN accepted \/ i = Len(accepted) + 1
        BY <1>2, <1>3, <2>1, <2>2, AppendProperties
      <3> SUFFICES ASSUME NEW i \in DOMAIN accepted'
                   PROVE  /\ accepted'[i][2].from = accepted'[i][1]
                          /\ polled[accepted'[i][1]] - accepted'[i][2].number <= failures
        BY <1>1 DEF AnswersAreRecent
      <3>2. CASE i \in DOMAIN accepted
        BY <3>1, <3>2 DEF BusInv, AnswersAreRecent
      <3>3. CASE i = Len(accepted) + 1
        BY <2>3, <2>6, <3>1, <3>3
      <3> QED
        BY <3>1, <3>2, <3>3
    <2>9. BusTyped'
      <3>1. accepted' \in Seq(Sender \X Pkt)
        BY <1>2, <1>3, <2>1, <2>2
      <3> QED
        BY <1>1, <1>3, <2>2, <3>1 DEF BusInv, BusTyped
    <2>10. Bounded'
      <3>1. \A i \in DOMAIN accepted' : accepted'[i][2].number <= requests
        <4>1. /\ Len(accepted) \in Nat /\ DOMAIN accepted' = 1..(Len(accepted) + 1)
              /\ DOMAIN accepted = 1..Len(accepted)
              /\ \A i \in DOMAIN accepted : accepted'[i] = accepted[i]
              /\ accepted'[Len(accepted) + 1] = <<asker, packet>>
          BY <1>2, <1>3, <2>1, <2>2, AppendProperties
        <4>2. packet.number <= requests
          BY <1>2, <1>3, <1>4, <2>2, <2>3, <2>6 DEF BusInv, Bounded
        <4> QED
          BY <4>1, <4>2 DEF BusInv, Bounded
      <3> QED
        BY <1>1, <1>2, <2>4, <3>1 DEF BusInv, Bounded
    <2> QED
      BY <1>3, <2>7, <2>8, <2>9, <2>10 DEF BusInv
  <1> QED
    BY <1>5, <1>6

\* A failure makes up for the packet that was not taken.
LEMMA FailureKeeps == BusInv /\ (RxCorrupt \/ PacketTimeout \/ RxRaises) => BusInv'
  <1> SUFFICES ASSUME BusInv, RxCorrupt \/ PacketTimeout \/ RxRaises PROVE BusInv'
    OBVIOUS
  <1>1. /\ awaited # <<>> /\ awaited' = <<>> /\ failures' = failures + 1
        /\ \/ ~using' /\ exceptions' = exceptions
           \/ exceptions' = exceptions + 1
        /\ using' \in BOOLEAN
        /\ UNCHANGED <<polled, coming, accepted, requests>>
        /\ buffer' = buffer \/ (buffer # <<>> /\ buffer' = Tail(buffer))
    BY DEF RxCorrupt, PacketTimeout, RxRaises, BusInv, BusTyped
  <1>2. buffer' \in Seq(Pkt \X BOOLEAN) /\ InFlight' \subseteq InFlight /\ InTurn'
    <2>1. CASE buffer' = buffer
      BY <1>1, <2>1 DEF BusInv, BusTyped, InFlight, InTurn
    <2>2. CASE buffer # <<>> /\ buffer' = Tail(buffer)
      BY <1>1, <2>2, ReceivedBehind
    <2> QED
      BY <1>1, <2>1, <2>2
  <1>3. BusTyped'
    <2>1. awaited' \in Seq(Sender) /\ failures' \in Nat
      BY <1>1 DEF BusInv, BusTyped
    <2>2. exceptions' \in Nat /\ exceptions' <= failures' /\ (using' => exceptions' > 0)
      <3>1. exceptions \in Nat /\ failures \in Nat /\ exceptions <= failures
        BY DEF BusInv, BusTyped
      <3> QED
        BY <1>1, <3>1
    <2> QED
      BY <1>1, <1>2, <2>1, <2>2 DEF BusInv, BusTyped
  <1>4. Bounded'
    BY <1>1 DEF BusInv, BusTyped, Bounded, IsInjective
  <1>5. NotFarBehind'
    <2>1. \A p \in InFlight : p \in Pkt
      BY DEF InFlight, BusInv, BusTyped
    <2>2. \A p \in InFlight : p.from \in Sender /\ p.number \in Nat /\ polled[p.from] \in Nat
      BY <2>1 DEF Pkt, BusInv, BusTyped
    <2>3. failures \in Nat
      BY DEF BusInv, BusTyped
    <2> QED
      BY <1>1, <1>2, <2>2, <2>3 DEF BusInv, NotFarBehind
  <1>6. AnswersAreRecent'
    <2>1. \A i \in DOMAIN accepted :
            /\ accepted[i][1] \in Sender /\ accepted[i][2].number \in Nat
            /\ polled[accepted[i][1]] \in Nat
      BY DEF BusInv, BusTyped, Pkt
    <2>2. failures \in Nat
      BY DEF BusInv, BusTyped
    <2> QED
      BY <1>1, <2>1, <2>2 DEF BusInv, AnswersAreRecent
  <1> QED
    BY <1>2, <1>3, <1>4, <1>5, <1>6 DEF BusInv

LEMMA BusSteps == BusInv /\ [BusNext]_busVars => BusInv'
  <1> SUFFICES ASSUME BusInv, [BusNext]_busVars PROVE BusInv'
    OBVIOUS
  <1>1. CASE UNCHANGED busVars
    <2>1. InFlight' = InFlight
      BY <1>1 DEF busVars, InFlight
    <2> QED
      BY <1>1, <2>1 DEF busVars, BusInv, BusTyped, Bounded, InTurn, NotFarBehind, AnswersAreRecent
  <1>2. CASE BusNext
    BY <1>2, TxPacketKeeps, TxRaisesKeeps, TxFailsKeeps, ArrivalKeeps, RxPacketKeeps, FailureKeeps DEF BusNext
  <1> QED
    BY <1>1, <1>2

(* How far behind its sender each packet under way may be, in the buffer and on*)
(* the bus, for any number of requests (txRxPacket, GroupSyncRead.rxPacket). *)
LEMMA BusIsInductive == BusSpec => []BusInv
  BY BusStarts, BusSteps, PTL DEF BusSpec

(* A packet that is taken for an answer is from the servo asked, and lags by at*)
(* most one request for each failed transaction, for any order of servos.    *)
THEOREM AnswersAreAlwaysRecent == BusSpec => []AnswersAreRecent
  <1>1. BusInv => AnswersAreRecent
    BY DEF BusInv
  <1> QED
    BY <1>1, BusIsInductive, PTL

(* Types of the bus; between transactions the port is free unless the serial *)
(* port has raised an exception: txPacket and rxPacket release is_using on   *)
(* every path that returns, and on none that raises.                         *)
THEOREM BusIsTyped == BusSpec => []BusTypeOK
  <1>1. BusInv => BusTypeOK
    <2> SUFFICES ASSUME BusInv PROVE BusTypeOK
      OBVIOUS
    <2>1. /\ \A s \in Sender : polled[s] \in Nat /\ polled[s] <= requests
          /\ requests \in Nat /\ requests <= MaxRequests /\ failures \in Nat /\ failures <= requests
      BY DEF BusInv, BusTyped, Bounded
    <2>2. polled \in [Sender -> 0..MaxRequests]
      BY <2>1, BusConstants DEF BusInv, BusTyped
    <2>3. \A p \in Pkt : p.number <= requests => p \in Packet
      BY <2>1, BusConstants DEF Pkt, Packet
    <2>4. \A p \in InFlight : p \in Packet
      <3>1. \A p \in InFlight : p \in Pkt
        BY DEF InFlight, BusInv, BusTyped
      <3>2. \A p \in InFlight : p.number <= requests
        BY <2>1, <3>1 DEF Pkt, BusInv, NotFarBehind
      <3> QED
        BY <2>3, <3>1, <3>2
    <2>5. ToSet(awaited) \subseteq Sender /\ ToSet(coming) \subseteq Packet
      BY <2>4 DEF BusInv, BusTyped, ToSet, InFlight
    <2>6. ToSet(buffer) \subseteq Packet \X BOOLEAN
      <3>1. \A i \in DOMAIN buffer : buffer[i] \in Pkt \X BOOLEAN /\ buffer[i][1] \in Packet
        BY <2>4 DEF BusInv, BusTyped, InFlight
      <3> QED
        BY <3>1 DEF ToSet
    <2>7. ToSet(accepted) \subseteq Sender \X Packet
      <3>1. \A i \in DOMAIN accepted : accepted[i] \in Sender \X Pkt /\ accepted[i][2] \in Packet
        BY <2>3 DEF BusInv, BusTyped, Bounded
      <3> QED
        BY <3>1 DEF ToSet
    <2> QED
      BY <2>1, <2>2, <2>5, <2>6, <2>7, BusConstants DEF BusInv, BusTyped, BusTypeOK
  <1> QED
    BY <1>1, BusIsInductive, PTL
-----------------------------------------------------------------------------
(***************************************************************************)
(* The joint stream, for every queue depth and any number of samples and   *)
(* restarts: what is on the way is in order from the client back to the    *)
(* leader's cache, so no client ever goes back, and every message carries  *)
(* the effort of its own sample.                                           *)
(***************************************************************************)

\* The stamps along the path: client, frame, reading, queue, last, cache.
InOrder ==
  /\ sequence <= clock /\ stamp <= clock /\ last <= stamp
  /\ client <= last /\ reading <= last
  /\ reading # 0 => client <= reading
  /\ \A i \in DOMAIN frames : frames[i] <= reading /\ (frames[i] # 0 => client <= frames[i])
  /\ \A i \in DOMAIN positions :
       /\ reading < positions[i].stamp /\ client < positions[i].stamp
       /\ positions[i].stamp <= last
  /\ \A i, j \in DOMAIN positions : i < j => positions[i].stamp < positions[j].stamp

\* A sample not yet published is newer than all that was; its torque is known or none was sent.
Unpublished ==
  sequence > published =>
    /\ last < stamp
    /\ phase = "read" => commanded = 0
    /\ phase = "publish" => commanded = stamp \/ (variant = "single" /\ commanded = 0)

OwnEffort == \A i \in DOMAIN positions :
               positions[i].effort = positions[i].stamp \/ (variant = "single" /\ positions[i].effort = 0)

\* StreamTypeOK, variable by variable.
StreamTyped ==
  /\ variant \in {"dual", "single"} /\ phase \in {"read", "write", "publish", "ended"}
  /\ clock \in 1..MaxSamples /\ stamp \in 1..MaxSamples /\ sequence \in 1..MaxSamples
  /\ commanded \in 0..MaxSamples /\ published \in 0..MaxSamples
  /\ reading \in 0..MaxSamples /\ client \in 0..MaxSamples /\ last \in 0..MaxSamples
  /\ positions \in Seq(StreamMessage) /\ Len(positions) <= StreamDepth
  /\ linked \in BOOLEAN /\ missed \in BOOLEAN
  /\ frames \in Seq(0..MaxSamples) /\ Len(frames) <= 1
  /\ streamFaults \in 0..MaxStreamFaults

StreamInv == StreamTyped /\ InOrder /\ Unpublished /\ OwnEffort

LEMMA StreamConstants ==
  StreamDepth \in Nat /\ StreamDepth > 0 /\ MaxSamples \in Nat /\ MaxSamples > 0
  /\ MaxStreamFaults \in Nat
  BY StreamAssumption

USE StreamConstants

LEMMA TypedIsTypeOK == StreamTyped => StreamTypeOK
  BY DEF StreamTyped, StreamTypeOK

\* The newest sample enters the queue in order, whether or not an older one is dropped.
LEMMA Queued ==
  ASSUME StreamTyped, InOrder, OwnEffort, NEW msg \in StreamMessage, last < msg.stamp,
         msg.effort = msg.stamp \/ (variant = "single" /\ msg.effort = 0)
  PROVE  LET queue == PutPosition(msg) IN
         /\ queue \in Seq(StreamMessage) /\ Len(queue) <= StreamDepth
         /\ \A i \in DOMAIN queue :
              /\ reading < queue[i].stamp /\ client < queue[i].stamp /\ queue[i].stamp <= msg.stamp
              /\ queue[i].effort = queue[i].stamp \/ (variant = "single" /\ queue[i].effort = 0)
         /\ \A i, j \in DOMAIN queue : i < j => queue[i].stamp < queue[j].stamp
  <1> DEFINE N == Len(positions)
             queue == PutPosition(msg)
  <1> SUFFICES /\ queue \in Seq(StreamMessage) /\ Len(queue) <= StreamDepth
               /\ \A i \in DOMAIN queue :
                    /\ reading < queue[i].stamp /\ client < queue[i].stamp
                    /\ queue[i].stamp <= msg.stamp
                    /\ queue[i].effort = queue[i].stamp \/ (variant = "single" /\ queue[i].effort = 0)
               /\ \A i, j \in DOMAIN queue : i < j => queue[i].stamp < queue[j].stamp
    OBVIOUS
  <1>1. /\ positions \in Seq(StreamMessage) /\ N \in Nat /\ N <= StreamDepth
        /\ DOMAIN positions = 1..N
        /\ \A i \in 1..N : positions[i] \in StreamMessage
    BY DEF StreamTyped
  <1>a. /\ reading \in Nat /\ client \in Nat /\ last \in Nat
        /\ \A m \in StreamMessage : m.stamp \in Nat
    BY DEF StreamTyped, StreamMessage
  <1>2. CASE N < StreamDepth
    <2>1. queue = Append(positions, msg)
      BY <1>2 DEF PutPosition
    <2> HIDE DEF queue
    <2>2. /\ queue \in Seq(StreamMessage) /\ Len(queue) = N + 1 /\ DOMAIN queue = 1..(N + 1)
          /\ \A i \in 1..N : queue[i] = positions[i]
          /\ queue[N + 1] = msg
      BY <1>1, <2>1
    <2>3. \A i \in 1..(N + 1) : i \in 1..N \/ i = N + 1
      BY <1>1
    <2>4. /\ last \in Nat /\ msg.stamp \in Nat /\ last < msg.stamp
          /\ reading <= last /\ client <= last
      BY <1>a DEF InOrder
    <2>5. ASSUME NEW i \in 1..(N + 1)
          PROVE  /\ reading < queue[i].stamp /\ client < queue[i].stamp
                 /\ queue[i].stamp <= msg.stamp
                 /\ queue[i].effort = queue[i].stamp \/ (variant = "single" /\ queue[i].effort = 0)
      <3>1. CASE i \in 1..N
        <4>1. positions[i].stamp \in Nat /\ positions[i].stamp <= last
              /\ reading < positions[i].stamp /\ client < positions[i].stamp
          BY <1>1, <1>a, <3>1 DEF InOrder
        <4>2. positions[i].effort = positions[i].stamp \/ (variant = "single" /\ positions[i].effort = 0)
          BY <1>1, <3>1 DEF OwnEffort
        <4>3. queue[i] = positions[i] /\ positions[i].stamp <= msg.stamp
          BY <2>2, <2>4, <3>1, <4>1
        <4> QED
          BY <4>1, <4>2, <4>3
      <3>2. CASE i = N + 1
        BY <1>a, <2>2, <2>4, <3>2
      <3> QED
        BY <2>3, <3>1, <3>2
    <2>6. ASSUME NEW i \in 1..(N + 1), NEW j \in 1..(N + 1), i < j
          PROVE  queue[i].stamp < queue[j].stamp
      <3>1. i \in 1..N
        BY <1>1, <2>6
      <3>2. CASE j \in 1..N
        BY <1>1, <2>2, <2>6, <3>1, <3>2 DEF InOrder
      <3>3. CASE j = N + 1
        <4>1. positions[i].stamp \in Nat /\ positions[i].stamp <= last
          BY <1>1, <1>a, <3>1 DEF InOrder
        <4> QED
          BY <2>2, <2>4, <3>1, <3>3, <4>1
      <3> QED
        BY <2>3, <3>2, <3>3
    <2> QED
      BY <1>1, <1>2, <2>2, <2>5, <2>6
  <1>3. CASE ~(N < StreamDepth)
    <2>0. queue = Append(Tail(positions), msg)
      BY <1>3 DEF PutPosition
    <2> HIDE DEF queue
    <2>c. StreamDepth \in Nat /\ StreamDepth > 0
      BY StreamConstants
    <2> HIDE DEF N
    <2>1. N = StreamDepth /\ N > 0 /\ N \in Nat
      BY <1>1, <1>3, <2>c
    <2>b. positions # <<>>
      BY <2>1 DEF N
    <2>2. /\ Tail(positions) \in Seq(StreamMessage) /\ Len(Tail(positions)) = N - 1
          /\ \A i \in 1..(N - 1) : Tail(positions)[i] = positions[i + 1]
      BY <1>1, <2>1, <2>b DEF N
    <2>3. /\ queue \in Seq(StreamMessage) /\ Len(queue) = N /\ DOMAIN queue = 1..N
          /\ \A i \in 1..(N - 1) : queue[i] = positions[i + 1]
          /\ queue[N] = msg
      BY <1>1, <2>0, <2>1, <2>2
    <2>4. /\ last \in Nat /\ msg.stamp \in Nat /\ last < msg.stamp
          /\ reading <= last /\ client <= last
      BY <1>a DEF InOrder
    <2>5. ASSUME NEW i \in 1..N
          PROVE  /\ reading < queue[i].stamp /\ client < queue[i].stamp
                 /\ queue[i].stamp <= msg.stamp
                 /\ queue[i].effort = queue[i].stamp \/ (variant = "single" /\ queue[i].effort = 0)
      <3>1. CASE i # N
        <4>0. i \in 1..(N - 1) /\ i + 1 \in 1..N
          BY <2>1, <3>1
        <4>1. positions[i + 1].stamp \in Nat /\ positions[i + 1].stamp <= last
              /\ reading < positions[i + 1].stamp /\ client < positions[i + 1].stamp
          BY <1>1, <1>a, <4>0 DEF InOrder
        <4>2. queue[i] = positions[i + 1]
          BY <2>3, <4>0
        <4>3. positions[i + 1].stamp <= msg.stamp
          BY <2>4, <4>1
        <4> QED
          BY <1>1, <4>0, <4>1, <4>2, <4>3 DEF OwnEffort
      <3>2. CASE i = N
        BY <1>a, <2>3, <2>4, <3>2
      <3> QED
        BY <3>1, <3>2
    <2>6. ASSUME NEW i \in 1..N, NEW j \in 1..N, i < j
          PROVE  queue[i].stamp < queue[j].stamp
      <3>1. i \in 1..(N - 1) /\ i + 1 \in 1..N
        BY <2>1, <2>6
      <3>2. CASE j # N
        <4>1. j \in 1..(N - 1) /\ j + 1 \in 1..N /\ i + 1 < j + 1
          BY <2>1, <2>6, <3>2
        <4>2. positions[i + 1].stamp < positions[j + 1].stamp
          BY <1>1, <3>1, <4>1 DEF InOrder
        <4> QED
          BY <2>3, <3>1, <4>1, <4>2
      <3>3. CASE j = N
        <4>1. positions[i + 1].stamp \in Nat /\ positions[i + 1].stamp <= last
          BY <1>1, <1>a, <3>1 DEF InOrder
        <4>2. positions[i + 1].stamp < msg.stamp
          BY <2>4, <4>1
        <4> QED
          BY <2>3, <3>1, <3>3, <4>2
      <3> QED
        BY <3>2, <3>3
    <2> QED
      BY <1>1, <2>1, <2>3, <2>5, <2>6 DEF N
  <1> QED
    BY <1>2, <1>3

\* The leader's steps other than a publish.
LEMMA LeaderKeepsInv ==
  ASSUME StreamInv,
         \/ StreamRead \/ StreamReadFails \/ StreamWrite \/ StreamWriteFails \/ StreamRestart
  PROVE  StreamInv'
  <1>1. CASE StreamRead
    <2>1. StreamTyped'
      BY <1>1 DEF StreamInv, StreamTyped, InOrder, StreamRead, streamRelay, streamLeader
    <2>2. InOrder'
      BY <1>1 DEF StreamInv, StreamTyped, InOrder, StreamRead, streamRelay, streamLeader
    <2>3. Unpublished' /\ OwnEffort'
      BY <1>1
         DEF StreamInv, StreamTyped, InOrder, Unpublished, OwnEffort, StreamRead, streamRelay,
             streamLeader
    <2> QED
      BY <2>1, <2>2, <2>3 DEF StreamInv
  <1>2. CASE StreamReadFails
    <2>1. StreamTyped'
      BY <1>2 DEF StreamInv, StreamTyped, StreamReadFails, streamRelay, streamLeader
    <2>2. InOrder'
      BY <1>2 DEF StreamInv, StreamTyped, InOrder, StreamReadFails, streamRelay, streamLeader
    <2>3. Unpublished' /\ OwnEffort'
      BY <1>2
         DEF StreamInv, StreamTyped, InOrder, Unpublished, OwnEffort, StreamReadFails, streamRelay,
             streamLeader
    <2> QED
      BY <2>1, <2>2, <2>3 DEF StreamInv
  <1>3. CASE StreamWrite
    <2>1. StreamTyped'
      BY <1>3 DEF StreamInv, StreamTyped, StreamWrite, streamRelay, streamLeader
    <2>2. InOrder'
      BY <1>3 DEF StreamInv, StreamTyped, InOrder, StreamWrite, streamRelay, streamLeader
    <2>3. Unpublished' /\ OwnEffort'
      BY <1>3
         DEF StreamInv, StreamTyped, InOrder, Unpublished, OwnEffort, StreamWrite, streamRelay,
             streamLeader
    <2> QED
      BY <2>1, <2>2, <2>3 DEF StreamInv
  <1>4. CASE StreamWriteFails
    <2>1. StreamTyped'
      BY <1>4 DEF StreamInv, StreamTyped, StreamWriteFails, streamRelay, streamLeader
    <2>2. InOrder'
      BY <1>4 DEF StreamInv, StreamTyped, InOrder, StreamWriteFails, streamRelay, streamLeader
    <2>3. Unpublished' /\ OwnEffort'
      BY <1>4
         DEF StreamInv, StreamTyped, InOrder, Unpublished, OwnEffort, StreamWriteFails, streamRelay,
             streamLeader
    <2> QED
      BY <2>1, <2>2, <2>3 DEF StreamInv
  <1>5. CASE StreamRestart
    <2>1. StreamTyped'
      BY <1>5 DEF StreamInv, StreamTyped, StreamRestart, streamRelay, streamLeader
    <2>2. InOrder'
      BY <1>5 DEF StreamInv, StreamTyped, InOrder, StreamRestart, streamRelay, streamLeader
    <2>3. Unpublished' /\ OwnEffort'
      BY <1>5
         DEF StreamInv, StreamTyped, InOrder, Unpublished, OwnEffort, StreamRestart, streamRelay,
             streamLeader
    <2> QED
      BY <2>1, <2>2, <2>3 DEF StreamInv
  <1> QED
    BY <1>1, <1>2, <1>3, <1>4, <1>5

LEMMA PublishKeepsInv == ASSUME StreamInv, PublishJointPos PROVE StreamInv'
  <1>1. CASE sequence <= published
    BY <1>1 DEF StreamInv, StreamTyped, InOrder, Unpublished, OwnEffort, PublishJointPos, streamRelay
  <1>2. CASE ~(sequence <= published)
    <2> DEFINE msg == [stamp |-> stamp, effort |-> commanded]
    <2>1. /\ positions' = PutPosition(msg) /\ phase' = "read" /\ last' = stamp
          /\ published' = sequence /\ missed' = FALSE
          /\ UNCHANGED <<variant, clock, sequence, stamp, commanded, streamRelay, client,
                         streamFaults>>
      BY <1>2 DEF PublishJointPos
    <2>0. sequence > published /\ phase = "publish"
      BY <1>2 DEF StreamInv, StreamTyped, PublishJointPos
    <2>a. msg \in StreamMessage
      BY DEF StreamInv, StreamTyped, StreamMessage
    <2>2. /\ msg \in StreamMessage /\ last < msg.stamp
          /\ msg.effort = msg.stamp \/ (variant = "single" /\ msg.effort = 0)
      BY <2>0, <2>a DEF StreamInv, Unpublished
    <2>3. /\ positions' \in Seq(StreamMessage) /\ Len(positions') <= StreamDepth
          /\ \A i \in DOMAIN positions' :
               /\ reading < positions'[i].stamp /\ client < positions'[i].stamp
               /\ positions'[i].stamp <= stamp
               /\ positions'[i].effort = positions'[i].stamp
                  \/ (variant = "single" /\ positions'[i].effort = 0)
          /\ \A i, j \in DOMAIN positions' : i < j => positions'[i].stamp < positions'[j].stamp
      BY <2>1, <2>2, Queued DEF StreamInv
    <2>4. StreamTyped'
      <3>1. stamp \in 1..MaxSamples /\ sequence \in 1..MaxSamples /\ StreamTyped
        BY DEF StreamInv, StreamTyped
      <3>2. published' \in 0..MaxSamples /\ last' \in 0..MaxSamples
            /\ phase' \in {"read", "write", "publish", "ended"}
        BY <2>1, <3>1
      <3>3. missed' \in BOOLEAN
        BY <2>1
      <3> QED
        BY <2>1, <2>3, <3>1, <3>2, <3>3 DEF StreamTyped, streamRelay
    <2>5. InOrder'
      BY <2>1, <2>2, <2>3 DEF StreamInv, StreamTyped, InOrder, streamRelay
    <2>6. Unpublished' /\ OwnEffort'
      BY <2>1, <2>3 DEF StreamInv, StreamTyped, Unpublished, OwnEffort
    <2> QED
      BY <2>4, <2>5, <2>6 DEF StreamInv
  <1> QED
    BY <1>1, <1>2

\* The relay takes the oldest message, which is newer than all it had sent on.
LEMMA UpdateKeepsInv == ASSUME StreamInv, UpdateJointPos PROVE StreamInv'
  <1> DEFINE N == Len(positions)
  <1>1. /\ positions \in Seq(StreamMessage) /\ N \in Nat \ {0} /\ DOMAIN positions = 1..N
        /\ \A i \in 1..N : positions[i] \in StreamMessage
    BY DEF StreamInv, StreamTyped, UpdateJointPos
  <1>2. /\ positions' \in Seq(StreamMessage) /\ Len(positions') = N - 1
        /\ DOMAIN positions' = 1..(N - 1)
        /\ \A i \in 1..(N - 1) : positions'[i] = positions[i + 1]
        /\ reading' = positions[1].stamp /\ 1 \in 1..N
    BY <1>1 DEF UpdateJointPos
  <1>3. UNCHANGED <<streamLeader, linked, frames, client, last, missed, streamFaults>>
    BY DEF UpdateJointPos
  <1>4. StreamTyped'
    BY <1>1, <1>2, <1>3 DEF StreamInv, StreamTyped, StreamMessage, streamLeader
  <1>5. InOrder'
    <2>1. \A i \in 1..(N - 1) : i + 1 \in 1..N /\ 1 < i + 1
      BY <1>1
    <2>2. \A i \in 1..N : positions[i].stamp \in Nat
      BY <1>1 DEF StreamMessage
    <2>3. /\ reading \in Nat /\ client \in Nat /\ \A i \in DOMAIN frames : frames[i] \in Nat
      BY DEF StreamInv, StreamTyped
    <2> QED
      <3>1. /\ sequence <= clock /\ stamp <= clock /\ last <= stamp /\ client <= last
            /\ positions[1].stamp <= last /\ client < positions[1].stamp
            /\ reading < positions[1].stamp
        BY <1>1, <1>2 DEF StreamInv, InOrder
      <3>2. \A i \in DOMAIN frames : frames[i] <= reading /\ (frames[i] # 0 => client <= frames[i])
        BY DEF StreamInv, InOrder
      <3>3. \A i \in DOMAIN frames : frames[i] <= positions[1].stamp
        BY <1>2, <2>2, <2>3, <3>1, <3>2
      <3>4. \A i \in 1..(N - 1) :
              /\ positions[1].stamp < positions[i + 1].stamp /\ client < positions[i + 1].stamp
              /\ positions[i + 1].stamp <= last
        BY <1>1, <1>2, <2>1 DEF StreamInv, InOrder
      <3>5. \A i, j \in 1..(N - 1) : i < j => positions[i + 1].stamp < positions[j + 1].stamp
        BY <1>1, <2>1 DEF StreamInv, InOrder
      <3>6. client <= positions[1].stamp
        BY <1>2, <2>2, <2>3, <3>1
      <3> QED
        BY <1>2, <1>3, <3>1, <3>2, <3>3, <3>4, <3>5, <3>6 DEF InOrder, streamLeader
  <1>6. Unpublished' /\ OwnEffort'
    BY <1>1, <1>2, <1>3 DEF StreamInv, Unpublished, OwnEffort, streamLeader
  <1> QED
    BY <1>4, <1>5, <1>6 DEF StreamInv

\* The relay's stream and its client.
LEMMA ClientKeepsInv ==
  ASSUME StreamInv, \/ StreamOpen \/ SendReading \/ TakeReading \/ StreamBreak \/ StreamRelayRestart
  PROVE  StreamInv' /\ client' >= client
  <1> USE DEF StreamInv, streamLeader
  <1>1. CASE StreamOpen
    <2>1. client' = client /\ client \in Nat /\ StreamTyped'
      BY <1>1 DEF StreamTyped, StreamOpen
    <2>2. InOrder'
      BY <1>1 DEF StreamTyped, InOrder, StreamOpen
    <2>3. Unpublished' /\ OwnEffort'
      BY <1>1 DEF Unpublished, OwnEffort, StreamOpen
    <2> QED
      BY <2>1, <2>2, <2>3
  <1>2. CASE SendReading
    <2>1. client' = client /\ client \in Nat /\ StreamTyped'
      BY <1>2 DEF StreamTyped, SendReading
    <2>2. InOrder'
      BY <1>2 DEF StreamTyped, InOrder, SendReading
    <2>3. Unpublished' /\ OwnEffort'
      BY <1>2 DEF Unpublished, OwnEffort, SendReading
    <2> QED
      BY <2>1, <2>2, <2>3
  <1>3. CASE TakeReading
    <2>1. /\ frames' = <<>> /\ Head(frames) = frames[1] /\ 1 \in DOMAIN frames
          /\ frames[1] \in 0..MaxSamples
      BY <1>3 DEF StreamTyped, TakeReading
    <2>2. /\ client' = (IF frames[1] = 0 THEN client ELSE frames[1])
          /\ UNCHANGED <<streamLeader, positions, reading, linked, last, missed, streamFaults>>
      BY <1>3, <2>1 DEF TakeReading
    <2>3. client' \in 0..MaxSamples /\ client' >= client
      BY <2>1, <2>2 DEF StreamTyped, InOrder
    <2>4. StreamTyped'
      BY <2>1, <2>2, <2>3 DEF StreamTyped
    <2>5. InOrder'
      <3>1. client' <= last /\ (reading # 0 => client' <= reading)
        BY <2>1, <2>2 DEF StreamTyped, InOrder
      <3>2. ASSUME NEW i \in DOMAIN positions PROVE client' < positions[i].stamp
        <4>0. positions[i] \in StreamMessage
          BY DEF StreamTyped
        <4>1. positions[i].stamp \in Nat /\ reading \in Nat /\ frames[1] <= reading
          BY <2>1, <4>0 DEF StreamTyped, InOrder, StreamMessage
        <4> QED
          BY <2>1, <2>2, <4>1 DEF InOrder
      <3> QED
        BY <2>1, <2>2, <3>1, <3>2 DEF InOrder
    <2>6. Unpublished' /\ OwnEffort'
      BY <2>2 DEF Unpublished, OwnEffort
    <2> QED
      BY <2>3, <2>4, <2>5, <2>6
  <1>4. CASE StreamBreak
    <2>0. <<>> \in Seq(0..MaxSamples) /\ <<>> \in Seq(StreamMessage) /\ Len(<<>>) = 0
      OBVIOUS
    <2>1. client' = client /\ client \in Nat /\ StreamTyped'
      <3>1. positions' \in Seq(StreamMessage) /\ Len(positions') <= StreamDepth
        BY <1>4, <2>0 DEF StreamTyped, StreamBreak
      <3>2. frames' \in Seq(0..MaxSamples) /\ Len(frames') <= 1
        BY <1>4, <2>0 DEF StreamBreak
      <3>3. streamFaults' \in 0..MaxStreamFaults /\ reading' \in 0..MaxSamples
        BY <1>4 DEF StreamTyped, StreamBreak
      <3>4. linked' \in BOOLEAN
        BY <1>4 DEF StreamBreak
      <3>5. missed' \in BOOLEAN
        BY <1>4 DEF StreamTyped, StreamBreak
      <3> QED
        BY <1>4, <3>1, <3>2, <3>3, <3>4, <3>5 DEF StreamTyped, StreamBreak
    <2>2. InOrder'
      BY <1>4 DEF StreamTyped, InOrder, StreamBreak
    <2>3. Unpublished' /\ OwnEffort'
      BY <1>4 DEF Unpublished, OwnEffort, StreamBreak
    <2> QED
      BY <2>1, <2>2, <2>3
  <1>5. CASE StreamRelayRestart
    <2>0. <<>> \in Seq(0..MaxSamples) /\ <<>> \in Seq(StreamMessage) /\ Len(<<>>) = 0
      OBVIOUS
    <2>1. client' = client /\ client \in Nat /\ StreamTyped'
      <3>1. positions' \in Seq(StreamMessage) /\ Len(positions') <= StreamDepth
        BY <1>5, <2>0 DEF StreamTyped, StreamRelayRestart
      <3>2. frames' \in Seq(0..MaxSamples) /\ Len(frames') <= 1
        BY <1>5, <2>0 DEF StreamRelayRestart
      <3>3. streamFaults' \in 0..MaxStreamFaults /\ reading' \in 0..MaxSamples
        BY <1>5 DEF StreamTyped, StreamRelayRestart
      <3>4. linked' \in BOOLEAN
        BY <1>5 DEF StreamRelayRestart
      <3>5. missed' \in BOOLEAN
        BY <1>5 DEF StreamTyped, StreamRelayRestart
      <3> QED
        BY <1>5, <3>1, <3>2, <3>3, <3>4, <3>5 DEF StreamTyped, StreamRelayRestart
    <2>2. InOrder'
      BY <1>5 DEF StreamTyped, InOrder, StreamRelayRestart
    <2>3. Unpublished' /\ OwnEffort'
      BY <1>5 DEF Unpublished, OwnEffort, StreamRelayRestart
    <2> QED
      BY <2>1, <2>2, <2>3
  <1> QED
    BY <1>1, <1>2, <1>3, <1>4, <1>5

LEMMA StepKeepsInv == ASSUME StreamInv, [StreamNext]_streamVars PROVE StreamInv' /\ client' >= client
  <1>1. CASE StreamRead \/ StreamReadFails \/ StreamWrite \/ StreamWriteFails \/ StreamRestart
    <2>1. client' = client /\ client \in Nat
      BY <1>1 DEF StreamRead, StreamReadFails, StreamWrite, StreamWriteFails, StreamRestart,
                  StreamInv, StreamTyped
    <2> QED
      BY <1>1, <2>1, LeaderKeepsInv
  <1>2. CASE PublishJointPos
    <2>1. client' = client /\ client \in Nat
      BY <1>2 DEF PublishJointPos, StreamInv, StreamTyped
    <2> QED
      BY <1>2, <2>1, PublishKeepsInv
  <1>3. CASE UpdateJointPos
    <2>1. client' = client /\ client \in Nat
      BY <1>3 DEF UpdateJointPos, StreamInv, StreamTyped
    <2> QED
      BY <1>3, <2>1, UpdateKeepsInv
  <1>4. CASE \/ StreamOpen \/ SendReading \/ TakeReading \/ StreamBreak \/ StreamRelayRestart
    BY <1>4, ClientKeepsInv
  <1>5. CASE UNCHANGED streamVars
    BY <1>5 DEF streamVars, streamLeader, streamRelay, StreamInv, StreamTyped, InOrder, Unpublished,
                OwnEffort
  <1> QED
    BY <1>1, <1>2, <1>3, <1>4, <1>5 DEF StreamNext

LEMMA InitInv == StreamInit => StreamInv
  <1> SUFFICES ASSUME StreamInit PROVE StreamInv
    OBVIOUS
  <1>1. <<>> \in Seq(0..MaxSamples) /\ <<>> \in Seq(StreamMessage) /\ Len(<<>>) = 0
        /\ DOMAIN <<>> = {}
    OBVIOUS
  <1>2. StreamTyped
    <2>1. positions \in Seq(StreamMessage) /\ Len(positions) <= StreamDepth
      BY <1>1 DEF StreamInit
    <2>2. frames \in Seq(0..MaxSamples) /\ Len(frames) <= 1
      BY <1>1 DEF StreamInit
    <2>3. linked \in BOOLEAN /\ missed \in BOOLEAN
      BY DEF StreamInit
    <2>4. /\ clock \in 1..MaxSamples /\ stamp \in 1..MaxSamples /\ sequence \in 1..MaxSamples
          /\ commanded \in 0..MaxSamples /\ published \in 0..MaxSamples
          /\ reading \in 0..MaxSamples /\ client \in 0..MaxSamples /\ last \in 0..MaxSamples
          /\ streamFaults \in 0..MaxStreamFaults
      BY DEF StreamInit
    <2>5. variant \in {"dual", "single"} /\ phase \in {"read", "write", "publish", "ended"}
      BY DEF StreamInit
    <2> QED
      BY <2>1, <2>2, <2>3, <2>4, <2>5 DEF StreamTyped
  <1>3. InOrder
    BY <1>1 DEF StreamInit, InOrder
  <1>4. Unpublished /\ OwnEffort
    BY <1>1 DEF StreamInit, Unpublished, OwnEffort
  <1> QED
    BY <1>2, <1>3, <1>4 DEF StreamInv

(* The order of the stamps on the path and the effort of every message hold  *)
(* in every state of every leader, relay and client (raw_joint_state.py,     *)
(* publish_joint_pos, _update_joint_pos).                                    *)
LEMMA StreamInductive == StreamSpec => []StreamInv
  <1>1. StreamInv /\ [StreamNext]_streamVars => StreamInv'
    BY StepKeepsInv
  <1> QED
    BY InitInv, <1>1, PTL DEF StreamSpec

(* The samples on the way keep their types and the queues their bounds.      *)
THEOREM StreamIsTyped == StreamSpec => []StreamTypeOK
  <1>1. StreamInv => StreamTypeOK
    BY TypedIsTypeOK DEF StreamInv
  <1> QED
    BY StreamInductive, <1>1, PTL

(* Each sample is published at most once, in order, with its own effort, for *)
(* every queue depth.                                                        *)
THEOREM OwnEffortPublished == StreamSpec => []PublishesOwnEffort
  <1>1. StreamInv => PublishesOwnEffort
    BY DEF StreamInv, InOrder, OwnEffort, PublishesOwnEffort
  <1> QED
    BY StreamInductive, <1>1, PTL

(* No client ever holds an older sample than it held before, over any number *)
(* of restarts of the leader and of the relay.                               *)
THEOREM NeverGoesBack == StreamSpec => ClientNeverGoesBack
  <1>1. StreamInv /\ [StreamNext]_streamVars => [client' >= client]_client
    BY StepKeepsInv
  <1> QED
    BY StreamInductive, <1>1, PTL DEF StreamSpec, ClientNeverGoesBack

\* The queue ends in the sample published last; the relay has it once the queue is empty.
NewestKept ==
  /\ positions # <<>> => positions[Len(positions)].stamp = last
  /\ positions = <<>> /\ ~missed => reading = last

LEMMA NewestIsQueued ==
  ASSUME StreamTyped, NEW msg \in StreamMessage
  PROVE  PutPosition(msg) # <<>> /\ PutPosition(msg)[Len(PutPosition(msg))] = msg
  <1> DEFINE N == Len(positions)
  <1>1. /\ positions \in Seq(StreamMessage) /\ N \in Nat /\ N <= StreamDepth
    BY DEF StreamTyped
  <1>2. CASE N < StreamDepth
    <2>1. PutPosition(msg) = Append(positions, msg)
      BY <1>2 DEF PutPosition
    <2> QED
      BY <1>1, <2>1
  <1>3. CASE ~(N < StreamDepth)
    <2>1. PutPosition(msg) = Append(Tail(positions), msg) /\ positions # <<>>
      BY <1>1, <1>3 DEF PutPosition
    <2>2. Tail(positions) \in Seq(StreamMessage) /\ Len(Tail(positions)) \in Nat
      BY <1>1, <2>1
    <2> QED
      BY <2>1, <2>2
  <1> QED
    BY <1>2, <1>3

LEMMA NewestStep ==
  ASSUME StreamInv, NewestKept, [StreamNext]_streamVars PROVE NewestKept'
  <1>1. CASE UNCHANGED <<positions, reading, last, missed>>
    BY <1>1 DEF NewestKept
  <1>2. CASE PublishJointPos
    <2>1. CASE sequence <= published
      BY <1>1, <1>2, <2>1 DEF PublishJointPos, streamRelay
    <2>2. CASE ~(sequence <= published)
      <3> DEFINE msg == [stamp |-> stamp, effort |-> commanded]
      <3>1. positions' = PutPosition(msg) /\ last' = stamp
        BY <1>2, <2>2 DEF PublishJointPos
      <3>2. msg \in StreamMessage /\ StreamTyped /\ msg.stamp = stamp
        BY DEF StreamInv, StreamTyped, StreamMessage
      <3> HIDE DEF msg
      <3> QED
        BY <3>1, <3>2, NewestIsQueued DEF NewestKept
    <2> QED
      BY <2>1, <2>2
  <1>3. CASE UpdateJointPos
    <2>1. /\ positions # <<>> /\ reading' = positions[1].stamp /\ positions' = Tail(positions)
          /\ UNCHANGED <<last, missed>>
      BY <1>3 DEF UpdateJointPos, streamLeader
    <2>2. /\ positions \in Seq(StreamMessage) /\ Len(positions) \in Nat /\ Len(positions) > 0
          /\ Tail(positions) \in Seq(StreamMessage) /\ Len(Tail(positions)) = Len(positions) - 1
          /\ \A i \in 1..Len(Tail(positions)) : Tail(positions)[i] = positions[i + 1]
      BY <2>1, HeadTailProperties DEF StreamInv, StreamTyped
    <2>3. CASE Len(positions) = 1
      <3> DEFINE rest == Tail(positions)
      <3>1. rest \in Seq(StreamMessage) /\ Len(rest) = 0
        BY <2>2, <2>3
      <3> HIDE DEF rest
      <3>2. rest = <<>>
        BY <3>1, EmptySeq
      <3> QED
        BY <2>1, <2>3, <3>2 DEF NewestKept, rest
    <2>4. CASE Len(positions) > 1
      <3>1. Tail(positions) # <<>>
        <4> DEFINE rest == Tail(positions)
        <4>1. Len(rest) > 0
          BY <2>2, <2>4
        <4> HIDE DEF rest
        <4>2. rest # <<>>
          BY <4>1
        <4> QED
          BY <4>2 DEF rest
      <3>2. Len(positions) - 1 \in 1..Len(Tail(positions))
        BY <2>2, <2>4
      <3>3. Tail(positions)[Len(positions) - 1] = positions[(Len(positions) - 1) + 1]
        BY <2>2, <3>2
      <3>4. (Len(positions) - 1) + 1 = Len(positions)
        BY <2>2
      <3> QED
        BY <2>1, <2>2, <3>1, <3>3, <3>4 DEF NewestKept
    <2> QED
      BY <2>2, <2>3, <2>4
  <1>4. CASE StreamRelayRestart
    BY <1>4 DEF StreamRelayRestart, NewestKept
  <1>5. CASE \/ StreamRead \/ StreamReadFails \/ StreamWrite \/ StreamWriteFails \/ StreamRestart
             \/ StreamOpen \/ SendReading \/ TakeReading \/ StreamBreak \/ UNCHANGED streamVars
    <2>1. UNCHANGED <<positions, reading, last, missed>>
      BY <1>5 DEF StreamRead, StreamReadFails, StreamWrite, StreamWriteFails, StreamRestart,
                  StreamOpen, SendReading, TakeReading, StreamBreak, streamVars, streamRelay
    <2> QED
      BY <1>1, <2>1
  <1> QED
    BY <1>2, <1>3, <1>4, <1>5 DEF StreamNext

(* Whatever a full queue drops, it is never the sample published last: that  *)
(* is in the queue or is the relay's reading, unless the relay restarted     *)
(* (publish_joint_pos, _update_joint_pos).  What NewestReachesClient needs   *)
(* besides is that the relay and the client go on.                           *)
THEOREM NewestIsKept == StreamSpec => []NewestKept
  <1>1. StreamInit => NewestKept
    BY DEF StreamInit, NewestKept
  <1>2. StreamInv /\ NewestKept /\ [StreamNext]_streamVars => NewestKept'
    BY NewestStep
  <1> QED
    BY StreamInductive, <1>1, <1>2, PTL DEF StreamSpec
=============================================================================
