-------------------------- MODULE EventLedgerProofs --------------------------
(***************************************************************************)
(* The event ledger, for any number of drivers, events, sessions, broken   *)
(* connections and exceptions, and for every size of ring and history.     *)
(***************************************************************************)
EXTENDS EventLedger, FiniteSetTheorems, SequenceTheorems, TLAPS

\* The list holds the last events up to the given one, as many as a ring keeps.
EndsAt(list, last) ==
  /\ list \in Seq(1..MaxEvents)
  /\ Len(list) = IF last <= RingSize THEN last ELSE RingSize
  /\ \A i \in 1..Len(list) : list[i] = last - Len(list) + i

LedgerTyped ==
  /\ session \in Session /\ sampled \in BOOLEAN
  /\ occurred \in [Session -> [Board -> Nat]]
  /\ connected \in BOOLEAN /\ fresh \in BOOLEAN /\ stale \in BOOLEAN /\ changed \in BOOLEAN
  /\ logged \in [Session -> [Board -> 0..MaxEvents]]
  /\ shown \in Seq(Event) /\ history \in Seq(Event) /\ document \in Seq(Event)
  /\ happened \in 0..MaxEvents /\ raises \in 0..MaxRaises /\ drops \in 0..MaxDrops

\* The rings hold the last events of the running session, and later sessions have none.
RingsAreRecent ==
  /\ ring \in [Board -> Seq(1..MaxEvents)]
  /\ \A s \in Session, b \in Board : /\ occurred[s][b] <= happened
                                     /\ s > session => occurred[s][b] = 0
  /\ \A b \in Board : EndsAt(ring[b], occurred[session][b])

\* A message is a snapshot of all rings at some moment of its session.
IsSnapshot(message) ==
  message # Nothing =>
    /\ message \in Frame /\ message.session <= session
    /\ \A b \in Board : \E last \in 0..occurred[message.session][b] :
         EndsAt(message.events[b], last)

Before(message, other) ==
  message # Nothing /\ other # Nothing => message.session <= other.session

\* Nothing overtakes: the nearer a message is to the viewer, the older its session.
ChannelsInOrder ==
  /\ IsSnapshot(topic) /\ IsSnapshot(telemetry) /\ IsSnapshot(socket)
  /\ Before(socket, telemetry) /\ Before(socket, topic) /\ Before(telemetry, topic)

ShownIsOldest ==
  \A i \in 1..Len(shown) :
    /\ shown[i].session <= session
    /\ \A message \in {topic, telemetry, socket} :
         message # Nothing => shown[i].session <= message.session

\* Where _log_dynamixel is: what it has passed in this driver's list is not newer than newest.
LoopInv ==
  /\ board \in 0..(NumBoards + 1) /\ newest \in 0..MaxEvents
  /\ board # 0 => socket # Nothing
  /\ board \notin Board => index = 0
  /\ board \in Board => /\ index \in 0..Len(Retained)
                        /\ \A j \in 1..index : Retained[j] <= newest

\* The watermark of a driver, in the loop over its events the one to be.
Mark(s, b) == IF board = b /\ socket.session = s THEN newest ELSE logged[s][b]

\* An event past the watermark was logged only by a loop that an exception cut short.
OncePerRaise ==
  \A e \in Event :
    Times(e) <= raises + (IF e.sequence <= Mark(e.session, e.board) THEN 1 ELSE 0)

Ordered ==
  \A i, j \in 1..Len(shown) :
    (i < j /\ shown[i].board = shown[j].board) =>
      \/ shown[i].session < shown[j].session
      \/ shown[i].session = shown[j].session /\ shown[i].sequence < shown[j].sequence

OrderedUnlessRaised ==
  raises = 0 =>
    /\ Ordered
    /\ \A i \in 1..Len(shown) : shown[i].sequence <= Mark(shown[i].session, shown[i].board)

\* Every event up to a mark is in the viewer or was evicted.
Covered(s, b, mark) ==
  \A n \in 1..mark : \/ Times([board |-> b, session |-> s, sequence |-> n]) > 0
                     \/ n + RingSize <= occurred[s][b]

MarksAreCovered ==
  \A s \in Session, b \in Board : Covered(s, b, logged[s][b]) /\ Covered(s, b, Mark(s, b))

Documented ==
  /\ history = Suffix(shown)
  /\ board = 0 => ~changed
  /\ ~changed => stale \/ document = Suffix(shown)

LedgerInv ==
  /\ LedgerTyped /\ RingsAreRecent /\ ChannelsInOrder /\ ShownIsOldest /\ LoopInv
  /\ OncePerRaise /\ OrderedUnlessRaised /\ MarksAreCovered /\ Documented

LEMMA LedgerConstants ==
  /\ NumBoards \in Nat /\ NumBoards > 0 /\ LedgerSize \in Nat /\ LedgerSize > 0
  /\ MaxSessions \in Nat /\ MaxSessions > 0 /\ RingSize \in Nat /\ RingSize > 0
  /\ MaxEvents \in Nat /\ MaxDrops \in Nat /\ MaxRaises \in Nat
  BY LedgerAssumption, RingAssumption

\* A ring that takes the next event ends at it.
LEMMA RingTakesNext ==
  ASSUME NEW list, NEW last \in Nat, EndsAt(list, last), last + 1 <= MaxEvents
  PROVE  EndsAt(Pushed(list, last + 1), last + 1)
  <1> DEFINE event == last + 1
  <1>1. list \in Seq(1..MaxEvents) /\ event \in 1..MaxEvents /\ Len(list) \in Nat
    BY LedgerConstants, LenProperties DEF EndsAt
  <1>2. CASE Len(list) < RingSize
    <2>1. /\ Append(list, event) \in Seq(1..MaxEvents)
          /\ Len(Append(list, event)) = Len(list) + 1
          /\ \A i \in 1..(Len(list) + 1) :
               Append(list, event)[i] = IF i <= Len(list) THEN list[i] ELSE event
      BY <1>1, AppendProperties
    <2>2. Len(list) = last /\ last < RingSize
      BY <1>2, LedgerConstants DEF EndsAt
    <2>3. \A i \in 1..(Len(list) + 1) : Append(list, event)[i] = event - (Len(list) + 1) + i
      BY <1>1, <2>1, <2>2 DEF EndsAt
    <2> QED
      BY <1>2, <2>1, <2>2, <2>3, LedgerConstants DEF EndsAt, Pushed
  <1>3. CASE ~(Len(list) < RingSize)
    <2>1. Len(list) = RingSize /\ RingSize <= last
      BY <1>1, <1>3, LedgerConstants DEF EndsAt
    <2>2. /\ Tail(list) \in Seq(1..MaxEvents) /\ Len(Tail(list)) = RingSize - 1
          /\ \A i \in 1..(RingSize - 1) : Tail(list)[i] = list[i + 1]
      BY <1>1, <2>1, LedgerConstants
    <2> DEFINE tail == Tail(list)
    <2>3. tail \in Seq(1..MaxEvents) /\ Len(tail) = RingSize - 1
      BY <2>2
    <2>4. /\ Append(tail, event) \in Seq(1..MaxEvents) /\ Len(Append(tail, event)) = RingSize
          /\ \A i \in 1..RingSize : Append(tail, event)[i] = IF i <= RingSize - 1 THEN tail[i] ELSE event
      <3> HIDE DEF tail
      <3> QED
        BY <1>1, <2>3, AppendProperties, LedgerConstants
    <2>5. \A i \in 1..(RingSize - 1) : tail[i] = last - RingSize + (i + 1)
      <3> SUFFICES ASSUME NEW i \in 1..(RingSize - 1) PROVE tail[i] = last - RingSize + (i + 1)
        OBVIOUS
      <3>1. tail[i] = list[i + 1] /\ i + 1 \in 1..Len(list)
        BY <2>1, <2>2, LedgerConstants
      <3> HIDE DEF tail
      <3> QED
        BY <2>1, <3>1 DEF EndsAt
    <2>6. Pushed(list, event) = Append(tail, event)
      BY <1>3 DEF Pushed
    <2>7. event = last + 1 /\ event \in Nat
      OBVIOUS
    <2> DEFINE pushed == Append(tail, event)
    <2> HIDE DEF tail, event, pushed
    <2>8. \A i \in 1..RingSize : pushed[i] = event - RingSize + i
      <3> SUFFICES ASSUME NEW i \in 1..RingSize PROVE pushed[i] = event - RingSize + i
        OBVIOUS
      <3>1. CASE i <= RingSize - 1
        BY <2>4, <2>5, <2>7, <3>1, LedgerConstants DEF pushed
      <3>2. CASE ~(i <= RingSize - 1)
        <4>1. i = RingSize
          BY <3>2, LedgerConstants
        <4>2. pushed[i] = event
          BY <2>4, <3>2 DEF pushed
        <4> QED
          BY <2>7, <4>1, <4>2, LedgerConstants
      <3> QED
        BY <3>1, <3>2
    <2>9. event > RingSize /\ pushed \in Seq(1..MaxEvents) /\ Len(pushed) = RingSize
      BY <2>1, <2>4, <2>7, LedgerConstants DEF pushed
    <2>10. EndsAt(pushed, event)
      BY <2>7, <2>8, <2>9, LedgerConstants DEF EndsAt
    <2> QED
      BY <2>6, <2>10 DEF pushed, event
  <1> QED
    BY <1>2, <1>3

LEMMA TimesIsNat ==
  ASSUME shown \in Seq(Event), NEW e
  PROVE  Times(e) \in Nat /\ IsFiniteSet({i \in DOMAIN shown : shown[i] = e})
  <1>1. DOMAIN shown = 1..Len(shown) /\ Len(shown) \in Nat
    BY LenProperties
  <1>2. IsFiniteSet(1..Len(shown))
    BY <1>1, FS_Interval
  <1>3. IsFiniteSet({i \in DOMAIN shown : shown[i] = e})
    BY <1>1, <1>2, FS_Subset
  <1> QED
    BY <1>3, FS_CardinalityType DEF Times

\* An event that is logged is there once more, the others as often as before.
LEMMA TimesOfLogged ==
  ASSUME shown \in Seq(Event), NEW x \in Event, shown' = Append(shown, x), NEW e
  PROVE  Times(e) \in Nat /\ Times(e)' = Times(e) + (IF e = x THEN 1 ELSE 0)
  <1> DEFINE old == {i \in DOMAIN shown : shown[i] = e}
             n == Len(shown)
  <1>1. DOMAIN shown = 1..n /\ n \in Nat
    BY LenProperties
  <1>2. /\ shown' \in Seq(Event) /\ Len(shown') = n + 1
        /\ \A i \in 1..(n + 1) : shown'[i] = IF i <= n THEN shown[i] ELSE x
    BY AppendProperties
  <1>3. DOMAIN shown' = 1..(n + 1)
    BY <1>2, LenProperties
  <1>4. IsFiniteSet(old) /\ Times(e) = Cardinality(old) /\ Times(e) \in Nat
    BY TimesIsNat DEF Times
  <1>5. n + 1 \notin old
    BY <1>1
  <1>6. {i \in DOMAIN shown' : shown'[i] = e} = IF e = x THEN old \union {n + 1} ELSE old
    <2>1. ASSUME NEW i
          PROVE  (i \in DOMAIN shown' /\ shown'[i] = e)
                   <=> (i \in old \/ (i = n + 1 /\ e = x))
      BY <1>1, <1>2, <1>3
    <2> HIDE DEF old, n
    <2> QED
      BY <2>1
  <1>7. Times(e)' = Cardinality({i \in DOMAIN shown' : shown'[i] = e})
    BY DEF Times
  <1>8. Cardinality(old \union {n + 1}) = Cardinality(old) + 1
    BY <1>4, <1>5, FS_AddElement
  <1> HIDE DEF old, n
  <1>9. Times(e)' = Times(e) + (IF e = x THEN 1 ELSE 0)
    <2>1. CASE e = x
      BY <1>4, <1>6, <1>7, <1>8, <2>1
    <2>2. CASE e # x
      <3>1. Times(e)' = Cardinality(old)
        BY <1>6, <1>7, <2>2
      <3> QED
        BY <1>4, <2>2, <3>1
    <2> QED
      BY <2>1, <2>2
  <1> QED
    BY <1>4, <1>9

LEMMA ShownAreEvents ==
  ASSUME shown \in Seq(Event)
  PROVE  \A i \in 1..Len(shown) :
           /\ shown[i] \in Event /\ shown[i].session \in Session /\ shown[i].session \in Nat
           /\ shown[i].board \in Board /\ shown[i].sequence \in 1..MaxEvents
  <1>1. \A i \in 1..Len(shown) : shown[i] \in Event
    BY ElementOfSeq
  <1>2. \A e \in Event : /\ e.session \in Session /\ e.session \in Nat
                        /\ e.board \in Board /\ e.sequence \in 1..MaxEvents
    BY DEF Event, Session
  <1> QED
    BY <1>1, <1>2

LEMMA SuffixProperties ==
  ASSUME NEW s \in Seq(Event)
  PROVE  /\ Suffix(s) \in Seq(Event)
         /\ Len(Suffix(s)) = IF Len(s) < LedgerSize THEN Len(s) ELSE LedgerSize
         /\ \A i \in 1..Len(Suffix(s)) : Suffix(s)[i] = s[Len(s) - Len(Suffix(s)) + i]
  <1> DEFINE kept == IF Len(s) < LedgerSize THEN Len(s) ELSE LedgerSize
             first == Len(s) - kept + 1
  <1>1. \A n \in Nat : LET k == IF n < LedgerSize THEN n ELSE LedgerSize
                       IN k \in Nat /\ k <= n /\ n - k + 1 \in Nat \ {0}
    BY LedgerConstants
  <1>2. Len(s) \in Nat /\ kept \in Nat /\ kept <= Len(s) /\ first \in Nat \ {0} /\ Suffix(s) = SubSeq(s, first, Len(s))
    BY <1>1, LenProperties DEF Suffix
  <1>3. \A i \in first..Len(s) : s[i] \in Event
    <2> HIDE DEF first
    <2> QED
      BY <1>2, ElementOfSeq
  <1> HIDE DEF kept
  <1>4. first <= Len(s) \/ kept = 0
    BY <1>2
  <1> DEFINE size == Len(s)
  <1>5. /\ SubSeq(s, first, size) \in Seq(Event)
        /\ Len(SubSeq(s, first, size)) = IF first <= size THEN size - first + 1 ELSE 0
        /\ \A i \in 1..(size - first + 1) : SubSeq(s, first, size)[i] = s[first + i - 1]
    <2> HIDE DEF first, size
    <2> QED
      BY <1>2, <1>3, SubSeqProperties DEF size
  <1>6. Len(SubSeq(s, first, size)) = kept
    BY <1>2, <1>4, <1>5
  <1>7. \A i \in 1..kept : SubSeq(s, first, size)[i] = s[size - kept + i]
    BY <1>2, <1>5
  <1> QED
    BY <1>2, <1>5, <1>6, <1>7 DEF kept

LEMMA SuffixEntries ==
  ASSUME NEW s \in Seq(Event), NEW n, NEW k, Len(s) = n, Len(Suffix(s)) = k
  PROVE  \A i \in 1..k : Suffix(s)[i] = s[n - k + i]
  BY SuffixProperties

\* What is dropped from the history would not have been in it later.
LEMMA HistoryIsSuffix ==
  ASSUME NEW s \in Seq(Event), NEW x \in Event
  PROVE  Suffix(Append(Suffix(s), x)) = Suffix(Append(s, x))
  <1> DEFINE a == Append(Suffix(s), x)
             b == Append(s, x)
             m == Len(Suffix(s))
             n == Len(s)
  <1>1. /\ Suffix(s) \in Seq(Event) /\ m \in Nat /\ n \in Nat
        /\ m = IF n < LedgerSize THEN n ELSE LedgerSize
        /\ \A i \in 1..m : Suffix(s)[i] = s[n - m + i]
    BY SuffixProperties, LenProperties
  <1>2. a \in Seq(Event) /\ Len(a) = m + 1 /\ \A i \in 1..(m + 1) : a[i] = IF i <= m THEN Suffix(s)[i] ELSE x
    BY <1>1, AppendProperties
  <1>3. b \in Seq(Event) /\ Len(b) = n + 1 /\ \A i \in 1..(n + 1) : b[i] = IF i <= n THEN s[i] ELSE x
    BY <1>1, AppendProperties
  <1>4. \A i \in 1..(m + 1) : a[i] = b[n - m + i]
    <2> SUFFICES ASSUME NEW i \in 1..(m + 1) PROVE a[i] = b[n - m + i]
      OBVIOUS
    <2> HIDE DEF a, b, m, n
    <2>1. n - m + i \in 1..(n + 1) /\ (i <= m <=> n - m + i <= n)
      BY <1>1, LedgerConstants
    <2>2. CASE i <= m
      BY <1>1, <1>2, <1>3, <2>1, <2>2 DEF n, m
    <2>3. CASE ~(i <= m)
      BY <1>1, <1>2, <1>3, <2>1, <2>3
    <2> QED
      BY <2>2, <2>3
  <1> HIDE DEF a, b, m, n
  <1> DEFINE k == IF n + 1 < LedgerSize THEN n + 1 ELSE LedgerSize
  <1>5. k \in Nat /\ k <= m + 1 /\ k <= n + 1 /\ k = IF m + 1 < LedgerSize THEN m + 1 ELSE LedgerSize
    BY <1>1, LedgerConstants
  <1>6. /\ Suffix(a) \in Seq(Event) /\ Len(Suffix(a)) = k
        /\ \A i \in 1..k : Suffix(a)[i] = a[(m + 1) - k + i]
    <2> HIDE DEF k
    <2>1. Suffix(a) \in Seq(Event) /\ Len(Suffix(a)) = k
      BY <1>2, <1>5, SuffixProperties
    <2>2. a \in Seq(Event) /\ Len(a) = m + 1
      BY <1>2
    <2>3. \A i \in 1..k : Suffix(a)[i] = a[(m + 1) - k + i]
      BY <2>1, <2>2, SuffixEntries
    <2> QED
      BY <2>1, <2>3
  <1>7. /\ Suffix(b) \in Seq(Event) /\ Len(Suffix(b)) = k
        /\ \A i \in 1..k : Suffix(b)[i] = b[(n + 1) - k + i]
    <2>1. Suffix(b) \in Seq(Event) /\ Len(Suffix(b)) = k
      BY <1>3, SuffixProperties
    <2> HIDE DEF k
    <2>2. b \in Seq(Event) /\ Len(b) = n + 1
      BY <1>3
    <2>3. \A i \in 1..k : Suffix(b)[i] = b[(n + 1) - k + i]
      BY <2>1, <2>2, SuffixEntries
    <2> QED
      BY <2>1, <2>3
  <1>8. \A i \in 1..k : Suffix(a)[i] = Suffix(b)[i]
    <2> SUFFICES ASSUME NEW i \in 1..k PROVE Suffix(a)[i] = Suffix(b)[i]
      OBVIOUS
    <2> HIDE DEF k
    <2>0. m \in Nat /\ n \in Nat /\ k \in Nat /\ k <= m + 1
      BY <1>1, <1>5
    <2>1. (m + 1) - k + i \in 1..(m + 1) /\ n - m + ((m + 1) - k + i) = (n + 1) - k + i
      BY ONLY <2>0, i \in 1..k
    <2> QED
      BY <1>4, <1>6, <1>7, <2>1
  <1>9. Suffix(a) = Suffix(b)
    BY <1>6, <1>7, <1>8, SeqEqual
  <1> QED
    BY <1>9 DEF a, b
-----------------------------------------------------------------------------
LEMMA LedgerStarts == Init => LedgerInv
  <1> SUFFICES ASSUME Init PROVE LedgerInv
    OBVIOUS
  <1>1. Session = 1..MaxSessions /\ 1 \in Session /\ Board = 1..NumBoards
    BY LedgerConstants DEF Session, Board
  <1>2. LedgerTyped
    <2>1. /\ session \in Session /\ sampled \in BOOLEAN /\ connected \in BOOLEAN
          /\ fresh \in BOOLEAN /\ stale \in BOOLEAN /\ changed \in BOOLEAN
      BY <1>1 DEF Init
    <2>2. occurred \in [Session -> [Board -> Nat]] /\ logged \in [Session -> [Board -> 0..MaxEvents]]
      BY LedgerConstants DEF Init, Unmarked
    <2>3. /\ shown \in Seq(Event) /\ history \in Seq(Event) /\ document \in Seq(Event)
          /\ happened \in 0..MaxEvents /\ raises \in 0..MaxRaises /\ drops \in 0..MaxDrops
      BY LedgerConstants DEF Init
    <2> QED
      BY <2>1, <2>2, <2>3 DEF LedgerTyped
  <1>3. EndsAt(<<>>, 0)
    BY LedgerConstants DEF EndsAt
  <1>4. RingsAreRecent
    BY <1>1, <1>3, LedgerConstants DEF Init, RingsAreRecent, Unmarked, NoEvents
  <1>5. ChannelsInOrder /\ ShownIsOldest /\ LoopInv
    BY <1>1, LedgerConstants DEF Init, ChannelsInOrder, IsSnapshot, Before, ShownIsOldest, LoopInv
  <1>6. \A e : Times(e) = 0
    <2>1. \A e : {i \in DOMAIN shown : shown[i] = e} = {}
      BY DEF Init
    <2> QED
      BY <2>1, FS_EmptySet DEF Times
  <1>7. OncePerRaise
    <2>1. \A e \in Event : raises = 0 /\ Times(e) = 0
      BY <1>6 DEF Init
    <2> QED
      BY <2>1 DEF OncePerRaise
  <1>8. OrderedUnlessRaised
    BY DEF Init, OrderedUnlessRaised, Ordered
  <1>9. \A s \in Session, b \in Board : logged[s][b] = 0 /\ Mark(s, b) = 0
    BY DEF Init, Unmarked, Mark
  <1>10. MarksAreCovered
    BY <1>9 DEF MarksAreCovered, Covered
  <1>11. <<>> = Suffix(<<>>)
    <2>1. <<>> \in Seq(Event)
      OBVIOUS
    <2>2. Suffix(<<>>) \in Seq(Event) /\ Len(Suffix(<<>>)) = 0
      BY <2>1, SuffixProperties, LedgerConstants
    <2> QED
      BY <2>2, EmptySeq
  <1>12. Documented
    BY <1>11 DEF Init, Documented
  <1> QED
    BY <1>2, <1>4, <1>5, <1>7, <1>8, <1>10, <1>12 DEF LedgerInv
-----------------------------------------------------------------------------
\* What the other processes do leaves the loop, the marks and the viewer alone.
LEMMA OthersKeepViewer ==
  ASSUME LedgerInv, UNCHANGED <<loopVars, logged, viewerVars, raises>>,
         board # 0 => UNCHANGED socket,
         \A s \in Session, b \in Board : occurred[s][b] <= occurred'[s][b] /\ occurred'[s][b] \in Nat
  PROVE  LoopInv' /\ OncePerRaise' /\ OrderedUnlessRaised' /\ MarksAreCovered' /\ Documented'
  <1>1. /\ UNCHANGED board /\ UNCHANGED index /\ UNCHANGED newest /\ UNCHANGED changed
        /\ UNCHANGED logged /\ UNCHANGED raises
        /\ UNCHANGED history /\ UNCHANGED shown /\ UNCHANGED document /\ UNCHANGED stale
    BY DEF loopVars, viewerVars
  <1>2. \A b \in Board : b # 0
    BY DEF Board
  <1>3. \A s \in Session, b \in Board : Mark(s, b)' = Mark(s, b)
    BY <1>1, <1>2 DEF Mark
  <1>4. \A e : Times(e)' = Times(e)
    BY <1>1 DEF Times
  <1>5. LoopInv'
    BY <1>1, <1>2 DEF LedgerInv, LoopInv, Retained
  <1>6. OncePerRaise'
    <2>1. \A e \in Event : e.session \in Session /\ e.board \in Board
      BY DEF Event
    <2> QED
      BY <1>1, <1>3, <1>4, <2>1 DEF LedgerInv, OncePerRaise
  <1>7. OrderedUnlessRaised'
    <2>1. \A i \in 1..Len(shown) : shown[i].session \in Session /\ shown[i].board \in Board
      BY ShownAreEvents DEF LedgerInv, LedgerTyped
    <2> QED
      BY <1>1, <1>3, <2>1 DEF LedgerInv, OrderedUnlessRaised, Ordered
  <1>8. MarksAreCovered'
    <2> SUFFICES ASSUME NEW s \in Session, NEW b \in Board
                 PROVE  Covered(s, b, logged[s][b])' /\ Covered(s, b, Mark(s, b))'
      BY DEF MarksAreCovered
    <2>1. Covered(s, b, logged[s][b]) /\ Covered(s, b, Mark(s, b))
      BY DEF LedgerInv, MarksAreCovered
    <2>2. /\ occurred[s][b] \in Nat /\ occurred'[s][b] \in Nat /\ occurred[s][b] <= occurred'[s][b]
          /\ RingSize \in Nat
      BY LedgerConstants DEF LedgerInv, LedgerTyped
    <2>3. \A n \in Nat : n + RingSize <= occurred[s][b] => n + RingSize <= occurred'[s][b]
      BY <2>2
    <2>4. logged'[s][b] = logged[s][b] /\ Mark(s, b)' = Mark(s, b)
      BY <1>1, <1>3
    <2> QED
      BY <1>4, <2>1, <2>3, <2>4 DEF Covered
  <1>9. Documented'
    BY <1>1 DEF LedgerInv, Documented
  <1> QED
    BY <1>5, <1>6, <1>7, <1>8, <1>9

\* A snapshot stays one while sessions and events go on.
LEMMA SnapshotsStay ==
  ASSUME LedgerInv, NEW message, IsSnapshot(message), session' \in Session, session <= session',
         \A s \in Session, b \in Board : occurred[s][b] <= occurred'[s][b] /\ occurred'[s][b] \in Nat
  PROVE  message # Nothing =>
           /\ message \in Frame /\ message.session <= session'
           /\ \A b \in Board : \E last \in 0..occurred'[message.session][b] :
                EndsAt(message.events[b], last)
  <1> SUFFICES ASSUME message # Nothing
               PROVE  /\ message \in Frame /\ message.session <= session'
                      /\ \A b \in Board : \E last \in 0..occurred'[message.session][b] :
                           EndsAt(message.events[b], last)
    OBVIOUS
  <1>1. message \in Frame /\ message.session \in Session /\ message.session <= session
    BY DEF IsSnapshot, Frame
  <1>2. session \in 1..MaxSessions /\ session' \in 1..MaxSessions
    BY DEF LedgerInv, LedgerTyped, Session
  <1>3. message.session <= session'
    BY <1>1, <1>2, LedgerConstants DEF Session
  <1>4. ASSUME NEW b \in Board
        PROVE  \E last \in 0..occurred'[message.session][b] : EndsAt(message.events[b], last)
    <2>1. PICK last \in 0..occurred[message.session][b] : EndsAt(message.events[b], last)
      BY DEF IsSnapshot
    <2>2. /\ occurred[message.session][b] \in Nat /\ occurred'[message.session][b] \in Nat
          /\ occurred[message.session][b] <= occurred'[message.session][b]
      BY <1>1 DEF LedgerInv, LedgerTyped
    <2>3. last \in 0..occurred'[message.session][b]
      BY <2>1, <2>2
    <2> QED
      BY <2>1, <2>3
  <1> QED
    BY <1>1, <1>3, <1>4

LEMMA OccurKeeps == ASSUME LedgerInv, NEW b \in Board, Occur(b) PROVE LedgerInv'
  <1>1. /\ occurred \in [Session -> [Board -> Nat]] /\ session \in Session /\ happened \in Nat
        /\ happened < MaxEvents /\ happened' = happened + 1 /\ MaxEvents \in Nat
        /\ occurred[session][b] \in Nat /\ occurred[session][b] <= happened
    BY LedgerConstants DEF LedgerInv, LedgerTyped, RingsAreRecent, Occur
  <1>2. /\ occurred' = [occurred EXCEPT ![session][b] = @ + 1]
        /\ ring' = [ring EXCEPT ![b] = Pushed(@, occurred[session][b] + 1)]
    BY DEF Occur
  <1>3. /\ UNCHANGED session /\ UNCHANGED sampled /\ UNCHANGED topic
        /\ UNCHANGED telemetry /\ UNCHANGED connected /\ UNCHANGED fresh /\ UNCHANGED socket
        /\ UNCHANGED <<loopVars, logged, viewerVars, raises>>
        /\ UNCHANGED logged /\ UNCHANGED raises /\ UNCHANGED drops /\ UNCHANGED changed
        /\ UNCHANGED history /\ UNCHANGED shown /\ UNCHANGED document /\ UNCHANGED stale
    BY DEF Occur, relayVars, sidecarVars, loopVars, viewerVars
  <1>4. /\ occurred' \in [Session -> [Board -> Nat]]
        /\ \A s \in Session, c \in Board :
             occurred'[s][c] = IF s = session /\ c = b THEN occurred[s][c] + 1 ELSE occurred[s][c]
    BY <1>1, <1>2
  <1>5. \A s \in Session, c \in Board : occurred[s][c] <= occurred'[s][c] /\ occurred'[s][c] \in Nat
    BY <1>1, <1>4
  <1>6. LedgerTyped'
    BY <1>1, <1>3, <1>4 DEF LedgerInv, LedgerTyped
  <1>7. RingsAreRecent'
    <2>1. EndsAt(Pushed(ring[b], occurred[session][b] + 1), occurred[session][b] + 1)
      BY <1>1, RingTakesNext DEF LedgerInv, RingsAreRecent
    <2>2. \A c \in Board : EndsAt(ring'[c], occurred'[session'][c])
      BY <1>1, <1>2, <1>3, <1>4, <2>1 DEF LedgerInv, RingsAreRecent
    <2>3. ring' \in [Board -> Seq(1..MaxEvents)]
      <3>1. Pushed(ring[b], occurred[session][b] + 1) \in Seq(1..MaxEvents)
        BY <2>1 DEF EndsAt
      <3> QED
        BY <1>2, <3>1 DEF LedgerInv, RingsAreRecent
    <2>4. \A s \in Session, c \in Board : /\ occurred'[s][c] <= happened'
                                          /\ s > session' => occurred'[s][c] = 0
      <3> SUFFICES ASSUME NEW s \in Session, NEW c \in Board
                   PROVE  occurred'[s][c] <= happened' /\ (s > session' => occurred'[s][c] = 0)
        OBVIOUS
      <3>1. /\ occurred[s][c] \in Nat /\ occurred[s][c] <= happened
            /\ s > session => occurred[s][c] = 0
        BY <1>1 DEF LedgerInv, RingsAreRecent
      <3>2. s \in Nat /\ session \in Nat
        BY <1>1 DEF Session
      <3> QED
        BY <1>1, <1>3, <1>4, <3>1, <3>2
    <2> QED
      BY <2>2, <2>3, <2>4 DEF RingsAreRecent
  <1>8. ChannelsInOrder'
    <2>1. IsSnapshot(topic) /\ IsSnapshot(telemetry) /\ IsSnapshot(socket) /\ session <= session'
      BY <1>1, <1>3 DEF LedgerInv, ChannelsInOrder, Session
    <2>2. IsSnapshot(topic)' /\ IsSnapshot(telemetry)' /\ IsSnapshot(socket)'
      BY <1>1, <1>3, <1>5, <2>1, SnapshotsStay DEF IsSnapshot
    <2> QED
      BY <1>3, <2>2 DEF LedgerInv, ChannelsInOrder, Before
  <1>9. ShownIsOldest'
    BY <1>3 DEF LedgerInv, ShownIsOldest
  <1>10. LoopInv' /\ OncePerRaise' /\ OrderedUnlessRaised' /\ MarksAreCovered' /\ Documented'
    BY <1>3, <1>5, OthersKeepViewer
  <1> QED
    BY <1>6, <1>7, <1>8, <1>9, <1>10 DEF LedgerInv

LEMMA LeaderRestartKeeps == ASSUME LedgerInv, LeaderRestart PROVE LedgerInv'
  <1>1. /\ session' = session + 1 /\ session \in Session /\ session' \in Session
        /\ session \in Nat /\ ring' = NoEvents /\ sampled' = FALSE
    BY LedgerConstants DEF LedgerInv, LedgerTyped, LeaderRestart, Session
  <1>2. /\ UNCHANGED occurred /\ UNCHANGED happened /\ UNCHANGED topic
        /\ UNCHANGED telemetry /\ UNCHANGED connected /\ UNCHANGED fresh /\ UNCHANGED socket
        /\ UNCHANGED <<loopVars, logged, viewerVars, raises>>
        /\ UNCHANGED logged /\ UNCHANGED raises /\ UNCHANGED drops /\ UNCHANGED changed
        /\ UNCHANGED history /\ UNCHANGED shown /\ UNCHANGED document /\ UNCHANGED stale
    BY DEF LeaderRestart, relayVars, sidecarVars, loopVars, viewerVars
  <1>3. \A s \in Session, c \in Board :
          /\ occurred[s][c] \in Nat /\ occurred[s][c] <= occurred'[s][c] /\ occurred'[s][c] \in Nat
    BY <1>2 DEF LedgerInv, LedgerTyped
  <1>4. LedgerTyped'
    BY <1>1, <1>2 DEF LedgerInv, LedgerTyped
  <1>5. RingsAreRecent'
    <2>1. EndsAt(<<>>, 0)
      BY LedgerConstants DEF EndsAt
    <2>2. \A c \in Board : ring'[c] = <<>> /\ occurred'[session'][c] = 0
      BY <1>1, <1>2 DEF NoEvents, LedgerInv, RingsAreRecent
    <2>3. ring' \in [Board -> Seq(1..MaxEvents)]
      BY <1>1 DEF NoEvents
    <2>4. \A s \in Session : s > session' => s > session
      BY <1>1 DEF Session
    <2> QED
      BY <1>2, <2>1, <2>2, <2>3, <2>4 DEF LedgerInv, RingsAreRecent
  <1>6. ChannelsInOrder'
    <2>1. IsSnapshot(topic) /\ IsSnapshot(telemetry) /\ IsSnapshot(socket) /\ session <= session'
      BY <1>1 DEF LedgerInv, ChannelsInOrder
    <2>2. IsSnapshot(topic)' /\ IsSnapshot(telemetry)' /\ IsSnapshot(socket)'
      BY <1>1, <1>2, <1>3, <2>1, SnapshotsStay DEF IsSnapshot
    <2> QED
      BY <1>2, <2>2 DEF LedgerInv, ChannelsInOrder, Before
  <1>7. ShownIsOldest'
    <2>1. \A i \in 1..Len(shown) : shown[i].session \in Nat
      BY ShownAreEvents DEF LedgerInv, LedgerTyped
    <2>2. \A i \in 1..Len(shown) : shown[i].session <= session'
      BY <1>1, <2>1 DEF LedgerInv, ShownIsOldest
    <2> QED
      BY <1>2, <2>2 DEF LedgerInv, ShownIsOldest
  <1>8. LoopInv' /\ OncePerRaise' /\ OrderedUnlessRaised' /\ MarksAreCovered' /\ Documented'
    BY <1>2, <1>3, OthersKeepViewer
  <1> QED
    BY <1>4, <1>5, <1>6, <1>7, <1>8 DEF LedgerInv

\* Steps that leave the leader's rings alone.
LEMMA RingsKept ==
  ASSUME LedgerInv, UNCHANGED <<session, occurred, ring, happened>>
  PROVE  /\ RingsAreRecent'
         /\ \A s \in Session, b \in Board :
              occurred[s][b] <= occurred'[s][b] /\ occurred'[s][b] \in Nat
         /\ \A message : IsSnapshot(message) /\ message # Nothing =>
              /\ message \in Frame /\ message.session <= session'
              /\ \A b \in Board : \E last \in 0..occurred'[message.session][b] :
                   EndsAt(message.events[b], last)
  <1>1. RingsAreRecent'
    BY DEF LedgerInv, RingsAreRecent
  <1>2. \A s \in Session, b \in Board :
          occurred[s][b] <= occurred'[s][b] /\ occurred'[s][b] \in Nat
    BY DEF LedgerInv, LedgerTyped
  <1>3. \A message : IsSnapshot(message) /\ message # Nothing =>
              /\ message \in Frame /\ message.session <= session'
              /\ \A b \in Board : \E last \in 0..occurred'[message.session][b] :
                   EndsAt(message.events[b], last)
    BY DEF IsSnapshot
  <1> QED
    BY <1>1, <1>2, <1>3

LEMMA CaptureKeeps == ASSUME LedgerInv, Capture PROVE LedgerInv'
  <1>1. sampled' = TRUE /\ UNCHANGED <<session, occurred, ring, happened, topic, telemetry>>
        /\ UNCHANGED <<socket, connected, fresh, drops>> /\ UNCHANGED <<loopVars, logged, viewerVars, raises>>
    BY DEF Capture, relayVars, sidecarVars
  <1>2. UNCHANGED <<changed, history, shown, document, stale>>
    BY <1>1 DEF loopVars, viewerVars
  <1>3. LedgerTyped'
    <2>1. sampled' \in BOOLEAN
      BY <1>1
    <2> QED
      BY <1>1, <1>2, <2>1 DEF LedgerInv, LedgerTyped
  <1>4. ChannelsInOrder' /\ ShownIsOldest'
    BY <1>1, <1>2 DEF LedgerInv, ChannelsInOrder, IsSnapshot, Before, ShownIsOldest
  <1> QED
    BY <1>1, <1>3, <1>4, RingsKept, OthersKeepViewer DEF LedgerInv

LEMMA PublishTelemetryKeeps == ASSUME LedgerInv, PublishTelemetry PROVE LedgerInv'
  <1>1. topic' = [session |-> session, events |-> ring]
    BY DEF PublishTelemetry
  <1>2. UNCHANGED <<session, occurred, ring, sampled, happened, telemetry>>
        /\ UNCHANGED <<socket, connected, fresh, drops>> /\ UNCHANGED <<loopVars, logged, viewerVars, raises>>
    BY DEF PublishTelemetry, leaderVars, relayVars, sidecarVars
  <1>3. UNCHANGED <<changed, history, shown, document, stale>>
    BY <1>2 DEF loopVars, viewerVars
  <1>4. LedgerTyped'
    BY <1>2, <1>3 DEF LedgerInv, LedgerTyped
  <1>5. /\ topic' \in Frame /\ topic'.session = session /\ topic'.events = ring
        /\ session \in Session
    BY <1>1 DEF LedgerInv, LedgerTyped, RingsAreRecent, Frame
  <1>6. IsSnapshot(topic)'
    <2>1. session <= session'
      BY <1>2 DEF LedgerInv, LedgerTyped, Session
    <2>2. ASSUME NEW b \in Board
          PROVE  \E last \in 0..occurred'[topic'.session][b] : EndsAt(topic'.events[b], last)
      <3>1. EndsAt(ring[b], occurred[session][b]) /\ occurred[session][b] \in Nat
        BY <1>5 DEF LedgerInv, LedgerTyped, RingsAreRecent
      <3> QED
        BY <1>2, <1>5, <3>1
    <2> QED
      BY <1>5, <2>1, <2>2 DEF IsSnapshot
  <1>7. \A message : IsSnapshot(message) /\ message # Nothing => message.session <= topic'.session
    BY <1>5 DEF IsSnapshot
  <1>8. ChannelsInOrder'
    BY <1>2, <1>6, <1>7 DEF LedgerInv, ChannelsInOrder, IsSnapshot, Before
  <1>9. ShownIsOldest'
    BY <1>2, <1>3, <1>5 DEF LedgerInv, ShownIsOldest
  <1> QED
    BY <1>2, <1>4, <1>8, <1>9, RingsKept, OthersKeepViewer DEF LedgerInv

\* Each channel passes on what the one before it held, or loses it.
LEMMA RelayKeeps ==
  ASSUME LedgerInv, UpdateTelemetry \/ Connect \/ SendTelemetry \/ Disconnect \/ RelayRestart
  PROVE  LedgerInv'
  <1>1. UNCHANGED <<session, occurred, ring, sampled, happened>>
        /\ UNCHANGED <<loopVars, logged, viewerVars, raises>>
    BY DEF UpdateTelemetry, Connect, SendTelemetry, Disconnect, RelayRestart, leaderVars, sidecarVars
  <1>2. UNCHANGED <<board, changed, history, shown, document, stale>>
    BY <1>1 DEF loopVars, viewerVars
  <1>3. connected' \in BOOLEAN
    BY DEF UpdateTelemetry, Connect, SendTelemetry, Disconnect, RelayRestart, LedgerInv, LedgerTyped
  <1>4. fresh' \in BOOLEAN
    BY DEF UpdateTelemetry, Connect, SendTelemetry, Disconnect, RelayRestart, LedgerInv, LedgerTyped, relayVars
  <1>5. drops' \in 0..MaxDrops
    BY LedgerConstants
    DEF UpdateTelemetry, Connect, SendTelemetry, Disconnect, RelayRestart, LedgerInv, LedgerTyped
  <1>6. LedgerTyped'
    BY <1>1, <1>2, <1>3, <1>4, <1>5 DEF LedgerInv, LedgerTyped
  <1>7. /\ socket' = socket \/ socket' = Nothing \/ (socket' = telemetry /\ telemetry' = telemetry)
        /\ telemetry' = telemetry \/ telemetry' = Nothing \/ (telemetry' = topic /\ topic' = Nothing)
        /\ topic' = topic \/ topic' = Nothing
        /\ socket' = socket \/ topic' = topic \/ socket' = Nothing
    BY DEF UpdateTelemetry, Connect, SendTelemetry, Disconnect, RelayRestart, Received
  <1>8. ChannelsInOrder'
    <2>1. IsSnapshot(socket)'
      BY <1>1, <1>7 DEF LedgerInv, ChannelsInOrder, IsSnapshot
    <2>2. IsSnapshot(telemetry)'
      BY <1>1, <1>7 DEF LedgerInv, ChannelsInOrder, IsSnapshot
    <2>3. IsSnapshot(topic)'
      BY <1>1, <1>7 DEF LedgerInv, ChannelsInOrder, IsSnapshot
    <2>4. telemetry # Nothing => telemetry.session <= telemetry.session
      BY DEF LedgerInv, ChannelsInOrder, IsSnapshot, Frame, Session
    <2>5. Before(socket, telemetry) /\ Before(socket, topic) /\ Before(telemetry, topic)
      BY DEF LedgerInv, ChannelsInOrder
    <2>6. Before(socket, telemetry)'
      BY <1>7, <2>4, <2>5 DEF Before
    <2>7. Before(socket, topic)' /\ Before(telemetry, topic)'
      BY <1>7, <2>5 DEF Before
    <2> QED
      BY <2>1, <2>2, <2>3, <2>6, <2>7 DEF ChannelsInOrder
  <1>9. ShownIsOldest'
    BY <1>1, <1>2, <1>7 DEF LedgerInv, ShownIsOldest
  <1>10. board # 0 => UNCHANGED socket
    BY DEF UpdateTelemetry, Connect, SendTelemetry, Disconnect, RelayRestart, Received, LedgerInv, LoopInv
  <1> QED
    BY <1>1, <1>6, <1>8, <1>9, <1>10, RingsKept, OthersKeepViewer DEF LedgerInv
-----------------------------------------------------------------------------
\* The sidecar's steps leave leader and relay alone; the frame is kept or done with.
LEMMA ChannelsKept ==
  ASSUME LedgerInv, UNCHANGED <<leaderVars, topic, telemetry>>, socket' = socket \/ socket' = Nothing
  PROVE  /\ RingsAreRecent' /\ ChannelsInOrder'
         /\ shown' = shown \/ shown' = <<>> => ShownIsOldest'
         /\ UNCHANGED <<session, occurred, ring, sampled, happened>>
         /\ session \in Session /\ \A s \in Session, b \in Board : occurred[s][b] \in Nat
  <1>1. UNCHANGED <<session, occurred, ring, sampled, happened>>
    BY DEF leaderVars
  <1>2. RingsAreRecent'
    BY <1>1 DEF LedgerInv, RingsAreRecent
  <1>3. IsSnapshot(topic)' /\ IsSnapshot(telemetry)' /\ IsSnapshot(socket)'
    BY <1>1 DEF LedgerInv, ChannelsInOrder, IsSnapshot
  <1>4. Before(socket, telemetry)' /\ Before(socket, topic)' /\ Before(telemetry, topic)'
    BY DEF LedgerInv, ChannelsInOrder, Before
  <1>5. ChannelsInOrder'
    BY <1>3, <1>4 DEF ChannelsInOrder
  <1>6. shown' = shown \/ shown' = <<>> => ShownIsOldest'
    <2>1. Len(<<>>) = 0
      OBVIOUS
    <2>2. shown' = <<>> => ShownIsOldest'
      BY <2>1 DEF ShownIsOldest
    <2>3. shown' = shown => ShownIsOldest'
      BY <1>1 DEF LedgerInv, ShownIsOldest
    <2> QED
      BY <2>2, <2>3
  <1>7. session \in Session /\ \A s \in Session, b \in Board : occurred[s][b] \in Nat
    BY DEF LedgerInv, LedgerTyped
  <1> QED
    BY <1>1, <1>2, <1>5, <1>6, <1>7

\* Nothing is logged and every mark stays where it is.
LEMMA MarksStay ==
  ASSUME LedgerInv, UNCHANGED <<shown, raises, occurred>>,
         logged' \in [Session -> [Board -> 0..MaxEvents]],
         \A s \in Session, b \in Board :
           Mark(s, b)' = Mark(s, b) /\ (logged'[s][b] = logged[s][b] \/ logged'[s][b] = Mark(s, b))
  PROVE  OncePerRaise' /\ OrderedUnlessRaised' /\ MarksAreCovered'
  <1>1. \A e : Times(e)' = Times(e)
    BY DEF Times
  <1>2. OncePerRaise'
    <2>1. \A e \in Event : e.session \in Session /\ e.board \in Board
      BY DEF Event
    <2> QED
      BY <1>1, <2>1 DEF LedgerInv, OncePerRaise
  <1>3. OrderedUnlessRaised'
    <2>1. \A i \in 1..Len(shown) : shown[i].session \in Session /\ shown[i].board \in Board
      BY ShownAreEvents DEF LedgerInv, LedgerTyped
    <2> QED
      BY <2>1 DEF LedgerInv, OrderedUnlessRaised, Ordered
  <1>4. MarksAreCovered'
    BY <1>1 DEF LedgerInv, MarksAreCovered, Covered
  <1> QED
    BY <1>2, <1>3, <1>4

LEMMA PublishSampleKeeps == ASSUME LedgerInv, PublishSample PROVE LedgerInv'
  <1>1. /\ board = 0 /\ board' = 1 /\ index' = 0 /\ changed' = FALSE /\ socket # Nothing
        /\ newest' = logged[socket.session][1]
        /\ UNCHANGED <<leaderVars, topic, telemetry, socket, connected, fresh>>
        /\ UNCHANGED <<logged, history, shown, document, stale, raises, drops>>
    BY DEF PublishSample, relayVars, viewerVars
  <1>2. socket \in Frame /\ socket.session \in Session /\ 1 \in Board /\ 0 \notin Board
    BY <1>1, LedgerConstants DEF LedgerInv, ChannelsInOrder, IsSnapshot, Frame, Board
  <1>3. UNCHANGED <<session, occurred, ring, sampled, happened>>
        /\ RingsAreRecent' /\ ChannelsInOrder' /\ ShownIsOldest'
    BY <1>1, ChannelsKept
  <1>4. LedgerTyped'
    <2>1. changed' \in BOOLEAN
      BY <1>1
    <2> QED
      BY <1>1, <1>3, <2>1 DEF LedgerInv, LedgerTyped
  <1>5. newest' \in 0..MaxEvents
    BY <1>1, <1>2 DEF LedgerInv, LedgerTyped
  <1>6. LoopInv'
    <2>1. socket'.events \in [Board -> Seq(1..MaxEvents)]
      BY <1>1, <1>2 DEF Frame
    <2>2. Len(Retained') \in Nat
      <3>1. socket'.events[1] \in Seq(1..MaxEvents)
        BY <1>2, <2>1
      <3> QED
        BY <1>1, <3>1, LenProperties DEF Retained
    <2>3. board' \in 0..(NumBoards + 1)
      BY <1>1, LedgerConstants
    <2> QED
      BY <1>1, <1>2, <1>5, <2>2, <2>3 DEF LoopInv
  <1>7. \A s \in Session, b \in Board : Mark(s, b)' = Mark(s, b) /\ logged'[s][b] = logged[s][b]
    BY <1>1, <1>2 DEF Mark
  <1>8. OncePerRaise' /\ OrderedUnlessRaised' /\ MarksAreCovered'
    BY <1>1, <1>3, <1>7, MarksStay DEF LedgerInv, LedgerTyped
  <1>9. Documented'
    BY <1>1 DEF LedgerInv, Documented
  <1> QED
    BY <1>3, <1>4, <1>6, <1>8, <1>9 DEF LedgerInv

LEMMA StoreWatermarkKeeps == ASSUME LedgerInv, StoreWatermark PROVE LedgerInv'
  <1>1. /\ board \in Board /\ board' = board + 1 /\ index' = 0
        /\ logged' = [logged EXCEPT ![socket.session][board] = newest]
        /\ newest' = IF board < NumBoards THEN logged[socket.session][board + 1] ELSE 0
        /\ UNCHANGED <<leaderVars, topic, telemetry, socket, connected, fresh>>
        /\ UNCHANGED <<changed, history, shown, document, stale, raises, drops>>
    BY DEF StoreWatermark, relayVars, viewerVars
  <1>2. /\ board \in Nat /\ 1 <= board /\ board <= NumBoards /\ NumBoards \in Nat
        /\ Board = 1..NumBoards
    BY <1>1, LedgerConstants DEF Board
  <1>3. socket # Nothing /\ socket \in Frame /\ socket.session \in Session
    BY <1>1, <1>2 DEF LedgerInv, LoopInv, ChannelsInOrder, IsSnapshot, Frame
  <1>4. UNCHANGED <<session, occurred, ring, sampled, happened>>
        /\ RingsAreRecent' /\ ChannelsInOrder' /\ ShownIsOldest'
    BY <1>1, ChannelsKept
  <1>5. /\ logged \in [Session -> [Board -> 0..MaxEvents]] /\ newest \in 0..MaxEvents
        /\ logged' \in [Session -> [Board -> 0..MaxEvents]]
        /\ \A s \in Session, b \in Board :
             logged'[s][b] = IF s = socket.session /\ b = board THEN newest ELSE logged[s][b]
    BY <1>1, <1>3 DEF LedgerInv, LedgerTyped, LoopInv
  <1>6. LedgerTyped'
    BY <1>1, <1>4, <1>5 DEF LedgerInv, LedgerTyped
  <1>7. newest' \in 0..MaxEvents
    <2>1. board < NumBoards => board + 1 \in Board
      BY <1>2
    <2> QED
      BY <1>1, <1>3, <1>5, <2>1, LedgerConstants
  <1>8. LoopInv'
    <2>1. socket'.events \in [Board -> Seq(1..MaxEvents)]
      BY <1>1, <1>3 DEF Frame
    <2>2. board' \in Board => Len(Retained') \in Nat
      <3>1. board' \in Board => socket'.events[board'] \in Seq(1..MaxEvents)
        BY <2>1
      <3> QED
        BY <3>1, LenProperties DEF Retained
    <2>3. board' \in 0..(NumBoards + 1)
      BY <1>1, <1>2
    <2>4. socket' # Nothing /\ index' = 0
      BY <1>1, <1>3
    <2> QED
      BY <1>7, <2>2, <2>3, <2>4 DEF LoopInv
  <1>9. ASSUME NEW s \in Session, NEW b \in Board
        PROVE  Mark(s, b)' = Mark(s, b) /\ (logged'[s][b] = logged[s][b] \/ logged'[s][b] = Mark(s, b))
    <2>1. Mark(s, b) = IF b = board /\ s = socket.session THEN newest ELSE logged[s][b]
      BY DEF Mark
    <2>2. Mark(s, b)' = IF b = board + 1 /\ s = socket.session THEN newest' ELSE logged'[s][b]
      BY <1>1 DEF Mark
    <2>3. b = board + 1 => board < NumBoards /\ b # board
      BY <1>2
    <2> QED
      BY <1>1, <1>5, <2>1, <2>2, <2>3
  <1>10. OncePerRaise' /\ OrderedUnlessRaised' /\ MarksAreCovered'
    BY <1>1, <1>4, <1>5, <1>9, MarksStay
  <1>11. Documented'
    <2>1. board # 0 /\ board' # 0
      BY <1>1, <1>2
    <2> QED
      BY <1>1, <2>1 DEF LedgerInv, Documented
  <1> QED
    BY <1>4, <1>6, <1>8, <1>10, <1>11 DEF LedgerInv

LEMMA LogEventLedgerKeeps == ASSUME LedgerInv, LogEventLedger PROVE LedgerInv'
  <1>1. /\ board = NumBoards + 1 /\ board \notin Board
        /\ board' = 0 /\ 0 \notin Board /\ index' = 0 /\ newest' = 0 /\ changed' = FALSE
        /\ socket' = Nothing
    BY LedgerConstants DEF LogEventLedger, Published, Board
  <1>2. /\ UNCHANGED <<leaderVars, topic, telemetry, connected, fresh>>
        /\ UNCHANGED <<logged, history, shown, raises, drops>>
    BY DEF LogEventLedger
  <1>3. /\ changed => document' = history /\ stale' = FALSE
        /\ ~changed => document' = document /\ stale' = stale
    BY DEF LogEventLedger
  <1>4. UNCHANGED <<session, occurred, ring, sampled, happened>>
        /\ RingsAreRecent' /\ ChannelsInOrder' /\ ShownIsOldest'
    BY <1>1, <1>2, ChannelsKept
  <1>5. LedgerTyped'
    <2>1. changed \in BOOLEAN /\ document \in Seq(Event) /\ history \in Seq(Event) /\ stale \in BOOLEAN
      BY DEF LedgerInv, LedgerTyped
    <2>2. document' \in Seq(Event)
      BY <1>3, <2>1
    <2>3. changed' \in BOOLEAN
      BY <1>1
    <2>4. stale' \in BOOLEAN
      BY <1>3, <2>1
    <2> QED
      BY <1>2, <1>4, <2>2, <2>3, <2>4 DEF LedgerInv, LedgerTyped
  <1>6. LoopInv'
    BY <1>1, LedgerConstants DEF LoopInv
  <1>7. \A s \in Session, b \in Board : Mark(s, b)' = Mark(s, b) /\ logged'[s][b] = logged[s][b]
    BY <1>1, <1>2 DEF Mark
  <1>8. OncePerRaise' /\ OrderedUnlessRaised' /\ MarksAreCovered'
    BY <1>2, <1>4, <1>7, MarksStay DEF LedgerInv, LedgerTyped
  <1>9. Documented'
    <2>1. history = Suffix(shown) /\ (~changed => stale \/ document = Suffix(shown))
      BY DEF LedgerInv, Documented
    <2>2. stale' \/ document' = Suffix(shown)
      BY <1>3, <2>1
    <2>3. history' = Suffix(shown') /\ Suffix(shown') = Suffix(shown)
      BY <1>2, <2>1
    <2> QED
      BY <1>1, <2>2, <2>3 DEF Documented
  <1> QED
    BY <1>4, <1>5, <1>6, <1>8, <1>9 DEF LedgerInv

LEMMA PublishRaisesKeeps == ASSUME LedgerInv, PublishRaises PROVE LedgerInv'
  <1>1. /\ board' = 0 /\ 0 \notin Board /\ index' = 0 /\ newest' = 0 /\ changed' = FALSE
        /\ socket' = Nothing
    BY DEF PublishRaises, Published, Board
  <1>2. /\ UNCHANGED <<leaderVars, topic, telemetry, connected, fresh>>
        /\ UNCHANGED <<logged, history, shown, document, drops>>
    BY DEF PublishRaises
  <1>3. raises \in Nat /\ raises' = raises + 1 /\ raises' \in 0..MaxRaises
    BY LedgerConstants DEF PublishRaises, LedgerInv, LedgerTyped
  <1>4. stale' = (stale \/ changed)
    BY DEF PublishRaises
  <1>5. UNCHANGED <<session, occurred, ring, sampled, happened>>
        /\ RingsAreRecent' /\ ChannelsInOrder' /\ ShownIsOldest'
    BY <1>1, <1>2, ChannelsKept
  <1>6. LedgerTyped'
    <2>1. changed' \in BOOLEAN
      BY <1>1
    <2>2. stale' \in BOOLEAN
      BY <1>4
    <2> QED
      BY <1>2, <1>3, <1>5, <2>1, <2>2 DEF LedgerInv, LedgerTyped
  <1>7. LoopInv'
    BY <1>1, LedgerConstants DEF LoopInv
  <1>8. \A s \in Session, b \in Board : Mark(s, b)' = logged[s][b] /\ logged'[s][b] = logged[s][b]
    BY <1>1, <1>2 DEF Mark
  <1>9. \A e : Times(e)' = Times(e) /\ Times(e) \in Nat
    BY <1>2, TimesIsNat DEF Times, LedgerInv, LedgerTyped
  <1>10. OncePerRaise'
    <2> SUFFICES ASSUME NEW e \in Event
                 PROVE  Times(e)' <= raises' + (IF e.sequence <= Mark(e.session, e.board)' THEN 1 ELSE 0)
      BY DEF OncePerRaise
    <2>1. Times(e) <= raises + 1
      BY <1>3, <1>9 DEF LedgerInv, OncePerRaise
    <2> QED
      BY <1>3, <1>9, <2>1
  <1>11. OrderedUnlessRaised'
    BY <1>3 DEF OrderedUnlessRaised
  <1>12. MarksAreCovered'
    <2> SUFFICES ASSUME NEW s \in Session, NEW b \in Board
                 PROVE  Covered(s, b, logged[s][b])' /\ Covered(s, b, Mark(s, b))'
      BY DEF MarksAreCovered
    <2>1. Covered(s, b, logged[s][b])
      BY DEF LedgerInv, MarksAreCovered
    <2> QED
      BY <1>5, <1>8, <1>9, <2>1 DEF Covered
  <1>13. Documented'
    <2>1. history = Suffix(shown) /\ (~changed => stale \/ document = Suffix(shown))
      BY DEF LedgerInv, Documented
    <2>2. stale' \/ document' = Suffix(shown)
      BY <1>2, <1>4, <2>1
    <2>3. history' = Suffix(shown') /\ Suffix(shown') = Suffix(shown)
      BY <1>2, <2>1
    <2> QED
      BY <1>1, <2>2, <2>3 DEF Documented
  <1> QED
    BY <1>5, <1>6, <1>7, <1>10, <1>11, <1>12, <1>13 DEF LedgerInv

LEMMA SidecarRestartKeeps == ASSUME LedgerInv, SidecarRestart PROVE LedgerInv'
  <1>1. /\ board' = 0 /\ 0 \notin Board /\ index' = 0 /\ newest' = 0 /\ changed' = FALSE
        /\ socket' = Nothing /\ connected' = FALSE /\ fresh' = FALSE /\ stale' = FALSE
        /\ logged' = Unmarked /\ history' = <<>> /\ shown' = <<>> /\ document' = <<>>
    BY DEF SidecarRestart, Published, Board
  <1>2. UNCHANGED <<leaderVars, topic, telemetry, raises>>
    BY DEF SidecarRestart
  <1>3. UNCHANGED <<session, occurred, ring, sampled, happened>>
        /\ RingsAreRecent' /\ ChannelsInOrder' /\ ShownIsOldest'
    BY <1>1, <1>2, ChannelsKept
  <1>4. LedgerTyped'
    <2>1. drops' \in 0..MaxDrops
      BY LedgerConstants DEF SidecarRestart, LedgerInv, LedgerTyped
    <2>2. connected' \in BOOLEAN /\ fresh' \in BOOLEAN /\ stale' \in BOOLEAN /\ changed' \in BOOLEAN
      BY <1>1
    <2>3. logged' \in [Session -> [Board -> 0..MaxEvents]]
      BY <1>1, LedgerConstants DEF Unmarked
    <2>4. shown' \in Seq(Event) /\ history' \in Seq(Event) /\ document' \in Seq(Event)
      BY <1>1
    <2>5. raises' = raises /\ raises \in 0..MaxRaises
      BY <1>2 DEF LedgerInv, LedgerTyped
    <2> QED
      BY <1>3, <2>1, <2>2, <2>3, <2>4, <2>5 DEF LedgerInv, LedgerTyped
  <1>5. LoopInv'
    BY <1>1, LedgerConstants DEF LoopInv
  <1>6. \A e : Times(e)' = 0
    <2>1. \A e : {i \in DOMAIN shown' : shown'[i] = e} = {}
      BY <1>1
    <2> QED
      BY <2>1, FS_EmptySet DEF Times
  <1>7. \A s \in Session, b \in Board : logged'[s][b] = 0 /\ Mark(s, b)' = 0
    BY <1>1 DEF Unmarked, Mark
  <1>8. OncePerRaise'
    <2>1. \A e \in Event : e.session \in Session /\ e.board \in Board
      BY DEF Event
    <2>2. raises' \in Nat
      BY <1>2 DEF LedgerInv, LedgerTyped
    <2> QED
      BY <1>6, <1>7, <2>1, <2>2 DEF OncePerRaise
  <1>9. OrderedUnlessRaised'
    BY <1>1 DEF OrderedUnlessRaised, Ordered
  <1>10. MarksAreCovered'
    BY <1>7 DEF MarksAreCovered, Covered
  <1>11. Documented'
    <2>1. Suffix(<<>>) = <<>>
      <3>1. <<>> \in Seq(Event)
        OBVIOUS
      <3>2. Suffix(<<>>) \in Seq(Event) /\ Len(Suffix(<<>>)) = 0
        BY <3>1, SuffixProperties, LedgerConstants
      <3> QED
        BY <3>2, EmptySeq
    <2>2. history' = Suffix(shown') /\ document' = Suffix(shown')
      BY <1>1, <2>1
    <2> QED
      BY <1>1, <2>2 DEF Documented
  <1> QED
    BY <1>3, <1>4, <1>5, <1>8, <1>9, <1>10, <1>11 DEF LedgerInv

\* What the frame being published carries of a driver.
LEMMA RetainedIsSnapshot ==
  ASSUME LedgerInv, board \in Board
  PROVE  /\ socket # Nothing /\ socket.session \in Session /\ index \in 0..Len(Retained)
         /\ \E last \in 0..occurred[socket.session][board] : EndsAt(Retained, last)
  <1>1. board # 0
    BY DEF Board
  <1>2. socket # Nothing /\ socket \in Frame
    BY <1>1 DEF LedgerInv, LoopInv, ChannelsInOrder, IsSnapshot
  <1> QED
    BY <1>1, <1>2 DEF LedgerInv, LoopInv, ChannelsInOrder, IsSnapshot, Frame, Retained

\* Between the mark and the event that is logged next nothing was retained.
LEMMA GapIsEvicted ==
  ASSUME NEW list, NEW last \in Nat, EndsAt(list, last), NEW from \in Nat, NEW start \in Nat,
         NEW i \in (start + 1)..Len(list),
         \A j \in 1..start : list[j] <= from,
         \A j \in (start + 1)..(i - 1) : ~(list[j] > from),
         NEW n \in Nat, from < n, n < list[i], n > 0
  PROVE  n + RingSize <= last
  <1>1. list \in Seq(1..MaxEvents) /\ Len(list) \in Nat
    BY LenProperties DEF EndsAt
  <1> DEFINE len == Len(list)
             j == n - last + len
  <1>2. len \in Nat /\ \A k \in 1..len : list[k] = last - len + k
    BY <1>1 DEF EndsAt
  <1>3. len = IF last <= RingSize THEN last ELSE RingSize
    BY DEF EndsAt
  <1>4. i \in 1..len /\ start < i /\ list[i] = last - len + i
    BY <1>2
  <1> HIDE DEF len
  <1>5. j \in Int /\ j < i
    BY <1>2, <1>4
  <1>6. ~(j >= 1)
    <2> SUFFICES ASSUME j >= 1 PROVE FALSE
      OBVIOUS
    <2>1. j \in 1..len /\ list[j] = n
      BY <1>2, <1>4, <1>5
    <2>2. j \in 1..start \/ j \in (start + 1)..(i - 1)
      BY <1>4, <1>5
    <2>3. list[j] <= from \/ ~(list[j] > from)
      BY <2>2
    <2> QED
      BY <2>1, <2>3
  <1> QED
    BY <1>2, <1>3, <1>5, <1>6, LedgerConstants

LEMMA LogEventKeeps == ASSUME LedgerInv, LogEvent PROVE LedgerInv'
  <1> DEFINE s0 == socket.session
             b0 == board
             list == Retained
             len == Len(list)
  <1>1. PICK i \in DOMAIN list :
          /\ IsNext(i) /\ index' = i /\ newest' = list[i]
          /\ shown' = Append(shown, [board |-> b0, session |-> s0, sequence |-> list[i]])
          /\ history' = Suffix(Append(history, [board |-> b0, session |-> s0, sequence |-> list[i]]))
    BY DEF LogEvent
  <1> DEFINE r == list[i]
             event == [board |-> b0, session |-> s0, sequence |-> r]
  <1>2. /\ b0 \in Board /\ b0 # 0 /\ changed' = TRUE
        /\ UNCHANGED <<leaderVars, topic, telemetry, socket, connected, fresh>>
        /\ UNCHANGED <<board, logged, document, stale, raises, drops>>
    BY DEF LogEvent, relayVars, Board
  <1>3. PICK last \in 0..occurred[s0][b0] : EndsAt(list, last)
    BY <1>2, RetainedIsSnapshot
  <1>4. socket # Nothing /\ s0 \in Session /\ index \in 0..len
    BY <1>2, RetainedIsSnapshot
  <1>5. occurred[s0][b0] \in Nat /\ last \in Nat /\ last <= occurred[s0][b0]
    BY <1>2, <1>3, <1>4 DEF LedgerInv, LedgerTyped
  <1>6. list \in Seq(1..MaxEvents) /\ len \in Nat /\ \A k \in 1..len : list[k] = last - len + k
    <2>1. list \in Seq(1..MaxEvents) /\ \A k \in 1..Len(list) : list[k] = last - Len(list) + k
      BY <1>3 DEF EndsAt
    <2> QED
      BY <2>1, LenProperties
  <1>7. /\ i \in (index + 1)..len /\ r > newest
        /\ \A j \in (index + 1)..(i - 1) : ~(list[j] > newest)
    BY <1>1 DEF IsNext, IsNew
  <1>8. newest \in 0..MaxEvents /\ index \in Nat /\ \A j \in 1..index : list[j] <= newest
    BY <1>2, <1>4, <1>6 DEF LedgerInv, LoopInv
  <1>9. i \in 1..len /\ r \in 1..MaxEvents
    <2>1. i \in 1..len
      BY <1>6, <1>7, <1>8
    <2> QED
      BY <1>6, <2>1, ElementOfSeq
  <1>10. event \in Event /\ event.board = b0 /\ event.session = s0 /\ event.sequence = r
    BY <1>2, <1>4, <1>9 DEF Event
  <1>11. /\ shown \in Seq(Event) /\ history \in Seq(Event) /\ shown' = Append(shown, event)
         /\ history' = Suffix(Append(history, event))
    BY <1>1 DEF LedgerInv, LedgerTyped
  <1>12. \A e : Times(e) \in Nat /\ Times(e)' = Times(e) + (IF e = event THEN 1 ELSE 0)
    BY <1>10, <1>11, TimesOfLogged
  <1>13. /\ shown' \in Seq(Event) /\ Len(shown) \in Nat /\ Len(shown') = Len(shown) + 1
         /\ \A k \in 1..Len(shown') : shown'[k] = IF k <= Len(shown) THEN shown[k] ELSE event
    <2> HIDE DEF event
    <2> QED
      BY <1>10, <1>11, AppendProperties, LenProperties
  <1>14. history' = Suffix(shown') /\ history' \in Seq(Event)
    <2>1. history = Suffix(shown)
      BY DEF LedgerInv, Documented
    <2>2. history' = Suffix(Append(Suffix(shown), event))
      BY <1>11, <2>1
    <2>3. Suffix(Append(Suffix(shown), event)) = Suffix(Append(shown, event))
      BY <1>10, <1>11, HistoryIsSuffix
    <2>4. history' = Suffix(shown')
      BY <1>11, <2>2, <2>3
    <2> QED
      BY <1>13, <2>4, SuffixProperties
  <1>15. UNCHANGED <<session, occurred, ring, sampled, happened>> /\ RingsAreRecent' /\ ChannelsInOrder'
    BY <1>2, ChannelsKept
  <1>16. UNCHANGED <<socket, board, logged, raises>> /\ newest' = r /\ index' = i
    BY <1>1, <1>2
  <1> HIDE DEF event, r, s0, b0, list, len
  <1>17. LedgerTyped'
    <2>1. changed' \in BOOLEAN
      BY <1>2
    <2> QED
      BY <1>2, <1>13, <1>14, <1>15, <2>1 DEF LedgerInv, LedgerTyped
  <1>18. LoopInv'
    <2>1. Retained' = list /\ board' \in Board
      BY <1>2, <1>16 DEF Retained, list, b0
    <2>2. Len(Retained') = len
      BY <2>1 DEF len
    <2>3. \A j \in 1..i : list[j] <= r
      <3>1. \A j \in 1..i : list[j] = last - len + j /\ r = last - len + i
        BY <1>6, <1>9 DEF r
      <3> QED
        BY <1>5, <1>6, <1>9, <3>1
    <2>4. board' \in 0..(NumBoards + 1) /\ newest' \in 0..MaxEvents /\ socket' # Nothing
      BY <1>4, <1>9, <1>16 DEF LedgerInv, LoopInv
    <2>5. index' \in 0..len
      BY <1>9, <1>16
    <2> QED
      BY <1>16, <2>1, <2>2, <2>3, <2>4, <2>5 DEF LoopInv
  <1>19. \A s \in Session, b \in Board :
           /\ Mark(s, b) = IF b = b0 /\ s = s0 THEN newest ELSE logged[s][b]
           /\ Mark(s, b)' = IF b = b0 /\ s = s0 THEN r ELSE logged[s][b]
    BY <1>16 DEF Mark, b0, s0
  <1>20. \A s \in Session, b \in Board : /\ logged[s][b] \in 0..MaxEvents
                                        /\ Mark(s, b) <= Mark(s, b)'
    <2>1. \A s \in Session, b \in Board : logged[s][b] \in 0..MaxEvents
      BY DEF LedgerInv, LedgerTyped
    <2> QED
      BY <1>7, <1>8, <1>9, <1>19, <2>1
  <1>21. ShownIsOldest'
    <2> SUFFICES ASSUME NEW k \in 1..Len(shown')
                 PROVE  /\ shown'[k].session <= session
                        /\ \A message \in {topic, telemetry, socket} :
                             message # Nothing => shown'[k].session <= message.session
      BY <1>2, <1>15, <1>16 DEF ShownIsOldest
    <2>1. CASE k <= Len(shown)
      <3>1. k \in 1..Len(shown) /\ shown'[k] = shown[k]
        BY <1>13, <2>1
      <3> QED
        BY <3>1 DEF LedgerInv, ShownIsOldest
    <2>2. CASE ~(k <= Len(shown))
      <3>1. shown'[k].session = s0
        BY <1>10, <1>13, <2>2
      <3>2. s0 <= session /\ s0 \in Nat
        BY <1>4 DEF LedgerInv, ChannelsInOrder, IsSnapshot, s0, Session
      <3>3. /\ topic # Nothing => s0 <= topic.session
            /\ telemetry # Nothing => s0 <= telemetry.session
        BY <1>4 DEF LedgerInv, ChannelsInOrder, Before, s0
      <3>4. s0 <= socket.session
        BY <3>2 DEF s0
      <3> QED
        BY <3>1, <3>2, <3>3, <3>4
    <2> QED
      BY <2>1, <2>2
  <1>22. OncePerRaise'
    <2> SUFFICES ASSUME NEW e \in Event
                 PROVE  Times(e)' <= raises + (IF e.sequence <= Mark(e.session, e.board)' THEN 1 ELSE 0)
      BY <1>16 DEF OncePerRaise
    <2>1. e.session \in Session /\ e.board \in Board /\ e.sequence \in 1..MaxEvents
      BY DEF Event
    <2>2. Times(e) <= raises + (IF e.sequence <= Mark(e.session, e.board) THEN 1 ELSE 0)
      BY DEF LedgerInv, OncePerRaise
    <2>3. raises \in Nat /\ Times(e) \in Nat
      BY <1>12 DEF LedgerInv, LedgerTyped
    <2>4. CASE e = event
      <3>1. Mark(e.session, e.board) = newest /\ Mark(e.session, e.board)' = r /\ e.sequence = r
        BY <1>10, <1>19, <2>1, <2>4
      <3> QED
        BY <1>7, <1>8, <1>9, <1>12, <2>2, <2>3, <2>4, <3>1
    <2>5. CASE e # event
      <3>1. Times(e)' = Times(e)
        BY <1>12, <2>3, <2>5
      <3>2. /\ Mark(e.session, e.board) <= Mark(e.session, e.board)'
            /\ Mark(e.session, e.board) \in Nat /\ Mark(e.session, e.board)' \in Nat
        BY <1>8, <1>9, <1>19, <1>20, <2>1
      <3> QED
        BY <2>1, <2>2, <2>3, <3>1, <3>2
    <2> QED
      BY <2>4, <2>5
  <1>23. OrderedUnlessRaised'
    <2> DEFINE After(s, b) == IF b = b0 /\ s = s0 THEN r ELSE logged[s][b]
    <2> SUFFICES ASSUME raises = 0
                 PROVE  /\ Ordered'
                        /\ \A k \in 1..Len(shown') :
                             shown'[k].sequence <= After(shown'[k].session, shown'[k].board)
      BY <1>16 DEF OrderedUnlessRaised, Mark, b0, s0
    <2>0. \A s \in Session, b \in Board : /\ After(s, b) \in Nat /\ Mark(s, b) \in Nat
                                          /\ Mark(s, b) <= After(s, b)
      BY <1>7, <1>8, <1>9, <1>19, <1>20
    <2>1. /\ Ordered
          /\ \A k \in 1..Len(shown) : shown[k].sequence <= Mark(shown[k].session, shown[k].board)
      BY DEF LedgerInv, OrderedUnlessRaised
    <2>2. \A k \in 1..Len(shown) :
            /\ shown[k].session \in Session /\ shown[k].session \in Nat /\ shown[k].board \in Board
            /\ shown[k].sequence \in 1..MaxEvents
      BY <1>11, ShownAreEvents
    <2>3. \A k \in 1..Len(shown) : shown[k].session <= s0
      BY <1>4 DEF LedgerInv, ShownIsOldest, s0
    <2>4. s0 \in Nat
      BY <1>4 DEF Session
    <2>5. Ordered'
      <3> SUFFICES ASSUME NEW k \in 1..Len(shown'), NEW m \in 1..Len(shown'), k < m,
                          shown'[k].board = shown'[m].board
                   PROVE  \/ shown'[k].session < shown'[m].session
                          \/ /\ shown'[k].session = shown'[m].session
                             /\ shown'[k].sequence < shown'[m].sequence
        BY DEF Ordered
      <3>1. k \in 1..Len(shown) /\ shown'[k] = shown[k]
        BY <1>13
      <3>2. CASE m <= Len(shown)
        <4>1. m \in 1..Len(shown) /\ shown'[m] = shown[m]
          BY <1>13, <3>2
        <4> QED
          BY <2>1, <3>1, <4>1 DEF Ordered
      <3>3. CASE ~(m <= Len(shown))
        <4>1. shown'[m] = event
          BY <1>13, <3>3
        <4>2. shown[k].board = b0 /\ shown'[m].session = s0 /\ shown'[m].sequence = r
          BY <1>10, <3>1, <4>1
        <4>3. CASE shown[k].session = s0
          <5>1. Mark(shown[k].session, shown[k].board) = newest
            BY <1>19, <2>2, <3>1, <4>2, <4>3
          <5>2. shown[k].sequence <= newest
            BY <2>1, <3>1, <5>1
          <5> QED
            BY <1>7, <1>8, <1>9, <2>2, <3>1, <4>2, <4>3, <5>2
        <4>4. CASE shown[k].session # s0
          BY <2>2, <2>3, <2>4, <3>1, <4>2, <4>4
        <4> QED
          BY <4>3, <4>4
      <3> QED
        BY <3>2, <3>3
    <2>6. ASSUME NEW k \in 1..Len(shown')
          PROVE  shown'[k].sequence <= After(shown'[k].session, shown'[k].board)
      <3>1. CASE k <= Len(shown)
        <4>1. k \in 1..Len(shown) /\ shown'[k] = shown[k]
          BY <1>13, <3>1
        <4> DEFINE mark == Mark(shown[k].session, shown[k].board)
                   after == After(shown[k].session, shown[k].board)
        <4>2. mark \in Nat /\ after \in Nat /\ mark <= after
          BY <2>0, <2>2, <4>1
        <4>3. shown[k].sequence <= mark /\ shown[k].sequence \in Nat
          BY <2>1, <2>2, <4>1
        <4>4. After(shown'[k].session, shown'[k].board) = after
          BY <4>1
        <4> HIDE DEF mark, after, After
        <4> QED
          BY <4>1, <4>2, <4>3, <4>4
      <3>2. CASE ~(k <= Len(shown))
        <4>1. shown'[k] = event
          BY <1>13, <3>2
        <4>2. shown'[k].session = s0 /\ shown'[k].board = b0 /\ shown'[k].sequence = r
          BY <1>10, <4>1
        <4> QED
          BY <1>9, <4>2
      <3> QED
        BY <3>1, <3>2
    <2> QED
      BY <2>5, <2>6
  <1>24. MarksAreCovered'
    <2>1. \A s \in Session, b \in Board : Covered(s, b, logged[s][b]) /\ Covered(s, b, Mark(s, b))
      BY DEF LedgerInv, MarksAreCovered
    <2>2. \A e : Times(e) > 0 => Times(e)' > 0
      BY <1>12
    <2>3. Covered(s0, b0, newest)
      BY <1>2, <1>4, <1>19, <2>1
    <2> SUFFICES ASSUME NEW s \in Session, NEW b \in Board
                 PROVE  Covered(s, b, logged[s][b])' /\ Covered(s, b, Mark(s, b))'
      BY DEF MarksAreCovered
    <2>4. Covered(s, b, logged[s][b])'
      BY <1>15, <1>16, <2>1, <2>2 DEF Covered
    <2>5. CASE b = b0 /\ s = s0
      <3> SUFFICES ASSUME NEW n \in 1..r
                   PROVE  \/ Times([board |-> b, session |-> s, sequence |-> n])' > 0
                          \/ n + RingSize <= occurred[s][b]
        BY <1>15, <1>19, <2>4, <2>5 DEF Covered
      <3>1. CASE n <= newest
        <4>1. n \in 1..newest
          BY <1>8, <3>1
        <4>2. Covered(s, b, newest)
          BY <2>3, <2>5
        <4>3. \/ Times([board |-> b, session |-> s, sequence |-> n]) > 0
              \/ n + RingSize <= occurred[s][b]
          BY <4>1, <4>2 DEF Covered
        <4> QED
          BY <2>2, <4>3
      <3>2. CASE n = r
        <4>1. [board |-> b, session |-> s, sequence |-> n] = event
          BY <2>5, <3>2 DEF event
        <4>2. \A e : e = event => Times(e)' > 0
          BY <1>12
        <4> QED
          BY <4>1, <4>2
      <3>3. CASE newest < n /\ n < r
        <4>1. n \in Nat /\ n > 0 /\ n < list[i] /\ newest \in Nat
          BY <1>8, <1>9, <3>3 DEF r
        <4>2. i \in (index + 1)..Len(list)
          BY <1>7 DEF len
        <4>3. n + RingSize <= last
          BY <1>3, <1>5, <1>7, <1>8, <3>3, <4>1, <4>2, GapIsEvicted
        <4>4. n + RingSize <= occurred[s0][b0]
          BY <1>5, <4>1, <4>3, LedgerConstants
        <4> QED
          BY <2>5, <4>4
      <3> QED
        BY <1>8, <1>9, <3>1, <3>2, <3>3
    <2>6. CASE ~(b = b0 /\ s = s0)
      <3>1. Mark(s, b)' = logged[s][b]
        BY <1>19, <2>6
      <3> QED
        BY <1>15, <2>1, <2>2, <2>4, <3>1 DEF Covered
    <2> QED
      BY <2>5, <2>6
  <1>25. Documented'
    BY <1>2, <1>14 DEF Documented, b0
  <1> QED
    BY <1>15, <1>17, <1>18, <1>21, <1>22, <1>23, <1>24, <1>25 DEF LedgerInv
-----------------------------------------------------------------------------
LEMMA LedgerSteps == ASSUME LedgerInv, [Next]_ledgerVars PROVE LedgerInv'
  <1>1. CASE \E b \in Board : Occur(b)
    BY <1>1, OccurKeeps
  <1>2. CASE Capture
    BY <1>2, CaptureKeeps
  <1>3. CASE PublishTelemetry
    BY <1>3, PublishTelemetryKeeps
  <1>4. CASE LeaderRestart
    BY <1>4, LeaderRestartKeeps
  <1>5. CASE UpdateTelemetry \/ Connect \/ SendTelemetry \/ Disconnect \/ RelayRestart
    BY <1>5, RelayKeeps
  <1>6. CASE PublishSample
    BY <1>6, PublishSampleKeeps
  <1>7. CASE LogEvent
    BY <1>7, LogEventKeeps
  <1>8. CASE StoreWatermark
    BY <1>8, StoreWatermarkKeeps
  <1>9. CASE LogEventLedger
    BY <1>9, LogEventLedgerKeeps
  <1>10. CASE PublishRaises
    BY <1>10, PublishRaisesKeeps
  <1>11. CASE SidecarRestart
    BY <1>11, SidecarRestartKeeps
  <1>12. CASE UNCHANGED ledgerVars
    <2>1. UNCHANGED <<leaderVars, topic, telemetry, socket>>
          /\ UNCHANGED <<connected, fresh, drops>> /\ UNCHANGED <<loopVars, logged, viewerVars, raises>>
      BY <1>12 DEF ledgerVars, relayVars, sidecarVars
    <2>2. UNCHANGED <<session, occurred, ring, sampled, happened>>
          /\ UNCHANGED <<board, changed, history, shown, document, stale>>
      BY <2>1 DEF leaderVars, loopVars, viewerVars
    <2>3. RingsAreRecent' /\ ChannelsInOrder' /\ ShownIsOldest'
      BY <2>1, <2>2, ChannelsKept
    <2>4. LedgerTyped'
      BY <2>1, <2>2 DEF LedgerInv, LedgerTyped
    <2>5. \A s \in Session, b \in Board : occurred[s][b] \in Nat
      BY DEF LedgerInv, LedgerTyped
    <2> QED
      BY <2>1, <2>2, <2>3, <2>4, <2>5, OthersKeepViewer DEF LedgerInv
  <1> QED
    BY <1>1, <1>2, <1>3, <1>4, <1>5, <1>6, <1>7, <1>8, <1>9, <1>10, <1>11, <1>12 DEF Next

(* LedgerInv is inductive: the leader, the relay and the sidecar keep it in *)
(* every interleaving, over reconnects, restarts and viewer exceptions.     *)
THEOREM LedgerIsInductive == Spec => []LedgerInv
  <1>1. Init => LedgerInv
    BY LedgerStarts
  <1>2. LedgerInv /\ [Next]_ledgerVars => LedgerInv'
    BY LedgerSteps
  <1> QED
    BY <1>1, <1>2, PTL DEF Spec

(* The ledger's variables have their types: in particular a ring is never   *)
(* longer than _diagnostic_events allows, and a frame is always held while  *)
(* _log_dynamixel runs over it.                                             *)
THEOREM LedgerIsTyped == Spec => []TypeOK
  <1>1. LedgerInv => TypeOK
    <2> SUFFICES ASSUME LedgerInv PROVE TypeOK
      OBVIOUS
    <2>1. \A b \in Board : Len(ring[b]) <= RingSize
      <3>1. \A list, last : last \in Nat /\ EndsAt(list, last) => Len(list) <= RingSize
        BY LedgerConstants DEF EndsAt
      <3>2. session \in Session /\ \A b \in Board : occurred[session][b] \in Nat
        BY DEF LedgerInv, LedgerTyped
      <3> QED
        BY <3>1, <3>2 DEF LedgerInv, RingsAreRecent
    <2>2. occurred \in [Session -> [Board -> 0..MaxEvents]]
      <3>1. \A s \in Session, b \in Board : occurred[s][b] \in 0..MaxEvents
        BY LedgerConstants DEF LedgerInv, LedgerTyped, RingsAreRecent
      <3>2. occurred \in [Session -> [Board -> Nat]]
        BY DEF LedgerInv, LedgerTyped
      <3> QED
        BY <3>1, <3>2
    <2>3. \A channel \in {topic, telemetry, socket} : channel = Nothing \/ channel \in Frame
      BY DEF LedgerInv, ChannelsInOrder, IsSnapshot
    <2>4. index \in 0..RingSize
      <3>1. CASE board \in Board
        <4>1. PICK last : last \in 0..occurred[socket.session][board] /\ EndsAt(Retained, last)
          BY <3>1, RetainedIsSnapshot
        <4>2. occurred[socket.session][board] \in Nat /\ index \in 0..Len(Retained)
          BY <3>1, RetainedIsSnapshot DEF LedgerInv, LedgerTyped
        <4>3. last \in Nat
          BY <4>1, <4>2
        <4>4. Len(Retained) \in Nat /\ Len(Retained) <= RingSize
          BY <4>1, <4>3, LedgerConstants DEF EndsAt
        <4> QED
          BY <4>2, <4>4, LedgerConstants
      <3>2. CASE board \notin Board
        BY <3>2, LedgerConstants DEF LedgerInv, LoopInv
      <3> QED
        BY <3>1, <3>2
    <2>5. LedgerTyped /\ LoopInv
      BY DEF LedgerInv
    <2> QED
      BY <2>1, <2>2, <2>3, <2>4, <2>5 DEF TypeOK, LedgerTyped, LoopInv
  <1> QED
    BY <1>1, LedgerIsInductive, PTL

(* One exception of the viewer costs an event at most one repetition, and   *)
(* without exceptions every driver's events are in the viewer once and in   *)
(* order (the watermarks of _log_dynamixel).                                *)
THEOREM AlwaysLoggedOnce == Spec => []LoggedOnce
  <1>1. LedgerInv => LoggedOnce
    <2> SUFFICES ASSUME LedgerInv PROVE LoggedOnce
      OBVIOUS
    <2>1. \A e \in Event : Times(e) <= 1 + raises
      <3>1. shown \in Seq(Event) /\ raises \in Nat
        BY DEF LedgerInv, LedgerTyped
      <3>2. \A e : Times(e) \in Nat
        BY <3>1, TimesIsNat
      <3> QED
        BY <3>1, <3>2 DEF LedgerInv, OncePerRaise
    <2>2. DOMAIN shown = 1..Len(shown)
      BY LenProperties DEF LedgerInv, LedgerTyped
    <2> QED
      BY <2>1, <2>2 DEF LoggedOnce, LedgerInv, OrderedUnlessRaised, Ordered
  <1> QED
    BY <1>1, LedgerIsInductive, PTL

(* The watermark never jumps over an event that its driver still retained:  *)
(* an older event that the viewer lacks had left the ring of the driver.    *)
THEOREM AlwaysSkippedOnlyByEviction == Spec => []SkippedOnlyByEviction
  <1>1. LedgerInv => SkippedOnlyByEviction
    BY DEF LedgerInv, MarksAreCovered, Covered, SkippedOnlyByEviction
  <1> QED
    BY <1>1, LedgerIsInductive, PTL

(* Between frames _log_event_ledger has written the last events of the log, *)
(* unless an exception kept it from it and no event has come since.         *)
THEOREM DocumentIsAlwaysCurrent == Spec => []DocumentIsCurrent
  <1>1. LedgerInv => DocumentIsCurrent
    BY DEF LedgerInv, Documented, DocumentIsCurrent
  <1> QED
    BY <1>1, LedgerIsInductive, PTL
=============================================================================
