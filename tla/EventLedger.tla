----------------------------- MODULE EventLedger -----------------------------
(***************************************************************************)
(* Diagnostic events of one arm on their way to the viewer: each driver's  *)
(* ring (driver.py), the telemetry sample that carries every retained      *)
(* event again and again, the relay's latest-value buffer and its push     *)
(* stream (factr_api.py), the sidecar that reconnects forever              *)
(* (factr_rerun_sidecar.py), and the publisher whose watermarks turn the   *)
(* repetition into a log (factr_rerun.py).                                 *)
(*                                                                         *)
(* An event is its sequence number: what it says plays no part here        *)
(* (StateRead says when one occurs).  A session is one life of the leader  *)
(* process.                                                                *)
(***************************************************************************)
EXTENDS DiagnosticRing, FiniteSets

CONSTANTS NumBoards,    \* drivers of the arm
          LedgerSize,   \* _EVENT_LEDGER_SIZE
          MaxEvents,    \* bound: events of all the drivers
          MaxSessions,  \* bound: lives of the leader process
          MaxDrops,     \* bound: lost connections and restarts of relay and sidecar
          MaxRaises     \* bound: exceptions of the viewer SDK

ASSUME LedgerAssumption ==
  /\ NumBoards \in Nat \ {0} /\ LedgerSize \in Nat \ {0} /\ MaxSessions \in Nat \ {0}
  /\ MaxEvents \in Nat /\ MaxDrops \in Nat /\ MaxRaises \in Nat

Board   == 1..NumBoards
Session == 1..MaxSessions
Event   == [board : Board, session : Session, sequence : 1..MaxEvents]

VARIABLES
  session,    \* _diagnostic_session, of every driver of the process
  occurred,   \* [Session -> [Board -> Nat]]: _event_sequence (its last value, for old sessions)
  ring,       \* [Board -> Seq]: _diagnostic_events, as sequence numbers
  sampled,    \* the leader has a telemetry snapshot to publish
  topic,      \* a telemetry message on its way to the relay
  telemetry,  \* the relay's latest sample
  connected,  \* the sidecar's WebSocket is open
  fresh,      \* telemetry_version # last_telemetry_version of the open stream
  socket,     \* a telemetry frame on its way to the sidecar, or being published there
  board,      \* the driver _log_dynamixel is at; 0 outside, NumBoards + 1 after the loop
  index,      \* its event the loop is at
  newest,     \* the loop's newest: what the watermark of the driver will be
  changed,    \* ledger_changed
  logged,     \* _event_logged: the watermark of each session and driver
  history,    \* _event_history
  shown,      \* the viewer's event log
  document,   \* the viewer's "Recent events" document
  stale,      \* history: events were logged since, and no document was written for them
  happened, drops, raises

leaderVars  == <<session, occurred, ring, sampled, happened>>
relayVars   == <<telemetry, connected, fresh, socket>>
loopVars    == <<board, index, newest, changed>>
viewerVars  == <<history, shown, document, stale>>
sidecarVars == <<loopVars, logged, viewerVars, raises>>
ledgerVars  == <<leaderVars, topic, relayVars, sidecarVars, drops>>

\* At most one message in each channel: the newest replaces it, or the sender waits.
Nothing == [session |-> 0]
Unmarked == [s \in Session |-> [b \in Board |-> 0]]
NoEvents == [b \in Board |-> <<>>]

Init ==
  /\ session = 1 /\ occurred = Unmarked /\ ring = NoEvents /\ sampled = FALSE /\ happened = 0
  /\ topic = Nothing /\ telemetry = Nothing
  /\ connected = FALSE /\ fresh = FALSE /\ socket = Nothing
  /\ board = 0 /\ index = 0 /\ newest = 0 /\ changed = FALSE
  /\ logged = Unmarked /\ history = <<>> /\ shown = <<>> /\ document = <<>> /\ stale = FALSE
  /\ raises = 0 /\ drops = 0
-----------------------------------------------------------------------------
(* The leader process. *)

\* _append_event
Occur(b) ==
  /\ happened < MaxEvents
  /\ happened' = happened + 1
  /\ occurred' = [occurred EXCEPT ![session][b] = @ + 1]
  /\ ring' = [ring EXCEPT ![b] = Pushed(@, occurred[session][b] + 1)]
  /\ UNCHANGED <<session, sampled, topic, relayVars, sidecarVars, drops>>

\* The first complete control tick makes the snapshot.
Capture ==
  /\ ~sampled
  /\ sampled' = TRUE
  /\ UNCHANGED <<session, occurred, ring, happened, topic, relayVars, sidecarVars, drops>>

\* _publish_telemetry: the control sample and every driver's diagnostics_snapshot.
PublishTelemetry ==
  /\ sampled
  /\ topic' = [session |-> session, events |-> ring]
  /\ UNCHANGED <<leaderVars, relayVars, sidecarVars, drops>>

LeaderRestart ==
  /\ session < MaxSessions
  /\ session' = session + 1
  /\ ring' = NoEvents /\ sampled' = FALSE
  /\ UNCHANGED <<occurred, happened, topic, relayVars, sidecarVars, drops>>
-----------------------------------------------------------------------------
(* The relay. *)

\* _update_telemetry: the latest sample replaces the one before; a new version.
UpdateTelemetry ==
  /\ topic # Nothing
  /\ telemetry' = topic /\ topic' = Nothing
  /\ fresh' = connected
  /\ UNCHANGED <<leaderVars, connected, socket, sidecarVars, drops>>

\* stream: a new sender starts with last_telemetry_version = -1.
Connect ==
  /\ ~connected
  /\ connected' = TRUE /\ fresh' = TRUE
  /\ UNCHANGED <<leaderVars, topic, telemetry, socket, sidecarVars, drops>>

\* _stream_sender: the sample once per version, then the reading (not kept here).
SendTelemetry ==
  /\ connected /\ fresh /\ telemetry # Nothing /\ socket = Nothing
  /\ socket' = telemetry /\ fresh' = FALSE
  /\ UNCHANGED <<leaderVars, topic, telemetry, connected, sidecarVars, drops>>

\* What a broken connection leaves: the frame that is being published has arrived.
Received == IF board = 0 THEN Nothing ELSE socket

\* The connection breaks with what it carried; stream_side tries again after a delay.
Disconnect ==
  /\ connected /\ drops < MaxDrops
  /\ connected' = FALSE /\ fresh' = FALSE /\ socket' = Received
  /\ drops' = drops + 1
  /\ UNCHANGED <<leaderVars, topic, telemetry, sidecarVars>>

RelayRestart ==
  /\ drops < MaxDrops
  /\ topic' = Nothing /\ telemetry' = Nothing
  /\ connected' = FALSE /\ fresh' = FALSE /\ socket' = Received
  /\ drops' = drops + 1
  /\ UNCHANGED <<leaderVars, sidecarVars>>
-----------------------------------------------------------------------------
(* The sidecar and its publisher: _log_dynamixel, one event after the other. *)

\* publish_telemetry up to the loop over the drivers.
PublishSample ==
  /\ socket # Nothing /\ board = 0
  /\ board' = 1 /\ index' = 0 /\ newest' = logged[socket.session][1] /\ changed' = FALSE
  /\ UNCHANGED <<leaderVars, topic, relayVars, logged, viewerVars, raises, drops>>

\* Mutant: the watermark itself is logged again.
NotOlder(sequence) == sequence >= newest

\* Mutant: one watermark for every session of a driver.
NewOverSessions(sequence) ==
  sequence > newest /\ \A s \in Session : sequence > logged[s][board]

IsNew(sequence) == sequence > newest

Retained == socket.events[board]   \* what the frame carries of the driver

\* The next event of the driver that is not skipped.
IsNext(i) ==
  /\ i \in (index + 1)..Len(Retained) /\ IsNew(Retained[i])
  /\ \A j \in (index + 1)..(i - 1) : ~IsNew(Retained[j])

Suffix(s) == SubSeq(s, Len(s) - (IF Len(s) < LedgerSize THEN Len(s) ELSE LedgerSize) + 1,
                    Len(s))

\* The event goes to the viewer, then into the history.
LogEvent ==
  /\ board \in Board
  /\ \E i \in DOMAIN Retained :
       /\ IsNext(i)
       /\ LET event == [board |-> board, session |-> socket.session, sequence |-> Retained[i]]
          IN /\ shown' = Append(shown, event)
             /\ history' = Suffix(Append(history, event))
       /\ index' = i /\ newest' = Retained[i]
  /\ changed' = TRUE
  /\ UNCHANGED <<leaderVars, topic, relayVars, board, logged, document, stale, raises, drops>>

\* Mutant: ledger_changed is kept for the last driver only.
StoreWatermarkAnew ==
  /\ board \in Board /\ ~\E i \in DOMAIN Retained : IsNext(i)
  /\ logged' = [logged EXCEPT ![socket.session][board] = newest]
  /\ board' = board + 1 /\ index' = 0 /\ changed' = FALSE
  /\ newest' = IF board < NumBoards THEN logged[socket.session][board + 1] ELSE 0
  /\ UNCHANGED <<leaderVars, topic, relayVars, viewerVars, raises, drops>>

\* After the last event of a driver: its watermark, and the next driver's.
StoreWatermark ==
  /\ board \in Board /\ ~\E i \in DOMAIN Retained : IsNext(i)
  /\ logged' = [logged EXCEPT ![socket.session][board] = newest]
  /\ board' = board + 1 /\ index' = 0
  /\ newest' = IF board < NumBoards THEN logged[socket.session][board + 1] ELSE 0
  /\ UNCHANGED <<leaderVars, topic, relayVars, changed, viewerVars, raises, drops>>

\* publish_telemetry returns: the next frame may come.
Published ==
  /\ socket' = Nothing /\ board' = 0 /\ index' = 0 /\ newest' = 0 /\ changed' = FALSE

\* _log_event_ledger, when any event was logged.
LogEventLedger ==
  /\ board = NumBoards + 1
  /\ IF changed THEN document' = history /\ stale' = FALSE ELSE UNCHANGED <<document, stale>>
  /\ Published
  /\ UNCHANGED <<leaderVars, topic, telemetry, connected, fresh, logged, history, shown, raises,
                 drops>>

\* A call of the SDK raises: one of the sample's scalars, an event or the document.
MayRaise ==
  \/ board = 1 /\ index = 0
  \/ board \in Board /\ \E i \in DOMAIN Retained : IsNext(i)
  \/ board = NumBoards + 1 /\ changed

\* Mutant: the watermark is stored on the way out as well.
PublishStoresAndRaises ==
  /\ MayRaise /\ raises < MaxRaises
  /\ logged' = IF board \in Board /\ \E i \in DOMAIN Retained : IsNext(i)
               THEN [logged EXCEPT ![socket.session][board] =
                       Retained[CHOOSE i \in DOMAIN Retained : IsNext(i)]]
               ELSE logged
  /\ raises' = raises + 1
  /\ stale' = (stale \/ changed)
  /\ Published
  /\ UNCHANGED <<leaderVars, topic, telemetry, connected, fresh, history, shown, document, drops>>

\* publish_telemetry swallows the exception; what it had not stored yet is lost.
PublishRaises ==
  /\ MayRaise /\ raises < MaxRaises
  /\ raises' = raises + 1
  /\ stale' = (stale \/ changed)
  /\ Published
  /\ UNCHANGED <<leaderVars, topic, telemetry, connected, fresh, logged, history, shown,
                 document, drops>>

\* The viewer lives in the sidecar's process (standalone mode): both start empty.
SidecarRestart ==
  /\ drops < MaxDrops
  /\ connected' = FALSE /\ fresh' = FALSE
  /\ Published
  /\ logged' = Unmarked /\ history' = <<>> /\ shown' = <<>> /\ document' = <<>> /\ stale' = FALSE
  /\ drops' = drops + 1
  /\ UNCHANGED <<leaderVars, topic, telemetry, raises>>
-----------------------------------------------------------------------------
Next ==
  \/ \E b \in Board : Occur(b)
  \/ Capture \/ PublishTelemetry \/ LeaderRestart
  \/ UpdateTelemetry \/ Connect \/ SendTelemetry \/ Disconnect \/ RelayRestart
  \/ PublishSample \/ LogEvent \/ StoreWatermark \/ LogEventLedger
  \/ PublishRaises \/ SidecarRestart

\* The leader's control loop and telemetry timer, the relay and the sidecar keep
\* running; events, faults and restarts need not happen.
Spec == Init /\ [][Next]_ledgerVars
             /\ WF_ledgerVars(Capture) /\ WF_ledgerVars(PublishTelemetry)
             /\ WF_ledgerVars(UpdateTelemetry) /\ WF_ledgerVars(Connect)
             /\ WF_ledgerVars(SendTelemetry) /\ WF_ledgerVars(PublishSample)
             /\ WF_ledgerVars(LogEvent) /\ WF_ledgerVars(StoreWatermark)
             /\ WF_ledgerVars(LogEventLedger)
-----------------------------------------------------------------------------
Frame == [session : Session, events : [Board -> Seq(1..MaxEvents)]]

TypeOK ==
  /\ session \in Session /\ sampled \in BOOLEAN
  /\ occurred \in [Session -> [Board -> 0..MaxEvents]]
  /\ \A b \in Board : Len(ring[b]) <= RingSize
  /\ \A channel \in {topic, telemetry, socket} : channel = Nothing \/ channel \in Frame
  /\ connected \in BOOLEAN /\ fresh \in BOOLEAN /\ stale \in BOOLEAN
  /\ board \in 0..(NumBoards + 1) /\ index \in 0..RingSize /\ newest \in 0..MaxEvents
  /\ changed \in BOOLEAN /\ (board # 0 => socket # Nothing)
  /\ logged \in [Session -> [Board -> 0..MaxEvents]]
  /\ history \in Seq(Event) /\ shown \in Seq(Event) /\ document \in Seq(Event)
  /\ happened \in 0..MaxEvents /\ raises \in 0..MaxRaises /\ drops \in 0..MaxDrops

Times(e) == Cardinality({i \in DOMAIN shown : shown[i] = e})

(* "Each retained event exactly once" (_log_dynamixel), as far as it holds: *)
(* one exception of the viewer costs an event at most one repetition, and   *)
(* without exceptions every driver's events appear once and in order.       *)
LoggedOnce ==
  /\ \A e \in Event : Times(e) <= 1 + raises
  /\ raises = 0 => \A i, j \in DOMAIN shown :
       (i < j /\ shown[i].board = shown[j].board) =>
         \/ shown[i].session < shown[j].session
         \/ shown[i].session = shown[j].session /\ shown[i].sequence < shown[j].sequence

(* An event older than a logged one is missing from the viewer only when    *)
(* the driver's own ring had evicted it: no reconnect, restart or failed    *)
(* write makes the watermark jump over a retained event.                    *)
SkippedOnlyByEviction ==
  \A s \in Session, b \in Board : \A n \in 1..logged[s][b] :
    \/ Times([board |-> b, session |-> s, sequence |-> n]) > 0
    \/ n + RingSize <= occurred[s][b]

(* Between frames the static document ends where the event log ends, unless *)
(* writing it (or the events before it) raised and no event has come since. *)
DocumentIsCurrent == board = 0 => stale \/ document = Suffix(shown)

(* Once faults and events are over, the newest event of every driver of the  *)
(* running leader is in the viewer and stays, over every reconnect, restart  *)
(* and exception before.                                                     *)
NewestIsShown ==
  <>[](\A b \in Board : occurred[session][b] > 0 =>
         Times([board |-> b, session |-> session, sequence |-> occurred[session][b]]) > 0)
=============================================================================
