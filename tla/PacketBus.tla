----------------------------- MODULE PacketBus -----------------------------
(***************************************************************************)
(* One half-duplex bus (protocol2_packet_handler.py, port_handler.py,      *)
(* group_sync_read.py, driver.py's low-latency port): requests one at a    *)
(* time, the servos' status packets in the host's receive buffer, packet   *)
(* timeouts, exceptions of the serial port.  Sending a packet clears the   *)
(* transmit side only (clearPort flushes, it does not reset the input), so *)
(* the answer that missed its deadline is the first thing the next receive *)
(* finds.                                                                  *)
(*                                                                         *)
(* A packet is who it is from and which of that sender's requests it       *)
(* answers; bytes, stuffing and checksum are whether it is intact.  The    *)
(* servos are external: they answer in the order they were asked.           *)
(***************************************************************************)
EXTENDS Integers, Sequences, SequencesExt, Functions

CONSTANTS ServoIds,     \* the ids in the order they were added, which a Sync Read asks in
          AllDevices,   \* BROADCAST_ID, the id of an aggregate answer
          MaxRequests   \* bound: transactions

ASSUME BusAssumption ==
  /\ ServoIds \in Seq(Nat) /\ IsInjective(ServoIds)
  /\ AllDevices \notin ToSet(ServoIds) /\ MaxRequests \in Nat

\* addParam takes an id once.
Device == ToSet(ServoIds)
Sender == Device \union {AllDevices}

VARIABLES
  using,      \* port.is_using
  awaited,    \* the ids whose packets the transaction under way still waits for
  polled,     \* how often each sender was asked for a packet
  coming,     \* packets the servos have yet to put on the bus
  buffer,     \* packets in the receive buffer
  accepted,   \* the packets the transaction under way has taken
  failures,   \* history: transactions that ended without all their packets
  requests,   \* history: transactions
  exceptions  \* history: transactions that the serial port ended with an exception

busVars == <<using, awaited, polled, coming, buffer, accepted, failures, requests, exceptions>>

BusInit ==
  /\ using = FALSE /\ awaited = <<>> /\ polled = [s \in Sender |-> 0]
  /\ coming = <<>> /\ buffer = <<>> /\ accepted = <<>> /\ failures = 0 /\ requests = 0
  /\ exceptions = 0
-----------------------------------------------------------------------------
(* What a request waits for. *)

\* readTxRx, writeTxRx, ping: the status packet of one servo.
StatusOf(s) == <<s>>
\* GroupSyncRead: every servo's packet, in order.
SyncRead == ServoIds
\* syncReadTx(fast) and fastSyncReadRx: one packet of the broadcast id.
FastSyncRead == <<AllDevices>>
\* syncWriteTxOnly, writeTxOnly: nothing.
NoAnswer == <<>>

Request == {StatusOf(s) : s \in Device} \union {SyncRead, FastSyncRead, NoAnswer}

Answers(request) ==
  [i \in DOMAIN request |-> [from |-> request[i], number |-> polled[request[i]] + 1]]

\* The request is out: the servos it asks will answer it.
Sent(request) ==
  /\ polled' = [s \in Sender |-> polled[s] + IF s \in ToSet(request) THEN 1 ELSE 0]
  /\ coming' = coming \o Answers(request)

TxPacket(request) ==
  /\ ~using /\ awaited = <<>> /\ requests < MaxRequests
  /\ using' = (request # NoAnswer)
  /\ awaited' = request /\ accepted' = <<>>
  /\ Sent(request)
  /\ requests' = requests + 1
  /\ UNCHANGED <<buffer, failures, exceptions>>

\* COMM_TX_FAIL: a short write, which no servo understands; the port is released.
TxFails ==
  /\ ~using /\ awaited = <<>> /\ requests < MaxRequests
  /\ accepted' = <<>> /\ requests' = requests + 1 /\ failures' = failures + 1
  /\ UNCHANGED <<using, awaited, polled, coming, buffer, exceptions>>

\* clearPort or writePort raises, before or after the request went out: the port stays taken.
TxRaises(request) ==
  /\ ~using /\ awaited = <<>> /\ requests < MaxRequests
  /\ using' = TRUE /\ accepted' = <<>>
  /\ Sent(request) \/ UNCHANGED <<polled, coming>>
  /\ requests' = requests + 1 /\ failures' = failures + 1 /\ exceptions' = exceptions + 1
  /\ UNCHANGED <<awaited, buffer>>

\* COMM_PORT_BUSY: nothing releases a port that an exception left taken.
PortBusy ==
  /\ using /\ awaited = <<>> /\ requests < MaxRequests
  /\ accepted' = <<>> /\ requests' = requests + 1 /\ failures' = failures + 1
  /\ UNCHANGED <<using, awaited, polled, coming, buffer, exceptions>>

\* A servo's packet arrives, perhaps late, perhaps damaged, or not at all.
PacketArrives(intact) ==
  /\ coming # <<>>
  /\ coming' = Tail(coming) /\ buffer' = Append(buffer, <<Head(coming), intact>>)
  /\ UNCHANGED <<using, awaited, polled, accepted, failures, requests, exceptions>>

PacketLost ==
  /\ coming # <<>>
  /\ coming' = Tail(coming)
  /\ UNCHANGED <<using, awaited, polled, buffer, accepted, failures, requests, exceptions>>
-----------------------------------------------------------------------------
\* Mutant: whatever packet comes next.
IsExpectedAny(packet) == TRUE

\* txRxPacket, readRx: the id is all that is compared.
IsExpected(packet) == packet.from = Head(awaited)

\* rxPacket releases the port after every packet, also when it goes on waiting:
\* a packet of another id is dropped, an expected one taken.
RxPacket ==
  /\ awaited # <<>> /\ buffer # <<>> /\ Head(buffer)[2]
  /\ buffer' = Tail(buffer) /\ using' = FALSE
  /\ IF IsExpected(Head(buffer)[1])
     THEN awaited' = Tail(awaited) /\ accepted' = Append(accepted, <<Head(awaited), Head(buffer)[1]>>)
     ELSE UNCHANGED <<awaited, accepted>>
  /\ UNCHANGED <<polled, coming, failures, requests, exceptions>>

\* COMM_RX_CORRUPT: the transaction ends; what is behind in the buffer stays there.
RxCorrupt ==
  /\ awaited # <<>> /\ buffer # <<>> /\ ~Head(buffer)[2]
  /\ buffer' = Tail(buffer) /\ awaited' = <<>> /\ using' = FALSE
  /\ failures' = failures + 1
  /\ UNCHANGED <<polled, coming, accepted, requests, exceptions>>

\* COMM_RX_TIMEOUT
PacketTimeout ==
  /\ awaited # <<>> /\ buffer = <<>>
  /\ awaited' = <<>> /\ using' = FALSE /\ failures' = failures + 1
  /\ UNCHANGED <<polled, coming, buffer, accepted, requests, exceptions>>

\* readPort raises: the packet it was taking is lost, and the port stays as it is (taken,
\* unless an earlier packet of this transaction had released it).
RxRaises ==
  /\ awaited # <<>>
  /\ buffer' \in {buffer} \union {Tail(b) : b \in {buffer} \ {<<>>}}
  /\ awaited' = <<>> /\ failures' = failures + 1 /\ exceptions' = exceptions + 1
  /\ UNCHANGED <<using, polled, coming, accepted, requests>>

BusNext ==
  \/ \E request \in Request : TxPacket(request) \/ TxRaises(request)
  \/ TxFails \/ PortBusy \/ PacketLost
  \/ RxPacket \/ RxCorrupt \/ PacketTimeout \/ RxRaises
  \/ \E intact \in BOOLEAN : PacketArrives(intact)

BusSpec == BusInit /\ [][BusNext]_busVars
-----------------------------------------------------------------------------
Packet == [from : Sender, number : 1..MaxRequests]

\* Between transactions the port is free, unless the serial port raised: is_using is released
\* on every path that returns.
BusTypeOK ==
  /\ using \in BOOLEAN /\ ToSet(awaited) \subseteq Sender /\ polled \in [Sender -> 0..MaxRequests]
  /\ ToSet(coming) \subseteq Packet /\ ToSet(buffer) \subseteq Packet \X BOOLEAN
  /\ ToSet(accepted) \subseteq Sender \X Packet
  /\ failures \in 0..MaxRequests /\ requests \in 0..MaxRequests /\ exceptions \in 0..failures
  /\ awaited = <<>> /\ using => exceptions > 0

(***************************************************************************)
(* A packet a transaction takes as an answer is from the servo it asked,    *)
(* and answers this request or, after transactions that failed, an earlier *)
(* one: never further back than one request for each failure, although     *)
(* nothing in a packet says which request it answers.                      *)
(***************************************************************************)
AnswersAreRecent ==
  \A i \in DOMAIN accepted :
    LET asker == accepted[i][1]
        packet == accepted[i][2]
    IN packet.from = asker /\ polled[asker] - packet.number <= failures
=============================================================================
