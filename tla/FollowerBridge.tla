--------------------------- MODULE FollowerBridge ---------------------------
(***************************************************************************)
(* The bridge between a follower arm's ZMQ sockets and the leader's topics *)
(* (franka_bridge.py, zmq_messenger.py): a constructor that starts one     *)
(* receiving thread per socket and waits for the torques, then an executor *)
(* that publishes the last values by a timer and forwards position orders. *)
(*                                                                         *)
(* A value is whether there is one; an order is its number.  The topic of  *)
(* orders keeps the newest while nothing spins.                            *)
(***************************************************************************)
EXTENDS Integers, Sequences

CONSTANTS OrderDepth,  \* messages the order topic keeps (10 in the code)
          MaxOrders    \* bound: orders

ASSUME BridgeAssumption == OrderDepth \in Nat \ {0} /\ MaxOrders \in Nat

\* The subscribers in the order the constructor makes them.
Socket == <<"left_pos", "left_torque", "right_pos", "right_torque">>
Feeds  == {Socket[i] : i \in DOMAIN Socket}
Torques == {"left_torque", "right_torque"}

VARIABLES
  made,       \* subscribers whose constructor has returned
  listening,  \* subscribers whose thread runs
  got,        \* subscribers whose _value is not None
  bridge,     \* "constructing", "spinning" or "down"
  orders,     \* the order topic's queue
  ordered,    \* history: the number of the last order
  forwarded   \* the last order sent to the follower

bridgeVars == <<made, listening, got, bridge, orders, ordered, forwarded>>

BridgeInit ==
  /\ made = 0 /\ listening = {} /\ got = {} /\ bridge = "constructing"
  /\ orders = <<>> /\ ordered = 0 /\ forwarded = 0
-----------------------------------------------------------------------------
\* ZMQSubscriber.__init__: the thread is started first.
StartThread ==
  /\ bridge = "constructing" /\ made < 4 /\ Socket[made + 1] \notin listening
  /\ listening' = listening \union {Socket[made + 1]}
  /\ UNCHANGED <<made, got, bridge, orders, ordered, forwarded>>

\* Then _value = None, whatever the thread has stored by now.
ClearValue ==
  /\ bridge = "constructing" /\ made < 4 /\ Socket[made + 1] \in listening
  /\ got' = got \ {Socket[made + 1]} /\ made' = made + 1
  /\ UNCHANGED <<listening, bridge, orders, ordered, forwarded>>

\* Mutant: the thread returns after its first message.
StillListening1(f) == listening \ {f}

\* The thread loops forever.
StillListening(f) == listening

\* _update_value: the follower's message reaches a running thread.
UpdateValue(f) ==
  /\ f \in listening
  /\ got' = got \union {f} /\ listening' = StillListening(f)
  /\ UNCHANGED <<made, bridge, orders, ordered, forwarded>>

\* The two waits of the constructor are for torques; positions are not waited for.
WaitEnds ==
  /\ bridge = "constructing" /\ made = 4 /\ Torques \subseteq got
  /\ bridge' = "spinning"
  /\ UNCHANGED <<made, listening, got, orders, ordered, forwarded>>

\* timer_callback: slicing a position that is None raises out of spin.
TimerRaisesNoPosition ==
  /\ bridge = "spinning" /\ got # Feeds
  /\ bridge' = "down"
  /\ UNCHANGED <<made, listening, got, orders, ordered, forwarded>>

\* The leader publishes; the queue, once there is a subscription, keeps the newest.
PublishOrder ==
  /\ ordered < MaxOrders
  /\ ordered' = ordered + 1
  /\ orders' = IF Len(orders) < OrderDepth THEN Append(orders, ordered + 1)
               ELSE Append(Tail(orders), ordered + 1)
  /\ UNCHANGED <<made, listening, got, bridge, forwarded>>

\* left_franka_cmd_callback: only while the node spins.
ForwardOrder ==
  /\ bridge = "spinning" /\ orders # <<>>
  /\ forwarded' = Head(orders) /\ orders' = Tail(orders)
  /\ UNCHANGED <<made, listening, got, bridge, ordered>>

BridgeNext ==
  \/ StartThread \/ ClearValue \/ WaitEnds \/ TimerRaisesNoPosition
  \/ PublishOrder \/ ForwardOrder
  \/ \E f \in Feeds : UpdateValue(f)

\* The followers keep sending; the node's thread keeps running.
BridgeSpec ==
  /\ BridgeInit /\ [][BridgeNext]_bridgeVars
  /\ WF_bridgeVars(StartThread) /\ WF_bridgeVars(ClearValue) /\ WF_bridgeVars(WaitEnds)
  /\ WF_bridgeVars(ForwardOrder)
  /\ \A f \in Feeds : WF_bridgeVars(UpdateValue(f))
-----------------------------------------------------------------------------
BridgeTypeOK ==
  /\ made \in 0..4 /\ listening \subseteq Feeds /\ got \subseteq listening
  /\ bridge \in {"constructing", "spinning", "down"}
  /\ Len(orders) <= OrderDepth /\ ordered \in 0..MaxOrders /\ forwarded \in 0..ordered

(***************************************************************************)
(* While the followers keep sending, the bridge comes up although its      *)
(* constructors may erase the first message of a socket, and the last      *)
(* order the leader gave before it stopped is the last one the follower    *)
(* gets, also when more were given during the wait than the topic keeps;   *)
(* unless the first timer finds a position missing and takes it down.      *)
(***************************************************************************)
LastOrderArrives == <>[](bridge = "down" \/ forwarded = ordered)
=============================================================================
