----------------------------- MODULE ApiProcess -----------------------------
(***************************************************************************)
(* The life of the API process (factr_api.py, main): two uvicorn servers   *)
(* in one event loop, one signal handler slot that main and both servers   *)
(* install themselves in, two ROS spin threads, and the teardown.          *)
(*                                                                         *)
(* A server's own behaviour is uvicorn's: it installs its handler when it  *)
(* starts, restores the one it found when it ends, and then raises the     *)
(* signals it captured again.  SIGINT and SIGTERM are handled alike.       *)
(***************************************************************************)
EXTENDS Naturals

CONSTANT MaxSignals   \* bound: signals sent to the process

ASSUME ApiAssumption == MaxSignals \in Nat

Server == {1, 2}
Node   == {1, 2}
RequestStopHandler == 0   \* main's _request_stop; a server's handler is its number

VARIABLES
  api,         \* main: serving, teardown, joining, exited
  server,      \* [Server -> queued, starting, serving, raising, done]
  handler,     \* the handler of the process
  original,    \* [Server -> the handler it found]
  shouldExit,  \* [Server -> should_exit]
  captured,    \* [Server -> signals to raise again]
  rosUp,       \* rclpy.ok()
  node,        \* [Node -> spinning, destroying, done]
  joined,      \* threads main has stopped waiting for
  gaveUp,      \* those whose join timed out
  signals      \* signals sent

apiVars == <<api, server, handler, original, shouldExit, captured, rosUp, node, joined, gaveUp,
             signals>>

ApiInit ==
  /\ api = "serving" /\ server = [s \in Server |-> "queued"]
  /\ handler = RequestStopHandler /\ original = [s \in Server |-> RequestStopHandler]
  /\ shouldExit = [s \in Server |-> FALSE] /\ captured = [s \in Server |-> 0]
  /\ rosUp = TRUE /\ node = [n \in Node |-> "spinning"]
  /\ joined = 0 /\ gaveUp = {} /\ signals = 0
-----------------------------------------------------------------------------
\* Mutant: main's handler only keeps the process alive.
StoppedByOwnHandler(h) == [s \in Server |-> shouldExit[s] \/ h = s]

\* What a signal does: _request_stop stops both, a server's handler itself.
Stopped(h) == [s \in Server |-> shouldExit[s] \/ h \in {RequestStopHandler, s}]

Captured(h, before) == [s \in Server |-> before[s] + (IF h = s THEN 1 ELSE 0)]

Signal ==
  /\ api # "exited" /\ signals < MaxSignals
  /\ signals' = signals + 1
  /\ shouldExit' = Stopped(handler) /\ captured' = Captured(handler, captured)
  /\ UNCHANGED <<api, server, handler, original, rosUp, node, joined, gaveUp>>

(* The event loop: a server that raises its signals again does not await. *)

Awaiting == api = "serving" /\ \A s \in Server : server[s] # "raising"

\* gather starts the servers in order.
ServerStarts(s) ==
  /\ Awaiting /\ server[s] = "queued" /\ \A t \in 1..(s - 1) : server[t] # "queued"
  /\ server' = [server EXCEPT ![s] = "starting"]
  /\ original' = [original EXCEPT ![s] = handler] /\ handler' = s
  /\ UNCHANGED <<api, shouldExit, captured, rosUp, node, joined, gaveUp, signals>>

ServerBinds(s) ==
  /\ Awaiting /\ server[s] = "starting"
  /\ server' = [server EXCEPT ![s] = "serving"]
  /\ UNCHANGED <<api, handler, original, shouldExit, captured, rosUp, node, joined, gaveUp,
                 signals>>

\* The port is taken: SystemExit ends the loop, the other server is cancelled.
ServerFails(s) ==
  /\ Awaiting /\ server[s] = "starting"
  /\ server' = [t \in Server |-> "done"] /\ api' = "teardown"
  /\ handler' = IF server[3 - s] \in {"queued", "done"} THEN original[s] ELSE original[3 - s]
  /\ UNCHANGED <<original, shouldExit, captured, rosUp, node, joined, gaveUp, signals>>

\* The main loop sees should_exit and closes its connections.
ServerExits(s) ==
  /\ Awaiting /\ server[s] = "serving" /\ shouldExit[s]
  /\ server' = [server EXCEPT ![s] = "raising"] /\ handler' = original[s]
  /\ UNCHANGED <<api, original, shouldExit, captured, rosUp, node, joined, gaveUp, signals>>

ServerRaises(s) ==
  /\ server[s] = "raising" /\ captured[s] > 0
  /\ shouldExit' = Stopped(handler)
  /\ captured' = Captured(handler, [captured EXCEPT ![s] = @ - 1])
  /\ UNCHANGED <<api, server, handler, original, rosUp, node, joined, gaveUp, signals>>

ServerDone(s) ==
  /\ server[s] = "raising" /\ captured[s] = 0
  /\ server' = [server EXCEPT ![s] = "done"]
  /\ UNCHANGED <<api, handler, original, shouldExit, captured, rosUp, node, joined, gaveUp,
                 signals>>

\* Mutant: the first server to end ends the loop.
ServedOne == api = "serving" /\ \E s \in Server : server[s] = "done"

\* _serve_all: gather waits for both.
Served == api = "serving" /\ \A s \in Server : server[s] = "done"

ServeAllReturns ==
  /\ Served
  /\ api' = "teardown"
  /\ UNCHANGED <<server, handler, original, shouldExit, captured, rosUp, node, joined, gaveUp,
                 signals>>
-----------------------------------------------------------------------------
(* main's finally, and the spin threads. *)

RosShutdown ==
  /\ api = "teardown"
  /\ api' = "joining" /\ rosUp' = FALSE
  /\ UNCHANGED <<server, handler, original, shouldExit, captured, node, joined, gaveUp, signals>>

\* _ros_spin: spin returns only after rclpy.shutdown, then the node is destroyed here.
SpinReturns(n) ==
  /\ ~rosUp /\ api # "exited" /\ node[n] = "spinning"
  /\ node' = [node EXCEPT ![n] = "destroying"]
  /\ UNCHANGED <<api, server, handler, original, shouldExit, captured, rosUp, joined, gaveUp,
                 signals>>

NodeDestroyed(n) ==
  /\ api # "exited" /\ node[n] = "destroying"
  /\ node' = [node EXCEPT ![n] = "done"]
  /\ UNCHANGED <<api, server, handler, original, shouldExit, captured, rosUp, joined, gaveUp,
                 signals>>

JoinThread ==
  /\ api = "joining" /\ node[joined + 1] = "done"
  /\ joined' = joined + 1 /\ api' = IF joined = 0 THEN api ELSE "exited"
  /\ UNCHANGED <<server, handler, original, shouldExit, captured, rosUp, node, gaveUp, signals>>

\* A callback that takes longer than five seconds.
JoinThreadTimesOut ==
  /\ api = "joining" /\ node[joined + 1] # "done"
  /\ gaveUp' = gaveUp \union {joined + 1}
  /\ joined' = joined + 1 /\ api' = IF joined = 0 THEN api ELSE "exited"
  /\ UNCHANGED <<server, handler, original, shouldExit, captured, rosUp, node, signals>>

ServerStep(s) ==
  \/ ServerStarts(s) \/ ServerBinds(s) \/ ServerFails(s)
  \/ ServerExits(s) \/ ServerRaises(s) \/ ServerDone(s)

MainStep == ServeAllReturns \/ RosShutdown \/ JoinThread \/ JoinThreadTimesOut

ApiNext ==
  \/ Signal \/ MainStep
  \/ \E s \in Server : ServerStep(s)
  \/ \E n \in Node : SpinReturns(n) \/ NodeDestroyed(n)

ApiSpec == /\ ApiInit /\ [][ApiNext]_apiVars
           /\ WF_apiVars(MainStep) /\ \A s \in Server : WF_apiVars(ServerStep(s))
-----------------------------------------------------------------------------
ApiTypeOK ==
  /\ api \in {"serving", "teardown", "joining", "exited"}
  /\ server \in [Server -> {"queued", "starting", "serving", "raising", "done"}]
  /\ handler \in {RequestStopHandler} \union Server
  /\ original \in [Server -> {RequestStopHandler} \union Server]
  /\ shouldExit \in [Server -> BOOLEAN] /\ captured \in [Server -> 0..MaxSignals]
  /\ rosUp \in BOOLEAN /\ node \in [Node -> {"spinning", "destroying", "done"}]
  /\ joined \in 0..2 /\ gaveUp \subseteq Node /\ signals \in 0..MaxSignals

(* A signal at any moment, also between the two servers' own handlers being *)
(* installed or restored, stops both servers and ends the process.          *)
SignalStopsAll == signals > 0 ~> api = "exited"

(* The ROS side outlives the servers, and the process outlives the ROS side, *)
(* but for a thread whose join timed out (_ros_spin: "main MUST join this    *)
(* thread before returning").                                                *)
TeardownInOrder ==
  /\ ~rosUp => \A s \in Server : server[s] = "done"
  /\ api = "exited" => \A n \in Node : node[n] = "done" \/ n \in gaveUp
=============================================================================
