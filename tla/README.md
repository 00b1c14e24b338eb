# FACTR leader server: TLA+ models and proofs

The repository runs a *leader arm*: a chain of Dynamixel servos that a person moves by
hand while its joint angles drive a robot, and that pushes back with gravity
compensation and force feedback. What can go wrong is physical: a servo that stays
energized, or that is energized with an old current, moves by itself. The models are
therefore first about who may write which servo register, when, and what is left when
something fails on the way; then about what the programs around the leader tell one another.

## 1. The system

Paths are relative to `src/FACTR_Teleop/src/`; `T` is `factr_teleop/factr_teleop`,
`A` is `factr_fastapi/factr_fastapi`.

| Component | State | Operations | Talks to | Module |
|---|---|---|---|---|
| Dual-board leader, `T/factr_teleop_dual_base.py`, `T/factr_rizon_dual_board.py` | gains, targets and ramp timestamps, `leader_torque_enabled`, control thread, stop event, board I/O executor | constructor, control tick, gain/force/null-space callbacks, telemetry timers, `shut_down` | two drivers, the ROS topics of its side | LeaderTorque, LeaderGate, TorqueGate |
| Single-board leader, `T/factr_teleop.py`, `T/factr_rizon_teleop.py` | the same without thread and executor | the tick is a timer callback of a `MultiThreadedExecutor` | one driver, the ROS topics of its side | SingleBoardLeader, SingleBoardGate, TorqueGate |
| Control laws, `T/gain_control.py`, `T/angles.py`, `T/gripper_feedback.py` | dither flag, null-space target | one torque per joint and tick | the two leaders | GainRamp, LeaderLaws |
| Dynamixel driver, `T/dynamixel/driver.py` | `_torque_enabled`, `_lock`, group read and write parameters, counters, event ring, latest reads | torque mode, operating mode, goal current, fast sync read, snapshot | vendored SDK, serial port | DynamixelBoard, StateRead, DiagnosticRing |
| Dynamixel SDK, `T/dynamixel/python/` | `port.is_using`, receive buffer, deadlines | one packet transaction at a time | the servos | PacketBus, SingleBoardLeader |
| Joint state, `T/raw_joint_state.py` and the publisher | newest sample and its sequence number | `update`, `snapshot`, `publish_joint_pos` | tick, topic, relay, client | JointStream |
| Force feed | `_external_torque` and its time | filter, clip, cut off when stale | client, relay, topic, tick | FeedbackFeed |
| Leader configuration, `T/leader_config.py` | accepted contract | validation, index expansion and selection, signs, offsets, gains | the two leaders | LeaderConfig |
| API relay, `A/factr_api.py` | copy of the leader's gains, targets and torque flag, last reading, telemetry and its version | HTTP requests, WebSocket streams, topic callbacks | leader over topics, clients over HTTP and WebSocket | FactrRelay, JointStream, FeedbackFeed, EventLedger |
| API process, `main` of the same file | signal handler, two servers, two spin threads | start, signal, teardown | uvicorn, rclpy | ApiProcess |
| Diagnostics, `A/factr_rerun.py`, `A/factr_rerun_sidecar.py` | watermarks, recent events | one connection per side, reconnecting; log each event once | relay's stream, Rerun | EventLedger |
| Data recorder, `bc/bc/data_record.py` | recording flag, log, episode files | three keys, one callback per topic | topics, files | DataRecorder |
| Policy rollout, `bc/bc/policy_rollout.py`, `rollout.py` | observations, action history, recording | timer, callbacks, two keys | topics, the policy, files | PolicyRollout |
| Follower bridge, `bc/bc/franka_bridge.py`, `python_utils/.../zmq_messenger.py` | last value of each socket | receive, publish by timer, forward an order | ZMQ, topics | FollowerBridge |
| Cameras, launch files, service, joint publisher tool, generated install trees | | | | not modelled: pure I/O and configuration |

How they interact: a client sends HTTP requests and force frames to the relay, the relay
publishes them on topics of one side, the leader's callbacks store them, the tick reads
them; the other way the tick caches samples and telemetry, timers publish them, the relay
keeps the latest and streams it to clients and to the sidecar. Nothing on the way is
acknowledged, every topic keeps its last ten messages, and every process may be restarted
alone.

Hard behaviours: three threads of the dual-board leader share the gains without a lock;
the single-board leader shares one serial port between its timer callback and
`shut_down`; every bus transaction can fail after it took effect; a loop over servos or
boards can stop half-way; loss of the reads must not block an off request; an answer that
missed its deadline is taken for the next one; the relay's copy of the state has three
writers; events are repeated in every telemetry sample, over reconnects of everything;
a keyboard thread swaps a log under the callback that fills it. `PROJECT.json` lists these
hazards, each at its line, with the properties that watch it.

What makes each component correct:

- *leaders*: energize only from zero current; never tick on with half-energized boards;
  honour an off request whether reads succeed or not; end de-energized, board by board;
- *driver and bus*: what its flag says about the servos, what a failed call leaves behind,
  the lock is given back; a sample is one answer; no snapshot shows an event its counter
  does not count, and the alert events of reads tell the alerts the last read found (alerts
  that come with a write are outside both); an accepted answer is the asked servo's, and not older than failures explain;
- *control laws*: whatever branch the encoder is on, the posture term pulls the short way;
- *configuration*: the two calibrations agree, absent joints rest, no sign is lost between
  model and motors, and what is reported is what the motors were sent after clip and
  truncation;
- *joint state*: each sample at most once, with the effort of its own tick, never backwards;
- *force feed*: only torques of good frames, and none for ever;
- *relay*: its status converges to the leader's state, and the last request wins;
- *API process*: any signal ends it, in order;
- *diagnostics*: each event logged once and in order, missing only by eviction;
- *recorder, rollout*: no episode written over; lists of one file pair up; an ensemble
  averages predictions for the step it commands;
- *bridge*: the last order of the leader is the last one the follower gets.

## 2. Modules

```
GainRamp  <-  DynamixelBoard  <-  LeaderTorque  <-  LeaderGate  ->  TorqueGate (abstract)
                     ^                  ^               ^                    ^
                     |                          LeaderTorqueProofs           |
                     |                                                       |
              SingleBoardLeader     <----------     SingleBoardGate  --------+
                                                          ^
                                                SingleBoardLeaderProofs

DiagnosticRing  <-  EventLedger  <-  EventLedgerProofs
DiagnosticRing  <-  StateRead

MCParts  ->  StateRead, PacketBus, JointStream, FeedbackFeed, ApiProcess, LeaderConfig,
             LeaderLaws, DataRecorder, PolicyRollout, FollowerBridge

SampleProofs       ->  StateRead, PacketBus, JointStream
LeaderModelProofs  ->  LeaderConfig, LeaderLaws, FeedbackFeed
ProcessProofs      ->  DataRecorder, PolicyRollout, ApiProcess, FollowerBridge
PartsProofs        ->  MCParts, SampleProofs, LeaderModelProofs, ProcessProofs
RelayProofs        ->  FactrRelay
```

**GainRamp** translates `ramp_gain` (a gain is a number of steps out of `MaxLevel`, the
elapsed time is counted in the steps it is worth) and the one fact of
`compose_arm_torque` the leaders rely on: the leader gain bounds the composed torque, and
a gain of zero commands zero.

**DynamixelBoard** gives each driver call as the set of its *outcomes*: what the driver
object and the servo registers become, whether the call raised, whether the bus failed,
and at which servo a loop stopped. `SetTorqueMode` is the loop of `set_torque_mode`: the
servos before the failing one are written, the failing one may have executed the write
whose answer was lost, the ones after it are untouched and the flag keeps its value. The
bounded retry of `_write_1_byte_with_retry` is inside one outcome here and explicit in
SingleBoardLeader. `SetCurrent` is refused while the flag is down, or while an earlier
failed sync write has left its parameters in the group (`addParam` returns False). `goal`
is the current last *sent*: the sync write is not acknowledged, so what a servo latched is
unknown to the code and to the model.

**LeaderTorque** is the dual-board leader. `main` prepares the boards, spins and shuts
down; `control` is `_control_loop_worker`; `gain` is the executor worker that runs
`_on_grav_comp_gain_target`. Every read and write of a shared gain is a step of its own,
because the interpreter may switch threads between any two of them; a driver call is one
step, because only one thread at a time may use a board (that this is so is part of what
is proved: `ThreadOrder`). `pc` says what a thread does next, `at` which board its loop
has reached, `errors` whether its error list is non-empty. The two loops of `shut_down`
and of `_set_leader_torque_enabled(False)` have the same text for the zero writes, so
`ZeroBoard(t)` models both. `disable_stopped` is a history variable: where the shutdown's
own disable of each board stopped (0: it returned). Init leaves the servo registers
arbitrary, as an earlier process may have left them; this also covers the best-effort
torque-off of `DynamixelDriver.__init__`, whose failures the code ignores.

**TorqueGate** is what the leader promises, as a session in the phases preparing, idle,
arming, armed, disarming and over, with the only register changes each phase allows.
**LeaderGate** maps LeaderTorque to it (`Phase`) and states `KeepsGate == Gate!Spec`.

**SingleBoardLeader** is the single-board leader from the end of a successful
constructor. Its tick is a timer callback, and nothing keeps `shut_down` from running
beside one in flight, so each driver call is modelled transaction by transaction: the
driver's lock, the test and the setting of the SDK's `port.is_using`, the attempts of a
write, the parameters of the group write, the closed port. The arguments of `ramp_gain`
are read in one step and so are its return values; the interleavings of those reads are
in LeaderTorque.

**SingleBoardGate** maps SingleBoardLeader to the same TorqueGate, with one board and the
phases read off the callback's place in its driver calls. It states `KeepsSession`: from the
idle session on every step is one of TorqueGate or a stutter, until a callback raises or
`shut_down` begins (`Phase = "over"`); what may happen from then on is findings 2 and 3.

**FactrRelay** composes the relay of one arm with an abstract leader whose tick is one
step. `view` is the relay's copy of targets, gains and torque flag; its writers are the
HTTP handler (`PublishTarget`, then `StoreTarget`: the code publishes before it takes the
lock), the 10 Hz state topics (`UpdateState`) and telemetry (`UpdateTelemetry`, which
overwrites all of it). `snapshot` is the last *complete* tick, so telemetry is frozen while
reads fail and the state topics are not. Topics keep `Depth` messages; a restart of either
process empties what waited for it.

**DiagnosticRing** is `deque(maxlen)`, shared by the next two. **StateRead** is one driver's
reads and register writes and what they record: an answer is a sequence of blocks, accepted when every expected servo is in it once
and nobody else, but a rejected answer may already have left parts of itself in `data_dict`.
What a read records (counters, alert events, jumps) is a queue of lock acquisitions
(`pending`), with the telemetry thread's snapshot possible between any two. A write of the
torque mode or the operating mode (`WriteSucceeds`, `WriteFails`, `WriteRaises`) has a queue
of its own, whose acquisitions fall between those of a read: an alert on its answer is
appended without a count and is not compared with the alerts of reads, the attempts it
repeated are counted and told by an event, and a write given up is counted without one. A
read that the serial port interrupts records nothing (`ReadRaises`).
**EventLedger** follows an event from the rings of an arm's drivers through telemetry, the
relay's latest value, the push stream and the reconnecting sidecar into the viewer. The
publisher's loop runs event by event (`LogEvent`), each driver's watermark is stored after
its last event (`StoreWatermark`) and the document is written at the end
(`LogEventLedger`), so an exception of the viewer loses exactly what was not stored yet
(`PublishRaises`), and a restart of the sidecar may strike between any two of them. A
session is one life of the leader process.

**FeedbackFeed** takes a force from a client's frame to the servos. A frame carries what is
wrong with it, the relay refuses some faults (`RelayRefuses`) and the leader one more, the
length. `age` stops counting at the timeout, where the tick (`External`) lets go.
**JointStream** goes the other way. A sample is its stamp; an effort is the stamp of the
sample it was computed from, so "its own effort" is an equation. `variant` says which leader
publishes: the single-board one also publishes after a failed read.

**ApiProcess** is the process around the relay: one signal-handler slot that `main` and two
uvicorn servers take in turn, restored by each server as it found it, captured signals
raised again, then `rclpy.shutdown` and the joins of two spin threads, with timeouts.
uvicorn is external and modelled from what `main` relies on.

**LeaderConfig** launches with a contract out of `Sound` or with one of the `Defects` of
`load_leader_model`'s checks, and then iterates: raw frame -> FACTR's model coordinates and
back from model torques to the goal currents of the motors on the bus (`GoalCurrent`:
clipped to `CurrentLimit` and truncated towards zero to whole counts, each worth `Grain[s]`
units of torque) and to the torque reported for them (`CommandedTorque`). **LeaderLaws** is one joint's torque: periodic
error, limit barrier, friction with its dither, force feedback and the trigger's spring,
over encoders that come up on any branch, and postures asked for at any angle.

**DataRecorder** and **PolicyRollout** have a keyboard thread beside the executor; each
statement that changes the shared log is a step. A log is the lengths of its lists, a
rollout's list the steps of its entries. An action chunk is the step it was predicted at.
**FollowerBridge** is the constructor that starts each receiving thread before it clears the
thread's value, the wait, the timer and the forwarding. **PacketBus** is the half-duplex
bus: requests one at a time, status packets that arrive late, damaged or never, a receive
buffer nobody clears, the id of a packet as all that is compared. The serial port may raise
while a packet is sent or awaited (`TxRaises`, `RxRaises`), which leaves `is_using` as it is;
while it is set, every transaction is refused (`PortBusy`).

**MCParts** runs ten of these modules in one model-checking run. They share no variable;
the first state chooses which `part` runs, the variables of the others keep their initial
values, and each part's fairness is conditioned on it (`MCFairness`). A behaviour of MCParts
is a behaviour of one part, so the state spaces add up and do not multiply.

The mutants (definitions marked *Mutant* in the modules) are wrong versions of a
definition. Each property of a passing run is violated when one of them takes the place
of the definition after it.

## 3. Runs

The CONSTANTs of the leaders and the relay are numbers, so their `.cfg` files give them to
the module directly; MCParts defines the sets and functions of the ten parts.

| Run | Module, cfg | Shows |
|---|---|---|
| `leader_torque` | LeaderGate, MCLeaderTorque | 2 boards of 2 servos, gains in 2 steps, 2 failures anywhere: `TypeOK`, `TickStartsCoherent`, `BoardsShutDownIndependently`, `KeepsGate` (which contains that torque comes on only from zero current). 1.1 million states |
| `leader_torque_live` | LeaderTorque, MCLeaderTorqueLive | 2 boards of 1 servo, 1 failure, fairness: `OffRequestHonored`, `DeadThreadShutsDown` |
| `shut_down_servos` | LeaderTorque, MCShutDownServos | finding 1 |
| `single_board` | SingleBoardGate, MCSingleBoard | 2 servos, 2 attempts a write: `TypeOK`, `IdleIsCoherent`, `EnergizesFromZero`, `KeepsSession`. 2.5 million states |
| `single_board_live` | SingleBoardLeader, MCSingleBoardLive | 1 servo, 1 attempt, fairness: `ShutDownCompletes` |
| `single_shut_down`, `stays_disabled`, `enabling_from_zero_gain` | SingleBoardLeader | findings 2 to 4 |
| `relay` | FactrRelay, MCFactrRelay | 2 requests, 1 crash of either process, full topics: `TypeOK`; `Converges` (the copy becomes the leader's state and stays it) and `LastRequestWins` (a disable ends off and "disabled", over crashes too; an enable the leader was alive to keep ends on and "enabled") |
| `frozen_telemetry` | FactrRelay, MCFrozenTelemetry | finding 5 |
| `event_ledger` | EventLedger, MCEventLedger | 2 drivers, rings of 2, 3 events, 2 lives of the leader, 2 lost connections or restarts, 1 exception of the viewer, 507 thousand states: `TypeOK`, `LoggedOnce`, `SkippedOnlyByEviction`, `DocumentIsCurrent`, `NewestIsShown` |
| `parts` | MCParts, MCParts | the ten parts, 320 thousand states; the next table |

| Part of `parts` | Properties |
|---|---|
| StateRead | `SampleIsOneAnswer`: a returned sample is all from one answer. `CountersCoverEvents`: a snapshot at any moment shows no event its counter does not count, an alert on a write excepted, and without eviction a counter is ahead of the events by the writes given up and one more at most. `EventsTellAlerts`: replaying the retained alert events of reads gives the alert the last read found on every servo they name, whatever a write appends among them |
| FeedbackFeed | `OnlyGoodFramesApply`; `ForceLetsGo` (liveness): frames that stop leave no force in the last command |
| JointStream | `PublishesOwnEffort`, `ClientNeverGoesBack`; `NewestReachesClient` (liveness) |
| ApiProcess | `TeardownInOrder`; `SignalStopsAll` (liveness) |
| DataRecorder | `EpisodesAreKept`, `SavedPairsUp` |
| LeaderConfig | `CalibrationsAgree`, `AbsentJointsRest`; `MotorsDoTheWork`: the work of the motors is the work reported, and the torque reported is the one asked for, less a fraction of a count, or the clip |
| LeaderLaws | `PullsTheShortWay` |
| PolicyRollout | `EnsembleIsForNow`, `RolloutPairsUp` |
| FollowerBridge | `LastOrderArrives` (liveness) |
| PacketBus | `AnswersAreRecent` |

`PartsTypeOK` is the type invariant of all ten.

Bounds. Two boards are what the code has, and two servos are enough for a loop over
servos to stop before, at and after the first and last; the theorems of section 4 cover
every other number. Two failures are needed for a failed enable whose cleanup fails too.
`MaxLevel = 2` gives a gain that is neither off nor full. `MaxFaults` bounds failures of
the bus and of a driver call in one behaviour; skipped reads are not counted, so reads may
fail for ever. `STARTUP_WRITE_ATTEMPTS` is 3 in the code and 2 in `single_board`: a first
attempt, a repetition, and the last one which raises. In SingleBoardLeader the failures
are not bounded at all.

In the relay two requests are an order and its reversal, with a third writer's old value
between them; `LeaderSteps = 2` gives a gain under way; topics of depth 1 drop on every
second message, the hardest case for convergence. Three events over rings of two evict one,
and two drivers with two sessions tell a watermark per board from one per session. In the
parts, every bound is the smallest with the case a property is about: a queue shorter than
the messages (`StreamDepth`, `FeedDepth`, `OrderDepth`), a limit below a torque (`FeedLimit`),
as many signals as there are handlers, three recordings over two numbers with a crash,
a horizon that fills and then slides, as many requests as give an answer that is late twice,
an absent joint, a joint of each sign, a torque that leaves a fraction of a count under one
gain and is clipped under the other, a turn of four units with the half turn among them and
postures outside of it, a write with one repetition that is given up after two attempts.
One write beside three reads (`MaxWrites`) can fall before, between and after the
acquisitions of each. `RawFrame`, `TorqueFrame`, `Targets`, `Triggers`, `Speeds` and
`Gravities` sample the integers; for LeaderConfig and LeaderLaws the theorems below cover all
of them.

Deadlock is checked in every run but `parts`; `Terminated` is the ended process. In
`parts` some of the bounded parts really end (an exited API process, a bus whose requests
are used up), so `MCParts.cfg` says `CHECK_DEADLOCK FALSE`.

Fairness. `LeaderTorque!FairSpec` has weak fairness for the control thread (an infinite
loop of its own), the constructor, the rest of a gain callback that has begun, the
shutdown, and the return of `spin()` once the context is down. Nothing makes a read
succeed, the bus fail, the operator press Ctrl-C or a message arrive. In
`SingleBoardLeader!FairSpec`, main and the timer's worker run when they can.
`FactrRelay!RecoveringSpec` schedules the timers and callbacks of live processes, starts a
crashed leader again, and lets complete reads come again and again; `FailingReadsSpec` is
the same without the last, so reads may fail for ever. `EventLedger!Spec` keeps control
loop, telemetry timer, relay and sidecar (which reconnects in an endless loop) running.
`MCFairness` does the same for the parts: the feed's clock and ticks, the stream's loop and
its client, main and the event loop of the API process, the bridge's threads and the
followers, which send all the time. Clients, signals, faults and keys are under no fairness.
A thread that can run does run on the interpreter and the operating system; nothing
stronger is used.

### Findings

1. *Dual-board shutdown, servos of one board.* `shut_down` "Disables all torque on the
   leader arm and gripper", yet `set_torque_mode` (`T/dynamixel/driver.py:311`) stops at
   the first servo that fails, and the servos after it stay energized.
2. *Single-board shutdown, zero write.* `T/factr_teleop.py:466` is not guarded: when it
   raises, the disable in the next line is skipped and the port is closed on an energized
   arm. The model's shortest trace is Ctrl-C while a callback is sending: its parameters
   are still in the group write, so the zero write is refused.
3. *Single-board shutdown, callback in flight.* A timer callback that has decided to
   energize does so after `shut_down` has returned.
4. *Ramp restarted in the middle of a request.* The gain callback clears the ramp's
   timestamp and then installs the target. A tick that stores a timestamp in between makes
   the next tick, the one that energizes, command more than zero, where the comment at
   `T/factr_teleop.py:656` asks for "a true zero command". The servos still come on with
   zero latched (`EnergizesFromZero` holds).

5. *Telemetry frozen while reads fail.* `get_status` returns "the authoritative hardware
   torque state" (`A/factr_api.py:510`). `_publish_telemetry` publishes the snapshot of the
   last complete tick ten times a second also while reads fail, and `_update_telemetry`
   copies its flag, gains and targets over the relay's. An off request carried out during
   the failure is thus undone in the relay's copy by each sample and redone by each state
   message, for as long as reads fail. With reads that recover `Converges` holds.

### Seen while modelling

These are not findings of a run; a reader of the models will ask.

- While reads fail with a positive target the last torque command stands; the control loop
  says so (`T/factr_rizon_dual_board.py:67-69`). `ForceLetsGo`, the comment's "never leaves a
  standing force", therefore needs ticks that keep completing.
- `FACTR_Teleop/README.md:43` of the repository says disabling force feedback "publishes an immediate
  zero-torque sample"; the relay publishes a gain target of zero, and the gain ramps down.
- A relay that restarts reports "disabled" and readings without a stamp until the first
  messages arrive, with the leader possibly on (`Zero` and `reading = 0` in the models).
- The single-board leader publishes its warm-up sample, with zero effort, when its first
  read fails; `PublishesOwnEffort` names that exception.
- An answer that misses its deadline stays in the receive buffer: from then on that servo's
  answers lag by one request. `AnswersAreRecent` bounds the lag by the failures.
- A serial exception in the middle of a transaction leaves `port.is_using` set (no `finally`
  in `protocol2_packet_handler.py`), so from then on every transaction on that port is
  `COMM_PORT_BUSY`, also the torque-off of the shutdown, until the process is restarted
  (`BusTypeOK` names the exception). In DynamixelBoard this is a run of failures, of which the
  theorems allow any number; SingleBoardLeader, where `port.is_using` is explicit, has the
  transactions that return only.
- An alert that comes with the answer of a write is an event that `status_alert_count` does
  not count and that no `status_alert_cleared` need follow; the viewer's "Servo status alerts
  (cumulative)" therefore leaves it out. A write given up raises the failure counter without
  an event (`CountersCoverEvents`, `EventsTellAlerts` say so).
- The leader's gain is not divided out of the torque reported: it is what the motors were
  sent, after gain, clip and truncation (`MotorsDoTheWork`).
- Saving a recording in which no message came raises in the keyboard thread after the file
  was written (`keys.at = "dead"`); a callback that runs while a new log has no topics yet
  raises in the executor (`recorder = "dead"`).
- Episode numbers are counts of files: a file deleted by hand would let the next save write
  over an episode. Deletion by the recorder itself takes the last one only.
- `action_chunk_ensemble` raises when chunks are shorter than the horizon; the shipped
  configuration is not (`RolloutAssumption`).
- The vendored SDK has no `fastSyncReadRx`; the driver needs a newer one at run time, and
  StateRead models the driver's own parsing of the answer.
- The relay filters and publishes gripper force; no leader here subscribes to it.
- `_on_null_space_control` says "Atomically install" of two plain stores; what a tick in
  between does, two requests in a row may do as well.

## 4. Proofs

Eight modules hold theorems, each for every value of the constants its module's named
assumptions allow (`GainAssumption`, `BoardAssumption`, `LeaderAssumption`,
`StreamAssumption` and so on, which are all that is assumed and which the runs evaluate).

**LeaderTorqueProofs**, for every `MaxLevel`, `NumServos`,
`NumBoards >= 1` and every `MaxFaults >= 0`:

- `TypeCorrect`: `Spec => []TypeOK`.
- `Inductive`: `Spec => []IInv`. `TickStartsCoherent` is not inductive: it says nothing of
  the middle of a loop over the boards. `IInv` adds who may touch the boards
  (`ThreadOrder`: main only before the control thread starts and after it ended), and the
  boards' registers at each point: `BoardsInv` between the loops, `EnablingInv` and
  `DisablingInv` inside them (the boards before `at` are done, provided no error was
  collected; those from `at` on are as before), `ConstructorInv`, `ShutDownInv` and
  `LoopsInv` (a loop starts at the first board).
- `TicksStartCoherent`, `ShutDownIndependent`, `EnergizingFromZero` follow from it. The last
  is also part of what TorqueGate allows; it is stated apart because it needs no phases.
- `KeepsTheGate`: `Spec => KeepsGate`, the refinement: with `IInv` every action of
  LeaderTorque is an action of TorqueGate or leaves phase and registers alone
  (`GateStep`, one step per action).

- `StopRunsDown`: a control thread that ended has stopped the loop and main's spin with it
  (`StopInv`), and once `stop` is set *every* step of any thread lowers `StepsLeft`, the
  most that is left of the tick under way, of a gain callback, of the targets that arrived
  and of the shutdown. A tick already under way may still enable, fail and clean up; it
  cannot start another one.
- `OffRequestRunsDown`: the argument behind `OffRequestHonored`. The measure is the pair
  of `OffLevel`, the gain as the ramp will see it (one more while the ramp may still raise
  it, `RampIsFresh`), and `OffSteps`, the steps to the next store of the gain or, once it is
  zero, to the end of the disable. Every step of the control thread lowers the pair, through
  the ramp when reads succeed and through the drop when they fail, and no step of another
  thread raises it.

The driver's calls are used only through `SetTorqueModeOutcome`, `SetCurrentOutcome` and
`EnableOnlySwitchesOn`: what each outcome keeps, reaches or bounds.

**SingleBoardLeaderProofs**, for every number of servos, attempts and gain steps:
`TypeCorrect`, `IdleCoherent`, `EnergizingFromZero`, from `IInv == TypeOK /\ Calls /\
FromZero /\ AloneInv`. `Calls` says which driver call a thread is in at each of its steps;
`AloneInv` says, while no other thread is in the driver, what the flags and servos are at
each stage of the call; `FromZero` carries "the last current sent is zero" from the read
that enables to the write that does, also beside a shutdown, which only ever sends zero.
The driver's lock and `port.is_using` do not enter: what matters is who is inside the driver
at all. That is also why nothing of the kind holds once `shut_down` has begun (findings 2
and 3). `KeepsTheSession` is the refinement of TorqueGate up to that point: outside driver
calls a step leaves the session alone (`SessionRests`), inside one each transaction is a
step of its phase (`SessionTransacts`), and the callback's decisions are the phase changes
(`SessionDecides`).

`LockExcludes` is about the lock after all: it is held exactly by the thread inside
`set_torque_mode`, by no other when a transaction raises or the port is closed, and a
thread that waits for it waits for one that waits for nobody, so the two threads cannot
block each other. It rests on the invariant `LockInv`, which `StepRunsDown` carries along.
`ShutDownRunsDown`: once `spin()` has ended every step of any thread lowers `StepsLeft`, a
count of transactions with a retry's remaining attempts and the servos still to come in it;
waiting is no step, and `LockExcludes` says that nobody waits in vain.

**EventLedgerProofs**, for any number of drivers, events, sessions, faults and exceptions,
any ring and any history: `LedgerIsTyped`, `AlwaysLoggedOnce`,
`AlwaysSkippedOnlyByEviction`, `DocumentIsAlwaysCurrent`. None of the four properties says
anything of a frame on its way, so none is inductive. `LedgerInv` adds that every frame in a
channel is a snapshot of all the rings of its session (`EndsAt`: the last events up to one
number), that nothing overtakes (`ChannelsInOrder`, `ShownIsOldest`), how far the publisher
is in a driver's list (`LoopInv`), and states the three properties about `Mark`, which is
the stored watermark or, inside the loop, the one to be: each event is in the viewer at
most once per exception and once more if the mark has passed it (`OncePerRaise`), without
exceptions the log is in order and below the marks (`OrderedUnlessRaised`), and every event
below a mark is in the viewer or was evicted (`MarksAreCovered`). The step that needs
the snapshots is `LogEvent`: what lies between the mark and the next event of a frame was
evicted when the frame was made (`GapIsEvicted`). That a bounded history of a bounded
history is the bounded log (`HistoryIsSuffix`) is what the document rests on.

**SampleProofs**, from the wire to the client:

- *StateRead*, for every set of servos, ring size, number of attempts, reads and writes:
  `ReadIsTyped`, `SampleIsAlwaysOneAnswer`, `CountersAlwaysCover`, `EventsAlwaysTellAlerts`.
  The invariant (`ReadInv`) says what the lock acquisitions still to come of either thread
  owe: each append that a counter counts is preceded by its count (`Paired`), a counter is
  ahead of the ring by what is owed and what was evicted (`RingCounted`), and the last word
  about a servo's alert is in the ring or still to be appended (`RingTells`,
  `PendingTells`).
- *PacketBus*, for every order of servos: `BusIsTyped` (with it that only a serial exception
  leaves the port taken), `AnswersAreAlwaysRecent`. One
  servo's packets stay in order through bus and buffer (`InTurn`) and lag by one request
  for each failed transaction, by one less while nobody waits for it (`NotFarBehind`).
- *JointStream*, for every queue depth, number of samples and restarts:
  `OwnEffortPublished` and `NeverGoesBack` from `InOrder` (the stamps along the path, from
  the client back to the leader's cache, are in order) and `OwnEffort`.
  `ClientNeverGoesBack` is an action property: alone it says nothing of the frame the
  client takes next. `StreamIsTyped`, and `NewestIsKept`: a full queue drops anything but
  the sample published last.

**RelayProofs**, the relay beside its leader, for every ramp length, depth, number of
requests and crashes:

- `RelayIsTyped`. The relay's copy is put together from four sources; `RelayInv` says of
  every message on each topic which fields it carries and that they are of a leader's sample.
- `LastRequestIsPending`: the target the leader will have once it has read what waits for
  it is the one asked last, or none if it was down since.
- `RelayCatchesUp`, an action property with the stages of `Converges`: between requests and
  crashes no gain moves away from its target and a complete tick brings each nearer
  (`GainsComeNearer`); then the snapshot is the leader's state, no topic holds more outdated
  messages than before and each message read is one less (`TopicsComeNearer`); then the next
  sample read makes the copy agree, and from there no callback's write changes it
  (`AgreementStays`). That the state topics cannot undo what telemetry wrote is where the
  third writer matters: they carry the leader's live values by then.

**LeaderModelProofs**:

- *LeaderConfig*, for every number of joints, every home, raw frame, torque, clip and torque
  of a count, and every contract `Acceptable` lets through: `ConfigIsTyped`, `Calibrated`,
  `AbsentRest`, `WorkIsDone`. The invariant ties the frame and the torques of the last
  iteration to the contract; the rest is algebra of signs (a sign is its own inverse), done
  joint by joint, and what truncation may lose (`WholeCounts`, `Quantized`).
- *LeaderLaws*, for every even turn, every posture, limit and spring: `LawsAreTyped` and
  `AlwaysPullsTheShortWay`, from the division that wraps an angle.
- *FeedbackFeed*, for every set of torques, limit, timeout and depth: `FeedTypeCorrect` and
  `OnlyGoodFrames`. The invariant follows a torque back to its frame: messages on the way
  were sent (`OnTheWay`), what the leader holds came from a frame without fault (`Held`).
  `ForceIsLetGo`: past the timeout at most three half-ticks (`GoSteps`) separate the servos
  from a command without external torque, each read or write is one less, nothing is one
  more, and only a frame without fault makes the feed fresh again; in particular the
  malformed frames of a client that is still connected do not.

**ProcessProofs**, the programs around the leader:

- *DataRecorder*: `RecorderIsTyped`; `EpisodesKept` needs that the files' numbers have no
  gap (`Numbered`: they are `0..n-1`, so their count, `Cardinality`, is a free number);
  `SavedEpisodesPairUp` needs how far the lists of the log in memory may be apart at every
  step of the two threads (`PairInv`).
- *PolicyRollout*, for every horizon and number of recordings: `RolloutIsTyped`,
  `EnsembleIsAlwaysForNow`, `RolloutAlwaysPairsUp`. The history holds the last inferences
  in order (`HistoryIsRecent`), each list ends at the current step (`ListsEndNow`) and what
  was pickled is still the beginning of its list (`DumpIsPrefix`).
- *ApiProcess*: `TearsDownInOrder` for any number of signals, from how far main, the
  servers and the threads are relative to one another (`InOrderDown`). `SignalsReachBoth`
  follows the one handler slot through the starts and ends of both servers (`Restores`,
  `Listens`, `Alone`): in every state a server that a signal has not reached will be told
  by the other one (`Told`). `ApiIsTyped` needs that signals are only passed on.
- *FollowerBridge*: `BridgeIsTyped`, and `BridgeIsInductive`: the queue is the last orders
  without a gap, so the follower has the last one as soon as the queue is empty.

**PartsProofs**, the composition: `EachPartRuns` is the refinement of each part's own
specification by the parts side by side (a step of one leaves the variables of the others
alone), and with it every theorem about a part is one about the composition: `PartsAreTyped`
and `PartsAreSafe`.

Only model-checked: the liveness properties themselves (`OffRequestHonored`,
`DeadThreadShutsDown`, `ShutDownCompletes`, `Converges`, `LastRequestWins`, `NewestIsShown`,
`ForceLetsGo`, `NewestReachesClient`, `SignalStopsAll`, `LastOrderArrives`). Fairness and
`ENABLED` are outside what the prover does, and so is the induction on a measure that would
end such a proof. What is proved of them, for every value of the constants:

| Liveness property | Its proved part |
|---|---|
| `OffRequestHonored` | `OffRequestRunsDown`: each step of the control thread comes nearer |
| `DeadThreadShutsDown` | `StopRunsDown`: finitely many steps are left |
| `ShutDownCompletes` | `ShutDownRunsDown` and `LockExcludes`: finitely many steps are left, nobody waits in vain |
| `Converges` | `RelayCatchesUp`: stage by stage nearer, and agreement lasts |
| `ForceLetsGo` | `ForceIsLetGo`: each half-tick comes nearer |
| `LastRequestWins` | `LastRequestIsPending`: the last request is not lost on the way |
| `NewestReachesClient` | `NewestIsKept`: neither is the newest sample |
| `SignalStopsAll` | `SignalsReachBoth`: nor a signal |
| `LastOrderArrives` | `BridgeIsInductive`: nor the last order |
| `NewestIsShown` | none: the safety properties of the ledger say what is shown, not when |

That a step is possible wherever one is needed, and is taken, is what the runs with
fairness add on their instances. No invariant and no action property is left to the runs.

## 5. Not modelled

- The dynamics: gravity compensation, the null-space projector and other vector arithmetic,
  which are library calls or need real numbers; the calibration's search over offsets; the
  position-controlled startup motion of the single-board leader, its warm-up loop and
  `set_position`.
- The vendored SDK beyond what the driver relies on: Protocol 1, bulk reads, broadcast ping,
  byte stuffing and CRC (a packet is intact or not).
- The policy network with its weights, normalization and decoding; plots and meshes of the
  viewer; cameras, launch files, the service, the joint publisher tool: pure I/O, layout or
  configuration.
- A second Ctrl-C during `shut_down`, files changed by other programs, and real time other
  than as nondeterministic elapsed steps.
- One composed model of leader, relay and viewer: the leader's steps are taken apart in the
  leader modules and are one step in FactrRelay and EventLedger. `TorqueGate` is what
  LeaderTorque is proved to keep; the abstract leader of FactrRelay is read from the same
  code and is not a proved abstraction of LeaderTorque.
