# AMR Polebot: specifications, checks and proofs

The AMR Polebot is a differential-drive warehouse robot. A Jetson runs ROS 2
nodes, a Mitsubishi Q-series PLC drives the motors and counts their encoders, a
SICK TiM 5xx LiDAR watches the surroundings, and an MQTT broker connects the
robot to a fleet server. This directory holds TLA+ models of the robot's code,
the TLC configurations that check them on small instances, and theorems that
TLAPS proves about them for every value of their constants. `PROJECT.json` lists
runs, mutants, hazards and theorems, and maps each definition to the source
lines it models.

Check a run with `tlc -config <cfg> <module>`, a proof with `tlapm <module>.tla`.

## 1. Inventory

### Components

| Component | Source (under `src/src`) | State | Operations |
|---|---|---|---|
| PLC driver | `amr_hardware_bridge/.../plc_driver_node.py` | last command, last ticks, connection flag, retry time, heartbeat bit, MC protocol client | `_cmd_callback`, `_cycle_callback` (100 ms timer), `_try_reconnect_if_needed`, `destroy_node` |
| Kinematics: commands | `amr_base_controller/.../kinematics_node.py` | ramped speed of each motor | `_cmd_vel_callback` |
| Kinematics: odometry | same file | last ticks and their time, pose, twist | `_ticks_callback` |
| MQTT bridge | `amr_mqtt_bridge/.../amr_mqtt_bridge_node.py` | connection flags, latest pose/scan/encoder/PLC values, `_nav_state` | goal, cancel, emergency stop (network thread); connect, disconnect; four publishing timers |
| Teleoperation | `amr_mp_teleop/.../manual_control_node.py` | key held, run flag | keyboard thread, publishing timer, shutdown |
| Hardware interface | `amr_mp_hardware/src/polebot_hardware_interface.cpp` | wheel positions, velocities, commands, last ticks | configure, start, stop, read, write, ticks callback on its own thread |
| Behaviour tree | `amr_mp_bringup/config/amr_nav_tree.xml` | retry counters, round-robin index | nested recovery loops |
| LiDAR driver: TCP session | `sick_scan_xd/driver/src/{sick_scan_common_tcp,sick_scan_common_nw,sick_generic_laser,sick_generic_monitoring}.cpp`, `tcp/tcp.cpp`, `include/sick_scan/template_queue.h` | socket, receive buffer, datagram queue, run state, time-outs, request mutex | receive thread; connect, initialise, loop, restart; services; signal handler; point cloud monitor |
| LiDAR driver: the rest | `sick_scan_xd` | | parsing of telegrams, other device families, C API |
| Launch files and scripts | `amr_mp_bringup/launch`, `*.sh` in the root | running processes | start and stop mapping and navigation |
| Descriptions, Nav2/SLAM parameters | `amr_description`, `amr_mp_description`, YAML | none | data |

### How they interact

```
 keyboard -> teleop --+
 Nav2 ----------------+--> /cmd_vel --> kinematics --> /wheel_cmd_vel --> PLC driver --> PLC
 fleet -> MQTT bridge-+                     ^                                |
   |                                        +------- /wheel_ticks <---------+
   |  (behaviour tree inside Nav2)
   +-- /odom, /plc_status, /wheel_ticks, /cmd_vel, /scan, /amcl_pose
 TiM 5xx --TCP--> LiDAR driver --> /scan --> Nav2, SLAM
```

Everything between nodes is a ROS topic with a bounded queue; only the driver
talks to the PLC, one request at a time. Each Python node has a single-threaded
executor, so callbacks of one node exclude each other; the MQTT client, the
keyboard reader, the executor of the hardware interface and the four threads of
the LiDAR driver are threads of their own.

### What is hard

* The driver's cycle is five requests. The link, the PLC or the process may fail
  between any two of them, a request may have been executed although its answer
  was lost, and the PLC serves a single connection that it may still hold for a
  driver that is gone, until its power is cycled (`src/README.md:360-363`).
* The encoder counters wrap around at 32 bits, messages are dropped, the node is
  restarted and the PLC may clear the counters.
* A stop is ramped per message, so whoever stops the robot must keep sending.
* Nobody in the chain has a time-out for commands, and three publishers share
  `/cmd_vel`.
* The MQTT client reconnects by itself while a timer of the node reconnects, too,
  and the broker keeps a retained identity and a last will across both.
* The LiDAR driver has one queue for scans, replies and errors, searched by
  two threads for keywords that are not disjoint; a mutex held while a reply is awaited; a receive thread
  that may end by itself; and a receive buffer that outlives the connection.

### What makes each component correct

* PLC driver: the registers show one snapshot of the command and never one new
  and one old wheel between cycles; shutdown is safe when it says so; the
  connection comes back after any sequence of failures, unless the PLC keeps the
  session of a driver that crashed; the heartbeat alternates.
* Commands: the bands of the two zones, enough torque for slow wheels, never the
  wrong direction, symmetry, a bounded change per message, and arrival at the
  command within a bounded number of messages.
* Odometry: the pose is the distance between the first and the last reading used,
  whatever was lost in between; pose and twist agree.
* Command chain: a cancel, an emergency stop or a released key stops the motors.
* MQTT bridge: the retained identity becomes true again in both directions, and
  the subscriptions come back with the connection.
* Teleoperation: releasing a key, quitting and dying all end in a stop.
* Hardware interface: no torn read, no callback after the stop, the stop returns.
* Behaviour tree: recovery ends within the work its nested loops add up to.
* LiDAR driver: scans come back after any break of the connection, no datagram
  behind the break is lost, requests return, one thread reads a connection.

The hazards, each at its line and with the properties that would catch it, are in
`PROJECT.json`.

## 2. Plan and state

| Step | Module | What | Status |
|---|---|---|---|
| 1 | `SlmpWords` | 16/32-bit conversions of both nodes | proved |
| 2 | `PlcDriver` | driver, link, PLC, clock | implements `MotorRegisters`, safety proved |
| 3 | `WheelCommand` | `/cmd_vel` to motor commands | checked, safety proved |
| 4 | `Odometer`, `Odometry` | odometry implements an ideal odometer | checked, refinement and drift proved |
| 5 | `CommandChain` | publishers, queues, ramp, sampling, registers | checked, stop proved; its cycle implements `MotorRegisters` |
| 6 | `MqttBridge` | connection life cycle, identity, last will | checked, safety proved |
| 7 | `Teleop` | two threads and shutdown | checked, safety proved |
| 8 | `HwInterface` | executor thread against controller manager | checked, safety proved |
| 9 | `NavTree` | nested recovery loops | checked, bound and its variant proved |
| 10 | `TeleopChain` | `CommandChain` with the threads of `Teleop` | implements `CommandChain`, proved |
| 11 | `DatagramQueue`, `SopasFraming`, `LidarSession` | a session of the LiDAR driver | checked, safety proved |
| 12 | `MotorRegisters` | what the chain may rely on at its end | implemented by steps 2 and 5, proved |

`CommandChain` composes `WheelCommand` (as an instance) with the publishers and
the driver's two writes; `TeleopChain` puts `Teleop` into it and implements it;
`PlcDriver` and `CommandChain` meet in `MotorRegisters`, which both implement;
`LidarSession` is built on `SopasFraming` and `DatagramQueue`; `Odometry` implements
`Odometer` and shares `SlmpWords` with `PlcDriver`.

Every invariant and every action property of a passing run is proved, and so is
the type invariant of every module that states one, which for that reason is in no
run. Worth proving next: variants like those of `NavTree` and `Teleop` for the other
loops (what each round of a reconnect or of a ramp brings nearer to its end).

## 3. Modules

Each module named `...Proofs` holds the theorems about the modules before it; section
5 has the arguments. An `MC...` module defines the values of the constants for TLC.
`MqttBridge`, `Teleop`, `NavTree` and `LidarSession` need no such definitions: their
configurations give the values, and TLC runs the module itself. The definitions of
`MqttBridge` and `Teleop` carry the module's name where they would clash otherwise
(`BridgeInit`, `BridgeSpec`, `TeleopInit`, `TeleopTypeOK`, ...), since `PublisherProofs`
extends both of them and `NavTree`.

### SlmpWords

`speed_to_mc_words`, `u16pair_to_u32`, `u32_to_signed` and the masked difference
both nodes compute, over a word of `WordBase` values. TLC uses 4 values, the
code has 65536, the theorems hold for every even number.

### PlcDriver

| Model | Code |
|---|---|
| `cmdRight`, `cmdLeft` | `_cmd_right`, `_cmd_left` |
| `plcConnected`, `backoff`, `hbBit` | `_plc_connected`, `_next_reconnect - time.time()`, `_hb_bit` |
| `pc`, `out`, `elapsed` | where the running callback stands, `out_r`/`out_l`, age of `now` |
| `plc`, `session`, `reachable` | registers and relays, the PLC's one connection (the driver's, closed by the driver or left by a dead one), the link |
| `CmdCallback` | `_cmd_callback` |
| `CycleReconnect`, `Reconnect`, `CycleStart` | the start of `_cycle_callback` with and without a retry |
| `ReadEncoders` .. `ServoLock`, `CycleError` | the five requests and the `except` clause |
| `ZeroRight` .. `Close` | `destroy_node` |
| `Interrupt`, `Kill`, `Restart` | Ctrl-C, SIGKILL, a new process |
| `Outage`, `Recover`, `PlcFrees`, `PlcRestart`, `Tick` | environment |

The cycle is split at its requests: between them the rest of the world moves, but
no other callback of the node does (single-threaded executor). A request is
answered if the socket is the one the PLC holds and the link is up; otherwise it
raises, and the PLC may have executed it if it holds the session. Answers arrive
in order and belong to their request (the protocol library is a blocking client on
one TCP connection). Time is kept as differences, cut off at `ReconnectS`, which is
exact because the code compares times only with `_next_reconnect`.

`src/README.md:360-363` (Troubleshooting, `<ES:0180840b>`) tells of a PLC that refuses
every connection after a crash of the driver until its power is cycled. So a process
that ends without `close`, killed or in a shutdown that failed, leaves the session
`stuck`: the PLC may free it at any time or never, and the first run may find it so.
`Recovers` and `CommandDelivered` make an exception of a session that is stuck for
good, since no step of the driver can end it; without the exception TLC shows the
driver trying to connect for ever. A session the driver closed by itself, after
a failed cycle, is freed once the PLC can be reached: the close gets to it then.

`FollowsCommand` says that all this implements `MotorRegisters`: the driver's command
(zero without a driver) and the speeds its registers stand for.

### MotorRegisters

The two motors as the rest of the chain sees them, without connections, words,
sessions, answers or a shutdown. The registers keep their speeds, get the right
wheel of the present command (`Write`, a cycle broken off between its two requests)
or both, or are cleared by a loss of power. A driver that ends (`End`) leaves only
zero to be written, besides a request that was under way. So no sequence of
commands, failures, restarts and kills puts into the registers a speed the robot has
not just been told, a left wheel without its right one, or an old command after a
new one. `PlcDriver` implements the whole of it, `CommandChain`, whose driver
neither ends nor loses its PLC, only `Command` and `Write` (`CycleFollowsCommand`).

### WheelCommand

The whole `/cmd_vel` callback as one action: limits, zero-snap, zone, pivot floor,
limits again, ramp, publication. `Target` is the pure part, `_ramp` the stateful
one. Velocities are mm/s and outputs tenths of a PLC unit; quotients are truncated
towards zero where the code keeps a float, so bands and thresholds are exact to a
tenth of a unit. `dt` is computed by the code and used by nothing, and is left out.
`last` and `repeats` are history. NaN (which the limits turn into the upper
bound) is not modelled.

### Odometer and Odometry

`Odometer` promises: what is shown is the travel from the first sample used to the
latest. `Odometry` is the code: counters modulo 2^32, a queue that drops its
oldest message, baseline, jump filter, pose and twist. `travel` is the truth the
code cannot see; a message carries the travel it stands for next to its ticks, as
history. The pose is kept per wheel, which gives the heading exactly; `x` and `y`
integrate along an arc and are left out. `_jump_count` has no effect but on itself.

`Turn` assumes that the robot does not move by `jump_filter_m` (5 m) between two
readings that are used after each other. At 3 m/s that is more than a second and
a half of silence from the driver; a robot that is driven for longer while the
driver has lost its PLC falls under the jump filter and its pose loses that
distance by design of the filter.

### CommandChain

| Model | Code |
|---|---|
| `nav` with `Goal`, `NavDrives`, `NavEnds` | Nav2, as a publisher of `/cmd_vel` |
| `key` with `Press`, `Release`, `TeleopTimer`, `TeleopEnds` | `manual_control_node` as a publisher |
| `burst` with `_handle_stop`, `_zero_vel` | `_handle_cancel`, `_handle_estop` and their loops of zero velocities |
| `stop_nav` | `stop_nav.sh`, the kill of `controller_server` and `bt_navigator` |
| `cmdVel`, `_cmd_vel_callback`, `plcRight`, `plcLeft` | the topic and the callback of `kinematics_node` |
| `wheelCmdVel`, `_cmd_callback`, `cmd` | the topic and the callback of `plc_driver_node` |
| `_cycle_callback(writes)`, `reg` | the two writes of a cycle, of which two, one or none is executed |

Targets and ramp are those of `WheelCommand`, instantiated with the YAML values.
`alone` is history: no velocity but zero has been published since the last stop
began. That is also what the properties have to assume: a cancel or an emergency
stop neither cancels the goal nor latches (`amr_mqtt_bridge_node.py:217-231`), so
a Nav2 that still drives overrules it with its next message.

### MqttBridge

`node` is the thread of the timers and of `destroy_node`, `net` the thread of the
MQTT client, both with the points at which they can be overtaken: `destroy_node`
is split at its test of `_connected`, the offline identity, `disconnect` and
`loop_stop`; `_on_connect` at the flag, the identity and the subscription. `sent`
and `commands` are the packets on their way, lost with the connection. The broker
(`session`, `subscribed`, `identity`) publishes the last will of a session that is
stale and lets a new connection take it over. paho and the broker are external and
modelled as the node uses them; `_nav_state` follows the commands. `overlap` and
`missed` are history.

### Teleop

`keyboard` and `main` are the two threads, split where they read or write what the
other uses: `_run`, `_key`, `_lock`, and `rclpy.ok()`. `get_key` returns a key or
none after 50 ms. After a shutdown of ROS publishing raises, which is how the
program ends on Q. The keyboard thread is a daemon.

### TeleopChain

`CommandChain` has teleoperation as one process: a velocity that is held, a timer
that publishes it, an end. `TeleopChain` has the same nodes with the two threads of
`Teleop` instead, started again after each end; `Speak` puts what a thread publishes
into the queue, `Silent` is everything else the threads do. For the chain a key is
*held* from when the timer has read it until it reads another one, or until the
node cannot publish any more. `ImplementsChain` says that this is `CommandChain`.
`Twist` gives each key its velocity. TLC checks it with `ChainThreads.cfg` and
`MCTeleopChain` (one key, queues of one, about 200000 states), which is no run of its
own since the theorem covers it.

### HwInterface

The manager's thread calls `configure`, `start`, `write` and `stop`, one at a time
(the controller manager serialises them), and may read the exported positions in
every state; `stop` is split at its zero message, the flag and the join. The
executor thread polls `spinning_`, takes messages and runs `ticks_callback`, in
which the stores to the two positions are separate steps in either order, as the
reader takes no mutex. The manager does not configure a running plug-in. `Turn`
assumes what `sdelta` needs: a wheel does not turn by half of the counters' range
while a message waits, or since the last message that was used (with 2^32, over a
thousand turns). How far it goes in all is not limited. Not in
the model: `hw_velocities_` keeps its last value when ticks stop coming, a plug-in
destroyed without `stop` leaves its thread to the destructor, and full speed is
100 here where `plc_driver_node` takes 250.

### NavTree

One action per leaf and outcome. `RecoveryNode`, `RoundRobin`, `ReactiveFallback`
and `GoalUpdated` have the semantics of Nav2 (Foxy) and of the behaviour tree
library, which are external: the control flow they give this XML file is what the
actions are. Any leaf may fail every time. A path is named by the goal it leads to.

### DatagramQueue, SopasFraming and LidarSession

| Model | Code |
|---|---|
| `Keyword`, `Found`, `First`, `Popped`, `Rest` | `findFirstByKeyword`, `pop` of `template_queue.h` |
| `ScanKeys` | the keywords of `loopOnce` |
| `Parse` | `readCallbackFunction` and `findFrameInReceiveBuffer` |
| `reader`, `rx`, `Receive`, `ReceiveEnd`, `ReaderEnd` | the receive thread of `Tcp` and `m_receiveBuffer` |
| `main`, `request`, `Connect` .. `Renew` | `mainGenericLaser`: `init_device`, the requests of an initialisation, a new scanner object after a failure |
| `ScanArrives` .. `Awake`, `age`, `rto` | `loopOnce`, `checkState`, `reinit` with `close_device` and its pause |
| `svc`, `wanted`, `sopas` | a service of the executor's thread, `sendSopasAndCheckAnswer` under `sopasSendMutex` |
| `retry`, `SkipAnswer`, `Again` | its loop over answers that are not to its request |
| `signal`, `Interrupt`, `StopScanner`, `Joined` | `rosSignalHandler` |
| `cloudAge`, `Kill` | the point cloud monitor |

The session is the one the robot's TiM 5xx has: TCP, CoLa-B, one scanner. A
datagram is its kind and, on the wire, a head and a tail, so that `recv` and a
break of the connection can cut it in the middle. The head of a broken connection
and the bytes of the next one meet in the receive buffer, which the reconnect does
not empty; the 8-bit checksum usually notices, and the model lets it be `lucky`.

A reply is found by the keyword of its request. There is one keyword for each case:
`LMDscandata` is that of a scan, of the last request of an initialisation and of what
`ColaMsg` may ask for; `LIDoutputstate` that of a service and of `loopOnce`, as are
`LIDinputstate` and `LFErec`; `SCdevicestate` that of the first request and of a service;
`ECRChangeArr` that of a service alone. `Services` says which of them services ask for.
`lidar` has services whose keyword `loopOnce` does not look for; `LidarShared`, below,
has one that it does.

What the model assumes: a thread that can go on does so within a tick, since steps
take milliseconds and `ReadTimeout` ticks are 5 s; a scanner that measures sends in
every tick. The first and the last request stand for the dozens between them,
the try in the other CoLa dialect after the first failed fails, too,
replies fit one TCP segment so that only scans are cut, 100 wrong answers (the other
limit of the loop) take longer than its 5 s, the wire holds two
datagrams, a tick has at most one service call, the first `checkState` after a
start is skipped, and one round of `loopOnce` takes one datagram of its up to 25.
Refused requests (`RefusingSpec`) and the monitor's kill (`MonitorSpec`) are added
to `Next` only where a run asks for them.

## 4. Runs

| Run | Module, configuration | Shows |
|---|---|---|
| `plc_cycle` | `MCPlcDriver`, `PlcCycle` | the registers follow the command (`MotorRegisters`), safe shutdown, servo, heartbeat, retry spacing; recovery and delivery of a command that stays, unless the PLC keeps a dead driver's session; report of an outage; under commands, outages, PLC restarts, interrupts and kills anywhere |
| `plc_shutdown` | `MCPlcDriver`, `PlcShutdown` | *violated*: `src/README.md:187` claims motor zeroing on shutdown; a driver stopped while waiting to reconnect leaves the motors running |
| `wheel` | `MCWheelCommand`, `WheelCommand` | bands, torque, direction, symmetry of the speeds sent; ramp bound and arrival over command sequences |
| `odom` | `MCOdometry`, `OdomTrack` | odometry implements the ideal odometer until the PLC loses its counters, and is off by less than two jumps afterwards |
| `hw` | `MCHwInterface`, `HwInterface` | readable positions, zero and silence after stop, stop returns |
| `chain` | `MCCommandChain`, `ChainStop` | a cancel or emergency stop nobody speaks against stops both motors, a released key brings the robot to rest |
| `bridge` | `MqttBridge`, `BridgeLive` | whoever is online has a session whose end takes that back; once what `_on_connect` sent has arrived the robot is online and subscribed; the identity becomes true again after outages, kills, shutdowns and a restart |
| `teleop` | `Teleop`, `TeleopPass` | an interrupt stops; Q publishes nothing more, waits for no lock and exits; a released key shows |
| `teleop_quit` | `Teleop`, `TeleopQuit` | *violated*: Q while another key is held leaves its velocity as the last word |
| `nav` | `NavTree`, `NavRecover` | recovery ends, within its bound |
| `lidar` | `LidarSession`, `LidarSession` | three breaks of the connection at any moment: one reader, no datagram behind the break lost, a thread finds in the queue what it has seen there, scans again, requests return; for services whose keyword is none of `loopOnce`'s |
| `lidar_refused` | `LidarSession`, `LidarRequest` | *violated*: a request the scanner refuses may never return, as the scan loop takes its error reply |

Every property of a passing run has a mutant: a plausible bug in a mapped
definition that makes the property fail under the same configuration.

### Further divergences

These configurations are no runs of the project, but each is violated by what the
code does and reproduces a difference from a comment or document, or a behaviour
worth knowing.

| Configuration | Module | Property | Where |
|---|---|---|---|
| `PlcAtomicPair` | `MCPlcDriver` | `AtomicPair` | `src/README.md:186` claims one atomic write for both wheels; they are two requests |
| `PlcBackoff` | `MCPlcDriver` | `BackoffAfterFailure` | `src/README.md:187` claims a 2 s backoff; after a failed cycle it is counted from before the failing request |
| `PlcJump` | `MCPlcDriver` | `JumpCycleIgnored` | the log says a jump cycle is ignored; it becomes the new baseline |
| `WheelPivot` | `MCWheelCommand` | `PivotTurns` | `_apply_pivot_floor` promises a minimum for both wheels of a pivot; the deadband has zeroed a slow one |
| `ChainRamp` | `MCCommandChain` | `RegisterRamp` | "per tick" (`kinematics_node.py:30`): the ramp is per message, two messages in one driver cycle add up |
| `ChainKill` | `MCCommandChain` | `StopNavStops` | `stop_nav.sh` kills the publisher, the motors keep the last speed |
| `BridgeShutdown` | `MqttBridge` | `ShutdownIsOffline` | `_on_connect` during `destroy_node` announces the robot behind its back |
| `BridgeListens` | `MqttBridge` | `OnlineListens` | online is announced (`:159`) before the commands are subscribed (`:164`) |
| `TeleopPress` | `Teleop` | `PressMoves` | a key of 50 ms may fall between two ticks of the 100 ms timer |
| `NavTotal` | `NavTree` | `SixInTotal` | "max 6 kali total" (`amr_nav_tree.xml:7`): six per path, up to 24 in total |
| `NavNewGoal` | `NavTree` | `NewGoalFollowed` | a new goal (`:6`) ends the recovery, but the path to the old one is followed |
| `LidarKilled` | `LidarSession` | `Recovers` | `sick_generic_monitoring.cpp:211-215`: "the node is restarted by ros"; no launch file of the robot respawns it |
| `LidarShared` | `LidarSession` | `RequestReturns` | `sick_scan_common_tcp.cpp:786`, "Set timeout in 5 seconds": without any break or refusal a request for `LIDoutputstate` (`sick_scan_services.cpp:427-445`) never returns, as `loopOnce` looks for the same keyword (`sick_scan_common.cpp:4512-4514`) and takes the reply the service has found; or the service takes what `loopOnce` has found, and no scan comes any more (with `Losses = 1` `Recovers` is violated, too) |
| `LidarExit` | `LidarSession` | `Exits` | the signal handler joins a thread that waits for the mutex the interrupted service holds |

### Bounds and why they are enough

* `PlcCycle`: words of 4 values and speeds -3..3, so that negative speeds use both
  words and the sign extension matters; a message beyond both limits, one with a
  fraction and one too short; `ReconnectS` of 2 ticks, so that a time-out may take
  none, part or all of the backoff. The number of failures, restarts and cycles is
  not bounded.
* `WheelCommand`: every threshold of the default parameters with a velocity on each
  side of it, both limits exceeded, all four signs; the real ramp rate and six
  commands in any order for any time. `MCNext` gives a command that is not among
  the six only to a robot that has not moved, and only repeats it then: its target
  does not depend on what came before. `RepeatBound` (18) caps the history counter,
  after which the command has been reached for sure.
* `OdomTrack`: counters of 16 values that start next to the wrap-around and to the
  sign change, jumps of 3 ticks, a queue of 2, wheels that move within two ticks
  of the start, which crosses both boundaries in both directions; turns one way
  only, since the code treats the wheels alike; one reset (two give the same result).
* `HwInterface`: counters of 4 values, wheels that turn opposite ways up to 4 ticks
  to either side of their start (`Span`), so two whole rounds of the counters, from
  next to the wrap-around and next to the sign change; a queue of 1, one command
  beyond the limit on one side. Messages, starts and stops are not bounded.
* `ChainStop`: the real parameters. 0.3 m/s is boosted to the cruise minimum of 120
  units, so three ramp steps of 40 bring it to rest, as the three zeros of a cancel
  do; the ten of an emergency stop, which full speed needs, are three here, and the
  arithmetic from full speed is `Converges`. Queues of three and one: the first
  holds the zeros of a stop, the second loses messages.
* `BridgeLive`: two lives of the process, any number of outages and refusals.
* `TeleopPass`: two keys. `NavRecover`: the retries of the file, two goals, one
  change of the goal.
* `LidarSession`: three breaks, so that one can hit the initialisation that
  follows another; time-outs of 2 and 3 ticks, the smallest that differ and leave a tick
  between a late scan and a restart. Time-outs of 3 and 4 give the same results.
  Services ask for `SCdevicestate`, the keyword an initialisation asks for, too; with
  services for all four keywords and one break the invariants hold as well. There the
  loop over wrong answers runs in a service, too. `LidarShared` needs no break.

### Fairness

* `plc_cycle`: weak fairness of the constructor, of the cycle, of the shutdown and
  of the clock: the executor keeps serving the timer, and a request returns or
  times out. A PLC that can be reached ends up dropping a connection the driver has
  closed, not one that a dead driver left (`src/README.md:360-363`). Nothing is
  assumed about power cycles, commands, interrupts, kills, restarts, outages or their end: each
  property states for itself that the PLC stays reachable (or unreachable) and the
  process running.
* `hw`: the executor thread is scheduled, and a stop that has begun goes on. Strong
  fairness of `Leave`: `spin_some` ends after 10 ms however many messages come.
* `chain`: executors, teleoperation's timer and the network thread run, and the
  PLC executes a whole cycle again and again. Nothing is assumed of Nav2 and keys.
* `bridge`: both threads, the broker and the end of stale sessions. Strong fairness
  of `Accept`: the client tries again and again, and the broker does not refuse it
  for ever.
* `teleop`: both threads run, `get_key` returns; strong fairness of taking the lock,
  which each thread holds for an assignment only.
* `nav`: every leaf ends; Nav2's actions have time-outs of their own.
* `lidar`: the scanner is reachable again some time and answers, every thread goes
  on, time passes. Strong fairness of `Ask` and `SvcAsk`: a thread that waits for
  the mutex gets it some time; of `Tick`: the steps in between do not starve time.
  Breaks, service calls and interrupts are not fair.

## 5. Proofs

All theorems hold for every value of the constants that satisfies the named
assumption of the module.

* `SlmpWordsProofs`: `SpeedRoundTrip` (what the driver writes is what a motor
  driver reads back, for every 32-bit speed) and `WrappedDistance` (the masked
  difference is the distance moved, if it is less than half the range). Behind
  both, and behind the counters of `Odometry` and `HwInterface`, is that quotient and
  remainder are unique.
* `PlcDriverProofs`: `TypeCorrect`, `MotorsMatch`, `ShutdownIsSafe`,
  `ServoReleasedOnlyAtRest`, `HeartbeatAlternates`, `RetriesSpaced`. The inductive
  invariant `RegisterInv` adds to the types what each request of a cycle and of a
  shutdown has left in the registers by the time of the next one. It is needed
  because `RegistersMatch` speaks of the end of a cycle only: it says nothing of a
  cycle half done, so no single step preserves it. `BackoffInv` relates the wait to
  the age of the last refusal. `DriverFollowsCommand` is the refinement of
  `MotorRegisters`, for every behaviour, with links that fail, drivers that are killed
  and a PLC that restarts. It needs to know between two requests what the next one
  will write: `Snapshot` says that it is the present command, since no command can
  come in during a cycle. Each request then maps to a `Write` or a stutter, executed or
  not, answered or not; a shutdown's first step to `End`.
* `WheelCommandProofs`, sequences of commands: `OutputTypes`, `CommandReached`,
  `RampHolds`. The invariant `CommandInv` says that what was published is what is
  remembered (the final limit changes nothing) and that the distance to the target of
  the last command shrinks by the ramp rate with each repetition. With the default
  parameters it gives nine messages from full speed to zero.
* `WheelCommandProofs`, the target of a velocity: `TurnsKept`, `ZonesKept`,
  `TorqueKept`, `MirrorKept`. Each stage (scaling, deadband, boost, pivot floor,
  limits) is shown to keep the order of the wheels, or to be odd, for all integers;
  truncation and the division by the faster wheel are where this is not obvious.
  `TurnsKept` holds for every parameter set. The others need an order of the
  parameters that the node does not enforce: `ZonesApart`, `TorqueAllowed`,
  `EvenLimits`. `kinematics_params.yaml` and the defaults of the node satisfy them,
  and TLC evaluates them for these values (`DefaultsInOrder` in `MCWheelCommand`).
* `OdometryProofs`: `ReadingTypes`, `TwistMatchesPose`, `DriftBounded` and
  `OdometryIsOdometer`. `DriftInv` gives each reading under way and the one used last
  an *age*, the number of times the PLC had lost its counters before it: between two
  readings of one age, ticks and travels differ by the same, modulo 2^32; ages never
  decrease along the queue; and the pose is off by less than two jumps for each age
  that has been used. `Drift` alone does not say which readings are still under way.
  All of them are less than a jump apart, so the increment is the travel between two
  readings by `WrappedDistance`. Without a reset the bound is zero, `Jump` is
  impossible, and every action maps to one of `Odometer` or to a stutter: that is the
  refinement, and `Implements` claims a step of `Odometer` for just as long.
* `HwInterfaceProofs`: `TypeCorrect`, `PositionsReadable`, `StopLeavesZero`,
  `QuietAfterStop`. Nothing is assumed of how far the wheels go: `Close` says that
  whatever the callback may compare lies less than half of the counters' range apart,
  which `Turn` keeps up. `ReadablePositions` relates positions to history only;
  `Baselined` adds what the callback relies on: the stored counters are those of the
  last message used, a wheel has moved only inside a callback with a proper message,
  and no thread is left when `start` forgets the baseline. `Zeroed` carries the zero
  of `stop` through the rest of it. `DeltaIsWay`, the arithmetic, says that `sdelta`
  of two readings is the way between them, wrapped around or not, if that is less
  than half of the range.
* `CommandChainProofs`, the chain: `ChainTypes` and `StopIsReached`, for every depth of
  the queues and every set of velocities. `StopReaches` is about the moment when the
  last zero is through; `StopInv` is about the way there. As long as velocities that
  were published before the stop are left in the queue, the zeros behind them and
  those still to come are enough for any speed that can be asked for (`Ending`);
  afterwards they are enough for the speeds of now (`Slowing`), which each callback
  lowers by a step of the ramp. `Attained` bounds the speeds of now by those that can
  be asked for, `Delivered` says that the driver has or will get the newest pair,
  however many the queue dropped. The hypothesis `EnoughZeros` is not enforced by any
  node: a cancel sends three zeros, three steps of 40 bring down 120 units, and
  `plc_cruise_min` is 120, so that three are just enough for what Nav2 and the keys
  ask for; full speed needs nine, which the ten of an emergency stop cover and the
  three of a cancel do not. TLC evaluates it for the YAML values (`ZerosEnough` in
  `MCCommandChain`).
* `CommandChainProofs`, the end of the chain: `CycleIsDriver`, that the registers of
  the chain follow its command as `MotorRegisters` says. With `DriverFollowsCommand`
  this is why `CommandChain` may stand for the driver with one action per cycle.
* `CommandChainProofs`, a composition: `ThreadsAreOneProcess` says that `TeleopChain`
  implements `CommandChain`. The timer's reading of a key is a press, a release or
  nothing, its message is the timer of the one process, the end of the node its end
  with or without a last zero, and a new start a release. `Remembered` (every key
  that is remembered has a velocity) is the invariant. What is proved of the chain for
  all its behaviours, `StopReaches` for one, so holds for the chain with the threads.
  The hypothesis `TwistAssumption` says that no key means the zero velocity.
* `PublisherProofs`, the tree: `TreeTyped`, `WorkIsBounded` and `TreeNearsEnd`. `Budget`
  says for each place in the tree how much has been spent there at most, given the
  two retry counters; the bound alone says nothing of the work still to come.
  `NearsEnd` is the safety core of `Ends`: `stepsToEnd` is a natural number
  (`StepsCounted`, from `Budget`), and every leaf that ends, well or not, and every new
  goal lowers it (`StepNears`). It is no property of a run, as the work it counts down
  is what `WorkBound` and `Ends` check.
* `PublisherProofs`, teleoperation: `InterruptLeavesZero` of `InterruptStops` with `Ended`
  (ROS is shut down by Q or at the very end, so that `destroy_node` finds it up and its
  zero is the last message); `QuitEnds` of `QuitWindsDown` with `Winding` (after Q the
  keyboard thread has ended without the lock), from which only the last steps of the
  main thread are left (`LastSteps`); `TeleopTyped`.
* `PublisherProofs`, the bridge: `OnlineRevocable`, `SettledOnline` and `BridgeTyped`.
  `BridgeInv` has three parts: `Threads` says where each thread may stand while the
  socket is open and the session lives; `FinalPacket`, that a disconnect is the last
  packet; `Farewell`, that behind each online on its way there is an offline wherever
  the session can end without a last will. `OnlineHasSession` says nothing of the
  packets under way, which is why it is not inductive. `SettledIsOnline` needs the
  other half: `Announcing` says for each point of `_on_connect` which of its packets
  have arrived and which are still to come.
* `LidarSessionProofs`, the session: `OneReaderAlways`, `NoFrameLost` and `SessionTypes`. `Handover`
  says why `open` may start a thread without a look at the last one: on every way to
  it the old thread was joined, or had closed the socket by itself before a pause
  that outlasts it. This rests on the model's assumption that a thread's step takes
  less than a tick. `FramesInv` follows the bytes: what is on the wire is a stretch of
  heads and tails in order (`InOrder`), from the second datagram of a connection on
  the receive buffer holds a head exactly if a tail comes next (`Fitting`), and a
  connection is opened only where the last one is gone (`Closed`). What `Parse` makes
  of a buffer is shown for buffers of any length: `ParseEquation` says that the
  recursive function satisfies its definition, by induction on the length
  (`Induction`, on sets of natural numbers, from the library's theorem about minimal
  elements of a well-founded relation).

* `LidarSessionProofs`, the queue: `PopsNeverWait`. `template_queue.h` unlocks between
  `waitForIncomingObject` and `pop`, and `pop` waits without a limit for what it does
  not find, so what one thread has seen must be left there by all others.
  `PopNeverWaits` says where they do: for a service whose keyword is none of
  `loopOnce`'s, whatever other services ask for, and for the scan loop where no service
  asks for one of its keywords. It is about `Spec`, in which the scanner refuses
  nothing, since an error reply is found by everybody. Beyond these premises it is not
  true: `LidarShared` and `lidar_refused` show what then happens. Four parts make it
  inductive. `NoErrors` keeps `sFA` out of the wire, the receive buffer and the queue,
  by what `Parse` makes of a buffer (`ParseKinds`: it makes up no kind). `InOperation`
  says that the queue is replaced only where nobody pops. `Holders` says that of main
  and a service the one that is at its answer has the mutex, so that the requests of a
  reinitialisation, which take any answer to their keyword, cannot take a service's.
  The scan loop is kept away by its keywords: a message received joins the others
  (`GrownHolds`), one taken leaves those of other keywords (`RestHolds`).

What is only model-checked are the liveness properties (`Recovers`, `CommandDelivered`,
`DisconnectReported`, `StopReturns`, `StopArrives`, `ReleaseStops`, `GoneIsOffline`,
`BackOnline`, `QuitExits`, `ReleaseShows`, `Ends`, `RequestReturns`): they rest on
fairness, and ENABLED is beyond the prover. For `Ends` and `QuitExits` the variant is
proved, and what is left to fairness is that leaves end and threads go on. There is
no RECURSIVE operator.

## 6. Not modelled

* `sick_scan_xd` beyond the session: the parsing of telegrams into point clouds and
  scans, the device families the robot does not have (radar, multiScan, NAV350,
  LD-MRS, UDP), the C API, tinyxml and the ROS 1 wrappers. This is most of the
  repository's lines; it is vendored, and what is not dead for this robot is
  conversion of data without state.
* In the session: the requests between the first and the last of an
  initialisation, the switch between the CoLa dialects, and the software PLL of the
  time stamps, which is not on the way of a scan: it falls back to the system time
  when it is off by more than two seconds.
* The MQTT bridge's periodic status messages: they copy the latest values and
  decide nothing. Its `_nav_state` never learns the end of a goal; there is no code
  to state a property of.
* `x` and `y` of the odometry, covariances, TF messages, logging and formatting.
* Nav2, SLAM, AMCL, paho-mqtt, the broker and the MC protocol library are external;
  only what the robot's code may see of them is modelled. Their parameters, the
  URDF descriptions and the launch files are data.
* The shell scripts except the kill of `stop_nav.sh`: they start and end processes
  in one fixed order.
* `zero_crossing_cooldown_s` of `plc_driver_params.yaml` (with a comment that warns
  not to lower it) is read by no code, so no model has it.
