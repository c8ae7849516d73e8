# The robot runtime of cpp-workshop in TLA+

`cpp-workshop` is a C++ workshop repository. Its one large program is the **robot runtime**
(`src/05_robot/robot_runtime/robot_runtime`, called **RR** below; source files are given relative to
`RR/src/`): a C++17 daemon that starts, stops and supervises the service processes of a robot, switches
between operating modes, watches processes and heartbeats, and is driven from a command line and over TCP.
Around it the repository keeps smaller programs that share no state with it: the module manager hub, the
communication library uav_comm, a message bus, a lock-free pipeline. This directory models all of these in TLA+, model-checks small instances with TLC and proves theorems about
every instance with TLAPS.

Sections: [1 Inventory](#1-inventory), [2 Plan](#2-plan), [3 Modules and code](#3-modules-and-code),
[4 Runs](#4-runs), [5 Fairness](#5-fairness), [6 Theorems](#6-theorems),
[7 What is only model-checked](#7-what-is-only-model-checked), [8 Findings](#8-findings),
[9 What is left out, and why](#9-what-is-left-out-and-why).

## 1 Inventory

Status: **M** modelled (with the exceptions of section 9), **-** not modelled (section 9 says why).

| Component | Source | State | Operations | Status |
|---|---|---|---|---|
| Service manager | `runtime/process/service_manager`, `common/process_utils.h` | `services_`, `mutex_`; per service `state_`, `pid_`; the kernel's process table | `start`, `stop`, `restart`, `start_all`, `stop_all`, `start_group`, `stop_group`, `all_status` | M |
| Process monitor | `runtime/monitor/monitor_manager` | `running_`, thread, `failures_` | `start`, `stop`, `monitor_loop` | M |
| Heartbeat monitor | `runtime/monitor/heartbeat`, `adapter/ros2/ros2_heartbeat_source` | `states_`, `mutex_`, `running_`, thread, callback | `Start`, `Stop`, `OnHeartbeat`, `CheckLoop`, `AddTarget`, `GetState` | M |
| Mode manager | `orchestration/mode` | `modes_`, `default_mode_`, `current_mode_` | `switch_to`, `apply_default` | M |
| Command dispatcher | `gateway/tcp/command_dispatcher.h` | none | one request after the other to the managers | M, as the client threads of the other modules |
| TCP gateway | `gateway/tcp/tcp_server`, `protocol_parser.h`, `auth_manager.h` | `running_`, `listen_fd_`, `client_threads_`; per session its byte buffer and whether it is authenticated | `start`, `stop`, `acceptor_loop`, `client_session`, `parse_frame` | M |
| Dependency manager | `runtime/process/dependency_manager` | the graph | `set_dependencies`, `add_dependency`, `resolve_start_order`, `resolve_stop_order` (depth-first) | M |
| Service access | `runtime/service_access`, `adapter/ros2/ros2_service_client` | registry, proxies, cache of ROS 2 clients | `init`, `call` | - |
| Configuration | `common/config_loader.h` | none | YAML to records | - (the constants of the modules) |
| Runtime core and CLI | `core/runtime`, `gateway/cli` | owns all of the above | `init`, `serve`, forwards | - (what it connects is modelled) |
| Module manager hub | `ros2_ws/src/module_manager_hub` (beside RR) | receive buffers, speed state, heartbeat table and files | serial frames, joystick, heartbeat collector, camera, lifecycle | M: the joystick's byte stream and the heartbeat files |
| uav_comm | `05_robot/uav_comm` | sequence windows, resend buffers, topic graph | publish, receive, NACK bitmap, heartbeat, announce, forget | M: reliable topics and discovery |
| Message bus | `05_robot/system-skeleton` | topics with task queues, ready queue | publish, subscribe, worker loop | M |
| Lock-free pools, buffers, queues | `02_underlying`, `05_robot/lockfree-pipeline` | list heads, indices | acquire/release, write/read, enqueue/dequeue | M: the queue and its pipeline |
| Remote control client | `ros2_ws/src/plugin/remote_control` | user interface | | - |
| Demonstrations and exercises | `01_barehand`, `03_work_demos`, the other demos | none that outlives a call | | - |

`05_robot/remote_control_refactor` and `05_robot/ros2_ws` hold a copy and an older form of the hub,
`05_robot/uav_comm_runtime` a copy of uav_comm; the zenoh directories are vendored.

### How the parts interact

`Runtime::init` (`core/runtime.cpp`) reads the configuration, builds the service manager, then the mode
manager and the process monitor on top of it, starts the monitor's thread, builds the heartbeat monitor
with one target per service and starts its check thread and its ROS 2 subscription, applies the default
mode and starts the TCP server. From then on these threads run:

```
 CLI main thread --.                                   .-- children (start.sh, stop.sh)
 TCP session 1 ----+--> dispatcher --> ModeManager --. |   exit, crash, ignore SIGTERM
 TCP session n ----'        |                        v v
                            '------------------> ServiceManager (mutex_)
 monitor thread ---- all_status(), no mutex --------'

 services --ROS 2--> subscription thread --> HeartbeatMonitor::OnHeartbeat --.
 check thread ------------------------------ CheckLoop ---------------------+--> status callback
```

- Clients call the service manager directly or through `switch_to`. `ServiceManager::mutex_` serialises
  one `start`, `stop` or `restart` at a time; group calls, `stop_all` and `switch_to` take it once per
  service, so that other clients come in between.
- `status`, `all_status` and the mode manager's reads of `state_` take no mutex.
- `reap_zombies` (`process_utils.h:27`) waits for *any* child: stopping one service takes the exit status
  of all others that have died. The process table is shared state.
- The programs around the runtime meet it, if at all, through the outside world. The hub's collector writes a
  file per target and says that the runtime reads it (`heartbeat_collector_core.cpp:71`); the runtime's code reads no
  such file, it listens to ROS 2. The operator's console sends the joystick over a serial line, which the hub
  parses. In uav_comm every handler runs on the one thread of the process's `Reactor`, `publish` on any thread,
  and nodes know each other only through messages. In the message bus, publishers and workers share a queue
  per channel and one queue of ready channels, each under its own mutex. In the pipeline three threads share two
  rings and no mutex.
- The two monitors only observe. Nothing restarts a crashed service: `auto_restart` is read from the
  configuration (`service_manager.h:78`), and the place to act on it is a TODO (`monitor_manager.cpp:63`).

### What is hard, and what makes each part correct

`PROJECT.json` lists every hazard at its line. In short:

- **Service manager.** Recursion under a mutex (`do_start`, `do_stop`) over a map it also reads; a start
  may fail half-way up; `restart` bypasses the dependencies; children die, ignore signals, or are reaped
  for somebody else. Correct if no live child is ever lost (`NoLostChild`), a running service has its
  dependencies (`DepsRunning`), stops go top down and starts bottom up (`StopsDependentsFirst`,
  `StartsDependenciesFirst`), the recursion is bounded (`NoReentry`), the mutex is always given back
  (`LockReleased`), and whoever reads states without it sees a life cycle (`ImplementsLifecycle`).
- **Process monitor.** Reads `state_`, then `pid_`, then asks the kernel, with any number of steps of the
  others in between, and `kill(pid, 0)` cannot tell a zombie from a live process. Correct if it accuses
  nobody wrongly (`SuspicionsJustified`) and records what is dead (`ReapedRecorded`, `CrashRecorded`).
- **Heartbeat monitor.** The clock is read before the mutex is taken; time stamps are the sender's; one
  thread calls the callback under the mutex and the other without. Correct if time-outs are justified
  (`TimeoutJustified`), told (`TimeoutTold`, `ListenerUpToDate`), found (`SilenceDetected`) and
  taken back (`Recovers`).
- **Mode manager.** Check-then-act without a mutex, over calls with side effects on other services
  (dependents go down, dependencies come up). Correct if an undisturbed switch reaches the mode
  (`ModeReached`, `ActiveRunning`) and a disturbed one does no harm outside it (`StaysInMode`).
- **TCP gateway.** `stop` against threads in `accept` and `poll`; a connection accepted when the server is
  already stopping; frames cut anywhere, and resynchronisation after a damaged one; clients that hang up.
  Correct if intact requests are answered at most once, in order and as the token allows (`AnswersFit`, `GrantedFirst`), and
  in the end all of them, those behind a damaged length that the stream never fills excepted (`Served`),
  `stop` leaves nothing behind (`NothingLeft`), and every thread ends (`SessionsEnd`, `StopReturns`).
- **Message bus.** Who serves a channel next is decided in two critical sections of two threads, the queue may
  be full meanwhile, and `notify_one` is called without the mutex. Correct if a channel has one server at a time
  and no task is stranded (`OneTicket`), no ready channel is left to sleepers (`NoLostWakeup`), and from outside
  the bus is a set of mailboxes (`ImplementsMailbox`).
- **uav_comm.** Loss, reordering and repetition against a window of sequence numbers and a bitmap that both
  samples and heartbeats shift. Correct if it drops only what the callback has had (`WindowHonest`) and catches
  up (`WindowFollows`); nodes that crash, or are taken for dead, are learnt again (`Rediscovered`).
- **Pipeline.** Two indices and plain slots between two threads. Correct if no slot is filled and copied at once
  (`NoTornFrame`) and frames stay in order through both rings (`PipelineInOrder`).
- **Hub.** A collector that may die between any two steps must not leave half a file under the name others read
  (`FileWhole`), nor the file of a target that has fallen silent (`SilentGoesOffline`). A parser of a stream cut
  anywhere must find every frame, and after a disturbance invent none (`StreamParsed`).
- **Dependency manager.** The keys of a hash map in any order, names that are no keys, cycles. Correct if both
  orders are ones (`OrderRespectsDeps`).

## 2 Plan

Most important first: everything else in the runtime acts through the service manager.

| | Module | What | Composes with | State |
|---|---|---|---|---|
| 1 | ServiceManager | calls, call stack, children, process table | ServiceLifecycle (abstract) | checked, proved |
| 2 | MonitorManager | unlocked snapshots | ServiceManager | checked, proved |
| 3 | HeartbeatMonitor | time, queue, check thread, callback | - | checked, proved |
| 4 | ModeManager | `switch_to` step by step | ServiceManager | checked, proved |
| 5 | FrameParser, TcpServer | the parser; acceptor, sessions, authentication, `stop` | - | checked; safety proved, the answers for undamaged frames |
| 6 | MessageBus | critical sections of publishers and workers | TopicMailbox (abstract) | checked, proved, liveness checked |
| 7 | ReliableTopic, Discovery | a reliable topic over a lossy transport; nodes that learn of each other | - | checked; safety proved |
| 8 | FramePipeline | three threads, two rings | - | checked, proved |
| 9 | HeartbeatFiles, SerialFrames | the hub's collector and its byte stream | - | checked; safety proved, the stream for an undisturbed line |
| 10 | DependencyOrder | the depth-first sort against a definition of an order | - | checked, proved |

Every invariant the runs check has a theorem (section 6). Two of them are proved under a condition the runs do without:
`AnswersFit` for frames that arrive undamaged, `StreamParsed` for an undisturbed line. Theorems worth adding: `AnswersFit`
with one damaged frame, which needs where the parser can resynchronise; what `StreamParsed` says after a
disturbance, which is true only of a checksum that tells the frames apart. Modules worth adding: the speed loop of the
hub and `ThreadPool` of the system skeleton, which nothing else uses yet; a process table in which ids return.

## 3 Modules and code

`PROJECT.json` maps every definition to the lines it stands for.

**ServiceManager** (`service_manager.cpp/.h`, `process_utils.h`). `state`, `pid`, `lock` are `state_`, `pid_`
and `mutex_`. `proc`, `owner`, `members` are the kernel: a process is unused, running, a zombie or
reaped; `owner` is the service it was forked for; `members` are the process groups with a live process
besides the leader. A thread inside the manager has a `stack` of active `do_start`, `do_stop` and `restart`
calls; each frame keeps in `todo` what its loop over `depends()` or `services_` has still to visit, in any
order (a hash map's). `at` says where in `ProcessService::start` or `stop` the innermost call is:

| Action | Code |
|---|---|
| `StartGroup`, `StopGroup`, `StopAll`, `Restart`, `Enter` | the public calls; one acquisition of `mutex_` per service; `stop_all` in the order of `resolve_start_order` reversed |
| `DoStart`, `DoStop` | one turn of the loop in `do_start`, `do_stop`, with the nested call |
| `BeginStart`, `Spawn`, `SpawnFails` | `ProcessService::start`: RUNNING test, STARTING, fork, RUNNING or FAILED |
| `BeginStop`, `RunStopScript`, `AwaitStopScript`, `ReapStopped`, `KillGroup` | `ProcessService::stop`: `stop.sh` with its three seconds, SIGTERM, three seconds, SIGKILL to the group, `reap_zombies` |
| `Exit`, `SpawnMember`, `MemberExit` | the children |

Each store that others can see without the mutex is a step. `restarted` is a history variable: the services
whose latest start or stop was done by `restart`, which ignores dependencies. Three seconds of waiting are a
choice between "in time" and "too late".

**ServiceLifecycle** is the abstract specification: what a reader of states may rely on. One service at a
time leaves STOPPED, RUNNING or FAILED, and it arrives. ServiceManager implements it with `state` mapped to
`state`, all else hidden.

**MonitorManager** EXTENDS ServiceManager with the monitor's thread. One turn of `all_status` is three
steps, `ReadState`, `ReadPid`, `Probe`, between which the manager moves freely. `touched` is a history
variable: services that left RUNNING after this pass read their state. `running`, `suspects`, `failures`
follow `running_` and the loop's records.

**HeartbeatMonitor** keeps times as ages, so that time needs no unbounded clock: an age grows with `Tick` and
stops at `Cap(s)`, past every comparison the code makes. `incoming` is the subscription's bounded history.
`ReadClock` and `Check` are apart because the code reads the clock before it takes `mutex_`; `lag` is what
has passed between them. `told` is what the callback heard last. A sender's clock may be ahead or behind.

**ModeManager** EXTENDS ServiceManager: a thread that switches looks at one service per step
(`LookForStop`, `LookForStart`), then hands its lists to the service manager as any client would (`CallStop`,
`CallStart`), and finally sets `current` whatever the calls returned. `Up(m)` and `Down(m)` are the two sets
`switch_to` distinguishes. `clean` is a history variable: the thread whose switch has been the only one to
change states, without a failed fork, since it began.

**FrameParser** is `pack_request` and `parse_frame` as operators on sequences of bytes; the check byte is a
parameter, for which MCTcpServer supplies `crc8`. **TcpServer** EXTENDS it with the owner (`Start`, `Stop`,
`CloseListener`, `JoinAcceptor`, `JoinSessions`), the acceptor (`AcceptorTurn`, `Accept`, `AcceptFails`, `Spawn`)
and one session per connection:

| Action | Code of `client_session` |
|---|---|
| `SessionTurn` | the test of `running_`; closes the connection when it fails |
| `PollTimeout`, `Read`, `EndOfStream` | `poll` with its second, `read` of one byte or of all there is, end or error |
| `ParseFrame` | the call of `parse_frame`, whose result is kept in `result` |
| `NeedMore`, `Skip`, `Handle` | the three branches on it: wait, drop bytes, consume a frame and answer |

A workload says which clients there are and what each may send; a message is a frame with at most one thing
wrong with it: check, footer, first header byte, or the length, which then promises the first bytes of the next frame
(`length`), two kilobytes that need not follow (`long`), or more than `MAX_DATA_SIZE` (`huge`). `net` are the bytes on their way, `answers` the responses written. The kernel's part: a socket that
is closed while a thread waits in `accept4` on it keeps listening until that call returns (Linux), and a write
to a connection that is gone may end the process, because the runtime leaves SIGPIPE alone (`up`). What a client is
due is a set of its messages: `Due(q)` are the intact ones up to the first that closes the session, `Place(q, i)` is
where the answer to the i-th comes. `InReach(q)` are those among them with no frame in front whose length promises more than
the client will ever send (`Overreaches`): for such a frame `parse_frame` returns 0 and waits (`protocol_parser.h:182`).

**MessageBus** (`message_bus.h`) has one action per critical section or step between two. `tasks` and `scheduled`
are the fields of `TopicChannel`, `ready` is `ready_topics_`.

| Action | Code |
|---|---|
| `GetOrCreateChannel`, `AddHandler` | `subscribe`: one mutex, then another |
| `Publish`, `Schedule`, `Notify` | `publish` and `publishPtr`: the channel's critical section, the push to the ready queue, `notify_one` after it |
| `LoopHead`, `TakeChannel`, `FindNothing`, `FallAsleep`, `WakeSpuriously` | `worker_loop` up to a channel; reading the predicate and going to sleep are apart, because `stop_` is stored without the mutex |
| `Drain`, `RunTask`, `Clear`, `NotifyFromWorker` | the inner loop, and the last critical section, which lowers the flag or calls `schedule` with the channel's mutex held (`ChannelLocked`) |
| `StoreStop`, `NotifyAll` | `~Executor` |

**TopicMailbox** is the abstract specification: a mailbox per topic that handles one message at a time, in order,
and displaces the oldest when it is full. MessageBus implements it with `box` mapped to `tasks`, `handled` to the
task some worker runs for the topic, `open` to `stop_` not being set.

**ReliableTopic** (`Publisher.cpp`, `AckManager.h`, `Subscription.cpp`). `publish` is three steps (`TakeSeq`,
`Add`, `SendSample`), so that writers overtake each other; `OnRaw`, `OnHeartbeat` and `HandleNack` are a whole
handler each, since they run on the Reactor's thread. `bitmap` is the set of the bits that are set, `W` their number.
`CheckLoss` and `MovedTo` take and return the window as a record, `Skipped` is the loop of `on_heartbeat` over
whole windows. `heard` is a history variable.

**Discovery** (`Node.cpp`, `TopicGraph.cpp`). A node's topics count as one. Time is only what it does to a node:
an entry of `node_alive_` is recent or has grown old, and `CleanupNode` forgets the old ones, of any node, its own
included when it has not heard itself.

**FramePipeline** (`01_base.cpp`). `enqueue` is `Offer`, `Fill`, `PublishSlot`, `dequeue` is `Poll`, `Copy`, `Free`:
load and compare, access the slot, store the own index. An index that only its owner stores is read without a step
of its own. The acquire and release order of the code is what makes these steps interleave as written.

**HeartbeatFiles** (`heartbeat_collector_core.cpp`). A file is absent, partly written or whole. `BeatArrives`,
`WriteData` and `Rename` are `onHeartbeat` up to the open, the write and close, and the rename; a crash may come
between them, and the files stay. `CheckTimeout` is one turn of the loop in `checkTimeout`. The disk may cut a
write short, which `cutShort` remembers and the code does not notice.

**SerialFrames** (`joy_bridge_core.cpp`). `FeedData` takes bytes off the line, and each turn of `feedData`'s loop is
a call of `tryParseFrame` and one step: `SkipByte` and `TakeFrame` go on, `WaitForMore` ends the loop (`feeding`).
`Synced` is the buffer from the first start on, `Verdict` what the call makes of it. Counts, start bytes and buttons are
the code's; an axis and the check are one byte each. `Checksum` is a parameter, for which MCParts supplies one that
tells apart what the run can produce.

**DependencyOrder** (`dependency_manager.h`, `topological_sort.h`) has `set_dependencies` and `add_dependency` as
actions that replace the table, and a sort with the stack of its active calls of `dfs`: `NextKey` is a turn of the loop of
`sort` over the keys, in any order (a hash map's), `NextDependency` a turn of the loop of `dfs` with the nested call,
`Finish` its end. The order of the last sort is kept until the table changes or another begins.

**FrameStreams** holds lemmas only: what remains of a stream of frames that are put in at its end and taken out at its
beginning. The proofs about both parsers share it.

**MCParts** checks these seven side by side. They share no variable: `part` says which of them a behaviour is
about, and the others stand still.

**MC\*** modules give the constants values; **\*Proofs** modules hold the theorems.

## 4 Runs

All runs are exhaustive over the instance; none uses a state constraint. The number of processes (`Pids`)
bounds how often something is forked: an id is handed out once, so a lost child can be seen as such. When
ids run out, `fork` only fails. Only `heartbeat` has counters of its own: `MaxLag` bounds the ticks between
reading the clock and getting the mutex, `Depth` the subscription's history.

| Run | Instance | Shows |
|---|---|---|
| `services_tree` | 1 thread, 3 services (remote needs motion; voice needs motion, remote and a name nobody registered), 4 processes; stop.sh for voice | types; no lost child; dependencies running; no reentry; stop and start order, over every sequence of calls, crashes and failed forks |
| `services_pair` | 2 threads, 2 services, 2 processes; stop.sh and group members for remote; fair | races: no lost child, the mutex given back, the life cycle of `ServiceLifecycle` with its liveness |
| `services_cycle` | two services that need each other | violation of `NoReentry` |
| `services_members` | a start.sh that leaves its program in a child of the shell | violation of `StoppedMeansGone` |
| `monitor` | 1 client thread, 2 services, 2 processes, the monitor's thread; fair | unlocked snapshots are justified, reaped services are recorded |
| `monitor_crash` | the same | violation of `CrashRecorded` |
| `heartbeat` | 2 services with time-outs of 1 and 2 ticks, one with its clock a tick ahead; fair | time-outs justified, told, found, taken back |
| `heartbeat_listener` | the same | violation of `ListenerUpToDate` |
| `modes` | 2 threads, 2 services, 2 processes; modes `standby` and `debug` (entry "all"), closed under dependencies; other clients restart and stop | an undisturbed switch reaches its mode; no switch acts outside it |
| `modes_solo` | 1 thread, 3 processes; a mode that lists a service without what it needs | violation of `ActiveRunning` |
| `gateway` | token of one byte; one client with two or three frames, among them a correct and a wrong login, requests before and after, and every kind of damage; or one client beside an idle one; fair (73,896 states) | answers fit, nothing outlives `stop`, everybody is served whom no damaged length keeps waiting, and ends |
| `parts` | the seven modules of MCParts: 2 workers, 2 publishers, 4 messages, queues of 2; 2 writers, sequence numbers to 2 and a window of 2; 2 nodes; rings of 2 slots and 4 frames; 2 targets; 4 frames and one disturbance; tables of 3 services, one list for each set of up to 2 dependencies; fair (67,747 states) | one server per channel, no lost wake-up, mailboxes; an honest window that follows; nodes that find each other again; untorn frames in order; whole files; a parsed stream; orders that are ones |

Why the bounds are enough. Three services are the smallest set with two paths to one dependency (voice needs
motion by itself and through remote), which is where a loop can meet a service that a nested call has
already handled; the fourth name exercises an unregistered dependency. Four forks let every service run and
one of them once more. Two threads suffice for races: inside the manager only one runs, and a third behaves
like the second. With one client thread in `monitor` the only unlocked reader is the monitor itself,
and the mutex makes one thread's successive calls as good as several threads'. The time-outs 1 and 2
distinguish a time stamp from the future, a fresh one and an old one. In `gateway` every kind of
damage is followed by an intact frame: a length that reaches two bytes into that frame must not cost it, and one that
reaches beyond the end of the stream does keep it waiting, which `Served` allows and `AnswersFit` keeps in order. Every frame arrives in every division into single bytes and
larger pieces, and connections share nothing but `running_` and the joins of `stop`, for which two are enough.

In `parts`, four messages overfill a queue of two while another is being handled and one more arrives, and two
workers are the most that can want one channel in one step of each; one topic is enough because topics share only the
ready queue, whose length beyond one the theorems cover. A window of two is overtaken by a heartbeat that is two
ahead (a whole window), by a sample that is one or two ahead, and moved back by a late first sample. Two slots are
the smallest ring that holds a frame; four frames go round it twice. Two nodes are enough for a property of pairs:
a node that announces, and one that listens. Two targets let the file of one be written while the other is due.
Four frames with start bytes among the axes, equal beginnings and a button that reads as a count, one
disturbance at any byte and every division into chunks show what one disturbance can do. Three services are enough for
chains, diamonds without the tip, cycles of each length, and names that are no keys. `MaxPublished`, `MaxSeq`,
`MaxFrames`, `MaxNoise` and `MaxFlight` bound how much is sent; nothing else is bounded. The run does not check deadlock,
as threads end and traffic stops. Beyond
these bounds most safety properties rest on the theorems (section 6); section 7 lists those that rest on the runs
alone.

The violation runs state what a line of the repository says and the code does not do (section 8).

Every property of a passing run is broken by at least one mutant of the code it is about; the mutants are the
definitions marked "Mutant of" next to the original and are listed in `PROJECT.json`.

## 5 Fairness

- `FairSpec` of ServiceManager: weak fairness of `Critical(t)` for every thread, that is, a thread inside
  the manager goes on. It waits only for a `stop.sh` (three seconds at most), for its child after SIGTERM
  (three seconds at most) and for a child that SIGKILL has ended. Nothing is assumed of clients, of
  children, or of who gets the mutex next.
- `MonitorFairSpec`: weak fairness of the monitor's steps. It has a thread of its own and waits for nobody.
- `FairSpec` of HeartbeatMonitor: time passes, the check thread runs, and a heartbeat in the
  subscription's queue is delivered. The check thread holds the mutex for one pass at a time and the callbacks
  return (no callback is installed anywhere in the repository). Nothing is assumed of services: they
  send or fall silent as they like.
- `FairSpec` of TcpServer: weak fairness of the rest of `stop`, of the acceptor and of every session. Each is a
  thread that waits for what the guard of its next step says: a connection, data or a second, the end of the
  threads it joins. Nothing is assumed of clients, and `accept4` need not fail.
- ModeManager: none; its properties are safety.
- `PartsFairness`: strong fairness of `Turn(x)` and `Arrival(x)`. In the bus these are the steps of a worker and
  those of a publisher between its critical section and `notify_one`: strong, because a mutex is taken and freed again
  and again by others, and none starves at it; handlers return. `publish` itself need not be called. In the other parts
  they are the timer that sends heartbeats or announcements or checks the targets, the collector going on with
  the file it writes, and a transport on which messages that are sent for ever are not lost for ever. A spurious
  wake-up, a crash, a start, a loss and a message are never assumed. In uav_comm the timers are assumed to fire at
  all: `Reactor::set_interval` adds the interval to an `expire_ts` it has not set (`Reactor.h:77`), which works when
  that memory happens to hold no large number.

## 6 Theorems

All theorems hold for every configuration, any number of services, threads and processes, under the named
assumptions on constants (`ConfigAssumption`, `ModeAssumption`, `HeartbeatAssumption`, `GatewayAssumption`, `BusAssumption`,
`TopicAssumption`, `PipelineAssumption`, `SerialAssumption`, `DependsAssumption`), which only give the types of the
configuration and which TLC evaluates on every run. A theorem that needs more says so in its ASSUME.

**ServiceManagerProofs.** The inductive invariant grows in layers, because each is needed for the next:

1. `Typed == TypeOK /\ Inside`. `TypeOK` alone is not inductive: popping a frame needs a stack that is not
   empty. `Inside` says that a thread has frames exactly when it holds the mutex, and which points of
   `ProcessService::start` and `stop` occur under which call. (`TypeCorrect`)
2. `ChildInv` adds `Transient` (only the innermost service of the holder is STARTING or STOPPING, and exactly
   when `at` says so) and `PidFits` (`pid_` names a process of that service, and is set in RUNNING and
   STOPPING). From them a fork happens only with no live child. (`ChildrenTracked`)
3. `DepsInv` adds `CallsFit`, about every frame on every stack: what the loop of a `do_start` has already
   passed is RUNNING, what the loop of a `do_stop` has passed is not RUNNING if it depends on the service, and
   no call above disturbs that. This carries facts from the middle of the recursion to its end, whatever
   the order of the hash map. (`DependenciesRunning`, `StopOrder`, `StartOrder`)
4. `Descending(rank)`: when the registered dependencies have a rank (which is what "no cycle" means),
   ranks fall along a stack of starts and rise along one of stops. (`AcyclicNoReentry`)
5. `RefinesLifecycle`: initial states map to initial states, and under `ChildInv` every step is a step of
   `ServiceLifecycle` or leaves `state` alone.

`StopOrder` holds without the assumption of acyclicity and also after a `restart` has left services
without their dependencies.

**MonitorManagerProofs.** `MonitorHarmless`: the composition implements ServiceManager, so all of the above
holds with the monitor beside it. `MonitorJustified` rests on `MonitorInv`, which adds `ViewFits` (what a
half-taken status means while the manager moves on: unless the service has been touched, it is still
RUNNING, and the `pid_` read is still its own) and `SuspectsRead`.

**HeartbeatMonitorProofs.** `Inv == TypeOK /\ TimeoutJustified /\ TimeoutTold` is inductive as it stands, for
every time-out, clock offset (in either direction), lag and queue depth; the last two conjuncts of `TypeOK`
that tie `lag` and `changes` to the phase are what makes it so.

**ModeManagerProofs.** `ModeHarmless`: a switch is a client like any other, so the theorems about the service
manager hold for the composition. The assumption `AnyGroup` (clients may pass any set of services) is what
makes the lists of a switch legal groups; it is the weakest restriction on clients, hence the strongest
theorem. `SwitchStaysInMode` adds `AllClosed`: in every mode, what is not shut down needs nothing that is.
Its invariant `ModeInv` adds `SwitchFits`: the frames and pending calls of a switching thread stay within the
half of the services its phase is about, because `do_stop` goes only to dependents and `do_start` only to
dependencies. `modes_solo` shows that without `AllClosed` the conclusion is false.

`SwitchReachesMode` is about the switch that nobody disturbs (`clean`). Its invariant adds `ReachFits`: of the services
the mode wants down or up, those that are not yet are still in the lists of the switch, in the call under way or in the
frames of its stack, where `CallsFit` says what the finished loops have established. Both assumptions are the ones above:
with a mode that is not closed, a stop takes down what the start list no longer names.

**TcpServerProofs.** Two invariants, independent of each other. `StopLeavesNothing` rests on `Inv`: `StopFits`
says how far `start` and `stop` have come, and `ConnectionsFit` that a connection is open exactly from
`accept4` to the end of its session and waits only where somebody listens; the second is needed because the
acceptor may take a connection while `stop` is already at its join. `LoginFirst` rests on
`LoginInv`, that a session which counts as logged in has answered so. Neither depends on how bytes become frames.

The other two do. `GatewayTyped` says that all that travels and waits is bytes, damaged or not; it assumes `Bytewise`, that
the check is a byte, as `crc8` returns one. `AnswersInOrder` proves `AnswersFit` for clients whose frames arrive as they
were packed and are no longer than the length field allows (`Undamaged`); any number of clients, frames and payloads, and
any division into reads, stay. Its invariant `CleanFit` says that what is in the buffer, followed by what is on its way, is
the concatenation of the frames not yet answered, possibly cut at its end by a hang-up; then `parse_frame` can only ask for
more or find the next frame (bytes that look like a header inside a payload are never at the front), and
the answers are those due to the frames already taken. With damaged frames this concatenation is no invariant, and the runs
alone speak.

**FrameStreams.** `StreamSent`, `StreamLost`, `StreamHolds` and `StreamTaken` say what sending, losing the end and taking the
first frame do to such a concatenation. A stream is stated by the places where its frames begin, not by a recursive
concatenation, which is what makes the induction unnecessary.

**TransportProofs, the bus.** `OneTicket` counts tickets: an entry of the ready queue, a worker on the channel, a publisher
that owes it to the queue. `Ticketed(t)` says of one channel that no two exist and that one exists exactly when
`scheduled` is set; with the types (which say that a thread at work knows its channel) it is inductive, and every
step moves a ticket or leaves it (`PublishTicket`, `ScheduleTicket`, `TakeTicket`, `ClearTicket`).
(`BusTypes`, which has both, and `OneTicketAlways`.) `NoWakeupLost` adds that whoever holds `ready_mutex_` on its way to sleep has seen the
queue empty, and assumes that there is a worker: `std::thread::hardware_concurrency()`, the default for their number,
may be 0. `RefinesMailbox` shows under the first invariant that `Publish` is a `Post`, a `Drain` that finds a task a
`Take`, `RunTask` a `Finish`, `StoreStop` the `Close`, and every other step a stutter; that a `Take` finds nothing being
handled is what one ticket per channel is for.

**TransportProofs, the pipeline.** `NothingTorn` needs the distances between the indices: a producer that has compared them
keeps its slot out of the consumer's reach until it stores its index, because the other side only makes room.
`SinkInOrder` follows a frame from ring to ring: what a ring holds between the two indices is increasing, and every
frame further down the pipeline is smaller than every one further up.

**PartsProofs.**
- Topic: `TopicTypeOK /\ WindowHonest` is inductive as it stands, for every width of the window; the work is in
  `SkippedKeeps` and `MovedToKeeps`, about what a move of the window does to its bits. (`TopicTyped`, `DropsOnlyDuplicates`)
- Files: `WritingFits` adds that a temporary file about to be renamed is whole, unless the disk has cut a write short.
  (`FilesWhole`)
- Sort: `SortInv` says that what is visited is in the order or has an active call, that each call has visited what its
  loop has come past, and that every name in the order comes after those it is behind. That a name does not wait for one
  that is behind it needs the path on the stack, which is not followed by induction: every set closed under dependencies that
  holds a call's name holds those of the calls above it (`CallsPath`), and `Behind` gives such a set that holds the
  dependency and not the name. (`OrderTyped`, `SortOrders`)
- Serial line: `SerialTyped` holds however the line is disturbed. `UndisturbedParsed` rests on `StreamFits`, the
  concatenation argument of the gateway, here with a parser that skips to start bytes: at the front of the buffer there is
  always a frame's own start, so nothing is ever skipped. Both assume `ChecksumFits`, that the checksum fits its field.
- All together: `PartsTyped`, the types of the composition MCParts, assumes `ChecksumFits` and that `NoTarget` is no
  target. A step of one part is a step or a stutter of each (`EachPartSteps`), so the invariants hold side by side.

Nothing is assumed beyond this; there is no unproved step.

## 7 What is only model-checked

- `LockReleased`, `ReapedRecorded`, `SilenceDetected`, `Recovers` and the liveness half of
  `ImplementsLifecycle`: liveness under fairness and ENABLED are outside the prover's reach.
- `AnswersFit` when frames are damaged or longer than the length allows, and the liveness properties of the gateway. `StopReturns` leaves out one case, on purpose: when the acceptor is blocked in
  `accept4` at the moment `stop` wants to join it, `stop` returns only if another client connects.
  `Served` leaves out four: a client that hangs up, a server that stops, a process that dies of SIGPIPE, and what lies behind a damaged length
  that is not above `MAX_DATA_SIZE` and that the stream never fills. In the last case the code does keep intact requests
  waiting: without that exception TLC finds `Served` violated by one such frame in front of an intact one.
- What no property of the runs looks into, although the models have it: a service that `restart` brings up without its
  dependencies (`DepsRunning` leaves out what `restart` was the last to touch), a switch in which a fork fails (`ModeReached`
  asks for undisturbed ones), a sender whose clock is behind (`TimeoutJustified` counts its old time stamps as reasons). The
  code does these things as written, and nothing in the repository promises otherwise.
- `WindowFollows`, `Rediscovered`, `SilentGoesOffline` and the liveness half of `ImplementsMailbox`: liveness.
- `StreamParsed` on a line that has been disturbed: it is false for a checksum under which what is left of a frame looks like
  another, so it is shown for the checksum of the run only.
- A service with lifecycle `external` is covered by the theorems about ModeManager; the runs have none.

## 8 Findings

Each is a run with a counterexample; `PROJECT.json` quotes the line it contradicts.

| Run | What the code does |
|---|---|
| `services_cycle` | `do_start` keeps no record of the services it is starting. Two services that name each other make it recurse until the stack overflows, with the mutex held; the test plan lists cyclic dependencies as safe and tests only the sort. |
| `services_members` | `stop_process_group` is done when the leader is reaped. The leader is the shell of `start.sh`; a program in its group that outlives SIGTERM is left running, with the service STOPPED. |
| `monitor_crash` | `kill(pid, 0)` succeeds for a zombie, and nothing reaps a crashed child before some other service is stopped. The monitor never records the crash. |
| `heartbeat_listener` | The check thread reports time-outs after giving the mutex back. A heartbeat in between reports Online first, and the listener is left with Timeout for a service that is Online. |
| `modes_solo` | `switch_to` fills its start list before it stops anything. An active service that a stop then takes down as a dependent is not started again, and the switch reports success. |

One disagreement is no run, because it only concerns which frame is lost: where the ring is full, the comment at
`spsc_pipe_day2/01_base.cpp:34` says that the old frame is dropped and the new one kept; `enqueue` returns `false` and it is the
new frame that is dropped. `Offer` does what the code does, and `PipelineInOrder` holds either way.

## 9 What is left out, and why

- **Service manager.** `load_config` (it runs before the first call; its result is the constants),
  `~ProcessService` (runs at exit with the other threads gone), the reuse of process ids (an id is handed out
  once, so that a lost child shows), the wording and wiring of logs and pipes. `state_` is a plain enum
  read without the mutex: a data race, modelled as an atomic store and load of one word, which is what the
  supported platforms do.
- **Process monitor.** `load_config`, `clear_failures` (no caller). `failures_` only grows; it is kept as the
  set of the latest pass, which is what the properties are about. `auto_restart` is never acted on.
- **Heartbeat monitor.** Heartbeats of services without a target (ignored by `OnHeartbeat`); the start and
  stop of the ROS 2 source. Targets are added before `Start`, as `Runtime` does.
- **Mode manager.** `load_config`. Entries of a mode that name an unregistered service are dropped from
  `to_start`: `start` refuses them before it takes any effect. `current_mode_` is a string that several TCP
  threads may write and read at once; it is kept as one value. The code makes no difference between
  `inactive` and `active`; neither does the model.
- **TCP gateway.** `serve` (waits only), what the dispatcher does behind a request (the other modules), the data
  of responses, a `write` that blocks on a client that does not read, the limits of the backlog and of
  `client_threads_`, and the descriptor `listen_fd_` that `stop` changes while the acceptor reads it. Bytes
  in front of a frame that happen to be a frame header themselves make the parser drop up to three bytes of the
  real one, so that its request is lost; the damage in the runs is that of single frames and does not include it.
  A damaged length of up to 4096 delays the frames behind it until as many bytes have come; then the check fails and the
  parser finds them again. The run has the delay that never ends (`long`) and, with two bytes, the recovery; a stream of
  kilobytes that ends the longer delay is left out. There is no time-out for a frame that has begun.
- **Message bus.** Topics of different types (a channel is created for one type, and publishing another throws);
  the handlers' code; `printGraph`. `~Executor` has both its steps, but nothing promises that the workers end: `stop_`
  is stored without `ready_mutex_`, and a worker between its look at `stop_` and its sleep misses the notification.
  `ThreadPool.h` lies beside the bus and is not used by it.
- **uav_comm.** Best-effort topics (no state); the bytes of messages; wildcards in `TopicGraph`, and the test for a
  matching subscriber before a publish: the model's subscriber matches. `set_domain_id` never returns (it holds the mutex
  that `broadcast_all` locks). The Reactor is one thread and a queue that may refuse; its heap of timers is the
  fairness above. NACKs are modelled as they are, and no property promises that a lost sample comes again: one goes out
  for each base only, none while the base is 0 (`last_nack_base_` starts there), its bits are one place off,
  its order is that of the bitmap while the publisher's is that of the numbers, and it carries the node of the
  subscriber, so that only a publisher of the same node obeys it. A sample that comes behind the window's last number
  does not set its bit and is delivered again when it is repeated.
- **Hub.** The UDP report (a copy of the table), the speed loop, the camera streamer, the 32-byte command
  protocol of `module_manager_core.cpp`, and the lifecycle of the ROS 2 nodes. A heartbeat file left by a collector that
  died stays until its target is heard and falls silent again, because the new one takes it for OFFLINE; `SilentGoesOffline`
  leaves that case out.
- **Lock-free structures.** The pools: `pop` reads a node another thread may have freed (`lockfree_pool.h:97`), whose
  outcome is undefined; the double buffer, whose reader may still copy the slot the second next write goes to
  (`lockfree_buffer.cpp:26`). Both are exercises nothing else uses.
- **Service access** keeps two tables that are filled at start-up and a cache of ROS 2 clients: what it does is what ROS 2
  does. **Runtime core and CLI** build and start the parts; the order is in section 1. Among its start-up constants,
  `Runtime::init` overwrites the time-outs of `runtime.yaml` with 8 seconds for every service (`runtime.cpp:213`).
- **Vendored code** (zenoh, the largest part of the repository's lines), copies (`uav_comm_runtime`,
  `remote_control_refactor`, `ros2_ws`), **the remote control client** (a user interface in Python; its joystick frame is
  what SerialFrames sends) and **demonstrations and exercises**, which have no state that outlives a call or no
  code of their own behind a framework's. They make up most of the lines no definition is mapped to.
