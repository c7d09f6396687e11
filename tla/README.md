# Verification of the ROS 2 robot framework

TLA+ models of the parts of `robot_framework_ros2` that keep state and can go wrong in an order nobody tests, TLC
configurations that check them on small instances, and TLAPS proofs of the properties that matter most for every value
of the constants. `PROJECT.json` ties each definition to the source lines it models, lists the runs, the mutants (a
plausible bug for each property, which the run must notice), the hazards and the theorems.

## 1. Inventory

The framework is a C++ base class for ROS 2 nodes, nodes built on it, two tools and a launch orchestrator. Each node is
one process with a single-threaded executor; processes talk over topics.

| Component | State | Operations | Meets | Hard about it | What makes it correct |
|---|---|---|---|---|---|
| **Base node** `core/BaseNode` | node state, eight timers, a timing flag per loop, timing diagnostic, diagnostics and ready flag that user code sets | `init`, `start`, `spin`, `reset`, five base loops, three user loops, `baseRun10Hz` (heartbeat), `baseRun1Hz` (report) | user code, called inside every loop and able to call back; heartbeat, diagnostic and ready topics | `reset()` from a callback cancels and re-arms timers on several paths; timing flags read by one loop and written by another | timers follow the state; only a RUNNING node publishes; overruns are reported; the documented state machine |
| **Base node configuration and names** | namespace, parameters | `baseLoadConfig`, `getNamespacedTopic`, names under `~` | every node and the system monitor | two nodes put one topic's name together on their own | both arrive at the same name, and ROS 2 accepts it |
| **Log analyzer: reindexing** `reindex_bag`, `quarantine_file` | MCAP files, quarantine directory, `metadata.yaml` | move a file aside, run the tool, go round, restore, clean up | file system, `ros2 bag reindex` | failing moves, kills and interrupts between two steps; a second run over what a first left | no file is lost, what is analyzed is the whole bag, every run ends |
| **Log analyzer: worker pool** `main`, `WorkerOutputStream` | a process pool, one queue of output, a stream buffer per worker | run an analysis, write and flush, poll queue and futures, drain | worker processes | results and output travel separately; a process dies | complete output in order; the parent ends |
| **Log analyzer: plugin scan** `run_analyzer_plugins`, two plugins | topics to read, plugins that failed, open files, running figures | match topics, read and decode, process, close, report | bag files, the file system | one plugin of several raises; a message cannot be decoded; a file cannot be closed; rates kept by a running formula | what one plugin writes does not depend on the other; figures and files agree; the scan ends |
| **System monitor: scan and records** `SystemMonitorNode`, `NodeInfoWindow`, `DiagnosticWindow` | subscriptions, records by node, time stamps | rescan at 0.1 Hz, message callbacks, update at 10 Hz | the network's graph, every node's topics | nodes die and return at any time; bounded queues; stamps that are one update old | nothing stale looks current; dead ends as UNKNOWN; live is shown |
| **System monitor: keys and selection** | selection, previous key, the node passed to the other window | `run10Hz`: key, pass on, draw | log level service of the node | records added between drawing and key; window order | a request goes to what the screen marked |
| **System monitor: windows on the screen** `MonitorScreen` (header, menu and status windows partly) | last values, rectangles in percent of the terminal | place, fill a row, draw | the terminal | shares rounded down to cells; unsigned widths | a row can be printed, and be read |
| **Armed state manager** `ArmedStateManagerNode` | last status per identity, armed state | ready-to-arm callback, arm request, Loop1 update, Loop2 publish | ready topics, arm command | statuses of dead nodes; names dropped by a conversion; a narrowed count; queues; relaunches in any order | armed only after every listed node has reported; commands arrive; not ready disarms |
| Servo hat, IMU, local pose, depth camera nodes (**their readiness**, and the hat's arm command) | last command, driver state | callbacks, publish | topics; drivers and processes outside the repository | a status passes through two timers; an old command is kept | as for the manager |
| Message translation | none | field copies | all nodes | dropped fields, narrowing | a round trip keeps what is used |
| **Bringup orchestrator** `orchestrator.launch.py` | configuration while it is merged | validate, merge scenario overlays, merge host assignment, load maps, launch | YAML files, every node's parameters | layers merged in an order that removals and additions depend on; positions kept while a list changes | what is launched is what the layers say |
| Templates, examples, scripts, CI | | | | | no logic of their own |

Components, or the parts of them, in bold are modelled; the status and the reason for each of the others is in
`PROJECT.json`.

## 2. Modules

Each component has one module with its state, one action per operation and its properties, a `.cfg` per run, and a
`...Proofs` module. An operator whose comment begins with `Mutant:` stands for a plausible bug; no specification uses it.

| Module | Code | State and actions |
|---|---|---|
| `NodeStateMachine` | `NodeStateMachineDiagram.puml` | the documented life of a node: the abstract specification that `BaseNode` implements |
| `BaseNode` | `BaseNode.cpp`, `BaseNode.hpp` | `pc` is where the thread is (a step of `init()`, `start()`, spinning, inside a user function, a step of `reset()`); `timers`, `loopOk`, `timing`, `diagnostics`, `readyToArm` are the members; `beat` and `report` the last publications. `InitStepSucceeds/Fails`, `Start`, one action per timer, `ReturnSlow/Quick` (the measurement after the user function), `Reset`, `ResetFails/Proceeds/Succeeds`, `InitAgain` and `StartAgain` (public functions called again), `Throw`, `Shutdown` |
| `ReindexBag` | `quarantine_file`, `reindex_bag` and its caller in `log_analyzer.py` (37-262) | `copies` is where each file lies (bag, quarantine, a quarantine left by an earlier run); `quarantined` is what the code recorded. The move (`MoveToQuarantine`) and the record (`Record`) are two steps, because they are two in the code. `Kill` and `Interrupt` may come anywhere in a run; the histories `interrupted` and `disturbed` say where interrupts came and whether an earlier run may have left files out of the bag |
| `WorkerPool` | `log_analyzer.py` `WorkerOutputStream`, `process_bag_directory`, the loop of `main` | a line is known by its bag and by how much of the bag's output it ends; `future`, `dead`, `broken` are the pool; `parent` is the phase of the loop. The two redirected streams of a worker are one |
| `NodeMonitor` | `SystemMonitorNode.cpp`, `NodeInfoWindow.cpp`, `DiagnosticWindow.cpp` | `listed` is what the network reports, `subs` and `inbox` the subscriptions and their queues, `records` and `monitors` the tables; a time stamp is kept as its age at the last update |
| `MonitorKeys` | `NodeInfoWindow::newKeyEvent`, `BaseWindow`, `run10Hz`, `MessageWindow` | `recordSelected`, `selected`, `passedOn`, `nodeToMonitor` are the four copies of the selection; `marked` and `drawn` are what the screen shows |
| `Orchestrator`, `MCOrchestrator` | `orchestrator.launch.py` | `phase` is where `build_launch_actions` is; `merged`, `indexes`, `at` are the locals of `merge_named_lists`, whose loop is taken element by element; `launched` the actions. The value of a parameter is the name of the layer that set it. `MCOrchestrator` lists the configurations to check |
| `TopicNames` | `baseLoadConfig`, `getNamespacedTopic` in `BaseNode.cpp` | operators only: a name is the sequence of its slashes and of the words between them |
| `ArmingChain`, `MCArmingChain` | `ArmedStateManagerNode.cpp`, `ServoHatNode.cpp`, the subscription and callback of the monitor's header, on `TopicNames` | `config` is what the launch files say, `hears` and `connected` who meets whom by name; `able` and `ready` are the two stages of a device's readiness, `reports` and `commands` the queues, `statuses` and `state` the manager's process, `shown` the last command of a subscriber. One action per tick, callback, request, launch and death. `MCArmingChain` lists the configurations |
| `PluginScan` | `run_analyzer_plugins` in `log_analyzer.py`, `rosout_text_analyzer.py`, `timestamp_rate_analyzer.py` | `pc` is where the scan is, `todo` the plugins still to see the message, `failed` is `failed_plugins`; `text`, `csv`, `deltas` are what was written and kept, `stats` the running figures, `open` the open files |
| `MonitorScreen` | the windows' shares, `convertCoordinate`, `getWindowHeader`, `getNodeInfo`, `updateWindow` | operators only: windows as rectangles of cells, a row as the lengths of its texts. `NodeMonitor` extends it and states its property of the records that the monitor holds |

`ArmingChain` is the composition of five kinds of process over topics, and `NodeMonitor` that of a node, the network and
the monitor. Both take from `BaseNode` what it proves and checks: a node that is RUNNING publishes its heartbeat and its
report for ever, one that is not is silent. The state of `reset()` is not carried over into them: a node whose reset failed
publishes nothing (`SilentUnlessRunning`) and is, to the others, a dead one.

### Abstractions

* `BaseNode`: durations are a choice between quick and slow; time stamps are one bit that flips. Text of log messages is
  left out. The executor is that of rclcpp in ROS Jazzy: the timers that are due are collected, each is called at most
  once per round, in any order, and a timer that was cancelled meanwhile is skipped.
* `ReindexBag`: the tool is a choice (completes, fails and names a file as in its text, raises). Files are good, empty,
  too short or links.
* `WorkerPool`: only a worker that runs an analysis dies; an idle one has nothing to lose.
* `NodeMonitor`: the three topics of a node are listed and lost together; one type of diagnostic stands for all; ages stop
  at `Timeout + 1`, beyond which the code cannot tell them apart; a dead node may stay listed for ever (the monitor's own
  subscription keeps a topic listed), so no fairness is put on `Forget`. The 10 Hz update runs before the first scan.
* `ArmingChain`: a queue keeps the newest messages (KEEP_LAST). `ArmedStateManagerProcess` and the process of a device are
  not in the repository: `AllReady` and `NewState` are the weakest process that fits its name and its use (it arms only
  with as many statuses as expected, none of them a refusal, and only on a request). A report counts for the identity in
  it, since the conversion drops the node's name. The parameter of a service request is what the process makes of it.
* `PluginScan`: a log text is its position in the bag; rates are integers in units of 1/12 Hz, so that the means of three
  rates are exact and the running formula can be compared with the sums. What the code computes in floating point is here
  exact arithmetic, rounding is left out. `UnitAssumption` says what such a unit is; for any stamps and any length of a bag
  there is one. A plugin may raise at every place where it opens or writes a file. What a plot needs is kept, its drawing
  is not.
* `MonitorScreen`: a text is its length; curses itself and the titles above the columns are left out. `Shown` is what
  becomes of a row: it is made, has a line (the window has no scrolling), and no cell is cut off or covered. `HasRoom` is
  the condition on the terminal and the node's number, and `RowsReadable` says that the two are the same.
* `MonitorKeys`: one tick is one step, since the executor has one thread. The first difference with `m_currentTimeSec`,
  which no constructor sets, may be any time. What is drawn besides the marker is in `MonitorScreen`.
* `Orchestrator`: of a node's keys the name, `remove` and one parameter are kept; elements without a name and files
  that break the schema otherwise than by being unreadable are left out; `sensors` lists are merged but read by nothing.

## 3. Runs

| Run | Instance | Shows |
|---|---|---|
| `node` | base loops, 2 disturbances (resets, overruns, data changes), two lists of diagnostics, fairness | `TypeOK`, `TimersFollowState`, `SilentUnlessRunning`, `OneHzOverrunReported`, `FollowsDocumentedStates` (the node implements `NodeStateMachine`), `HeartbeatsContinue`, `ReportCatchesUp` |
| `node_overrun` | one user loop, 3 disturbances | **finding**: `OverrunReported` is violated |
| `arming` | 2 devices, 5 configurations, queues of 1, 1 change of readiness, 1 death, fairness | `TypeOK`, `TopicsMeet`, `ArmedOnlyWhenReported`, `CommandsArrive`, `UnreadyDisarms` |
| `arming_header` | 1 device, the namespace of `README.md:92` | **finding**: `HeaderShowsArmedState` is violated |
| `monitor` | 1 node, threshold 1 tick, queues of 2, 3 changes, 24 terminals, 10 node numbers, fairness | `TypeOK`, `SilenceShows`, `RowsReadable`, `DeadNodeShown`, `LiveNodeShown` |
| `keys` | 3 nodes, messages shown for 2 ticks | `TypeOK`, `RequestsGoToMarked`, `MarkerMovesByKey`, `DiagnosticsFollow` |
| `reindex` | 3 files of any kind, 2 runs, 2 faults (failing moves, kills, interrupts), fairness | `TypeOK`, `OnlyUnrecordedLost`, `EverythingPutBack`, `AnalysedMeansWhole`, `RunsEnd` |
| `reindex_interrupt` | the same | **finding**: `NoFileLost` is violated |
| `scan` | every bag of up to 4 messages on 2 topics, 3 time stamps or none, any plugins enabled | `TypeOK`, `PluginsIsolated`, `RatesOfRows`, `DeltasOfRows`, `FilesClosed` |
| `pool` | 3 bags, 2 workers, 2 chunks each, 1 death, fairness | `TypeOK`, `OutputComplete`, `OutputInOrder`, `ParentEnds` |
| `orchestrator` | 51014 configurations of 2 nodes | `TypeOK`, `IndexesFresh`, `ProtectedKept`, `LaunchedAsLayered`, `RemovalWorks` |
| `orchestrator_decision` | 3 nodes, one not registered, a scenario that removes one and may set a parameter of another | **findings**: `SomeDecisionKept` is violated, and with it `RemovalKept`, `HostOverScenario` and `UnregisteredRefused` |

### Bounds, and why they are enough

* `MaxEvents = 2`: a reset that fails and one after it, or a reset during an overrun, fit in one behaviour; each
  disturbance returns to states seen before, and the theorems hold for any bound. The run leaves the user loops out: they
  have the same code as the base loops. Disturbances end so that `ReportCatchesUp` can say "once they stop".
* `arming`: two devices are one that is listed and one that is not, two of one kind and two of two. The five
  configurations pair the spellings of the namespace (root, with and without slashes, two words) with those lists. One
  death takes any node at any time, and what it relaunches finds the others in any state. A queue of 1 for 10 loses
  every message that is not taken at once, and a longer one loses less. The theorem is for any of these.
* `scan`: 4 messages give three intervals on one topic, or two topics that meet in a failure; 3 time stamps are later,
  equal and earlier ones.
* `MonitorScreen`: widths of 80, of one column too few and of just enough (172, 173), and a large one; a height with
  a line for one node, a common one, the last before and the first at which the message window covers a line (59, 60), a
  large one, and one with more lines than numbers of four digits; numbers on both sides of each of those limits; names
  that fit and that do not, a node that was heard of just now and one whose stamp is still 0. The theorem is for all sizes and numbers.
* `Files`: 3 files give one skipped, one that is being moved and one untouched at the same time. Two runs are needed for
  what one run leaves to the next, two faults for a failed restore after a failed move.
* 3 bags on 2 workers: one bag waits, one runs, one is done when a process dies. Two chunks make a partial line and a
  full one. One death breaks the pool for good; a second would find a broken pool.
* `Depth = 2` for 10: a queue that is full and drops its oldest message, with one behind it. `MaxChanges = 3` is crash,
  restart, crash (or a change of the ready flag between). One node: no action of the monitor relates two nodes here, each
  table row and queue belongs to one; the theorem about `SilenceShows` is for any number.
* 3 nodes for the keys: first, middle and last behave differently under up and down. The clock is not bounded: it only
  ages what is shown.
* The configurations of the orchestrator: two names, the list of every host with at most one element and an overlay of
  one, the list of this host with at most one and an overlay of at most two (so that an element that follows a removal
  is merged by positions that moved), each element with or without the parameter; overlays of the registry that add,
  change a parameter or touch a protected field. A removal may be followed by an addition of the same name; both lists of
  this host also have every pair of elements, those of one name among them, with the list of every host. The list that
  comes out of a merge may have a name twice too, as it may in the code.

`CHECK_DEADLOCK` is left on in every run; the ends of a program are explicit stuttering actions (`Finished`, `Idle`,
`AllRunsDone`, `Stopped`, `Ended`, `AnalysisEnded`).

### Fairness

* `BaseNode`: weak fairness for `main`, `reset()` and the return of user functions (a user function that blocks for ever
  is outside). Strong fairness for each timer: it is disabled while another callback runs, but an armed timer that is due
  is in the next round, and each of a round is called before the next is collected. Nothing on messages, resets,
  overruns, exceptions.
* `ReindexBag`: weak fairness for the program (the tool has a timeout); nothing makes a run start, a move fail or a kill
  happen.
* `WorkerPool`: weak fairness for each analysis, for taking a waiting bag, for noticing a death (the pool's own thread
  waits for it) and for the parent's loop. Nothing on deaths.
* `NodeMonitor`: weak fairness for the monitor's timers and callbacks, the clock, discovery, and the publications of a
  node that lives. Nothing on crashes, restarts or `Forget`.
* `ArmingChain`: weak fairness for the timers of nodes that are up and for the callbacks of what is in their queues
  (single-threaded executors that serve all of them). Nothing on launches, requests, deaths or changes of readiness.
* `MonitorKeys`, `Orchestrator`, `PluginScan`: safety only (a bag has an end, and each step of a scan uses some of it up).

## 4. Proofs

| Theorem | Module | Says |
|---|---|---|
| `TypeCorrect`, `TimersSafe`, `OnlyRunningPublishes`, `OneHzOverrunAlwaysReported`, `ImplementsDocumentedStates` | `BaseNodeProofs` | the safety properties of `node`, and the refinement of `NodeStateMachine` |
| `TypeCorrect`, `FilesAreKept`, `BagIsRestored`, `AnalysedIsWhole` | `ReindexBagProofs` | for any files and bounds, with failing moves, kills and interrupts; each property names what breaks it, the place of an interrupt or an earlier run that left files out of the bag |
| `TypeCorrect`, `NothingStaleShown`, `RowsStayReadable` | `NodeMonitorProofs` | for any nodes, threshold and depth, and terminals of any size |
| `AllRowsReadable` | `NodeMonitorProofs` | a row is shown if and only if the terminal has room for it: for every size, number, name and silence |
| `TypeCorrect`, `ArmedOnlyAfterReports` | `ArmingChainProofs` | for any devices, identities and configurations; the second for lists of less than 256 nodes |
| `NamesAgree` | `ArmingChainProofs` | `TopicsMeet` for every namespace without an empty word (`WellSpelled`), with or without slashes around it and before the configured topics, and for any list |
| `TypeCorrect`, `NoFileOpen`, `PlotShowsRows`, `PluginsApart` | `PluginScanProofs` | for bags of any length, any stamps and any failure |
| `RunningIsOfRows` | `PluginScanProofs` | the same, in a unit that keeps the means whole (`UnitAssumption`) |
| `TypeCorrect`, `NothingLeftOver`, `LinesInOrder` | `WorkerPoolProofs` | for any bags, workers, chunks and deaths |
| `TypeCorrect`, `RequestsSafe`, `MarkerSafe`, `DiagnosticsSafe` | `MonitorKeysProofs` | for any nodes |
| `TypeCorrect`, `IndexesSafe`, `ProtectionSafe`, `LayersSafe`, `RemovalSafe` | `OrchestratorProofs` | for any names, implementations and files, lists of any length, in which names may be repeated |

The assumptions are the named `ASSUME`s of the modules, all about the constants, and `ListsFit` and `WellSpelled` (every
configuration of `MCArmingChain` has both) in the theorems that state them.

The invariants, and why the properties are not inductive by themselves:

* `BaseNode`: `IInv` says for each place of the thread what the node state and the timers are. While it spins the node is
  `Alive` (RUNNING, all armed) or `Silent` (STARTING, none armed); inside `reset()` it is silent. `TimersFollowState`
  alone says nothing about the steps inside `reset()` from which spinning resumes. The refinement needs only that each
  change of state goes through `CanChangeTo`.
* `ReindexBag`: `Accounted` says that as long as no restore failed a file is in the bag, or recorded, or the one that is
  being moved: only then does restoring what is recorded restore the bag. An interrupt between move and record is what
  breaks it, so the conjuncts are guarded by the history `interrupted`. `Places` says where each file of a run may lie.
  `AnalysedMeansWhole` speaks of all files, not of those that the run found: `Undisturbed` says that a run which follows
  no killed, interrupted or failed restore began with all of them, and that such a run is the only one to end with some
  missing.
* `ArmingChain`: evidence is passed on. Every "yes" among the manager's statuses, in its queues, every state but
  `DISARMED_CANNOTARM`, every command in a queue and every one that is shown is backed by devices that have reported
  (`StatusesBacked`, `ReportsBacked`, `StateBacked`, `CommandsBacked`). That enough statuses mean every listed node is a
  counting argument: there are no more reporting identities than devices heard, and no more of those than the list has.
  It is there that `uint8_t` matters, hence the assumption `ListsFit`.
  The names need no invariant but that the configuration never changes. The namespace that a node keeps, without the slash
  at its end, is the one ROS 2 gives it (`RootsAgree`), and a slash and a word after such a root are a name again
  (`WordAfterRoot`); a doubled slash at the front would stay in the one and not in
  the other, and one inside is no ROS 2 name, hence `WellSpelled`.
* `PluginScan`: a file is open only for a plugin that is still to be closed (`OpenIsToClose`), and up to the finally clause
  that is every enabled one (`Closing`), because turns are handed only to enabled plugins (`Handed`). The last stamp that
  a topic's rates are taken from is that of the last row of its CSV (`LastOfRows`), which also makes the count of rates that
  of the positive differences. `PluginsIsolated` holds for one more turn because a plugin that raised has no more of them
  (`Turns`) and because `message_indices` counts what has been handled (`Numbered`): a message that is handled after all
  others has the next place among them and changes none of theirs (`PlaceGrown`), so a list of the places so far is either
  extended by it or, for a plugin that raised, remains a first part of them (`ListsAppended`, `ListsGrown`).
  `RatesOfRows` multiplies the count out; what is kept is the stronger form without it, the squared deviations being the
  sum of squares less the count times the squared mean (`RunningOf`). One more rate keeps that (`RunningFigures`) if the
  division of the running mean is exact, and it is because a factor of the unit divides every sum of rates and every
  count divides that factor (`WholeUnit`, from `UnitAssumption`). A row for each message at most (`Bounded`) bounds the
  count. The sum of a sequence is a recursive function, whose equation (`SumAppended`) is derived from the
  well-foundedness of `<` (`Upwards`), since the induction theorems of the library cannot be used.
* `WorkerPool`: what a bag has written is printed, or in the queue up to a last line, or in its worker's buffer
  (`NoneLost`); the lines of a bag grow along the queue (`GrowingLines`) and each is news (`FreshLines`); a future that is
  done has an empty buffer (`Buffers`, `Futures`); and once the parent has ended only broken analyses may still put lines
  (`Ending`), because a bag whose future is not pending can never become done.
* `MonitorScreen`: a row is made if and only if the number has four digits (`RowFilled`, `IdFits`). A cell that is made
  lies between the sides of the box if and only if it ends in time (`CellInside`); below the line at which the message
  window begins that window covers it, wherever the node info window ends (`CellCovered`), and above it no window does
  (`CellApart`). Both use that the node info window has ended (70 %) before the message window does (75 %), rounding
  included.
* `NodeMonitor`: `AgesCoverSilence` says that the age of a row, carried on to the present, is at least the time its node
  has been silent: the stamp is that of the update before the message, so it errs on the old side only. `SilenceShows`
  speaks of one moment, right after an update, and says nothing of the ages between two.
* `MonitorKeys`: `Selection` says that `selected` is what is marked, that the marked record is the one after
  `recordSelected`, and that a marker that rested for a tick has been passed on.
* `Orchestrator`: outside of a merge no list is being merged, a merge has an overlay, `indexes` is fresh, and the registry
  says of a baseline node's implementation what the baseline says. That a set of positions has a last one (a name may
  occur twice) is taken from the well-foundedness of `<` on the naturals. What is launched needs the invariant `LInv`
  besides: while a list is being merged, what it has come to is the base combined, name by name, with the elements of the
  overlay before the current one (`MergedUpTo`, of a name that the base has once: its element is merged with the
  overlay's, added, or gone if the last of them removes it); after each of the three merges that is so of the whole
  overlay (`ListsMerged`); the registry is the merged one or the merge was refused (`RegistryMerged`); and the launch
  loop has started a node once if it passed an element of that name (`LaunchedSoFar`). At the end the three merges
  compose: the parameter of an element merged three times is that of the strongest layer that sets it.
  A name that occurs twice in one list is merged into the last of them and can be launched twice, which is why
  `LaunchedAsLayered` and `RemovalWorks` speak of names that lists have once.

Only model-checked: every liveness property (`HeartbeatsContinue`, `ReportCatchesUp`, `CommandsArrive`, `UnreadyDisarms`,
`RunsEnd`, `ParentEnds`, `DeadNodeShown`, `LiveNodeShown`), since fairness and `ENABLED` are beyond the prover. Every safety
property that a passing run checks is also a theorem.

## 5. Findings

1. `OverrunReported`: `BaseNode.md:79-80` says that an overrun is published with the 1 Hz diagnostics, but the flag of a
   loop is set back by its next quick run (`BaseNode.cpp:36-38`). An overrun of a 10 or 100 Hz loop is usually gone before
   the 1 Hz tick. `OneHzOverrunReported` is what does hold.
2. `NoFileLost` with interrupts: `quarantine_file` moves a file before it records it (`log_analyzer.py:68-69`). Ctrl-C
   between the two leaves `restore_ok` true, and the `finally` clause removes the directory with the only copy.
3. `HeaderShowsArmedState`: the monitor subscribes to `getRobotNamespace() + "arm_command"` (`SystemMonitorNode.cpp:57`),
   and a namespace has no slash at its end, so on a robot named `robot` that is `/robotarm_command`, while the manager
   publishes to `/robot/arm_command`. The header, which `SystemMonitor.md:51-52` says shows the armed state, keeps the
   value it was built with. Without a namespace the two names agree, and `CommandsArrive` covers the header too.
4. `RemovalKept` (ADR 001, lines 385 and 404): the scenario overlay is merged into this host's list before that is merged
   into the list of every host. A `remove: true` of a node that only `*` deploys is dropped when the baseline has a list for
   this host, and when there is no list at all the removed node is itself launched. `RemovalWorks` is what holds.
5. `HostOverScenario` (ADR 001, lines 393-400): the ADR's order puts the host deployment map (4) over the selected scenario
   overlay (3). The code merges the scenario's deployment map over the baseline's (`orchestrator.launch.py:181`), so the
   scenario's parameter wins. `LaunchedAsLayered` states the order of the code: each overlay is stronger than the section
   it is for, and this host's sections are stronger than those of every host.
6. `UnregisteredRefused` (ADR 001, lines 407-411): a deployed node without a registry entry should be found before anything
   is launched; the code prints a warning and launches the others (`orchestrator.launch.py:207-209`), as
   `LaunchedAsLayered` says.

The last three are shown by one run: one call breaks all of them, so `SomeDecisionKept`, that each call keeps at least one,
is violated, and its counterexample has each.

Smaller observations, which no document contradicts clearly enough to call them findings:

* All bags share one pool: a worker process that is killed fails every bag that is not done (`LogAnalysis.md:24`:
  "Each discovered bag is analyzed independently."). `WorkerPool` contains it (`BreakFutures`).
* A message that cannot be decoded ends the scan of its bag for every plugin (`log_analyzer.py:229`, outside the `try` of a
  plugin): `rosout.txt` ends there, although `LogAnalysis.md:37` says that it "contains the complete rosout text". A plugin
  whose `close` raises, a plot that cannot be drawn, or a summary file that cannot be opened costs the bag its summary (`PluginScan`: `ScanStops`, `ClosePlugin`, `Report`).
* After a run that was killed, interrupted or could not restore a file, the next one neither looks into the quarantine
  directory that was left nor tells of it: it returns `True`, or skips the reindex because `metadata.yaml` is there, and the
  analysis covers a bag without those files ("temporarily skipping", `log_analyzer.py:36`). `AnalysedMeansWhole` therefore
  excepts runs after a disturbed one (`disturbed`). The directory lies beside the bag with MCAP files in it, and
  `find_bag_directories` (`log_analyzer.py:437-449`) takes it for a bag of its own.
* `ready_to_arm` reports are told apart by identity only, so a list with two nodes of one identity can never be armed if the
  process counts identities, as it is modelled, and a node that died after it reported is not noticed.
  `InertialSensorFuserNode::initData` logs a failed `init()` and goes on.
* `SystemMonitor.md:57` says that the node info window provides "details on every Node". `HasRoom` is where that is so: the
  window has no scrolling, so nodes beyond its last line are not drawn, yet they can be selected. The message window
  begins at 68 % of the height and the two above it end at 70 %, so from 60 lines on it often lies over the last rows.
  Below 173 columns a row is broken, since the header of the table is checked against the width of the terminal, not of
  the window (`NodeInfoWindow.cpp:68`). A node number of five digits would underflow an unsigned width. From 200 columns on
  the diagnostic window (66 + 34.5 %) sticks out of the terminal by a column.

## 6. Not modelled, and why

* The drivers and processes (`ArmedStateManagerProcess`, those of the servo hat, the IMU, the fusers and the camera) are
  outside the repository. What the nodes do with their data is to pass it on: the drive values of the hat (whose cast to
  `uint16_t` is undefined for values out of range), the samples of the IMU, the poses, the point clouds. There is no state
  of the node's own in it.
* The conversions of `TranslateUtility` are field by field copies; those that drop or narrow something that a modelled
  component uses are in its model.
* What the windows print beyond a node's row, the Markdown, the layout of CSV files and the plots are formatting.
* Data races do not arise: every node spins one thread, and the analyzer's processes share only the queue.
* Templates, examples, scripts and CI hold no logic of their own.

## 7. Plan

1. The reset of `BaseNode` inside `NodeMonitor` and `ArmingChain`, in the place of a death, to show what the monitor and
   the manager make of a node whose reset fails.
2. The path of the data from the IMU through the fusers to the pose, with its queues, if its processes come into the
   repository.
