-------------------------------- MODULE ArmingChain --------------------------------
(***************************************************************************)
(* Arming a robot: its devices report whether they are ready to arm, the   *)
(* armed state manager (ArmedStateManagerNode.cpp) collects the reports of *)
(* the nodes it was told to monitor, takes the user's requests and         *)
(* publishes an arm command, and the servo hat (ServoHatNode.cpp) and the  *)
(* header of the system monitor (HeaderWindow.cpp) keep the last one.      *)
(*                                                                         *)
(* Every node is a process of its own on the base node's life cycle        *)
(* (module BaseNode): it may die at any time and be launched again.  What  *)
(* decides, ArmedStateManagerProcess and the process of a device, is not   *)
(* in this repository: it is modelled by what the nodes ask of it.         *)
(***************************************************************************)
EXTENDS TopicNames, FiniteSets, Functions

CONSTANTS
  Devices,    \* the nodes that report whether they are ready
  Hat,        \* the one among them that drives the servo hat
  Identities, \* the system, subsystem and process that a report names
  Configurations, \* the configurations considered: nodes_to_monitor, the devices'
                  \* identities, robot_namespace and whether the configured topics
                  \* begin with a slash
  Depth,      \* depth of a subscription's queue
  MaxChanges, \* bound: changes of the readiness of a device's process
  MaxDeaths   \* bound: deaths of a node

ASSUME DevicesAssumption == /\ IsFiniteSet(Devices) /\ IsFiniteSet(Identities)
                            /\ Hat \in Devices
                            /\ {"manager", "monitor", Slash} \cap Devices = {}
ASSUME ConfigurationsAssumption ==
  Configurations \subseteq [listed : Seq(Devices), identity : [Devices -> Identities],
                             spelling : Seq(STRING), slashed : BOOLEAN]
ASSUME BoundsAssumption == Depth \in Nat \ {0} /\ MaxChanges \in Nat /\ MaxDeaths \in Nat

VARIABLES
  config,    \* the configuration that the launch files hand to every node
  hears,     \* the devices whose topic is among those the manager subscribes to
  connected, \* the subscribers whose topic is the one the manager publishes
  up,        \* the nodes whose init() has succeeded and that are spinning
  able,      \* whether the process of a device says it is ready to arm
  ready,     \* m_readyToArm.ready_to_arm of a device's base node
  statuses,  \* the manager's process: the last status of each identity
  state,     \* the manager's process: its armed state
  reports,   \* the manager's queue for each topic it subscribes to
  commands,  \* the queue of each subscriber of the arm command
  shown,     \* the last command of each subscriber
  reported,  \* history: the devices that have published that they are ready
  changes, deaths

configVars  == <<config, hears, connected>>
deviceVars  == <<able, ready>>
managerVars == <<statuses, state, reports>>
commandVars == <<commands, shown>>
boundVars   == <<changes, deaths>>
vars == <<configVars, up, deviceVars, managerVars, commandVars, reported, boundVars>>

Subscribers == {Hat, "monitor"}
Nodes       == Devices \cup {"manager", "monitor"}
States      == {"DISARMED_CANNOTARM", "DISARMED", "ARMING", "ARMED"}
Listed      == Range(config.listed)

\* No queue outgrows its depth, and a node that is down holds nothing.
QueuesOK ==
  /\ \A d \in Devices : Len(reports[d]) <= Depth
  /\ \A s \in Subscribers : /\ Len(commands[s]) <= Depth
                            /\ s \notin up => commands[s] = <<>> /\ shown[s] = "none"

TypeOK ==
  /\ config \in Configurations /\ hears \subseteq Devices /\ connected \subseteq Subscribers
  /\ up \subseteq Nodes
  /\ able \in [Devices -> BOOLEAN] /\ ready \in [Devices -> BOOLEAN]
  /\ statuses \in [Identities -> {"none", "no", "yes"}] /\ state \in States
  /\ reports \in [Devices -> Seq(BOOLEAN)]
  /\ commands \in [Subscribers -> Seq(States)]
  /\ shown \in [Subscribers -> States \cup {"none"}]
  /\ reported \subseteq Devices
  /\ changes \in 0..MaxChanges /\ deaths \in 0..MaxDeaths
  /\ QueuesOK

-----------------------------------------------------------------------------
(* The names of the topics.                                                *)

Configured(name) == IF config.slashed THEN <<Slash, name>> ELSE <<name>>

RobotNamespace == LoadedNamespace(config.spelling)

StatusTopic(d) == PrivateTopic(RosNamespace(config.spelling), d, "ready_to_arm")

\* Mutant: the names are put together as they come.
MonitoredTopicAsIs(d) == RobotNamespace \o Configured(d) \o <<Slash, "ready_to_arm">>

MonitoredTopic(d) ==
  NamespacedTopic(RobotNamespace, Configured(d)) \o <<Slash, "ready_to_arm">>

CommandTopic == NamespacedTopic(RobotNamespace, Configured("arm_command"))

\* getRobotNamespace() + "arm_command": the two words that meet are one.
MonitorTopic ==
  LET last == Len(RobotNamespace)
  IN  CASE RobotNamespace = <<>> -> Resolved(RosNamespace(config.spelling), <<"arm_command">>)
        [] RobotNamespace # <<>> /\ RobotNamespace[last] = Slash ->
             Append(RobotNamespace, "arm_command")
        [] RobotNamespace # <<>> /\ RobotNamespace[last] # Slash ->
             [RobotNamespace EXCEPT ![last] = << @, "arm_command" >>]

\* The manager subscribes to the topic of every node of its list.
Heard == { d \in Devices : \E m \in Listed : MonitoredTopic(m) = StatusTopic(d) }

SubscribedTo(s) == IF s = "monitor" THEN MonitorTopic ELSE CommandTopic

Init ==
  /\ config \in Configurations
  /\ hears = Heard
  /\ connected = { s \in Subscribers : SubscribedTo(s) = CommandTopic }
  /\ up = {}
  /\ able = [d \in Devices |-> FALSE] /\ ready = [d \in Devices |-> FALSE]
  /\ statuses = [i \in Identities |-> "none"] /\ state = "DISARMED_CANNOTARM"
  /\ reports = [d \in Devices |-> <<>>]
  /\ commands = [s \in Subscribers |-> <<>>]
  /\ shown = [s \in Subscribers |-> "none"]
  /\ reported = {} /\ changes = 0 /\ deaths = 0

-----------------------------------------------------------------------------
(* A device.                                                               *)

\* Mutant: a queue without a depth.
DeliveredUnbounded(q, message) == Append(q, message)

\* A full queue loses its oldest message; a node that is down has none.
Delivered(q, message) ==
  LET longer == Append(q, message) IN IF Len(longer) > Depth THEN Tail(longer) ELSE longer

\* init() asks the process for a first update and passes its answer on; if it
\* fails the process ends, and nothing has happened.
LaunchDevice(d) ==
  /\ d \in Devices \ up
  /\ up' = up \cup {d}
  /\ able' \in { [able EXCEPT ![d] = b] : b \in BOOLEAN }
  /\ ready' = [ready EXCEPT ![d] = able'[d]]
  /\ UNCHANGED <<configVars, managerVars, commandVars, reported, boundVars>>

\* runLoop1: the process looks at its hardware.
UpdateDevice(d) ==
  /\ d \in Devices \cap up /\ changes < MaxChanges
  /\ able' = [able EXCEPT ![d] = ~@]
  /\ changes' = changes + 1
  /\ UNCHANGED <<configVars, up, ready, managerVars, commandVars, reported, deaths>>

\* run10Hz takes the answer over, ...
TakeReadiness(d) ==
  /\ d \in Devices \cap up
  /\ ready' = [ready EXCEPT ![d] = able[d]]
  /\ UNCHANGED <<configVars, up, able, managerVars, commandVars, reported, boundVars>>

\* Mutant: only a device that is ready publishes.
PublishReadinessIfReady(d) ==
  /\ d \in Devices \cap up /\ ready[d]
  /\ reports' = IF "manager" \in up /\ d \in hears
                  THEN [reports EXCEPT ![d] = Delivered(@, TRUE)] ELSE reports
  /\ reported' = reported \cup {d}
  /\ UNCHANGED <<configVars, up, deviceVars, statuses, state, commandVars, boundVars>>

\* ... and the base node's 1 Hz tick publishes it.
PublishReadiness(d) ==
  /\ d \in Devices \cap up
  /\ reports' = IF "manager" \in up /\ d \in hears
                  THEN [reports EXCEPT ![d] = Delivered(@, ready[d])] ELSE reports
  /\ reported' = IF ready[d] THEN reported \cup {d} ELSE reported
  /\ UNCHANGED <<configVars, up, deviceVars, statuses, state, commandVars, boundVars>>

-----------------------------------------------------------------------------
(* The armed state manager.                                                *)

\* Mutant: one signal less is expected.
ExpectedSignalsButLast == Len(config.listed) - 1

\* config.expected_arm_signals = (uint8_t)m_nodesToMonitor.size()
ExpectedSignals == Len(config.listed) % 256

\* As many nodes as expected have said they are ready, and none that it is not.
AllReady(heard) ==
  /\ Cardinality({ i \in Identities : heard[i] = "yes" }) >= ExpectedSignals
  /\ \A i \in Identities : heard[i] # "no"

\* The process: without all signals it cannot arm, with them a request may.
NewState(heard, old) ==
  IF ~AllReady(heard) THEN "DISARMED_CANNOTARM"
  ELSE IF old = "DISARMED_CANNOTARM" THEN "DISARMED"
  ELSE IF old = "ARMING" THEN "ARMED"
  ELSE old

\* init() checks the number of nodes and kicks the process off.
LaunchManager ==
  /\ "manager" \notin up
  /\ up' = up \cup {"manager"}
  /\ state' = NewState([i \in Identities |-> "none"], "DISARMED_CANNOTARM")
  /\ statuses' = [i \in Identities |-> "none"] /\ reports' = [d \in Devices |-> <<>>]
  /\ UNCHANGED <<configVars, deviceVars, commandVars, reported, boundVars>>

\* readyToArmCallback: the conversion drops the name of the node, and the
\* report counts for whatever has the same identity.
TakeReport(d) ==
  /\ "manager" \in up /\ reports[d] # <<>>
  /\ statuses' = [statuses EXCEPT ![config.identity[d]] = IF Head(reports[d]) THEN "yes" ELSE "no"]
  /\ reports' = [reports EXCEPT ![d] = Tail(@)]
  /\ UNCHANGED <<configVars, up, deviceVars, state, commandVars, reported, boundVars>>

\* runLoop1
UpdateManager ==
  /\ "manager" \in up
  /\ state' = NewState(statuses, state)
  /\ UNCHANGED <<configVars, up, deviceVars, statuses, reports, commandVars, reported, boundVars>>

\* armStateChangeService: arming is approved only when disarmed, and what is
\* armed or about to be may be disarmed.
RequestArmed ==
  /\ "manager" \in up /\ state = "DISARMED"
  /\ state' \in {"ARMING", "ARMED"}
  /\ UNCHANGED <<configVars, up, deviceVars, statuses, reports, commandVars, reported, boundVars>>

RequestDisarmed ==
  /\ "manager" \in up /\ state \in {"ARMING", "ARMED"}
  /\ state' = "DISARMED"
  /\ UNCHANGED <<configVars, up, deviceVars, statuses, reports, commandVars, reported, boundVars>>

\* Mutant: the arm command is published only while arming is possible.
PublishCommandIfReady ==
  /\ "manager" \in up /\ state # "DISARMED_CANNOTARM"
  /\ commands' = [s \in Subscribers |->
                    IF s \in up \cap connected
                      THEN Delivered(commands[s], state) ELSE commands[s]]
  /\ UNCHANGED <<configVars, up, deviceVars, managerVars, shown, reported, boundVars>>

\* runLoop2: the arm command, to the subscribers of its topic.
PublishCommand ==
  /\ "manager" \in up
  /\ commands' = [s \in Subscribers |->
                    IF s \in up \cap connected
                      THEN Delivered(commands[s], state) ELSE commands[s]]
  /\ UNCHANGED <<configVars, up, deviceVars, managerVars, shown, reported, boundVars>>

-----------------------------------------------------------------------------
(* The subscribers of the arm command.                                     *)

LaunchMonitor ==
  /\ "monitor" \notin up
  /\ up' = up \cup {"monitor"}
  /\ UNCHANGED <<configVars, deviceVars, managerVars, commandVars, reported, boundVars>>

\* robotArmCommandCallback and armCommandCallback; neither node looks at the
\* age of the command it holds.
TakeCommand(s) ==
  /\ s \in Subscribers \cap up /\ commands[s] # <<>>
  /\ shown' = [shown EXCEPT ![s] = Head(commands[s])]
  /\ commands' = [commands EXCEPT ![s] = Tail(@)]
  /\ UNCHANGED <<configVars, up, deviceVars, managerVars, reported, boundVars>>

-----------------------------------------------------------------------------
\* Any node may die, with what it knew and what was on its way to it.
Die(n) ==
  /\ n \in up /\ deaths < MaxDeaths
  /\ up' = up \ {n}
  /\ deaths' = deaths + 1
  /\ commands' = [s \in Subscribers |-> IF s = n THEN <<>> ELSE commands[s]]
  /\ shown' = [s \in Subscribers |-> IF s = n THEN "none" ELSE shown[s]]
  /\ UNCHANGED <<configVars, deviceVars, managerVars, reported, changes>>

Device(d) == TakeReadiness(d) \/ PublishReadiness(d)

Next ==
  \/ \E d \in Devices : LaunchDevice(d) \/ UpdateDevice(d) \/ Device(d) \/ TakeReport(d)
  \/ LaunchManager \/ UpdateManager \/ RequestArmed \/ RequestDisarmed \/ PublishCommand
  \/ LaunchMonitor
  \/ \E s \in Subscribers : TakeCommand(s)
  \/ \E n \in Nodes : Die(n)

Spec == Init /\ [][Next]_vars

\* A node that is up runs its timers and takes its messages; nothing relaunches
\* a node or makes a user ask for anything.
FairSpec ==
  /\ Spec
  /\ \A d \in Devices : /\ WF_vars(TakeReadiness(d)) /\ WF_vars(PublishReadiness(d))
                        /\ WF_vars(TakeReport(d))
  /\ WF_vars(UpdateManager) /\ WF_vars(PublishCommand)
  /\ \A s \in Subscribers : WF_vars(TakeCommand(s))

-----------------------------------------------------------------------------
(* Properties.                                                             *)

\* The names that two nodes put together on their own from one configuration
\* are the same, and names that ROS 2 accepts: the manager hears every node of
\* its list and no other.
TopicsMeet ==
  /\ \A d \in Devices : IsTopicName(MonitoredTopic(d)) /\ (d \in hears <=> d \in Listed)
  /\ IsTopicName(CommandTopic)

\* "Publish an Arm Command based on the Ready To Arm signals": a node that
\* holds an ARMED command, however old, holds it after every node of the list
\* has published that it is ready.
ArmedOnlyWhenReported ==
  \A s \in Subscribers : shown[s] = "ARMED" => Listed \subseteq reported

\* A subscriber that hears the manager ends up with its state, although queues
\* lose messages and nodes restart.
CommandsArrive ==
  \A s \in Subscribers :
    (<>[](s \in connected /\ {s, "manager"} \subseteq up) /\ <>[][UNCHANGED state]_vars)
      => <>[](shown[s] = state)

\* A device that lives but is not ready any more disarms the hat: its status
\* goes through two timers, two queues and the manager.
UnreadyDisarms ==
  \A d \in Devices :
    (<>[]({d, Hat, "manager"} \subseteq up /\ d \in Listed /\ ~able[d]))
      => <>[](shown[Hat] \in {"none", "DISARMED_CANNOTARM"})

\* "The Header Window provides quick run-time status, such as: Armed State".
HeaderShowsArmedState ==
  (<>[]({"monitor", "manager"} \subseteq up /\ state = "ARMED")) => <>[](shown["monitor"] = "ARMED")

===============================================================================
