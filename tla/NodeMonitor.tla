------------------------------ MODULE NodeMonitor ------------------------------
(***************************************************************************)
(* How the system monitor follows the nodes of the robot                   *)
(* (Tools/Applications/SystemMonitor): it scans the ROS network for the    *)
(* topics of nodes, subscribes to them, keeps a record of each node it has *)
(* heard of and a monitor of its diagnostics, and at 10 Hz marks as        *)
(* UNKNOWN what it has not heard of for too long.  Nodes die and restart,  *)
(* the network learns of it late, and the queues keep the last messages.   *)
(*                                                                         *)
(* The three topics of a node come and go together, and one diagnostic     *)
(* type stands for each of them.  A time stamp is modelled by the age it   *)
(* had at the last update().                                               *)
(***************************************************************************)
EXTENDS MonitorScreen, Sequences

CONSTANTS
  Nodes,       \* the nodes of the robot, without the monitor itself
  Timeout,     \* COMMTIMEOUT_THRESHOLD, in ticks of the clock
  Depth,       \* bound: the depth of a subscription's queue (10 in the code)
  MaxChanges   \* bound: crashes, restarts and changes of the ready flag

ASSUME TimesAssumption == Timeout \in Nat /\ Depth \in Nat \ {0} /\ MaxChanges \in Nat

VARIABLES
  alive,        \* the node's process runs
  ready,        \* what it publishes as its ready-to-arm status
  listed,       \* the nodes whose topics the ROS network lists
  subs,         \* m_autoSubs: the nodes to whose topics the monitor listens
  inbox,        \* the queues of these subscriptions
  records,      \* NodeInfoWindow::m_nodes
  monitors,     \* DiagnosticWindow::m_nodeDiagnosticMonitors
  sinceUpdate,  \* clock: ticks since the last update()
  silent,       \* history: ticks since a heartbeat or status was handled
  diagSilent,   \* history: ticks since a diagnostic was handled
  changes       \* how much of MaxChanges is used

nodeVars  == <<alive, ready, changes>>
netVars   == <<listed, subs, inbox>>
clockVars == <<sinceUpdate, silent, diagSilent>>
vars == <<nodeVars, netVars, records, monitors, clockVars>>

Kinds == {"heartbeat", "ready_to_arm", "diagnostic"}   \* m_autoScanTopicTypes
\* The message has more statuses; a record shows each of them alike.
Statuses == {"TRUE", "FALSE"}

\* Times beyond the threshold are alike: a long time ago.
LongAgo == Timeout + 1
Times == 0..LongAgo
Later(time, ticks) == IF time + ticks > Timeout THEN LongAgo ELSE time + ticks

Record  == [state : {"STARTING", "RUNNING", "UNKNOWN"},
            ready : Statuses \cup {"UNKNOWN"}, age : Times]
Monitor == [level : {"reported", "UNKNOWN"}, age : Times]

\* A message carries its node's status; the contents of the others are alike.
Payloads == Statuses \cup {"contents"}
NoMessages == [k \in Kinds |-> <<>>]

TypeOK ==
  /\ alive \in [Nodes -> BOOLEAN]
  /\ ready \in [Nodes -> Statuses]
  /\ listed \subseteq Nodes
  /\ subs \subseteq Nodes
  /\ inbox \in [Nodes -> [Kinds -> Seq(Payloads)]]
  /\ \A n \in Nodes, k \in Kinds : Len(inbox[n][k]) <= Depth
  /\ \A n \in Nodes : inbox[n]["ready_to_arm"] \in Seq(Statuses)
  /\ DOMAIN records \subseteq Nodes /\ records \in [DOMAIN records -> Record]
  /\ DOMAIN monitors \subseteq Nodes /\ monitors \in [DOMAIN monitors -> Monitor]
  /\ sinceUpdate \in Times
  /\ silent \in [Nodes -> Times]
  /\ diagSilent \in [Nodes -> Times]
  /\ changes \in 0..MaxChanges

\* The windows were updated once already: the first scan comes 10 s later.
Init ==
  /\ alive = [n \in Nodes |-> TRUE]
  /\ ready = [n \in Nodes |-> "FALSE"]
  /\ listed = {} /\ subs = {}
  /\ inbox = [n \in Nodes |-> NoMessages]
  /\ records = [n \in {} |-> n] /\ monitors = [n \in {} |-> n]
  /\ sinceUpdate = 0
  /\ silent = [n \in Nodes |-> 0] /\ diagSilent = [n \in Nodes |-> 0]
  /\ changes = 0

-----------------------------------------------------------------------------
(* The nodes, the network and the clock.                                   *)

Change == changes < MaxChanges /\ changes' = changes + 1

Crash(n) ==
  /\ alive[n]
  /\ Change
  /\ alive' = [alive EXCEPT ![n] = FALSE]
  /\ UNCHANGED <<ready, netVars, records, monitors, clockVars>>

Restart(n) ==
  /\ ~alive[n]
  /\ Change
  /\ alive' = [alive EXCEPT ![n] = TRUE]
  /\ ready' = [ready EXCEPT ![n] = "FALSE"]
  /\ UNCHANGED <<netVars, records, monitors, clockVars>>

ChangeReady(n, status) ==
  /\ alive[n] /\ status # ready[n]
  /\ Change
  /\ ready' = [ready EXCEPT ![n] = status]
  /\ UNCHANGED <<alive, netVars, records, monitors, clockVars>>

\* Discovery comes to list the topics of a new node.
Discover(n) ==
  /\ alive[n] /\ n \notin listed
  /\ listed' = listed \cup {n}
  /\ UNCHANGED <<nodeVars, subs, inbox, records, monitors, clockVars>>

\* It may drop those of a dead one: a subscription may keep a topic listed.
Forget(n) ==
  /\ ~alive[n] /\ n \in listed
  /\ listed' = listed \ {n}
  /\ UNCHANGED <<nodeVars, subs, inbox, records, monitors, clockVars>>

\* Mutant: a queue that keeps all of the messages.
KeepAll(messages, m) == Append(messages, m)

\* KEEP_LAST: a full queue drops its oldest message.
KeepLast(messages, m) ==
  Append(IF Len(messages) = Depth THEN Tail(messages) ELSE messages, m)

\* A node publishes on one of its topics; the monitor gets it if it listens.
Publish(n, k) ==
  /\ alive[n] /\ n \in subs
  /\ inbox' = [inbox EXCEPT ![n][k] =
                 KeepLast(@, IF k = "ready_to_arm" THEN ready[n] ELSE "contents")]
  /\ UNCHANGED <<nodeVars, listed, subs, records, monitors, clockVars>>

Elapse ==
  /\ sinceUpdate' = Later(sinceUpdate, 1)
  /\ silent' = [n \in Nodes |-> Later(silent[n], 1)]
  /\ diagSilent' = [n \in Nodes |-> Later(diagSilent[n], 1)]
  /\ UNCHANGED <<nodeVars, netVars, records, monitors>>

-----------------------------------------------------------------------------
(* The monitor's callbacks.                                                *)

\* Mutant: a node that has a record is taken to have a subscription, too.
ScannedNewNodes == listed \cap (subs \cup (Nodes \ DOMAIN records))

\* Subscribe to what is listed and new, unsubscribe from what is not listed.
Scanned == listed

\* run01Hz: rescanROSNetwork.  An erased subscription takes its queue along.
RescanROSNetwork ==
  /\ subs' = Scanned
  /\ inbox' = [n \in Nodes |-> IF n \in subs \cap subs' THEN inbox[n] ELSE NoMessages]
  /\ UNCHANGED <<nodeVars, listed, records, monitors, clockVars>>

\* The executor takes the oldest message of a subscription.
Take(n, k) ==
  /\ n \in subs /\ inbox[n][k] # <<>>
  /\ inbox' = [inbox EXCEPT ![n][k] = Tail(@)]

Put(table, n, row) ==
  [m \in DOMAIN table \cup {n} |-> IF m = n THEN row ELSE table[m]]

\* insertNode: its time stamp is 0, which is long ago.
NewRecord == [state |-> "STARTING", ready |-> "UNKNOWN", age |-> LongAgo]

\* newHeartbeatMsg, newReadyToArmMsg: the first message of a node only makes
\* its record; the time stamp of a later one is the time of the last update().
NewHeartbeatMsg(n) ==
  /\ Take(n, "heartbeat")
  /\ records' = Put(records, n,
       IF n \in DOMAIN records
         THEN [state |-> "RUNNING", ready |-> records[n].ready, age |-> 0]
         ELSE NewRecord)
  /\ silent' = [silent EXCEPT ![n] = 0]
  /\ UNCHANGED <<nodeVars, listed, subs, monitors, sinceUpdate, diagSilent>>

NewReadyToArmMsg(n) ==
  /\ Take(n, "ready_to_arm")
  /\ records' = Put(records, n,
       IF n \in DOMAIN records
         THEN [state |-> records[n].state, ready |-> Head(inbox[n]["ready_to_arm"]),
               age   |-> 0]
         ELSE NewRecord)
  /\ silent' = [silent EXCEPT ![n] = 0]
  /\ UNCHANGED <<nodeVars, listed, subs, monitors, sinceUpdate, diagSilent>>

NewDiagnosticMsg(n) ==
  /\ Take(n, "diagnostic")
  /\ monitors' = Put(monitors, n, [level |-> "reported", age |-> 0])
  /\ diagSilent' = [diagSilent EXCEPT ![n] = 0]
  /\ UNCHANGED <<nodeVars, listed, subs, records, sinceUpdate, silent>>

\* Mutant: the delta is taken from the time of the previous update().
AgedLate(row) == row

Aged(row) == [row EXCEPT !.age = Later(@, sinceUpdate)]

\* Mutant: the ready-to-arm status is not reset.
ExpireStateOnly(r) == IF r.age > Timeout THEN [r EXCEPT !.state = "UNKNOWN"] ELSE r

Expire(r) ==
  IF r.age > Timeout THEN [state |-> "UNKNOWN", ready |-> "UNKNOWN", age |-> r.age] ELSE r

ExpireMonitor(m) == IF m.age > Timeout THEN [m EXCEPT !.level = "UNKNOWN"] ELSE m

\* update() of the windows, in run10Hz.
Update ==
  /\ records' = [n \in DOMAIN records |-> Expire(Aged(records[n]))]
  /\ monitors' = [n \in DOMAIN monitors |-> ExpireMonitor(Aged(monitors[n]))]
  /\ sinceUpdate' = 0
  /\ UNCHANGED <<nodeVars, netVars, silent, diagSilent>>

-----------------------------------------------------------------------------
Handle(n) == NewHeartbeatMsg(n) \/ NewReadyToArmMsg(n) \/ NewDiagnosticMsg(n)

Node(n) ==
  \/ Crash(n) \/ Restart(n) \/ Discover(n) \/ Forget(n)
  \/ \E status \in Statuses : ChangeReady(n, status)
  \/ \E k \in Kinds : Publish(n, k)

Next == RescanROSNetwork \/ Update \/ Elapse \/ \E n \in Nodes : Node(n) \/ Handle(n)

Spec == Init /\ [][Next]_vars

(***************************************************************************)
(* The monitor's timers and subscriptions are all served by its executor;  *)
(* a node that lives publishes at 1 and 10 Hz (BaseNode); discovery hears  *)
(* of every node, and the clock goes on.                                   *)
(***************************************************************************)
Fairness ==
  /\ WF_vars(RescanROSNetwork) /\ WF_vars(Update) /\ WF_vars(Elapse)
  /\ \A n \in Nodes :
       /\ WF_vars(Discover(n))
       /\ WF_vars(NewHeartbeatMsg(n)) /\ WF_vars(NewReadyToArmMsg(n))
       /\ WF_vars(NewDiagnosticMsg(n))
       /\ \A k \in Kinds : WF_vars(Publish(n, k))

FairSpec == Spec /\ Fairness

-----------------------------------------------------------------------------
(* Properties.                                                             *)

\* After an update(), a node that has not been heard of for more than the
\* threshold is shown with neither a state nor a ready-to-arm status nor the
\* level of its diagnostics: nothing stale looks current, although the time
\* stamps are those of the previous update and the queues delay messages.
SilenceShows ==
  sinceUpdate = 0 =>
    /\ \A n \in DOMAIN records : silent[n] > Timeout =>
         records[n].state = "UNKNOWN" /\ records[n].ready = "UNKNOWN"
    /\ \A n \in DOMAIN monitors : diagSilent[n] > Timeout => monitors[n].level = "UNKNOWN"

\* On a terminal of any size the rows that can be read are just those it has
\* room for: the first nodes, as many as there are lines above the box and the
\* message window.  Whatever such a node has published, however long its name
\* and its silence, no text is longer than its field (which would end the
\* monitor), and its row lies inside the window and under no other one.  Of the
\* nodes after them no details are seen, though SystemMonitor.md:57 says that
\* the window "provides details on every Node running on the system".
RowsReadable ==
  \A n \in DOMAIN records : <<records[n].state, records[n].ready>> \in ReadableRows

\* A node that stays dead ends up shown as UNKNOWN for good, whatever was
\* still in the queues, and whether or not the network still lists it.
DeadNodeShown ==
  \A n \in Nodes : <>[]~alive[n] =>
    <>[](/\ n \in DOMAIN records => records[n].state = "UNKNOWN" /\ records[n].ready = "UNKNOWN"
         /\ n \in DOMAIN monitors => monitors[n].level = "UNKNOWN")

\* A node that stays alive is shown again and again with its state and with
\* its present ready-to-arm status, however often it died, was unsubscribed
\* and came back before.
ShownAsRunning(n) == n \in DOMAIN records /\ records[n].state = "RUNNING"
ShownReady(n)     == n \in DOMAIN records /\ records[n].ready = ready[n]

LiveNodeShown ==
  \A n \in Nodes : <>[]alive[n] => []<>ShownAsRunning(n) /\ []<>ShownReady(n)

===============================================================================
