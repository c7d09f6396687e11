------------------------------- MODULE MonitorKeys -------------------------------
(***************************************************************************)
(* The keys of the system monitor and what follows the selection           *)
(* (Tools/Applications/SystemMonitor).  Ten times a second run10Hz reads   *)
(* one key, hands it to the focused node info window, passes the selected  *)
(* node on to the diagnostic window, and draws all windows; it visits the  *)
(* windows by name, the diagnostic window before the node info window.     *)
(* Between two ticks messages of new nodes add records.                    *)
(***************************************************************************)
EXTENDS Integers, Sequences

CONSTANTS
  Nodes,     \* the nodes, as numbers in the order of their names
  None,      \* the empty node name
  ShowTicks  \* TIME_TO_SHOW_MESSAGES

ASSUME NodesAssumption == Nodes \subseteq Nat /\ None \notin Nodes
ASSUME ShowTicksAssumption == ShowTicks \in Nat

VARIABLES
  running,         \* rclcpp was not shut down
  records,         \* NodeInfoWindow::m_nodes by id: in the order of insertion
  recordSelected,  \* m_recordSelected
  previousKey,     \* m_previousKey
  selected,        \* NodeInfoWindow::m_selectedNode
  passedOn,        \* SystemMonitorNode::m_selectedNode
  nodeToMonitor,   \* DiagnosticWindow::m_nodeToMonitor
  diagnosed,       \* the nodes in m_nodeDiagnosticMonitors
  marked,          \* on the screen: the node with the marker
  drawn,           \* on the screen: the node whose diagnostics were drawn last
  request,         \* the last ChangeLoggerLevel request; a bit tells two apart
  message,         \* MessageWindow::m_messageText
  messageAge,      \* m_timerShowingMessageInWindowSec
  updated,         \* the message window knows the time: it was updated before
  steady           \* history: ticks since the marker moved, up to 2

nodeVars    == <<records, diagnosed>>
selectVars  == <<recordSelected, previousKey, selected, passedOn, nodeToMonitor>>
screenVars  == <<marked, drawn, message, messageAge, updated, steady>>
vars == <<running, nodeVars, selectVars, request, screenVars>>

\* "level" stands for the digits of a level, "noLevel" for the other digits,
\* "other" for the keys that are not supported and for no key.
Digits == {"level", "noLevel"}
Keys   == {"up", "down", "l", "q", "other"} \cup Digits
SupportedKeys == Keys \ {"q", "other"}

Texts == {"enterLevel", "levelNotSupported", "cannotLookUp", "serviceNotAvailable"}

Names == Nodes \cup {None}
Bit   == {0, 1}

TypeOK ==
  /\ running \in BOOLEAN
  /\ records \in Seq(Nodes)
  /\ \A i, j \in 1..Len(records) : records[i] = records[j] => i = j
  /\ recordSelected \in -1..Len(records) /\ (records # <<>> => recordSelected < Len(records))
  /\ previousKey \in SupportedKeys \cup {"none"}
  /\ {selected, passedOn, nodeToMonitor, marked, drawn} \subseteq Names
  /\ diagnosed \subseteq Nodes
  /\ request \in [node : Names, bit : Bit]
  /\ message \in Texts \cup {"none"}
  /\ messageAge \in 0..ShowTicks + 1
  /\ updated \in BOOLEAN
  /\ steady \in 0..2

Init ==
  /\ running = TRUE
  /\ records = <<>> /\ diagnosed = {}
  /\ recordSelected = 0
  /\ previousKey = "none"
  /\ selected = None /\ passedOn = None /\ nodeToMonitor = None
  /\ marked = None /\ drawn = None
  /\ request = [node |-> None, bit |-> 0]
  /\ message = "none" /\ messageAge = 0
  /\ updated = FALSE /\ steady = 0

-----------------------------------------------------------------------------
(* Messages of the nodes, between two ticks.                               *)

\* Mutant: the records are shown by name.
InsertByName(n) ==
  LET before == SelectSeq(records, LAMBDA m : m < n)
      after  == SelectSeq(records, LAMBDA m : m > n)
  IN before \o <<n>> \o after

\* insertNode: the id of a new record is the number of those there are.
Insert(n) == Append(records, n)

NewNode(n) ==
  /\ running
  /\ \A i \in 1..Len(records) : records[i] # n
  /\ records' = Insert(n)
  /\ UNCHANGED <<running, diagnosed, selectVars, request, screenVars>>

NewDiagnostic(n) ==
  /\ running
  /\ n \notin diagnosed
  /\ diagnosed' = diagnosed \cup {n}
  /\ UNCHANGED <<running, records, selectVars, request, screenVars>>

-----------------------------------------------------------------------------
(* newKeyEvent of the node info window.                                    *)

\* Mutant: the selection may move past the last record.
IncrementedTooFar ==
  IF recordSelected + 1 >= Len(records) + 1 THEN Len(records) ELSE recordSelected + 1

\* incrementSelectedRecord: -1 when there is no record.
Incremented ==
  IF recordSelected + 1 >= Len(records) - 1 THEN Len(records) - 1 ELSE recordSelected + 1

\* Mutant: the lower end is not checked.
DecrementedTooFar == IF recordSelected - 1 < -1 THEN -1 ELSE recordSelected - 1

Decremented == IF recordSelected - 1 < 0 THEN 0 ELSE recordSelected - 1

MoveSelection(k) ==
  \/ k = "up" /\ recordSelected' = Decremented
  \/ k = "down" /\ recordSelected' = Incremented
  \/ k \notin {"up", "down"} /\ UNCHANGED recordSelected

\* A digit when there is no record returns early: the key is not remembered.
IgnoredKey(k) == k \notin SupportedKeys \/ (k \in Digits /\ records = <<>>)

RememberKey(k) == previousKey' = IF IgnoredKey(k) THEN previousKey ELSE k

\* "l" and then a level: the request goes to the selected node's service, even
\* when the node is not known or its service not available.
AsksForLevel(k) == k = "level" /\ ~IgnoredKey(k) /\ previousKey = "l"

SendRequest(k) ==
  request' = IF AsksForLevel(k) THEN [node |-> selected, bit |-> 1 - request.bit] ELSE request

\* The text for a key, given whether the service is available.
KeyText(k, available) ==
  IF k = "l" THEN "enterLevel"
  ELSE IF k = "noLevel" /\ ~IgnoredKey(k) /\ previousKey = "l" THEN "levelNotSupported"
  ELSE IF AsksForLevel(k) /\ ~available THEN "serviceNotAvailable"
  ELSE IF AsksForLevel(k) /\ selected = None THEN "cannotLookUp"
  ELSE "none"

-----------------------------------------------------------------------------
(* The rest of run10Hz.                                                    *)

\* Mutant: the node keeps the selection that it learns with a key.
PassOnWithKey(k) ==
  /\ nodeToMonitor' = passedOn
  /\ passedOn' = IF k \in SupportedKeys THEN selected ELSE passedOn

\* The diagnostic window comes first and gets what was passed on last time.
PassOn(k) ==
  /\ nodeToMonitor' = passedOn
  /\ passedOn' = selected

\* updateWindow of the node info window marks the selected record, if any.
DrawNodes ==
  IF recordSelected' \in 0..(Len(records) - 1)
    THEN selected' = records[recordSelected' + 1] /\ marked' = selected'
    ELSE UNCHANGED selected /\ marked' = None

\* updateWindow of the diagnostic window leaves the window as it is when the
\* node has no diagnostics.
DrawDiagnostics == drawn' = IF nodeToMonitor' \in diagnosed THEN nodeToMonitor' ELSE drawn

\* The message window: a new text starts its time, and an old one is cleared.
\* Its first update() subtracts a time that was never set; a tick may be late.
DrawMessage(text) ==
  \E elapsed \in IF updated THEN 1..2 ELSE 0..ShowTicks + 1 :
    LET age == (IF text = "none" THEN messageAge ELSE 0) + elapsed
        shown == IF text = "none" THEN message ELSE text
    IN /\ messageAge' = IF age > ShowTicks THEN ShowTicks + 1 ELSE age
       /\ message' = IF age > ShowTicks THEN "none" ELSE shown

Tick(k) ==
  /\ running
  /\ running' = (k # "q")
  /\ MoveSelection(k) /\ RememberKey(k) /\ SendRequest(k)
  /\ PassOn(k)
  /\ DrawDiagnostics /\ DrawNodes
  /\ \E available \in BOOLEAN : DrawMessage(KeyText(k, available))
  /\ updated' = TRUE
  /\ steady' = IF marked' # marked THEN 0 ELSE IF steady = 2 THEN 2 ELSE steady + 1
  /\ UNCHANGED nodeVars

Stopped == ~running /\ UNCHANGED vars

Next ==
  \/ \E n \in Nodes : NewNode(n) \/ NewDiagnostic(n)
  \/ \E k \in Keys : Tick(k)
  \/ Stopped

Spec == Init /\ [][Next]_vars

-----------------------------------------------------------------------------
(* Properties.                                                             *)

\* A request to change a log level goes to the node that the screen marked
\* when the key was pressed: to no other when records were added since, and
\* to none when none was marked.
RequestsGoToMarked == [][request' # request => request'.node = marked]_vars

\* Only a key moves the marker from one node to another: the messages of new
\* nodes, which add records, never do.
MarkerMovesByKey ==
  [][marked # None /\ marked' # marked => Tick("up") \/ Tick("down")]_vars

\* The diagnostic window is at most two ticks behind the marker: when that
\* has rested for two ticks, the window shows the marked node's diagnostics,
\* if there are any.
DiagnosticsFollow ==
  [][ (\E k \in Keys : Tick(k)) /\ steady' = 2 /\ marked' \in diagnosed
        => drawn' = marked' ]_vars

===============================================================================
