----------------------------- MODULE MonitorScreen -----------------------------
(***************************************************************************)
(* The screen of the system monitor (Tools/Applications/SystemMonitor):    *)
(* where its six windows lie on a terminal of a given size, and the row    *)
(* that the node info window prints of a node.  Curses itself is left out: *)
(* a text is its length, a window the rectangle it takes.                  *)
(***************************************************************************)
EXTENDS Integers, FiniteSets

CONSTANTS
  Widths, Heights,  \* the sizes of the terminals, in cells
  Ids,              \* the numbers insertNode may give to a node
  NameLengths,      \* the lengths of the nodes' names
  Silences          \* the seconds since a node was heard of

ASSUME ScreenAssumption ==
  Widths \cup Heights \cup Ids \cup NameLengths \cup Silences \subseteq Nat

Rectangle(x, y, width, height) == [x |-> x, y |-> y, width |-> width, height |-> height]

\* The share of the terminal each window takes, in tenths of a percent.
HeaderWindow     == Rectangle(  0,   0, 1000, 150)
NodeInfoWindow   == Rectangle(  0, 150,  660, 550)
DiagnosticWindow == Rectangle(660, 150,  345, 550)
MessageWindow    == Rectangle(  0, 680, 1000,  70)
StatusWindow     == Rectangle(  0, 750,  300, 250)
MenuWindow       == Rectangle(300, 750,  250, 250)

\* convertCoordinate: the cast to uint16_t drops the fraction of a cell.
Pixels(share, terminal) ==
  LET Part(size, tenths) == (size * tenths) \div 1000
  IN Rectangle(Part(terminal.width, share.x), Part(terminal.height, share.y),
               Part(terminal.width, share.width), Part(terminal.height, share.height))

OtherWindows ==
  {HeaderWindow, DiagnosticWindow, MessageWindow, StatusWindow, MenuWindow}

Apart(a, b) == \/ a.x + a.width <= b.x \/ b.x + b.width <= a.x
               \/ a.y + a.height <= b.y \/ b.y + b.height <= a.y

Inside(a, b) == /\ b.x <= a.x /\ a.x + a.width <= b.x + b.width
                /\ b.y <= a.y /\ a.y + a.height <= b.y + b.height

\* The window without the box around it.
Interior(window) ==
  Rectangle(window.x + 1, window.y + 1, window.width - 2, window.height - 2)

-----------------------------------------------------------------------------
(* The row of a node.                                                      *)

\* m_nodeWindowFields
Columns == {"MARKER", "ID", "NODENAME", "STATUS", "READY_TO_ARM", "RX"}

Width ==
  [MARKER |-> 3, ID |-> 4, NODENAME |-> 70, STATUS |-> 14, READY_TO_ARM |-> 15, RX |-> 6]

\* Where the columns start, in the order of the enumeration.
Start ==
  LET id     == Width["MARKER"]
      name   == id + Width["ID"]
      status == name + Width["NODENAME"]
      armed  == status + Width["STATUS"]
      rx     == armed + Width["READY_TO_ARM"]
  IN [MARKER |-> 0, ID |-> id, NODENAME |-> name, STATUS |-> status,
      READY_TO_ARM |-> armed, RX |-> rx]

\* CoreUtility::pretty
StatusText ==
  [UNKNOWN  |-> 7, INITIALIZING |-> 12, STARTING |-> 8, RUNNING |-> 7, PAUSED |-> 6,
   RESTART |-> 7, FINISHED |-> 8]

ReadyText == [UNKNOWN |-> 7, TRUE |-> 4, FALSE |-> 5, INVALID |-> 7]

IdText(id) == 1 + Cardinality({power \in {10, 100, 1000, 10000} : id >= power})

\* Mutant: a long name is not cut.
NameTextUncut(length) == length

\* A name that is too long is cut and ends in "... ".
NameText(length) == IF length > Width["NODENAME"] THEN Width["NODENAME"] ELSE length

\* Two decimals of at most 99.99: a node's first message leaves its time
\* stamp at 0, and its silence is all of the time since 1970.
RxText(seconds) == IF seconds < 10 THEN 4 ELSE 5

\* getNodeInfo, before the cells are filled up with spaces.
Row(state, readiness, id, length, seconds) ==
  [MARKER |-> Width["MARKER"], ID |-> IdText(id), NODENAME |-> NameText(length),
   STATUS |-> StatusText[state], READY_TO_ARM |-> ReadyText[readiness], RX |-> RxText(seconds)]

\* width - size() is unsigned: a text longer than its field asks for a string
\* of 2^64 spaces, and the exception ends the monitor.
Filled(row) == \A column \in Columns : row[column] <= Width[column]

\* updateWindow: the row of node id, from the second cell of line 3 + id on.
Cell(row, column, id, terminal) ==
  LET window == Pixels(NodeInfoWindow, terminal)
  IN Rectangle(window.x + 2 + Start[column], window.y + 3 + id, row[column], 1)

\* Lines below the window are not printed; its last one is that of the box.
HasLine(id, terminal) == 3 + id <= Pixels(NodeInfoWindow, terminal).height - 2

\* Wholly within the window, and where no other window covers it.
Readable(cell, terminal) ==
  /\ Inside(cell, Interior(Pixels(NodeInfoWindow, terminal)))
  /\ \A window \in OtherWindows : Apart(cell, Pixels(window, terminal))

\* The row of node id is made, has a line, and each of its cells can be read.
Shown(row, id, terminal) ==
  /\ Filled(row)
  /\ HasLine(id, terminal)
  /\ \A column \in Columns : Readable(Cell(row, column, id, terminal), terminal)

\* What a terminal has room for: the row's columns between the sides of the box,
\* its line above that of the box and above the message window, which covers the
\* last lines of a high terminal, and a number of no more than four digits.
HasRoom(row, id, terminal) ==
  LET Part(size, tenths) == (size * tenths) \div 1000
  IN /\ Start["RX"] + row["RX"] + 3 <= Part(terminal.width, 660)
     /\ id < Part(terminal.height, 550) - 4
     /\ id < Part(terminal.height, 680) - Part(terminal.height, 150) - 3
     /\ id < 10000

\* The pairs of a state and a ready-to-arm status whose row is shown if and only
\* if the terminal has room for it, whatever the node's name and its silence.
ReadableRows ==
  {shown \in {<<state, readiness>> : state \in DOMAIN StatusText, readiness \in DOMAIN ReadyText} :
     \A id \in Ids, length \in NameLengths, seconds \in Silences :
       LET row == Row(shown[1], shown[2], id, length, seconds)
       IN \A terminal \in [width : Widths, height : Heights] :
            Shown(row, id, terminal) <=> HasRoom(row, id, terminal)}

===============================================================================
